--------------------------- MODULE ProcessProofs ---------------------------
(***************************************************************************)
(* load_process and free_process keep the task list, the heap and the page *)
(* directories in order, for every set of files, every number of loads the *)
(* heap has room for and every order of calls and failures.                *)
(***************************************************************************)
EXTENDS Process, Numbers

----------------------------------------------------------------------------
(* The task list.                                                          *)

Tasks == Addrs \ {null}

ListType == [head : Addrs, tail : Addrs, current : {null},
             next : [Addrs -> Addrs], prev : [Addrs -> Addrs]]

Distinct(q) == \A i, j \in 1 .. Len(q) : q[i] = q[j] => i = j

\* Along link the tasks of q follow each other.
Chained(first, link, q) ==
  /\ first = IF Len(q) = 0 THEN null ELSE q[1]
  /\ \A i \in 1 .. Len(q) : link[q[i]] = IF i = Len(q) THEN null ELSE q[i + 1]

\* list holds the tasks of q, in that order and in both directions.
Holds(lst, q) ==
  /\ lst \in ListType
  /\ q \in Seq(Tasks)
  /\ Distinct(q)
  /\ Chained(lst.head, lst.next, q)
  /\ lst.tail = IF Len(q) = 0 THEN null ELSE q[Len(q)]
  /\ \A i \in 1 .. Len(q) : lst.prev[q[i]] = IF i = 1 THEN null ELSE q[i - 1]

(* Following the pointers of a chain gives its tasks.                      *)
LEMMA WalkOfChain ==
  ASSUME NEW q \in Seq(Tasks), NEW first, NEW link, Chained(first, link, q),
         NEW max \in Nat, Len(q) < max
  PROVE  Walk(first, link, max) = q
<1> DEFINE body(f) == [i \in 1 .. max |->
                         IF i = 1 THEN first
                         ELSE IF f[i - 1] = null THEN null ELSE link[f[i - 1]]]
           w  == [i \in 1 .. max |-> IF i <= Len(q) THEN q[i] ELSE null]
           at == CHOOSE f : f = body(f)
           Ends(n) == (\A i \in 1 .. n : at[i] # null) /\ (n < max => at[n + 1] = null)
<1>1. Len(q) \in Nat /\ \A i \in 1 .. Len(q) : q[i] \in Tasks /\ q[i] # null
  BY DEF Tasks
<1>2. ASSUME NEW i \in 1 .. max
      PROVE  w[i] = IF i = 1 THEN first
                    ELSE IF w[i - 1] = null THEN null ELSE link[w[i - 1]]
  <2>1. CASE i = 1
    BY <1>1, <2>1 DEF Chained
  <2>2. CASE i # 1
    <3>1. i - 1 \in 1 .. max /\ (i - 1) + 1 = i
      BY <2>2
    <3>2. CASE i - 1 <= Len(q)
      <4>1. i - 1 \in 1 .. Len(q)
        BY <1>1, <3>1, <3>2
      <4>2. w[i - 1] = q[i - 1] /\ w[i - 1] # null
        BY <1>1, <3>1, <3>2, <4>1
      <4>3. link[q[i - 1]] = IF i - 1 = Len(q) THEN null ELSE q[i]
        BY <3>1, <4>1 DEF Chained
      <4>4. w[i] = IF i - 1 = Len(q) THEN null ELSE q[i]
        BY <1>1, <3>1, <3>2
      <4> HIDE DEF w
      <4>5. QED
        BY <2>2, <4>2, <4>3, <4>4
    <3>3. CASE ~(i - 1 <= Len(q))
      <4>1. w[i - 1] = null /\ w[i] = null
        BY <1>1, <3>1, <3>3
      <4> HIDE DEF w
      <4>2. QED
        BY <2>2, <4>1
    <3>4. QED
      BY <3>2, <3>3
  <2>3. QED
    BY <2>1, <2>2
<1>3. w = body(w)
  BY <1>2
<1>4. at = body(at)
  <2> HIDE DEF w, body
  <2>1. QED
    BY <1>3
<1> HIDE DEF at
<1>5. \A i \in 1 .. max : at[i] = w[i]
  <2> DEFINE A == {n \in Nat : n + 1 \in 1 .. max => at[n + 1] = w[n + 1]}
  <2>1. ASSUME NEW i \in 1 .. max
        PROVE  at[i] = IF i = 1 THEN first
                       ELSE IF at[i - 1] = null THEN null ELSE link[at[i - 1]]
    BY <1>4
  <2> HIDE DEF w, body
  <2>2. 0 \in A
    BY <1>2, <2>1
  <2>3. ASSUME NEW n \in A PROVE n + 1 \in A
    <3>1. n \in Nat /\ n + 1 \in Nat /\ ((n + 1) + 1) - 1 = n + 1 /\ (n + 1) + 1 # 1
      BY <2>3
    <3>2. CASE (n + 1) + 1 \in 1 .. max
      <4>1. n + 1 \in 1 .. max
        BY <3>1, <3>2
      <4>2. at[n + 1] = w[n + 1]
        BY <2>3, <4>1
      <4>3. at[(n + 1) + 1] = w[(n + 1) + 1]
        BY <1>2, <2>1, <3>1, <3>2, <4>2
      <4>4. QED
        BY <3>1, <4>3
    <3>3. QED
      BY <3>1, <3>2
  <2>4. A \in SUBSET Nat
    OBVIOUS
  <2>5. A = Nat
    <3> HIDE DEF A
    <3>1. QED
      BY <2>2, <2>3, <2>4, SetInduction
  <2>6. ASSUME NEW i \in 1 .. max PROVE at[i] = w[i]
    <3>1. i - 1 \in Nat /\ (i - 1) + 1 = i
      OBVIOUS
    <3>2. i - 1 \in A
      <4> HIDE DEF A
      <4>1. QED
        BY <2>5, <3>1
    <3>3. QED
      BY <3>1, <3>2
  <2>7. QED
    BY <2>6
<1>6. /\ \A i \in 1 .. Len(q) : at[i] = q[i]
      /\ at[Len(q) + 1] = null
  BY <1>1, <1>5
<1>7. (CHOOSE n \in 0 .. max : Ends(n)) = Len(q)
  <2>1. Len(q) \in 0 .. max /\ Ends(Len(q))
    BY <1>1, <1>6
  <2>2. ASSUME NEW n \in 0 .. max, Ends(n) PROVE n = Len(q)
    <3>1. ~(n > Len(q))
      BY <1>1, <1>6, <2>2
    <3>2. ~(n < Len(q))
      <4>1. SUFFICES ASSUME n < Len(q) PROVE FALSE
        OBVIOUS
      <4>2. n + 1 \in 1 .. Len(q) /\ n < max
        BY <1>1, <4>1
      <4>3. at[n + 1] # null
        BY <1>1, <1>6, <4>2
      <4>4. QED
        BY <2>2, <4>2, <4>3
    <3>3. QED
      BY <1>1, <3>1, <3>2
  <2> HIDE DEF Ends
  <2>3. QED
    BY <2>1, <2>2
<1>8. Walk(first, link, max) = [i \in 1 .. (CHOOSE n \in 0 .. max : Ends(n)) |-> at[i]]
  BY DEF Walk, at
<1>9. Walk(first, link, max) = [i \in 1 .. Len(q) |-> q[i]]
  BY <1>6, <1>7, <1>8
<1>10. QED
  BY <1>9

(* From the other end, prev chains the tasks in the opposite order.        *)
LEMMA ChainedBack ==
  ASSUME NEW lst, NEW q, Holds(lst, q)
  PROVE  /\ Reverse(q) \in Seq(Tasks)
         /\ Len(Reverse(q)) = Len(q)
         /\ Chained(lst.tail, lst.prev, Reverse(q))
<1> DEFINE n == Len(q)
           r == [i \in 1 .. n |-> q[(n - i) + 1]]
<1>1. Reverse(q) = r
  BY DEF Reverse
<1>2. q \in Seq(Tasks) /\ n \in Nat /\ \A i \in 1 .. n : q[i] \in Tasks
  BY DEF Holds
<1>3. \A i \in 1 .. n : (n - i) + 1 \in 1 .. n
  BY <1>2
<1>4. \A i \in 1 .. n : r[i] = q[(n - i) + 1] /\ r[i] \in Tasks
  BY <1>2, <1>3
<1>5. r \in Seq(Tasks) /\ Len(r) = n
  BY <1>2, <1>4
<1>6. ASSUME NEW i \in 1 .. n
      PROVE  lst.prev[r[i]] = IF i = n THEN null ELSE r[i + 1]
  <2>1. lst.prev[q[(n - i) + 1]] = IF (n - i) + 1 = 1 THEN null ELSE q[((n - i) + 1) - 1]
    BY <1>3 DEF Holds
  <2>2. ((n - i) + 1 = 1) <=> i = n
    BY <1>2
  <2>3. i # n => i + 1 \in 1 .. n /\ ((n - i) + 1) - 1 = (n - (i + 1)) + 1
    BY <1>2
  <2>4. i # n => r[i + 1] = q[((n - i) + 1) - 1]
    BY <1>4, <2>3
  <2> HIDE DEF r
  <2>5. QED
    BY <1>4, <2>1, <2>2, <2>4
<1>7. n # 0 => r[1] = q[n]
  BY <1>2
<1>8. lst.tail = IF n = 0 THEN null ELSE q[n]
  BY DEF Holds
<1> HIDE DEF r
<1>9. Chained(lst.tail, lst.prev, r)
  BY <1>5, <1>6, <1>7, <1>8 DEF Chained
<1>10. QED
  BY <1>1, <1>5, <1>9

(* The walks over a list that is in order give its tasks both ways.        *)
LEMMA WalksOfList ==
  ASSUME NEW lst, NEW q, Holds(lst, q), NEW max \in Nat, Len(q) < max
  PROVE  /\ Walk(lst.head, lst.next, max) = q
         /\ Walk(lst.tail, lst.prev, max) = Reverse(q)
<1>1. q \in Seq(Tasks) /\ Chained(lst.head, lst.next, q)
  BY DEF Holds
<1>2. Walk(lst.head, lst.next, max) = q
  BY <1>1, WalkOfChain
<1>3. Walk(lst.tail, lst.prev, max) = Reverse(q)
  BY ChainedBack, WalkOfChain
<1>4. QED
  BY <1>2, <1>3

(* new_task appends.                                                       *)
LEMMA LinkTask ==
  ASSUME NEW lst, NEW q, Holds(lst, q), NEW t \in Tasks, \A i \in 1 .. Len(q) : q[i] # t
  PROVE  Holds(link_task(lst, t), Append(q, t))
<1> DEFINE n == Len(q)
           r == Append(q, t)
           new == link_task(lst, t)
<1> SUFFICES Holds(new, r)
  OBVIOUS
<1>1. /\ lst \in ListType /\ q \in Seq(Tasks) /\ n \in Nat
      /\ \A i \in 1 .. n : q[i] \in Tasks
      /\ t \in Addrs /\ t # null /\ null \in Addrs
  BY ConfigAssumption DEF Holds, Tasks, Addrs, null
<1>2. /\ r \in Seq(Tasks) /\ Len(r) = n + 1 /\ r[n + 1] = t
      /\ \A i \in 1 .. n : r[i] = q[i]
  BY <1>1
<1>3. Distinct(r)
  <2>1. ASSUME NEW i \in 1 .. (n + 1), NEW j \in 1 .. (n + 1), r[i] = r[j] PROVE i = j
    <3>1. CASE i \in 1 .. n /\ j \in 1 .. n
      BY <1>2, <2>1, <3>1 DEF Holds, Distinct
    <3>2. CASE i = n + 1 \/ j = n + 1
      <4>1. CASE i = n + 1 /\ j # n + 1
        <5>1. j \in 1 .. n
          BY <1>1, <4>1
        <5>2. QED
          BY <1>2, <2>1, <4>1, <5>1
      <4>2. CASE j = n + 1 /\ i # n + 1
        <5>1. i \in 1 .. n
          BY <1>1, <4>2
        <5>2. QED
          BY <1>2, <2>1, <4>2, <5>1
      <4>3. QED
        BY <3>2, <4>1, <4>2
    <3>3. QED
      BY <1>1, <3>1, <3>2
  <2>2. QED
    BY <1>2, <2>1 DEF Distinct
<1> HIDE DEF r
<1>4. CASE n = 0
  <2>1. lst.head = null
    BY <1>4 DEF Holds, Chained
  <2>2. new = [head |-> t, tail |-> t, current |-> lst.current,
               next |-> [lst.next EXCEPT ![t] = null],
               prev |-> [lst.prev EXCEPT ![t] = null]]
    BY <1>1, <2>1 DEF link_task, ListType
  <2>3. new \in ListType /\ new.next[t] = null /\ new.prev[t] = null
    BY <1>1, <2>2 DEF ListType
  <2>4. new.head = t /\ new.tail = t
    BY <2>2
  <2>5. r[1] = t /\ Len(r) = 1
    BY <1>2, <1>4
  <2> HIDE DEF new
  <2>6. QED
    BY <1>2, <1>3, <2>3, <2>4, <2>5 DEF Holds, Chained
<1>5. CASE n # 0
  <2>1. lst.head # null /\ lst.tail = q[n] /\ n \in 1 .. n
    BY <1>1, <1>5 DEF Holds, Chained, Tasks
  <2>2. new = [head |-> lst.head, tail |-> t, current |-> lst.current,
               next |-> [[lst.next EXCEPT ![q[n]] = t] EXCEPT ![t] = null],
               prev |-> [lst.prev EXCEPT ![t] = q[n]]]
    BY <1>1, <2>1 DEF link_task, ListType
  <2>3. q[n] \in Addrs /\ q[n] # t
    BY <1>1, <2>1 DEF Tasks
  <2>4. /\ new \in ListType /\ new.head = lst.head /\ new.tail = t
        /\ \A a \in Addrs : new.next[a] = IF a = t THEN null ELSE IF a = q[n] THEN t ELSE lst.next[a]
        /\ \A a \in Addrs : new.prev[a] = IF a = t THEN q[n] ELSE lst.prev[a]
    BY <1>1, <2>2, <2>3 DEF ListType
  <2> HIDE DEF new
  <2>5. ASSUME NEW i \in 1 .. (n + 1)
        PROVE  new.next[r[i]] = IF i = n + 1 THEN null ELSE r[i + 1]
    <3>1. CASE i = n + 1
      BY <1>1, <1>2, <2>4, <3>1
    <3>2. CASE i = n
      BY <1>1, <1>2, <2>1, <2>3, <2>4, <3>2
    <3>3. CASE i < n
      <4>1. i \in 1 .. n /\ i + 1 \in 1 .. n /\ i # n
        BY <1>1, <3>3
      <4>2. q[i] # q[n] /\ q[i] # t /\ q[i] \in Addrs
        BY <1>1, <2>1, <4>1 DEF Holds, Distinct, Tasks
      <4>3. lst.next[q[i]] = q[i + 1]
        BY <4>1 DEF Holds, Chained
      <4>4. QED
        BY <1>1, <1>2, <2>4, <4>1, <4>2, <4>3
    <3>4. QED
      BY <1>1, <3>1, <3>2, <3>3
  <2>6. ASSUME NEW i \in 1 .. (n + 1)
        PROVE  new.prev[r[i]] = IF i = 1 THEN null ELSE r[i - 1]
    <3>1. CASE i = n + 1
      BY <1>1, <1>2, <2>1, <2>4, <1>5, <3>1
    <3>2. CASE i # n + 1
      <4>1. i \in 1 .. n /\ (i # 1 => i - 1 \in 1 .. n)
        BY <1>1, <3>2
      <4>2. q[i] # t /\ q[i] \in Addrs
        BY <1>1, <4>1 DEF Tasks
      <4>3. lst.prev[q[i]] = IF i = 1 THEN null ELSE q[i - 1]
        BY <4>1 DEF Holds
      <4>4. QED
        BY <1>2, <2>4, <4>1, <4>2, <4>3
    <3>3. QED
      BY <3>1, <3>2
  <2>7. new.head = r[1]
    BY <1>2, <1>5, <2>1, <2>4 DEF Holds, Chained
  <2>8. QED
    BY <1>1, <1>2, <1>3, <2>4, <2>5, <2>6, <2>7 DEF Holds, Chained
<1>6. QED
  BY <1>4, <1>5

LEMMA Concatenated ==
  ASSUME NEW S, NEW a \in Seq(S), NEW b \in Seq(S)
  PROVE  a \o b \in Seq(S) /\ Len(a \o b) = Len(a) + Len(b)
OBVIOUS

(* What is left of a sequence after one element is taken out.              *)
LEMMA RemovedAt ==
  ASSUME NEW S, NEW q \in Seq(S), NEW k \in 1 .. Len(q)
  PROVE  /\ RemoveAt(q, k) \in Seq(S)
         /\ Len(RemoveAt(q, k)) = Len(q) - 1
         /\ \A i \in 1 .. (Len(q) - 1) :
              RemoveAt(q, k)[i] = IF i < k THEN q[i] ELSE q[i + 1]
<1> DEFINE n == Len(q)
           a == SubSeq(q, 1, k - 1)
           b == SubSeq(q, k + 1, n)
<1>1. n \in Nat /\ k \in Nat /\ 1 <= k /\ k <= n
  OBVIOUS
<1>2. a \in Seq(S) /\ Len(a) = k - 1 /\ \A i \in 1 .. (k - 1) : a[i] = q[i]
  BY <1>1
<1>3. b \in Seq(S) /\ Len(b) = n - k /\ \A i \in 1 .. (n - k) : b[i] = q[k + i]
  BY <1>1
<1> HIDE DEF a, b
<1>4. a \o b \in Seq(S) /\ Len(a \o b) = n - 1
  <2>1. a \o b \in Seq(S) /\ Len(a \o b) = Len(a) + Len(b)
    BY <1>2, <1>3, Concatenated
  <2>2. (k - 1) + (n - k) = n - 1
    BY <1>1
  <2>3. QED
    BY <1>2, <1>3, <2>1, <2>2
<1>5. ASSUME NEW i \in 1 .. (n - 1)
      PROVE  (a \o b)[i] = IF i < k THEN q[i] ELSE q[i + 1]
  <2>1. CASE i < k
    <3>1. i \in 1 .. Len(a)
      BY <1>1, <1>2, <2>1
    <3>2. (a \o b)[i] = a[i]
      BY <1>2, <1>3, <3>1
    <3>3. QED
      BY <1>2, <2>1, <3>1, <3>2
  <2>2. CASE ~(i < k)
    <3>1. i - (k - 1) \in 1 .. (n - k) /\ k + (i - (k - 1)) = i + 1
      BY <1>1, <2>2
    <3>2. (a \o b)[i] = b[i - (k - 1)]
      BY <1>1, <1>2, <1>3, <2>2, <3>1
    <3>3. QED
      BY <1>3, <2>2, <3>1, <3>2
  <2>3. QED
    BY <2>1, <2>2
<1>6. RemoveAt(q, k) = a \o b
  BY DEF RemoveAt, a, b
<1>7. QED
  BY <1>4, <1>5, <1>6

(* free_task takes one task out and joins its neighbours.                  *)
LEMMA RemoveTask ==
  ASSUME NEW lst, NEW q, Holds(lst, q), NEW k \in 1 .. Len(q)
  PROVE  Holds(remove_task(lst, q[k]), RemoveAt(q, k))
<1> DEFINE n == Len(q)
           t == q[k]
           r == RemoveAt(q, k)
           before == IF k = 1 THEN null ELSE q[k - 1]
           after  == IF k = n THEN null ELSE q[k + 1]
           new == remove_task(lst, t)
<1> SUFFICES Holds(new, r)
  OBVIOUS
<1>1. /\ lst \in ListType /\ q \in Seq(Tasks) /\ n \in Nat /\ n >= 1
      /\ \A i \in 1 .. n : q[i] \in Tasks /\ q[i] \in Addrs /\ q[i] # null
      /\ null \in Addrs
  BY ConfigAssumption DEF Holds, Tasks, Addrs, null
<1>2. /\ r \in Seq(Tasks) /\ Len(r) = n - 1
      /\ \A i \in 1 .. (n - 1) : r[i] = IF i < k THEN q[i] ELSE q[i + 1]
  BY <1>1, RemovedAt
<1>3. lst.prev[t] = before /\ lst.next[t] = after
  BY DEF Holds, Chained
<1>4. before \in Addrs /\ after \in Addrs /\ t \in Addrs /\ t # null /\ t # lst.current
  BY <1>1 DEF ListType
<1> HIDE DEF r
<1>5. Distinct(r)
  <2>1. ASSUME NEW i \in 1 .. (n - 1), NEW j \in 1 .. (n - 1), r[i] = r[j] PROVE i = j
    <3> DEFINE x == IF i < k THEN i ELSE i + 1
               y == IF j < k THEN j ELSE j + 1
    <3>1. x \in 1 .. n /\ y \in 1 .. n /\ (x = y => i = j)
      BY <1>1
    <3>2. r[i] = q[x] /\ r[j] = q[y]
      BY <1>2
    <3> HIDE DEF x, y
    <3>3. QED
      BY <2>1, <3>1, <3>2 DEF Holds, Distinct
  <2>2. QED
    BY <1>2, <2>1 DEF Distinct
<1>6. new = [head |-> IF t = lst.head THEN after ELSE lst.head,
             tail |-> IF t = lst.tail THEN before ELSE lst.tail,
             current |-> lst.current,
             next |-> [[a \in Addrs |-> IF a = before /\ a # null THEN after ELSE lst.next[a]]
                         EXCEPT ![t] = null],
             prev |-> [[a \in Addrs |-> IF a = after /\ a # null THEN before ELSE lst.prev[a]]
                         EXCEPT ![t] = null]]
  <2> HIDE DEF before, after, t
  <2> DEFINE N == [a \in DOMAIN lst.next |->
                     IF a = before /\ a # null THEN after ELSE lst.next[a]]
             P == [a \in DOMAIN lst.prev |->
                     IF a = after /\ a # null THEN before ELSE lst.prev[a]]
             H == IF t = lst.head THEN after ELSE lst.head
             T == IF t = lst.tail THEN before ELSE lst.tail
             u == [head |-> H, tail |-> T, current |-> lst.current, next |-> N, prev |-> P]
  <2>1. new = [u EXCEPT !.current = IF t = lst.current THEN get_next_task(u) ELSE lst.current,
                        !.next[t] = null, !.prev[t] = null]
    BY <1>3 DEF remove_task
  <2>2. u = [head |-> H, tail |-> T, current |-> lst.current, next |-> N, prev |-> P]
    OBVIOUS
  <2> HIDE DEF u, new
  <2>3. new = [u EXCEPT !.current = lst.current, !.next[t] = null, !.prev[t] = null]
    BY <1>4, <2>1
  <2>4. DOMAIN lst.next = Addrs /\ DOMAIN lst.prev = Addrs
    BY <1>1 DEF ListType
  <2>5. QED
    BY <2>2, <2>3, <2>4
<1>7. /\ new \in ListType
      /\ new.head = IF t = lst.head THEN after ELSE lst.head
      /\ new.tail = IF t = lst.tail THEN before ELSE lst.tail
      /\ \A a \in Addrs : new.next[a] = IF a = t THEN null
                                        ELSE IF a = before /\ a # null THEN after
                                        ELSE lst.next[a]
      /\ \A a \in Addrs : new.prev[a] = IF a = t THEN null
                                        ELSE IF a = after /\ a # null THEN before
                                        ELSE lst.prev[a]
  <2> HIDE DEF before, after, t, new
  <2>1. lst.head \in Addrs /\ lst.tail \in Addrs /\ lst.current = null
        /\ lst.next \in [Addrs -> Addrs] /\ lst.prev \in [Addrs -> Addrs]
    BY <1>1 DEF ListType
  <2>2. QED
    BY <1>1, <1>4, <1>6, <2>1 DEF ListType
<1> HIDE DEF new
<1>8. \A i, j \in 1 .. n : q[i] = q[j] => i = j
  BY DEF Holds, Distinct
<1>9. ASSUME NEW i \in 1 .. (n - 1)
      PROVE  new.next[r[i]] = IF i = n - 1 THEN null ELSE r[i + 1]
  <2>1. CASE i < k - 1
    <3>1. /\ i \in 1 .. n /\ i + 1 \in 1 .. n /\ i # k /\ i # k - 1 /\ i # n - 1 /\ k # 1
          /\ k - 1 \in 1 .. n /\ i + 1 \in 1 .. (n - 1) /\ i < k /\ i + 1 < k /\ i # n
      BY <1>1, <2>1
    <3>2. q[i] # t /\ q[i] # before /\ q[i] \in Addrs
      BY <1>1, <1>8, <3>1
    <3>3. lst.next[q[i]] = q[i + 1]
      BY <3>1 DEF Holds, Chained
    <3>4. r[i] = q[i] /\ r[i + 1] = q[i + 1]
      BY <1>2, <3>1
    <3>5. QED
      BY <1>7, <3>1, <3>2, <3>3, <3>4
  <2>2. CASE i = k - 1
    <3>1. i \in 1 .. n /\ i # k /\ k # 1 /\ i < k
      BY <1>1, <2>2
    <3>2. q[i] # t /\ q[i] = before /\ q[i] # null /\ q[i] \in Addrs
      BY <1>1, <1>8, <2>2, <3>1
    <3>3. new.next[q[i]] = after
      BY <1>7, <3>2
    <3>4. (i = n - 1) <=> (k = n)
      BY <1>1, <2>2
    <3>5. k # n => i + 1 \in 1 .. (n - 1) /\ ~(i + 1 < k) /\ (i + 1) + 1 = k + 1
      BY <1>1, <2>2
    <3>6. k # n => r[i + 1] = q[k + 1]
      BY <1>2, <3>5
    <3>7. r[i] = q[i]
      BY <1>2, <3>1
    <3>8. QED
      BY <3>3, <3>4, <3>6, <3>7
  <2>3. CASE i > k - 1
    <3>1. /\ i + 1 \in 1 .. n /\ i + 1 # k /\ i + 1 # k - 1 /\ ~(i < k)
          /\ (k # 1 => k - 1 \in 1 .. n) /\ (i = n - 1 <=> i + 1 = n)
      BY <1>1, <2>3
    <3>2. q[i + 1] # t /\ q[i + 1] \in Addrs /\ q[i + 1] # null /\ (k # 1 => q[i + 1] # q[k - 1])
      BY <1>1, <1>8, <3>1
    <3>3. q[i + 1] # before
      BY <3>2
    <3>4. new.next[q[i + 1]] = lst.next[q[i + 1]]
      BY <1>7, <3>2, <3>3
    <3>5. lst.next[q[i + 1]] = IF i + 1 = n THEN null ELSE q[(i + 1) + 1]
      BY <3>1 DEF Holds, Chained
    <3>6. i # n - 1 => i + 1 \in 1 .. (n - 1) /\ ~(i + 1 < k)
      BY <1>1, <2>3
    <3>7. i # n - 1 => r[i + 1] = q[(i + 1) + 1]
      BY <1>2, <3>6
    <3>8. r[i] = q[i + 1]
      BY <1>2, <3>1
    <3>9. QED
      BY <3>1, <3>4, <3>5, <3>7, <3>8
  <2>4. QED
    BY <1>1, <2>1, <2>2, <2>3
<1>10. ASSUME NEW i \in 1 .. (n - 1)
       PROVE  new.prev[r[i]] = IF i = 1 THEN null ELSE r[i - 1]
  <2>1. CASE i < k
    <3>1. /\ i \in 1 .. n /\ i # k /\ (k # n => i # k + 1 /\ k + 1 \in 1 .. n)
          /\ (i # 1 => i - 1 \in 1 .. (n - 1) /\ i - 1 < k)
      BY <1>1, <2>1
    <3>2. q[i] # t /\ q[i] \in Addrs /\ q[i] # null /\ (k # n => q[i] # q[k + 1])
      BY <1>1, <1>8, <3>1
    <3>3. q[i] # after
      BY <3>2
    <3>4. new.prev[q[i]] = lst.prev[q[i]]
      BY <1>7, <3>2, <3>3
    <3>5. lst.prev[q[i]] = IF i = 1 THEN null ELSE q[i - 1]
      BY <3>1 DEF Holds
    <3>6. r[i] = q[i] /\ (i # 1 => r[i - 1] = q[i - 1])
      BY <1>2, <2>1, <3>1
    <3>7. QED
      BY <3>4, <3>5, <3>6
  <2>2. CASE i = k
    <3>1. k + 1 \in 1 .. n /\ k # n /\ k + 1 # k /\ ~(i < k)
          /\ (k # 1 => i - 1 \in 1 .. (n - 1) /\ i - 1 < k)
      BY <1>1, <2>2
    <3>2. q[k + 1] # t /\ q[k + 1] = after /\ q[k + 1] # null /\ q[k + 1] \in Addrs
      BY <1>1, <1>8, <3>1
    <3>3. new.prev[q[k + 1]] = before
      BY <1>7, <3>2
    <3>4. r[i] = q[k + 1] /\ (k # 1 => r[i - 1] = q[k - 1])
      BY <1>2, <2>2, <3>1
    <3>5. QED
      BY <2>2, <3>3, <3>4
  <2>3. CASE i > k
    <3>1. /\ i + 1 \in 1 .. n /\ i + 1 # k /\ i + 1 # k + 1 /\ ~(i < k) /\ i # 1 /\ i + 1 # 1
          /\ (k # n => k + 1 \in 1 .. n) /\ i - 1 \in 1 .. (n - 1) /\ ~(i - 1 < k)
          /\ (i - 1) + 1 = i /\ (i + 1) - 1 = i
      BY <1>1, <2>3
    <3>2. q[i + 1] # t /\ q[i + 1] \in Addrs /\ q[i + 1] # null /\ (k # n => q[i + 1] # q[k + 1])
      BY <1>1, <1>8, <3>1
    <3>3. q[i + 1] # after
      BY <3>2
    <3>4. new.prev[q[i + 1]] = lst.prev[q[i + 1]]
      BY <1>7, <3>2, <3>3
    <3>5. lst.prev[q[i + 1]] = q[i]
      BY <3>1 DEF Holds
    <3>6. r[i] = q[i + 1] /\ r[i - 1] = q[i]
      BY <1>2, <3>1
    <3>7. QED
      BY <3>1, <3>4, <3>5, <3>6
  <2>4. QED
    BY <1>1, <2>1, <2>2, <2>3
<1>11. new.head = IF n - 1 = 0 THEN null ELSE r[1]
  <2>1. lst.head = q[1] /\ 1 \in 1 .. n
    BY <1>1 DEF Holds, Chained
  <2>2. (t = lst.head) <=> (k = 1)
    BY <1>8, <2>1
  <2>3. n - 1 # 0 => r[1] = IF 1 < k THEN q[1] ELSE q[1 + 1]
    BY <1>1, <1>2
  <2>4. CASE k = 1
    BY <1>1, <1>7, <2>2, <2>3, <2>4
  <2>5. CASE k # 1
    <3>1. n - 1 # 0 /\ 1 < k
      BY <1>1, <2>5
    <3>2. QED
      BY <1>7, <2>1, <2>2, <2>3, <2>5, <3>1
  <2>6. QED
    BY <2>4, <2>5
<1>12. new.tail = IF n - 1 = 0 THEN null ELSE r[n - 1]
  <2>1. lst.tail = q[n] /\ n \in 1 .. n
    BY <1>1 DEF Holds
  <2>2. (t = lst.tail) <=> (k = n)
    BY <1>8, <2>1
  <2>3. n - 1 # 0 => r[n - 1] = IF n - 1 < k THEN q[n - 1] ELSE q[(n - 1) + 1]
    BY <1>1, <1>2
  <2>4. CASE k = n
    BY <1>1, <1>7, <2>2, <2>3, <2>4
  <2>5. CASE k # n
    <3>1. n - 1 # 0 /\ (n - 1 < k => FALSE) /\ (n - 1) + 1 = n
      BY <1>1, <2>5
    <3>2. QED
      BY <1>7, <2>1, <2>2, <2>3, <2>5, <3>1
  <2>6. QED
    BY <2>4, <2>5
<1>13. QED
  BY <1>1, <1>2, <1>5, <1>7, <1>9, <1>10, <1>11, <1>12 DEF Holds, Chained

----------------------------------------------------------------------------
(* The heap.                                                               *)

AllocatedIn(h) == {block_idx_2_block_address(r.first) : r \in h}

\* All runs of h end at or below block top.
Below(h, top) ==
  /\ h \subseteq [first : Nat, len : Nat \ {0}]
  /\ \A r \in h : r.first + r.len <= top

\* new is what an allocation makes of h: one address is in use that was not.
Grown(h, new, top) ==
  /\ Below(new.heap, top)
  /\ new.addr \in Tasks
  /\ new.addr \notin AllocatedIn(h)
  /\ AllocatedIn(new.heap) = AllocatedIn(h) \cup {new.addr}

(* The blocks of the heap and their addresses.                             *)
LEMMA AddressOfBlock ==
  ASSUME NEW b \in Blocks
  PROVE  /\ block_idx_2_block_address(b) = HeapBlock + b
         /\ block_idx_2_block_address(b) \in Tasks
         /\ block_address_2_block_idx(block_idx_2_block_address(b)) = b
<1> USE ConfigAssumption
<1>1. b \in 0 .. (AddrBlocks - 1) /\ HeapBlock + b \in 0 .. (AddrBlocks - 1)
  BY DEF Blocks
<1>2. block_idx_2_block_address(b) = HeapBlock + b
  BY <1>1, ModSmall DEF block_idx_2_block_address
<1>3. HeapBlock + b - HeapBlock = b
  BY <1>1
<1>4. block_address_2_block_idx(HeapBlock + b) = b
  BY <1>1, <1>3, ModSmall DEF block_address_2_block_idx
<1>5. HeapBlock + b # null
  BY <1>1 DEF null
<1>6. QED
  BY <1>1, <1>2, <1>4, <1>5 DEF Tasks, Addrs

(* A request that does not wrap takes at least one block.                  *)
LEMMA RequestBlocks ==
  ASSUME NEW size \in Nat, size + BlockSize < SIZE_MOD
  PROVE  num_blocks(size) \in Nat \ {0}
<1> USE ConfigAssumption
<1> DEFINE q == size \div BlockSize
           r == size % BlockSize
<1>1. q \in Nat /\ r \in 0 .. (BlockSize - 1) /\ size = q * BlockSize + r
  OBVIOUS
<1>2. size + (BlockSize - r) = (q + 1) * BlockSize
  BY <1>1
<1>3. SIZE_MOD \in Nat \ {0}
  BY Positive DEF SIZE_MOD
<1>4. (q + 1) * BlockSize \in 0 .. (SIZE_MOD - 1)
  <2>1. size + (BlockSize - r) <= size + BlockSize /\ size + (BlockSize - r) \in Nat
    BY <1>1
  <2>2. QED
    BY <1>2, <1>3, <2>1
<1>5. align_to_upper(size) = (q + 1) * BlockSize
  <2>1. align_to_upper(size) = ((q + 1) * BlockSize) % SIZE_MOD
    BY <1>2 DEF align_to_upper, size_t
  <2>2. QED
    BY <1>3, <1>4, <2>1, ModSmall
<1> HIDE DEF q, r
<1>6. num_blocks(size) = q + 1
  BY <1>1, <1>5, DivMul DEF num_blocks
<1>7. QED
  BY <1>1, <1>6

(* Where the heap ends there is room, so the lowest place that fits lies   *)
(* no higher, and the run taken there starts where none did.               *)
LEMMA AllocationGrows ==
  ASSUME NEW h, NEW top \in Nat, Below(h, top),
         NEW size \in Nat, size + BlockSize < SIZE_MOD,
         top + num_blocks(size) <= TotalEntries
  PROVE  Grown(h, kzalloc(h, size), top + num_blocks(size))
<1> USE ConfigAssumption
<1> DEFINE num   == num_blocks(size)
           Ends  == {0} \cup {r.first + r.len : r \in h}
           C     == {b \in Ends : Fits(h, b, num)}
           first == Min(C)
           new   == kzalloc(h, size)
<1>1. num \in Nat \ {0}
  BY RequestBlocks
<1> HIDE DEF num
<1>2. \A r \in h : r.first \in Nat /\ r.len \in Nat \ {0} /\ r.first + r.len \in 0 .. top
  BY DEF Below
<1>3. Ends \in SUBSET (0 .. top) /\ Ends # {}
  BY <1>2
<1>4. PICK m \in Ends : \A y \in Ends : y <= m
  <2> HIDE DEF Ends
  <2>1. QED
    BY <1>3, GreatestNat
<1>5. m \in Nat /\ m <= top /\ m + num <= TotalEntries
  <2> HIDE DEF Ends
  <2>1. m \in 0 .. top
    BY <1>3
  <2>2. QED
    BY <1>1, <2>1 DEF num
<1>6. m \in C
  <2>1. \A r \in h : r.first + r.len <= m
    BY <1>4
  <2>2. QED
    BY <1>5, <2>1 DEF Fits
<1>7. C \in SUBSET Nat /\ C # {}
  BY <1>3, <1>6
<1>8. first \in C /\ first <= m
  <2> HIDE DEF C
  <2>1. QED
    BY <1>6, <1>7, MinOfNats
<1>9. /\ first \in Nat /\ first + num <= top + num /\ first \in Blocks
      /\ \A r \in h : r.first # first
  <2>1. first \in Nat /\ Fits(h, first, num)
    BY <1>7, <1>8
  <2> HIDE DEF first
  <2>2. first + num <= top + num /\ first \in Blocks
    BY <1>1, <1>5, <1>8, <2>1 DEF Blocks
  <2>3. ASSUME NEW r \in h PROVE r.first # first
    BY <1>1, <1>2, <2>1 DEF Fits
  <2>4. QED
    BY <2>1, <2>2, <2>3
<1>10. new = [heap |-> h \cup {[first |-> first, len |-> num]},
              addr |-> block_idx_2_block_address(first)]
  BY DEF kzalloc, num
<1> HIDE DEF first, new
<1>11. Below(new.heap, top + num)
  <2>1. new.heap \subseteq [first : Nat, len : Nat \ {0}]
    BY <1>1, <1>9, <1>10 DEF Below
  <2>2. ASSUME NEW r \in new.heap PROVE r.first + r.len <= top + num
    <3>1. CASE r \in h
      BY <1>1, <1>2, <3>1
    <3>2. CASE r = [first |-> first, len |-> num]
      BY <1>9, <3>2
    <3>3. QED
      BY <1>10, <3>1, <3>2
  <2>3. QED
    BY <2>1, <2>2 DEF Below
<1>12. new.addr \notin AllocatedIn(h)
  <2>1. SUFFICES ASSUME NEW r \in h, new.addr = block_idx_2_block_address(r.first)
                 PROVE  FALSE
    BY DEF AllocatedIn
  <2>2. r.first \in Blocks
    BY <1>1, <1>2, <1>5 DEF Blocks, num
  <2>3. block_address_2_block_idx(new.addr) = r.first
    BY <2>1, <2>2, AddressOfBlock
  <2>4. block_address_2_block_idx(new.addr) = first
    BY <1>9, <1>10, AddressOfBlock
  <2>5. QED
    BY <1>9, <2>3, <2>4
<1>13. AllocatedIn(new.heap) = AllocatedIn(h) \cup {new.addr}
  <2> DEFINE run == [first |-> first, len |-> num]
  <2>1. new.heap = h \cup {run} /\ new.addr = block_idx_2_block_address(run.first)
    BY <1>10
  <2> HIDE DEF run
  <2>2. QED
    BY <2>1 DEF AllocatedIn
<1>14. new.addr \in Tasks
  BY <1>9, <1>10, AddressOfBlock
<1>15. QED
  BY <1>11, <1>12, <1>13, <1>14 DEF Grown, num, new

(* Freeing addresses that are in use frees these and no others.            *)
LEMMA FreesWhatIsGiven ==
  ASSUME NEW h, NEW top \in Nat, Below(h, top), top <= TotalEntries,
         NEW addrs \in SUBSET AllocatedIn(h)
  PROVE  /\ Below(kfree_all(h, addrs), top)
         /\ AllocatedIn(kfree_all(h, addrs)) = AllocatedIn(h) \ addrs
<1> USE ConfigAssumption
<1>1. ASSUME NEW r \in h
      PROVE  r.first \in Blocks
  BY DEF Below, Blocks
<1>2. ASSUME NEW r \in h
      PROVE  block_address_2_block_idx(block_idx_2_block_address(r.first)) = r.first
  BY <1>1, AddressOfBlock
<1>3. ASSUME NEW r \in h
      PROVE  (r \in kfree_all(h, addrs)) <=> (block_idx_2_block_address(r.first) \notin addrs)
  <2>1. ASSUME block_idx_2_block_address(r.first) \notin addrs, NEW a \in addrs
        PROVE  r.first # block_address_2_block_idx(a)
    <3>1. PICK o \in h : a = block_idx_2_block_address(o.first)
      BY DEF AllocatedIn
    <3>2. block_address_2_block_idx(a) = o.first
      BY <1>2, <3>1
    <3>3. QED
      BY <2>1, <3>1, <3>2
  <2>2. QED
    BY <1>2, <2>1 DEF kfree_all
<1>4. kfree_all(h, addrs) \subseteq h
  BY DEF kfree_all
<1>5. Below(kfree_all(h, addrs), top)
  BY <1>4 DEF Below
<1>6. QED
  BY <1>3, <1>4, <1>5 DEF AllocatedIn

----------------------------------------------------------------------------
(* Page directories.                                                       *)

\* What i turns of the loop in paging_new make of the heap h below top.
Filled(h, top, i, x) ==
  /\ x \in [heap : SUBSET [first : Nat, len : Nat \ {0}], tables : Seq(Tasks)]
  /\ Below(x.heap, top + i * num_blocks(sizeof_table))
  /\ ToSet(x.tables) \cap AllocatedIn(h) = {}
  /\ AllocatedIn(x.heap) = AllocatedIn(h) \cup ToSet(x.tables)

FillStep(x) ==
  LET new == kzalloc(x.heap, sizeof_table)
  IN  [heap |-> new.heap, tables |-> Append(x.tables, new.addr)]

LEMMA ToSetAppend ==
  ASSUME NEW S, NEW s \in Seq(S), NEW e \in S
  PROVE  /\ Append(s, e) \in Seq(S)
         /\ ToSet(Append(s, e)) = ToSet(s) \cup {e}
<1>1. Append(s, e) \in Seq(S) /\ Len(Append(s, e)) = Len(s) + 1
  OBVIOUS
<1>2. /\ \A i \in 1 .. Len(s) : Append(s, e)[i] = s[i]
      /\ Append(s, e)[Len(s) + 1] = e
  OBVIOUS
<1>3. DOMAIN s = 1 .. Len(s) /\ DOMAIN Append(s, e) = 1 .. (Len(s) + 1) /\ Len(s) \in Nat
  BY <1>1
<1>4. 1 .. (Len(s) + 1) = (1 .. Len(s)) \cup {Len(s) + 1}
  BY <1>3
<1>5. QED
  <2> DEFINE r == Append(s, e)
  <2> HIDE DEF r
  <2>1. ToSet(r) = ToSet(s) \cup {e}
    BY <1>2, <1>3, <1>4 DEF ToSet, r
  <2>2. QED
    BY <1>1, <2>1 DEF r

(* The sizes that load_process asks for do not wrap.                       *)
LEMMA Requests ==
  /\ sizeof_process \in Nat /\ sizeof_process + BlockSize < SIZE_MOD
  /\ sizeof_struct \in Nat /\ sizeof_struct + BlockSize < SIZE_MOD
  /\ sizeof_table \in Nat /\ sizeof_table + BlockSize < SIZE_MOD
  /\ PROGRAM_USER_PROGRAM_STACK_SIZE \in Nat
  /\ PROGRAM_USER_PROGRAM_STACK_SIZE + BlockSize < SIZE_MOD
  /\ \A file \in Files : file.size \in Nat /\ file.size + BlockSize < SIZE_MOD
BY LoadsFit DEF RequestSizes

LEMMA FillStepFills ==
  ASSUME NEW h, NEW top \in Nat, NEW i \in Nat, NEW x, Filled(h, top, i, x),
         top + (i + 1) * num_blocks(sizeof_table) <= TotalEntries
  PROVE  Filled(h, top, i + 1, FillStep(x))
<1> DEFINE nb  == num_blocks(sizeof_table)
           new == kzalloc(x.heap, sizeof_table)
           t   == top + i * nb
           y   == FillStep(x)
<1>1. nb \in Nat /\ t \in Nat /\ t + nb = top + (i + 1) * nb
  <2>1. nb \in Nat
    BY Requests, RequestBlocks
  <2> HIDE DEF nb
  <2>2. i * nb \in Nat /\ (i + 1) * nb = i * nb + nb
    BY <2>1
  <2>3. QED
    BY <2>1, <2>2
<1>2. Grown(x.heap, new, t + nb)
  <2>1. Below(x.heap, t)
    BY DEF Filled
  <2>2. t + nb <= TotalEntries
    BY <1>1
  <2> HIDE DEF t
  <2>3. QED
    BY <1>1, <2>1, <2>2, Requests, AllocationGrows
<1>3. y = [heap |-> new.heap, tables |-> Append(x.tables, new.addr)]
  BY DEF FillStep
<1> HIDE DEF new, y, t, nb
<1>4. x.tables \in Seq(Tasks) /\ new.addr \in Tasks
  BY <1>2 DEF Filled, Grown
<1>5. ToSet(y.tables) = ToSet(x.tables) \cup {new.addr} /\ y.tables \in Seq(Tasks)
  BY <1>3, <1>4, ToSetAppend
<1>6. y.heap = new.heap /\ y \in [heap : SUBSET [first : Nat, len : Nat \ {0}], tables : Seq(Tasks)]
  BY <1>2, <1>3, <1>5 DEF Grown, Below
<1>7. Below(y.heap, t + nb)
  BY <1>2, <1>6 DEF Grown
<1>8. ToSet(y.tables) \cap AllocatedIn(h) = {}
  BY <1>2, <1>5 DEF Filled, Grown
<1>9. AllocatedIn(y.heap) = AllocatedIn(h) \cup ToSet(y.tables)
  BY <1>2, <1>5, <1>6 DEF Filled, Grown
<1>10. Below(y.heap, top + (i + 1) * num_blocks(sizeof_table))
  BY <1>1, <1>7 DEF nb
<1>11. Filled(h, top, i + 1, y)
  BY <1>6, <1>8, <1>9, <1>10 DEF Filled
<1>12. QED
  BY <1>11 DEF y

(* The loop of paging_new allocates a table per entry of the directory.    *)
LEMMA TablesFilled ==
  ASSUME NEW h, NEW top \in Nat, Below(h, top),
         top + PAGING_TOTAL_ENTRIES_PER_TABLE * num_blocks(sizeof_table) <= TotalEntries
  PROVE  Filled(h, top, PAGING_TOTAL_ENTRIES_PER_TABLE, new_tables(h))
<1> DEFINE n  == PAGING_TOTAL_ENTRIES_PER_TABLE
           nb == num_blocks(sizeof_table)
           S  == [heap : SUBSET [first : Nat, len : Nat \ {0}], tables : Seq(Tasks)]
           base == [heap |-> h, tables |-> << >>]
           body(f) == [i \in 0 .. n |-> IF i = 0 THEN base ELSE FillStep(f[i - 1])]
           g == [p \in Nat \X S |-> IF FillStep(p[2]) \in S THEN FillStep(p[2]) ELSE p[2]]
           ch == CHOOSE f : f = body(f)
<1>1. n \in Nat /\ nb \in Nat /\ n \in 0 .. n /\ 0 \in 0 .. n
  BY PagingAssumption, Requests, RequestBlocks
<1>2. base \in S /\ Filled(h, top, 0, base)
  <2>1. << >> \in Seq(Tasks) /\ ToSet(<< >>) = {}
    BY DEF ToSet
  <2>2. h \in SUBSET [first : Nat, len : Nat \ {0}]
    BY DEF Below
  <2>3. 0 * nb = 0 /\ top + 0 = top
    BY <1>1
  <2>4. QED
    BY <2>1, <2>2, <2>3 DEF Filled
<1>3. ASSUME NEW i \in Nat, i < n PROVE top + (i + 1) * nb <= TotalEntries
  <2> HIDE DEF nb, n
  <2>1. (i + 1) * nb <= n * nb
    BY <1>1, <1>3, MulMono
  <2>2. (i + 1) * nb \in Nat /\ n * nb \in Nat
    BY <1>1
  <2>3. top + n * nb <= TotalEntries
    BY DEF n, nb
  <2>4. QED
    BY <1>1, <2>1, <2>2, <2>3, ConfigAssumption
<1>4. ASSUME NEW c, c[0] = base,
             \A i \in 1 .. n : Filled(h, top, i - 1, c[i - 1]) => c[i] = FillStep(c[i - 1])
      PROVE  \A i \in 0 .. n : Filled(h, top, i, c[i])
  <2> DEFINE A == {i \in Nat : i <= n => Filled(h, top, i, c[i])}
  <2>1. 0 \in A
    BY <1>2, <1>4
  <2>2. ASSUME NEW i \in A PROVE i + 1 \in A
    <3>1. CASE i + 1 <= n
      <4>1. i \in Nat /\ i < n /\ i + 1 \in 1 .. n /\ (i + 1) - 1 = i
        BY <1>1, <2>2, <3>1
      <4>2. Filled(h, top, i, c[i])
        BY <1>1, <2>2, <4>1
      <4>3. c[i + 1] = FillStep(c[i])
        BY <1>4, <4>1, <4>2
      <4>4. Filled(h, top, i + 1, FillStep(c[i]))
        BY <1>3, <4>1, <4>2, FillStepFills
      <4>5. QED
        BY <4>1, <4>3, <4>4
    <3>2. CASE ~(i + 1 <= n)
      BY <2>2, <3>2
    <3>3. QED
      BY <3>1, <3>2
  <2>3. A \in SUBSET Nat
    OBVIOUS
  <2>4. A = Nat
    <3> HIDE DEF A
    <3>1. QED
      BY <2>1, <2>2, <2>3, SetInduction
  <2>5. ASSUME NEW i \in 0 .. n PROVE Filled(h, top, i, c[i])
    <3>1. i \in Nat /\ i <= n
      BY <1>1
    <3>2. i \in A
      <4> HIDE DEF A
      <4>1. QED
        BY <2>4, <3>1
    <3>3. QED
      BY <3>1, <3>2
  <2>6. QED
    BY <2>5
<1>5. ASSUME NEW i, NEW x, Filled(h, top, i, x) PROVE x \in S
  BY <1>5 DEF Filled
<1>6. g \in Steps(S)
  <2> HIDE DEF S
  <2>1. QED
    BY DEF Steps
<1>7. PICK f : IsIteration(f, S, base, g)
  <2> HIDE DEF S, g, base
  <2>1. base \in S
    BY <1>2
  <2>2. QED
    BY <1>6, <2>1, IterationExists
<1>8. f[0] = base
  <2> HIDE DEF base, S, g
  <2>1. QED
    BY <1>7 DEF IsIteration
<1>9. ASSUME NEW i \in 1 .. n, FillStep(f[i - 1]) \in S
      PROVE  f[i] = FillStep(f[i - 1])
  <2>1. i \in Nat /\ i # 0 /\ i - 1 \in Nat
    BY <1>1
  <2>2. f[i] = g[<<i - 1, f[i - 1]>>] /\ f[i - 1] \in S
    <3> HIDE DEF S, g, base
    <3>1. QED
      BY <1>7, <2>1 DEF IsIteration
  <2> HIDE DEF S
  <2>3. g[<<i - 1, f[i - 1]>>] = FillStep(f[i - 1])
    BY <1>9, <2>1, <2>2
  <2>4. QED
    BY <2>2, <2>3
<1>10. ASSUME NEW i \in 1 .. n, Filled(h, top, i - 1, f[i - 1])
       PROVE  f[i] = FillStep(f[i - 1])
  <2>1. i - 1 \in Nat /\ i - 1 < n /\ (i - 1) + 1 = i
    BY <1>1
  <2>2. Filled(h, top, (i - 1) + 1, FillStep(f[i - 1]))
    BY <1>3, <1>10, <2>1, FillStepFills
  <2>3. FillStep(f[i - 1]) \in S
    BY <1>5, <2>2
  <2>4. QED
    BY <1>9, <2>3
<1>11. \A i \in 0 .. n : Filled(h, top, i, f[i])
  BY <1>4, <1>8, <1>10
<1> DEFINE F == [i \in 0 .. n |-> f[i]]
<1>12. F = body(F)
  <2> HIDE DEF base
  <2>1. ASSUME NEW i \in 0 .. n
        PROVE  F[i] = IF i = 0 THEN base ELSE FillStep(F[i - 1])
    <3>1. CASE i = 0
      BY <1>8, <3>1
    <3>2. CASE i # 0
      <4>1. i \in 1 .. n /\ i - 1 \in 0 .. n
        BY <1>1, <3>2
      <4>2. f[i] = FillStep(f[i - 1])
        BY <1>10, <1>11, <4>1
      <4>3. QED
        BY <3>2, <4>1, <4>2
    <3>3. QED
      BY <3>1, <3>2
  <2>2. QED
    BY <2>1
<1>13. ch = body(ch)
  <2> HIDE DEF body, F
  <2>1. QED
    BY <1>12
<1>14. new_tables(h) = ch[n]
  BY DEF new_tables, FillStep
<1> HIDE DEF ch
<1>15. ch[0] = base /\ \A i \in 1 .. n : ch[i] = FillStep(ch[i - 1])
  <2> HIDE DEF base
  <2>1. \A i \in 0 .. n : ch[i] = IF i = 0 THEN base ELSE FillStep(ch[i - 1])
    BY <1>13
  <2>2. \A i \in 1 .. n : i \in 0 .. n /\ i # 0
    BY <1>1
  <2>3. QED
    BY <1>1, <2>1, <2>2
<1>16. Filled(h, top, n, ch[n])
  BY <1>1, <1>4, <1>15
<1>17. QED
  BY <1>14, <1>16

\* What paging_new makes of a heap: the directory, the tables and the chunk
\* are new.
BlocksOf(addr, chunk) == {addr, chunk.directory} \cup ToSet(chunk.tables)

Entries == [Idx -> [Idx -> [page  : Int,
                            flags : SUBSET {PAGING_IS_PRESENT, PAGING_IS_WRITABLE,
                                            PAGING_ACCESS_FROM_ALL}]]]

ChunkType == [directory : Tasks, tables : Seq(Tasks), entries : Entries]

directory_blocks ==
  (PAGING_TOTAL_ENTRIES_PER_TABLE + 1) * num_blocks(sizeof_table) + num_blocks(sizeof_struct)

\* new is what paging_new makes of the heap h.
DirectoryMade(h, new, top, flags) ==
  /\ Below(new.heap, top)
  /\ new.addr \in Tasks
  /\ new.chunk.entries = identity(flags)
  /\ identity(flags) \in Entries => new.chunk \in ChunkType
  /\ BlocksOf(new.addr, new.chunk) \cap AllocatedIn(h) = {}
  /\ AllocatedIn(new.heap) = AllocatedIn(h) \cup BlocksOf(new.addr, new.chunk)

LEMMA NewDirectory ==
  ASSUME NEW h, NEW top \in Nat, Below(h, top), NEW flags,
         top + directory_blocks <= TotalEntries,
         NEW new, new = paging_new(h, flags)
  PROVE  DirectoryMade(h, new, top + directory_blocks, flags)
<1> DEFINE n  == PAGING_TOTAL_ENTRIES_PER_TABLE
           nb == num_blocks(sizeof_table)
           ns == num_blocks(sizeof_struct)
           d  == kzalloc(h, sizeof_table)
           f  == new_tables(d.heap)
           c  == kzalloc(f.heap, sizeof_struct)
<1>1. /\ n \in Nat /\ nb \in Nat /\ ns \in Nat
      /\ sizeof_table \in Nat /\ sizeof_table + BlockSize < SIZE_MOD
      /\ sizeof_struct \in Nat /\ sizeof_struct + BlockSize < SIZE_MOD
  BY PagingAssumption, Requests, RequestBlocks
<1>2. new = [heap |-> c.heap, addr |-> c.addr,
             chunk |-> [directory |-> d.addr, tables |-> f.tables, entries |-> identity(flags)]]
  BY DEF paging_new
<1>3. directory_blocks = (nb + n * nb) + ns /\ n * nb \in Nat
  <2>1. directory_blocks = (n + 1) * nb + ns
    BY DEF directory_blocks
  <2> HIDE DEF n, nb, ns
  <2>2. (n + 1) * nb = nb + n * nb /\ n * nb \in Nat
    BY <1>1
  <2>3. QED
    BY <2>1, <2>2
<1> DEFINE m == n * nb
<1> HIDE DEF nb, ns, d, f, c, m
<1>4. TotalEntries \in Nat /\ m \in Nat /\ top + ((nb + m) + ns) <= TotalEntries
  BY <1>3, ConfigAssumption DEF m
<1>5. Grown(h, d, top + nb)
  <2>1. top + nb <= TotalEntries
    BY <1>1, <1>4
  <2>2. QED
    BY <1>1, <2>1, AllocationGrows DEF d, nb
<1>6. Filled(d.heap, top + nb, n, f)
  <2>1. top + nb \in Nat /\ (top + nb) + m <= TotalEntries
    BY <1>1, <1>4
  <2>2. Below(d.heap, top + nb)
    BY <1>5 DEF Grown
  <2>3. (top + nb) + n * num_blocks(sizeof_table) <= TotalEntries
    BY <2>1 DEF m, nb
  <2>4. QED
    BY <2>1, <2>2, <2>3, TablesFilled DEF f
<1>7. Grown(f.heap, c, ((top + nb) + m) + ns)
  <2>1. (top + nb) + m \in Nat /\ ((top + nb) + m) + ns <= TotalEntries
    BY <1>1, <1>4
  <2>2. Below(f.heap, (top + nb) + m)
    BY <1>6 DEF Filled, m, nb
  <2>3. QED
    BY <1>1, <2>1, <2>2, AllocationGrows DEF c, ns
<1>8. ((top + nb) + m) + ns = top + directory_blocks
  BY <1>1, <1>3, <1>4 DEF m
<1>9. /\ new.heap = c.heap /\ new.addr = c.addr
      /\ new.chunk.directory = d.addr /\ new.chunk.tables = f.tables
      /\ new.chunk.entries = identity(flags)
      /\ new.chunk = [directory |-> d.addr, tables |-> f.tables, entries |-> identity(flags)]
  BY <1>2
<1>10. Below(new.heap, top + directory_blocks) /\ new.addr \in Tasks
  BY <1>7, <1>8, <1>9 DEF Grown
<1>11. new.chunk.directory \in Tasks /\ new.chunk.tables \in Seq(Tasks)
  BY <1>5, <1>6, <1>9 DEF Grown, Filled
<1>12. /\ d.addr \notin AllocatedIn(h)
       /\ AllocatedIn(d.heap) = AllocatedIn(h) \cup {d.addr}
       /\ ToSet(f.tables) \cap AllocatedIn(d.heap) = {}
       /\ AllocatedIn(f.heap) = AllocatedIn(d.heap) \cup ToSet(f.tables)
       /\ c.addr \notin AllocatedIn(f.heap)
       /\ AllocatedIn(c.heap) = AllocatedIn(f.heap) \cup {c.addr}
  BY <1>5, <1>6, <1>7 DEF Grown, Filled
<1>13. BlocksOf(new.addr, new.chunk) = {c.addr, d.addr} \cup ToSet(f.tables)
  BY <1>9 DEF BlocksOf
<1>14. /\ BlocksOf(new.addr, new.chunk) \cap AllocatedIn(h) = {}
       /\ AllocatedIn(new.heap) = AllocatedIn(h) \cup BlocksOf(new.addr, new.chunk)
  BY <1>9, <1>12, <1>13
<1>15. identity(flags) \in Entries => new.chunk \in ChunkType
  BY <1>9, <1>11 DEF ChunkType
<1>16. QED
  BY <1>9, <1>10, <1>14, <1>15 DEF DirectoryMade

LEMMA IdentityEntries ==
  ASSUME NEW flags \in SUBSET {PAGING_IS_PRESENT, PAGING_IS_WRITABLE, PAGING_ACCESS_FROM_ALL}
  PROVE  /\ identity(flags) \in Entries
         /\ \A d, i \in Idx : identity(flags)[d][i].flags = flags
<1>1. \A d, i \in Idx : d * PAGING_TOTAL_ENTRIES_PER_TABLE + i \in Int
  BY PagingAssumption DEF Idx
<1>2. QED
  BY <1>1 DEF identity, Entries

LEMMA SetEntry ==
  ASSUME NEW entries \in Entries, NEW address, NEW page \in Int,
         NEW flags \in SUBSET {PAGING_IS_PRESENT, PAGING_IS_WRITABLE, PAGING_ACCESS_FROM_ALL},
         NEW set, set = paging_set(entries, address, [page |-> page, flags |-> flags])
  PROVE  /\ set \in Entries
         /\ \A d, i \in Idx : set[d][i] = entries[d][i] \/ set[d][i].page = page
<1> DEFINE v == [page |-> page, flags |-> flags]
           x == paging_get_idxs(address).dir
           y == paging_get_idxs(address).table
           E == [page  : Int,
                 flags : SUBSET {PAGING_IS_PRESENT, PAGING_IS_WRITABLE, PAGING_ACCESS_FROM_ALL}]
<1>1. v \in E /\ v.page = page
  OBVIOUS
<1>2. set = [entries EXCEPT ![x][y] = v]
  BY DEF paging_set
<1>3. entries \in [Idx -> [Idx -> E]]
  BY DEF Entries
<1> HIDE DEF v, x, y, E
<1>4. set \in [Idx -> [Idx -> E]]
  <2> DEFINE row == [entries[x] EXCEPT ![y] = v]
  <2>1. set = [entries EXCEPT ![x] = row]
    BY <1>2
  <2>2. x \in Idx => row \in [Idx -> E]
    BY <1>1, <1>3
  <2> HIDE DEF row
  <2>3. QED
    BY <1>3, <2>1, <2>2
<1>5. \A d, i \in Idx : set[d][i] = entries[d][i] \/ set[d][i] = v
  BY <1>2, <1>3
<1>6. QED
  BY <1>1, <1>4, <1>5 DEF Entries, E

(* Mapping n pages changes only entries of these pages.                    *)
LEMMA MapPages ==
  ASSUME NEW entries \in Entries, NEW virtual \in Int, NEW physical \in Nat, NEW n \in Nat,
         NEW flags \in SUBSET {PAGING_IS_PRESENT, PAGING_IS_WRITABLE, PAGING_ACCESS_FROM_ALL},
         NEW page, page = physical \div PAGING_PAGE_SIZE, page \in Nat,
         NEW set, set = paging_map_pages(entries, virtual, physical, n, flags)
  PROVE  /\ set \in Entries
         /\ \A d, i \in Idx :
              set[d][i] = entries[d][i] \/ set[d][i].page \in page .. (page + n - 1)
<1> DEFINE step(j, e) == paging_set(e, virtual + (j - 1) * PAGING_PAGE_SIZE,
                                    [page |-> page + (j - 1), flags |-> flags])
           body(f) == [j \in 0 .. n |-> IF j = 0 THEN entries ELSE step(j, f[j - 1])]
           g == [p \in Nat \X Entries |-> step(p[1] + 1, p[2])]
           ch == CHOOSE f : f = body(f)
           Good(j, e) == /\ e \in Entries
                         /\ \A d, i \in Idx :
                              e[d][i] = entries[d][i] \/ e[d][i].page \in page .. (page + j - 1)
<1>1. set = ch[n]
  BY DEF paging_map_pages
<1>2. ASSUME NEW j \in Nat, j # 0, NEW e \in Entries
      PROVE  /\ step(j, e) \in Entries
             /\ \A d, i \in Idx : step(j, e)[d][i] = e[d][i]
                                    \/ step(j, e)[d][i].page = page + (j - 1)
  <2>1. page + (j - 1) \in Int
    BY <1>2
  <2>2. QED
    BY <2>1, SetEntry
<1>3. g \in Steps(Entries)
  <2> HIDE DEF step
  <2>1. ASSUME NEW p \in Nat \X Entries PROVE step(p[1] + 1, p[2]) \in Entries
    <3>1. p[1] + 1 \in Nat /\ p[1] + 1 # 0 /\ p[2] \in Entries
      OBVIOUS
    <3>2. QED
      BY <1>2, <3>1
  <2>2. QED
    BY <2>1 DEF Steps
<1>4. PICK f : IsIteration(f, Entries, entries, g)
  <2> HIDE DEF g
  <2>1. QED
    BY <1>3, IterationExists
<1> DEFINE F == [j \in 0 .. n |-> f[j]]
<1>5. F = body(F)
  <2>1. ASSUME NEW j \in 0 .. n
        PROVE  F[j] = IF j = 0 THEN entries ELSE step(j, F[j - 1])
    <3> HIDE DEF step
    <3>1. CASE j = 0
      BY <1>4, <3>1 DEF IsIteration
    <3>2. CASE j # 0
      <4>1. j \in Nat /\ j - 1 \in Nat /\ j - 1 \in 0 .. n /\ (j - 1) + 1 = j
        BY <3>2
      <4>2. f[j] = g[<<j - 1, f[j - 1]>>] /\ f[j - 1] \in Entries
        <5> HIDE DEF g
        <5>1. QED
          BY <1>4, <3>2, <4>1 DEF IsIteration
      <4>3. g[<<j - 1, f[j - 1]>>] = step(j, f[j - 1])
        BY <4>1, <4>2
      <4>4. QED
        BY <3>2, <4>1, <4>2, <4>3
    <3>3. QED
      BY <3>1, <3>2
  <2> HIDE DEF step
  <2>2. QED
    BY <2>1
<1>6. ch = body(ch)
  <2> HIDE DEF body, F
  <2>1. QED
    BY <1>5
<1> HIDE DEF ch, step
<1>7. \A j \in 0 .. n : ch[j] = IF j = 0 THEN entries ELSE step(j, ch[j - 1])
  BY <1>6
<1> DEFINE A == {j \in Nat : j <= n => Good(j, ch[j])}
<1>8. 0 \in A
  <2>1. ch[0] = entries
    BY <1>7
  <2>2. QED
    BY <2>1
<1>9. ASSUME NEW j \in A PROVE j + 1 \in A
  <2>1. CASE j + 1 <= n
    <3>1. j \in Nat /\ j + 1 \in Nat /\ j + 1 # 0 /\ j <= n /\ j + 1 \in 0 .. n /\ (j + 1) - 1 = j
      BY <1>9, <2>1
    <3>2. Good(j, ch[j])
      BY <1>9, <3>1
    <3>3. ch[j + 1] = step(j + 1, ch[j])
      BY <1>7, <3>1
    <3>4. /\ ch[j + 1] \in Entries
          /\ \A d, i \in Idx : ch[j + 1][d][i] = ch[j][d][i] \/ ch[j + 1][d][i].page = page + j
      BY <1>2, <3>1, <3>2, <3>3
    <3>5. /\ \A p \in page .. (page + j - 1) : p \in page .. (page + (j + 1) - 1)
          /\ page + j \in page .. (page + (j + 1) - 1)
      BY <3>1
    <3>6. Good(j + 1, ch[j + 1])
      BY <3>2, <3>4, <3>5
    <3>7. QED
      BY <3>1, <3>6
  <2>2. CASE ~(j + 1 <= n)
    BY <1>9, <2>2
  <2>3. QED
    BY <2>1, <2>2
<1>10. A \in SUBSET Nat
  OBVIOUS
<1>11. n \in A
  <2> HIDE DEF A
  <2>1. QED
    BY <1>8, <1>9, <1>10, SetInduction
<1>12. Good(n, ch[n])
  BY <1>11
<1>13. QED
  BY <1>1, <1>12

LEMMA QuotientBound ==
  ASSUME NEW k \in Nat, NEW n \in Nat \ {0}
  PROVE  k \div n \in Nat /\ (k \div n) * n <= k /\ k \div n <= k
<1> DEFINE q == k \div n
           r == k % n
<1>1. q \in Nat /\ r \in Nat /\ k = q * n + r
  BY DivModNat
<1> HIDE DEF q, r
<1>2. q * 1 <= q * n /\ q * 1 = q
  BY <1>1, MulMono
<1> DEFINE m == q * n
<1>3. m \in Nat /\ q <= m /\ k = m + r
  BY <1>1, <1>2
<1> HIDE DEF m
<1>4. m <= k /\ q <= k
  BY <1>1, <1>3
<1>5. QED
  BY <1>1, <1>4 DEF q, m

LEMMA ModOfMod ==
  ASSUME NEW y \in Nat, NEW M \in Nat \ {0}, NEW P \in Nat \ {0}
  PROVE  (y % (M * P)) % P = y % P
<1> DEFINE Z == M * P
           k == y \div Z
           s == y % Z
           j == s \div P
           t == s % P
<1>1. Z \in Nat \ {0}
  BY Positive
<1>2. k \in Nat /\ s \in Nat /\ y = k * Z + s
  <2> HIDE DEF Z
  <2>1. QED
    BY <1>1, DivModNat
<1>3. j \in Nat /\ t \in 0 .. (P - 1) /\ s = j * P + t
  BY <1>2, DivModNat
<1> HIDE DEF k, s, j, t
<1>4. y = (k * M + j) * P + t /\ k * M + j \in Nat
  BY <1>2, <1>3
<1>5. y % P = t
  BY <1>3, <1>4, DivModUnique
<1>6. QED
  BY <1>5 DEF s, t

(* paging_align leaves an address that is not aligned unaligned, because   *)
(* it adds the rounded address to it.                                      *)
LEMMA AlignKeepsUnaligned ==
  ASSUME NEW address \in Nat, ~paging_is_aligned(address)
  PROVE  ~paging_is_aligned(paging_align(address))
<1> DEFINE P == PAGING_PAGE_SIZE
           M == PAGING_TOTAL_ENTRIES_PER_TABLE * PAGING_TOTAL_ENTRIES_PER_TABLE
           q == address \div P
           r == address % P
           y == address + (address - r + P)
<1>1. P \in Nat \ {0} /\ M \in Nat \ {0} /\ AddrSpace = M * P
  BY PagingAssumption, Positive DEF AddrSpace, TableSpan
<1>2. paging_align(address) = y % AddrSpace
  BY DEF paging_align
<1>3. q \in Nat /\ r \in 0 .. (P - 1) /\ address = q * P + r
  BY <1>1, DivModNat
<1>4. r # 0
  BY DEF paging_is_aligned
<1> HIDE DEF P, M, q, r
<1>5. y = (2 * q + 1) * P + r /\ 2 * q + 1 \in Nat
  BY <1>1, <1>3
<1>6. y \in Nat
  BY <1>1, <1>3, <1>5
<1> DEFINE u == 2 * q + 1
<1> HIDE DEF y, u
<1>7. y % P = r
  <2>1. u \in Nat /\ y = u * P + r
    BY <1>5 DEF u
  <2>2. QED
    BY <1>1, <1>3, <2>1, DivModUnique
<1>8. (y % AddrSpace) % P = r
  BY <1>1, <1>6, <1>7, ModOfMod
<1>9. QED
  BY <1>2, <1>4, <1>8 DEF paging_is_aligned, P

(* paging_map, as mmap_binary calls it, touches only pages of the program. *)
LEMMA MapBinary ==
  ASSUME NEW entries \in Entries, NEW a \in Addrs, NEW size \in Nat,
         NEW flags \in SUBSET {PAGING_IS_PRESENT, PAGING_IS_WRITABLE, PAGING_ACCESS_FROM_ALL},
         NEW phys, phys = a * BlockSize,
         NEW mapped, mapped = paging_map(entries, PROGRAM_VIRTUAL_ADDRESS, phys,
                                         paging_align(phys + size), flags)
  PROVE  /\ mapped.entries \in Entries
         /\ mapped.result \in Int
         /\ \A d, i \in Idx :
              LET entry == mapped.entries[d][i]
              IN  \/ entry = entries[d][i]
                  \/ a <= entry.page /\ entry.page * BlockSize < a * BlockSize + size
<1> DEFINE end == paging_align(phys + size)
           n   == pages_between(phys, end)
           set == paging_map_pages(entries, PROGRAM_VIRTUAL_ADDRESS, phys, n, flags)
           Done == /\ paging_is_aligned(PROGRAM_VIRTUAL_ADDRESS)
                   /\ paging_is_aligned(phys)
                   /\ paging_is_aligned(end)
                   /\ end >= phys
<1>1. /\ EINVAL \in Nat /\ BlockSize \in Nat \ {0} /\ BlockSize = PAGING_PAGE_SIZE
      /\ EntrySize \in Nat \ {0} /\ PROGRAM_VIRTUAL_ADDRESS \in Int /\ a \in Nat
  BY LoadsFit, ConfigAssumption, BlockIsPage, PagingAssumption DEF Addrs
<1>2. mapped = IF Done THEN [result |-> 0, entries |-> set]
               ELSE [result |-> -EINVAL, entries |-> entries]
  BY DEF paging_map
<1>3. CASE ~Done
  <2>1. mapped.entries = entries /\ mapped.result = -EINVAL
    BY <1>2, <1>3
  <2>2. QED
    BY <1>1, <2>1
<1>4. CASE Done
  <2>1. mapped.entries = set /\ mapped.result = 0
    BY <1>2, <1>4
  <2>2. phys \in Nat /\ phys + size \in Nat
    BY <1>1
  <2>3. end = phys + size
    <3>1. paging_is_aligned(phys + size)
      BY <1>4, <2>2, AlignKeepsUnaligned
    <3>2. QED
      BY <3>1 DEF paging_align
  <2>4. n = (size \div EntrySize) \div BlockSize
    <3>1. end - phys = size
      BY <2>2, <2>3
    <3>2. QED
      BY <1>1, <3>1 DEF pages_between
  <2>5. n \in Nat /\ n * BlockSize <= size
    <3> DEFINE e == size \div EntrySize
    <3>1. e \in Nat /\ e <= size
      BY <1>1, QuotientBound
    <3> HIDE DEF e
    <3>2. n = e \div BlockSize
      BY <2>4 DEF e
    <3>3. n \in Nat /\ n * BlockSize <= e
      <4>1. BlockSize \in Nat \ {0}
        BY <1>1
      <4> HIDE DEF n
      <4>2. QED
        BY <3>1, <3>2, <4>1, QuotientBound
    <3> DEFINE nn == n * BlockSize
    <3> HIDE DEF n
    <3>4. nn \in Nat /\ nn <= e
      BY <1>1, <3>3
    <3> HIDE DEF nn
    <3>5. nn <= size
      BY <3>1, <3>4
    <3>6. QED
      BY <3>3, <3>5 DEF nn
  <2>6. phys \div PAGING_PAGE_SIZE = a
    <3>1. (a * BlockSize) \div BlockSize = a
      BY <1>1, DivMul
    <3>2. QED
      BY <1>1, <3>1
  <2> HIDE DEF n
  <2>7. /\ set \in Entries
        /\ \A d, i \in Idx : set[d][i] = entries[d][i] \/ set[d][i].page \in a .. (a + n - 1)
    BY <1>1, <2>2, <2>5, <2>6, MapPages
  <2>8. ASSUME NEW p \in a .. (a + n - 1)
        PROVE  a <= p /\ p * BlockSize < a * BlockSize + size
    <3> DEFINE k == p - a
    <3>1. k \in Nat /\ k + 1 <= n /\ p = a + k
      BY <1>1, <2>5
    <3> HIDE DEF k
    <3>2. (k + 1) * BlockSize <= n * BlockSize
      BY <1>1, <2>5, <3>1, MulMono
    <3>3. /\ (k + 1) * BlockSize = k * BlockSize + BlockSize /\ k * BlockSize \in Nat
          /\ p * BlockSize = a * BlockSize + k * BlockSize /\ a * BlockSize \in Nat
          /\ n * BlockSize \in Nat
      BY <1>1, <2>5, <3>1
    <3> DEFINE kb == k * BlockSize
               ab == a * BlockSize
               nb == n * BlockSize
               pb == p * BlockSize
    <3>4. /\ kb + BlockSize <= nb /\ kb \in Nat /\ ab \in Nat /\ nb \in Nat /\ nb <= size
          /\ pb = ab + kb
      BY <2>5, <3>2, <3>3
    <3> HIDE DEF kb, ab, nb, pb
    <3>5. pb < ab + size
      BY <1>1, <3>4
    <3>6. QED
      BY <1>1, <3>5 DEF pb, ab
  <2> HIDE DEF set
  <2>9. QED
    BY <2>1, <2>7, <2>8
<1>5. QED
  BY <1>3, <1>4

----------------------------------------------------------------------------
(* The invariant.                                                          *)

TaskSet == ToSet(Forward)

\* load_process has not called new_task yet.
Loading == call.pc \in {"load", "stack", "task"}

CallType == [pc : {"idle", "load", "stack", "task", "map", "out"},
             pid : pids \cup {0, MAX_PROCESSES},
             file : Files \cup {NoCall.file}, proc : Addrs, result : Int]

ProcType == [pid : pids \cup {0, MAX_PROCESSES}, task : Addrs, phys_mem : Addrs,
             size : Nat, stack : Addrs]

TypeInv ==
  /\ loads \in 0 .. MaxLoads
  /\ fread_ok \in ReadSuccess
  /\ call \in CallType
  /\ call.pc = "idle" <=> call.proc = null
  /\ call.pc # "idle" => call.file \in Files /\ loads > 0
  /\ DOMAIN procs \subseteq Tasks
  /\ procs \in [DOMAIN procs -> ProcType]
  /\ held \subseteq DOMAIN procs
  /\ call.proc \notin held
  /\ call.proc # null => call.proc \in DOMAIN procs
  /\ page_directory \in [DOMAIN page_directory -> Tasks]
  /\ chunks \in [DOMAIN chunks -> ChunkType]

\* The list is in order, and holds at most a task per load.
ListInv ==
  /\ Holds(list, Forward)
  /\ Len(Forward) <= IF Loading THEN loads - 1 ELSE loads

\* What load_process has filled in of the process it makes.
PhaseInv ==
  /\ call.pc = "load" => procs[call.proc].phys_mem = null
  /\ call.pc \in {"load", "stack"} => procs[call.proc].stack = null
  /\ Loading => procs[call.proc].task = null
  /\ call.pc = "map" => procs[call.proc].task # null

\* The processes in use and the tasks on the list belong together.
TaskInv ==
  /\ \A t \in TaskSet : t \in DOMAIN page_directory /\ page_directory[t] \in DOMAIN chunks
  /\ \A p \in LiveProcs : procs[p].task # null => procs[p].task \in TaskSet
  /\ \A p, r \in LiveProcs :
       procs[p].task = procs[r].task /\ procs[p].task # null => p = r

\* Every load may take its share of the heap and no more.
Share == TotalEntries \div MaxLoads

Spent ==
  CASE call.pc = "load"  -> num_blocks(sizeof_process)
    [] call.pc = "stack" -> num_blocks(sizeof_process) + num_blocks(call.file.size)
    [] call.pc = "task"  -> num_blocks(sizeof_process) + num_blocks(call.file.size)
                              + num_blocks(PROGRAM_USER_PROGRAM_STACK_SIZE)
    [] OTHER -> Share

Top == IF call.pc = "idle" THEN loads * Share ELSE (loads - 1) * Share + Spent

HeapInv == Below(heap, Top)

\* Every allocated block belongs to one process, to one task, or is lost.
Accounted(L, own, T, oft, gone, alloc) ==
  /\ alloc = (UNION {own[p] : p \in L}) \cup (UNION {oft[t] : t \in T}) \cup gone
  /\ \A p, r \in L : p # r => own[p] \cap own[r] = {}
  /\ \A s, t \in T : s # t => oft[s] \cap oft[t] = {}
  /\ \A p \in L, t \in T : own[p] \cap oft[t] = {}
  /\ \A p \in L : own[p] \cap gone = {}
  /\ \A t \in T : oft[t] \cap gone = {}

Own == [p \in LiveProcs |-> OwnBlocks(p)]
Oft == [t \in TaskSet |-> OfTask(t)]

AccountInv == Accounted(LiveProcs, Own, TaskSet, Oft, lost, AllocatedIn(heap))

Inv ==
  /\ TypeInv
  /\ ListInv
  /\ PhaseInv
  /\ TaskInv
  /\ HeapInv
  /\ AccountInv
  /\ UserWritesOwnImage

----------------------------------------------------------------------------
(* Accounting.                                                             *)

(* New blocks go to an owner.                                              *)
LEMMA OwnerGrows ==
  ASSUME NEW L, NEW own, NEW T, NEW oft, NEW gone, NEW alloc,
         Accounted(L, own, T, oft, gone, alloc),
         NEW X, X \cap alloc = {}, NEW p \in L, NEW new,
         new[p] = own[p] \cup X, \A r \in L : r # p => new[r] = own[r]
  PROVE  Accounted(L, new, T, oft, gone, alloc \cup X)
<1>1. \A r \in L : own[r] \subseteq alloc /\ new[r] \subseteq own[r] \cup X
  BY DEF Accounted
<1>2. \A t \in T : oft[t] \subseteq alloc
  BY DEF Accounted
<1>3. gone \subseteq alloc
  BY DEF Accounted
<1>4. (UNION {new[r] : r \in L}) = (UNION {own[r] : r \in L}) \cup X
  OBVIOUS
<1>5. alloc \cup X = (UNION {new[r] : r \in L}) \cup (UNION {oft[t] : t \in T}) \cup gone
  BY <1>4 DEF Accounted
<1>6. \A r, q \in L : r # q => new[r] \cap new[q] = {}
  BY <1>1 DEF Accounted
<1>7. \A r \in L, t \in T : new[r] \cap oft[t] = {}
  BY <1>1, <1>2 DEF Accounted
<1>8. \A r \in L : new[r] \cap gone = {}
  BY <1>1, <1>3 DEF Accounted
<1>9. QED
  BY <1>5, <1>6, <1>7, <1>8 DEF Accounted

(* An owner without blocks changes nothing.                                *)
LEMMA OwnerEnters ==
  ASSUME NEW L, NEW own, NEW T, NEW oft, NEW gone, NEW alloc,
         Accounted(L, own, T, oft, gone, alloc),
         NEW p, p \notin L, NEW new, new[p] = {}, \A r \in L : new[r] = own[r]
  PROVE  Accounted(L \cup {p}, new, T, oft, gone, alloc)
<1>1. (UNION {new[r] : r \in L \cup {p}}) = (UNION {own[r] : r \in L})
  OBVIOUS
<1>2. alloc = (UNION {new[r] : r \in L \cup {p}}) \cup (UNION {oft[t] : t \in T}) \cup gone
  BY <1>1 DEF Accounted
<1>3. QED
  BY <1>2 DEF Accounted

LEMMA TaskEnters ==
  ASSUME NEW L, NEW own, NEW T, NEW oft, NEW gone, NEW alloc,
         Accounted(L, own, T, oft, gone, alloc),
         NEW X, X \cap alloc = {}, NEW t, t \notin T, NEW new,
         new[t] = X, \A s \in T : new[s] = oft[s]
  PROVE  Accounted(L, own, T \cup {t}, new, gone, alloc \cup X)
<1>1. /\ \A r \in L : own[r] \subseteq alloc
      /\ \A s \in T : oft[s] \subseteq alloc
      /\ gone \subseteq alloc
  BY DEF Accounted
<1>2. (UNION {new[s] : s \in T \cup {t}}) = (UNION {oft[s] : s \in T}) \cup X
  OBVIOUS
<1>3. alloc \cup X = (UNION {own[r] : r \in L}) \cup (UNION {new[s] : s \in T \cup {t}}) \cup gone
  BY <1>2 DEF Accounted
<1>4. \A s, u \in T \cup {t} : s # u => new[s] \cap new[u] = {}
  BY <1>1 DEF Accounted
<1>5. \A r \in L, s \in T \cup {t} : own[r] \cap new[s] = {}
  BY <1>1 DEF Accounted
<1>6. \A s \in T \cup {t} : new[s] \cap gone = {}
  BY <1>1 DEF Accounted
<1>7. QED
  BY <1>3, <1>4, <1>5, <1>6 DEF Accounted

(* New blocks get lost.                                                    *)
LEMMA LostGrows ==
  ASSUME NEW L, NEW own, NEW T, NEW oft, NEW gone, NEW alloc,
         Accounted(L, own, T, oft, gone, alloc), NEW X, X \cap alloc = {}
  PROVE  Accounted(L, own, T, oft, gone \cup X, alloc \cup X)
<1>1. /\ \A r \in L : own[r] \subseteq alloc
      /\ \A s \in T : oft[s] \subseteq alloc
  BY DEF Accounted
<1>2. QED
  BY <1>1 DEF Accounted

(* An owner leaves, and its blocks get lost or are freed.                  *)
LEMMA OwnerLeaves ==
  ASSUME NEW L, NEW own, NEW T, NEW oft, NEW gone, NEW alloc,
         Accounted(L, own, T, oft, gone, alloc), NEW p \in L
  PROVE  /\ Accounted(L \ {p}, own, T, oft, gone \cup own[p], alloc)
         /\ Accounted(L \ {p}, own, T, oft, gone, alloc \ own[p])
<1>1. (UNION {own[r] : r \in L}) = (UNION {own[r] : r \in L \ {p}}) \cup own[p]
  OBVIOUS
<1>2. Accounted(L \ {p}, own, T, oft, gone \cup own[p], alloc)
  <2>1. alloc = (UNION {own[r] : r \in L \ {p}}) \cup (UNION {oft[t] : t \in T}) \cup (gone \cup own[p])
    BY <1>1 DEF Accounted
  <2>2. QED
    BY <2>1 DEF Accounted
<1>3. Accounted(L \ {p}, own, T, oft, gone, alloc \ own[p])
  <2>1. /\ \A r \in L \ {p} : own[r] \cap own[p] = {}
        /\ \A t \in T : oft[t] \cap own[p] = {}
        /\ gone \cap own[p] = {}
    BY DEF Accounted
  <2>2. /\ (UNION {own[r] : r \in L \ {p}}) \cap own[p] = {}
        /\ (UNION {oft[t] : t \in T}) \cap own[p] = {}
    BY <2>1
  <2>3. alloc = (UNION {own[r] : r \in L}) \cup (UNION {oft[t] : t \in T}) \cup gone
    BY DEF Accounted
  <2>4. alloc \ own[p] = (UNION {own[r] : r \in L \ {p}}) \cup (UNION {oft[t] : t \in T}) \cup gone
    BY <1>1, <2>1, <2>2, <2>3
  <2>5. QED
    BY <2>4 DEF Accounted
<1>4. QED
  BY <1>2, <1>3

LEMMA TaskLeaves ==
  ASSUME NEW L, NEW own, NEW T, NEW oft, NEW gone, NEW alloc,
         Accounted(L, own, T, oft, gone, alloc), NEW t \in T
  PROVE  Accounted(L, own, T \ {t}, oft, gone, alloc \ oft[t])
<1>1. (UNION {oft[s] : s \in T}) = (UNION {oft[s] : s \in T \ {t}}) \cup oft[t]
  OBVIOUS
<1>2. /\ \A r \in L : own[r] \cap oft[t] = {}
      /\ \A s \in T \ {t} : oft[s] \cap oft[t] = {}
      /\ gone \cap oft[t] = {}
  BY DEF Accounted
<1>3. /\ (UNION {own[r] : r \in L}) \cap oft[t] = {}
      /\ (UNION {oft[s] : s \in T \ {t}}) \cap oft[t] = {}
  BY <1>2
<1>4. alloc = (UNION {own[r] : r \in L}) \cup (UNION {oft[s] : s \in T}) \cup gone
  BY DEF Accounted
<1>5. alloc \ oft[t] = (UNION {own[r] : r \in L}) \cup (UNION {oft[s] : s \in T \ {t}}) \cup gone
  BY <1>1, <1>2, <1>3, <1>4
<1>6. QED
  BY <1>5 DEF Accounted

(* Only the values at the owners and the tasks count.                      *)
LEMMA AccountedSame ==
  ASSUME NEW L, NEW own, NEW T, NEW oft, NEW gone, NEW alloc,
         Accounted(L, own, T, oft, gone, alloc),
         NEW own1, \A p \in L : own1[p] = own[p],
         NEW oft1, \A t \in T : oft1[t] = oft[t]
  PROVE  Accounted(L, own1, T, oft1, gone, alloc)
<1>1. {own1[p] : p \in L} = {own[p] : p \in L} /\ {oft1[t] : t \in T} = {oft[t] : t \in T}
  OBVIOUS
<1>2. QED
  BY <1>1 DEF Accounted

(* The blocks of the processes and tasks are allocated.                    *)
LEMMA OwnedAllocated ==
  ASSUME NEW L, NEW own, NEW T, NEW oft, NEW gone, NEW alloc,
         Accounted(L, own, T, oft, gone, alloc)
  PROVE  /\ \A p \in L : own[p] \subseteq alloc
         /\ \A t \in T : oft[t] \subseteq alloc
         /\ gone \subseteq alloc
BY DEF Accounted

----------------------------------------------------------------------------
(* The room for the loads.                                                 *)

LEMMA BelowMono ==
  ASSUME NEW h, NEW a \in Nat, NEW b \in Nat, a <= b, Below(h, a)
  PROVE  Below(h, b)
BY DEF Below

LEMMA RequestsTakeBlocks ==
  /\ num_blocks(sizeof_process) \in Nat
  /\ num_blocks(sizeof_struct) \in Nat
  /\ num_blocks(sizeof_table) \in Nat
  /\ num_blocks(PROGRAM_USER_PROGRAM_STACK_SIZE) \in Nat
  /\ \A file \in Files : num_blocks(file.size) \in Nat
  /\ directory_blocks \in Nat
<1>1. /\ num_blocks(sizeof_process) \in Nat
      /\ num_blocks(sizeof_struct) \in Nat
      /\ num_blocks(sizeof_table) \in Nat
      /\ num_blocks(PROGRAM_USER_PROGRAM_STACK_SIZE) \in Nat
      /\ \A file \in Files : num_blocks(file.size) \in Nat
  BY Requests, RequestBlocks
<1>2. directory_blocks \in Nat
  BY <1>1, PagingAssumption DEF directory_blocks
<1>3. QED
  BY <1>1, <1>2

(* What one load asks for is at most its share.                            *)
LEMMA LoadWithinShare ==
  ASSUME NEW file \in Files
  PROVE  /\ Share \in Nat
         /\ num_blocks(sizeof_process) + num_blocks(file.size)
              + num_blocks(PROGRAM_USER_PROGRAM_STACK_SIZE)
              + num_blocks(sizeof_struct) + directory_blocks <= Share
<1> DEFINE np == num_blocks(sizeof_process)
           nf == num_blocks(file.size)
           nt == num_blocks(PROGRAM_USER_PROGRAM_STACK_SIZE)
           ns == num_blocks(sizeof_struct)
           tb == (PAGING_TOTAL_ENTRIES_PER_TABLE + 1) * num_blocks(sizeof_table)
           x  == load_blocks(file)
           r  == TotalEntries % MaxLoads
<1>1. np \in Nat /\ nf \in Nat /\ nt \in Nat /\ ns \in Nat /\ tb \in Nat
  BY RequestsTakeBlocks, PagingAssumption
<1>2. x = np + nf + nt + 2 * ns + tb /\ directory_blocks = tb + ns
  BY DEF load_blocks, directory_blocks
<1> HIDE DEF np, nf, nt, ns, tb, x
<1>3. x \in Nat /\ np + nf + nt + ns + directory_blocks = x
  BY <1>1, <1>2
<1>4. MaxLoads \in Nat \ {0} /\ TotalEntries \in Nat /\ MaxLoads * x <= TotalEntries
  BY LoadsFit, ConfigAssumption DEF x
<1>5. Share \in Nat /\ r \in 0 .. (MaxLoads - 1) /\ TotalEntries = Share * MaxLoads + r
  BY <1>4, DivModNat DEF Share
<1> HIDE DEF r
<1>6. ~(Share + 1 <= x)
  <2> SUFFICES ASSUME Share + 1 <= x PROVE FALSE
    OBVIOUS
  <2>1. (Share + 1) * MaxLoads <= x * MaxLoads
    BY <1>3, <1>4, <1>5, MulMono
  <2>2. (Share + 1) * MaxLoads = Share * MaxLoads + MaxLoads
        /\ x * MaxLoads = MaxLoads * x /\ Share * MaxLoads \in Nat
    BY <1>3, <1>4, <1>5
  <2> DEFINE sm == Share * MaxLoads
             xm == MaxLoads * x
  <2>3. sm + MaxLoads <= xm /\ sm \in Nat /\ xm <= TotalEntries /\ TotalEntries = sm + r
    BY <1>4, <1>5, <2>1, <2>2
  <2>4. xm \in Nat
    BY <1>3, <1>4
  <2> HIDE DEF sm, xm
  <2>5. QED
    BY <1>4, <1>5, <2>3, <2>4
<1>7. x <= Share
  <2>1. x \in Nat /\ Share \in Nat
    BY <1>3, <1>5
  <2>2. QED
    BY <1>6, <2>1
<1>8. QED
  BY <1>3, <1>5, <1>7 DEF np, nf, nt, ns

LEMMA SharesFit ==
  ASSUME NEW n \in 1 .. MaxLoads
  PROVE  /\ Share \in Nat /\ n * Share \in Nat /\ (n - 1) * Share \in Nat
         /\ (n - 1) * Share + Share = n * Share
         /\ n * Share <= TotalEntries
<1>1. MaxLoads \in Nat \ {0} /\ TotalEntries \in Nat
  BY LoadsFit, ConfigAssumption
<1>2. Share \in Nat /\ Share * MaxLoads <= TotalEntries
  BY <1>1, QuotientBound DEF Share
<1>3. n \in Nat /\ n - 1 \in Nat /\ n <= MaxLoads
  BY <1>1
<1>4. n * Share <= MaxLoads * Share
  BY <1>1, <1>2, <1>3, MulMono
<1>5. /\ n * Share \in Nat /\ (n - 1) * Share \in Nat /\ MaxLoads * Share = Share * MaxLoads
      /\ Share * MaxLoads \in Nat
  BY <1>1, <1>2, <1>3
<1>6. (n - 1) * Share + Share = n * Share
  <2> DEFINE k == n - 1
  <2>1. k \in Nat /\ n = k + 1
    BY <1>3
  <2> HIDE DEF k
  <2>2. (k + 1) * Share = k * Share + Share
    BY <1>2, <2>1
  <2>3. QED
    BY <2>1, <2>2 DEF k
<1> DEFINE a == n * Share
           b == MaxLoads * Share
<1>7. a <= b /\ b <= TotalEntries /\ a \in Nat /\ b \in Nat
  BY <1>2, <1>4, <1>5
<1> HIDE DEF a, b
<1>8. a <= TotalEntries
  BY <1>1, <1>7
<1>9. QED
  BY <1>2, <1>5, <1>6, <1>8 DEF a

----------------------------------------------------------------------------
(* Steps.                                                                  *)

LEMMA SameForward == list' = list => Forward' = Forward /\ TaskSet' = TaskSet
BY DEF Forward, TaskSet

\* The page holds bytes of the program of the process structure.
Shows(proc, page) ==
  /\ proc.phys_mem <= page
  /\ page * BlockSize < proc.phys_mem * BlockSize + proc.size

(* User code writes to its own image if every entry that lets it write was *)
(* there before or shows the image, and no process with a task on the list *)
(* changes its program.                                                    *)
LEMMA WritesAfter ==
  ASSUME UserWritesOwnImage,
         \A t \in TaskSet', d \in Idx, i \in Idx :
           UserWritable \subseteq chunks'[page_directory'[t]].entries[d][i].flags =>
             \/ /\ t \in TaskSet
                /\ chunks'[page_directory'[t]].entries[d][i]
                      = chunks[page_directory[t]].entries[d][i]
             \/ \E p \in LiveProcs' :
                  /\ procs'[p].task = t
                  /\ Shows(procs'[p], chunks'[page_directory'[t]].entries[d][i].page),
         \A p \in LiveProcs : procs[p].task \in TaskSet' =>
           /\ p \in LiveProcs'
           /\ procs'[p].task = procs[p].task
           /\ procs'[p].phys_mem = procs[p].phys_mem
           /\ procs'[p].size = procs[p].size
  PROVE  UserWritesOwnImage'
<1> SUFFICES ASSUME NEW t \in TaskSet', NEW d \in Idx, NEW i \in Idx,
                    UserWritable \subseteq chunks'[page_directory'[t]].entries[d][i].flags
             PROVE  \E p \in LiveProcs' :
                      /\ procs'[p].task = t
                      /\ Shows(procs'[p], chunks'[page_directory'[t]].entries[d][i].page)
  BY DEF UserWritesOwnImage, TaskSet, InImage, Shows
<1>1. CASE /\ t \in TaskSet
           /\ chunks'[page_directory'[t]].entries[d][i] = chunks[page_directory[t]].entries[d][i]
  <2>1. UserWritable \subseteq chunks[page_directory[t]].entries[d][i].flags
    BY <1>1
  <2>2. PICK p \in LiveProcs : /\ procs[p].task = t
                               /\ InImage(p, chunks[page_directory[t]].entries[d][i].page)
    BY <1>1, <2>1 DEF UserWritesOwnImage, TaskSet
  <2>3. /\ p \in LiveProcs' /\ procs'[p].task = t
        /\ procs'[p].phys_mem = procs[p].phys_mem
        /\ procs'[p].size = procs[p].size
    BY <2>2
  <2>4. Shows(procs'[p], chunks'[page_directory'[t]].entries[d][i].page)
    BY <1>1, <2>2, <2>3 DEF InImage, Shows
  <2>5. QED
    BY <2>3, <2>4
<1>2. QED
  BY <1>1

(* In particular if no page directory changes.                             *)
LEMMA WritesKept ==
  ASSUME UserWritesOwnImage, TaskSet' \subseteq TaskSet,
         \A t \in TaskSet' : chunks'[page_directory'[t]].entries
                               = chunks[page_directory[t]].entries,
         \A p \in LiveProcs : procs[p].task \in TaskSet' =>
           /\ p \in LiveProcs'
           /\ procs'[p].task = procs[p].task
           /\ procs'[p].phys_mem = procs[p].phys_mem
           /\ procs'[p].size = procs[p].size
  PROVE  UserWritesOwnImage'
<1>1. \A t \in TaskSet', d \in Idx, i \in Idx :
        /\ t \in TaskSet
        /\ chunks'[page_directory'[t]].entries[d][i] = chunks[page_directory[t]].entries[d][i]
  OBVIOUS
<1>2. QED
  BY <1>1, WritesAfter

LEMMA InitInv == Init => Inv
<1> SUFFICES ASSUME Init PROVE Inv
  OBVIOUS
<1> USE ConfigAssumption, LoadsFit
<1>1. Holds(list, << >>)
  BY DEF Init, EmptyList, Holds, ListType, Distinct, Chained, Addrs, null
<1>2. Forward = << >>
  <2>1. Len(<< >>) < MaxLoads + 1 /\ MaxLoads + 1 \in Nat
    OBVIOUS
  <2>2. QED
    BY <1>1, <2>1, WalksOfList DEF Forward
<1>3. TaskSet = {}
  BY <1>2 DEF TaskSet, ToSet
<1>4. LiveProcs = {}
  BY DEF LiveProcs, Init, NoCall, null
<1>5. TypeInv
  BY DEF TypeInv, Init, NoCall, CallType, Addrs, null
<1>6. ListInv
  BY <1>1, <1>2 DEF ListInv, Init, NoCall, Loading
<1>7. PhaseInv
  BY DEF PhaseInv, Init, NoCall, Loading
<1>8. TaskInv
  BY <1>3, <1>4 DEF TaskInv
<1>9. HeapInv
  BY DEF HeapInv, Below, Init
<1>10. AccountInv
  BY <1>3, <1>4 DEF AccountInv, Accounted, AllocatedIn, Init
<1>11. UserWritesOwnImage
  BY <1>3 DEF UserWritesOwnImage, TaskSet
<1>12. QED
  BY <1>5, <1>6, <1>7, <1>8, <1>9, <1>10, <1>11 DEF Inv

(* A load that takes no blocks.                                            *)
LEMMA RefusedInv ==
  ASSUME Inv, NEW pid, load_refused(pid)
  PROVE  Inv'
<1>1. /\ call.pc = "idle" /\ loads \in 0 .. (MaxLoads - 1) /\ loads' = loads + 1
      /\ call' = call /\ MaxLoads \in Nat
  BY LoadsFit DEF Inv, TypeInv, load_refused, MayLoad
<1>2. loads' \in 1 .. MaxLoads /\ loads' - 1 = loads /\ loads \in Nat
  BY <1>1
<1>3. UNCHANGED <<fread_ok, heap, lost, list, page_directory, chunks, procs, processes, held, call>>
  BY DEF load_refused
<1>4. Forward' = Forward /\ TaskSet' = TaskSet
  BY <1>3, SameForward
<1>5. TypeInv'
  BY <1>1, <1>2, <1>3 DEF Inv, TypeInv
<1>6. ListInv'
  <2>1. Holds(list, Forward) /\ Len(Forward) <= loads
    BY <1>1 DEF Inv, ListInv, Loading
  <2>2. Len(Forward) <= loads'
    <3>1. Len(Forward) \in Nat
      BY <2>1 DEF Holds
    <3>2. QED
      BY <1>1, <1>2, <2>1, <3>1
  <2>3. ~Loading'
    BY <1>1 DEF Loading
  <2>4. QED
    BY <1>3, <1>4, <2>1, <2>2, <2>3 DEF ListInv
<1>7. PhaseInv'
  BY <1>3 DEF Inv, PhaseInv, Loading
<1>8. LiveProcs' = LiveProcs
  BY <1>3 DEF LiveProcs
<1>9. TaskInv'
  BY <1>3, <1>4, <1>8 DEF Inv, TaskInv
<1>10. HeapInv'
  <2>1. Below(heap, loads * Share)
    BY <1>1 DEF Inv, HeapInv, Top
  <2>2. loads * Share \in Nat /\ loads' * Share \in Nat /\ Share \in Nat
        /\ loads * Share + Share = loads' * Share
    BY <1>2, SharesFit
  <2> DEFINE a == loads * Share
             b == loads' * Share
  <2>3. a \in Nat /\ b \in Nat /\ a <= b
    <3> HIDE DEF a, b
    <3>1. a \in Nat /\ b \in Nat /\ a + Share = b /\ Share \in Nat
      BY <2>2 DEF a, b
    <3>2. QED
      BY <3>1
  <2> HIDE DEF a, b
  <2>4. Below(heap, b)
    BY <2>1, <2>3, BelowMono DEF a
  <2>5. QED
    BY <1>1, <1>3, <2>4 DEF HeapInv, Top, b
<1>11. AccountInv'
  <2>1. Own' = Own /\ Oft' = Oft
    BY <1>3, <1>4, <1>8 DEF Own, Oft, OwnBlocks, OfTask
  <2>2. QED
    BY <1>3, <1>4, <1>8, <2>1 DEF Inv, AccountInv
<1>12. UserWritesOwnImage'
  BY <1>3, <1>4, <1>8, WritesKept DEF Inv
<1>13. QED
  BY <1>5, <1>6, <1>7, <1>9, <1>10, <1>11, <1>12 DEF Inv

(* A process in use is itself an allocated block.                          *)
LEMMA LiveAllocated ==
  ASSUME TypeInv, AccountInv
  PROVE  /\ LiveProcs \subseteq DOMAIN procs
         /\ \A p \in LiveProcs : p \in OwnBlocks(p) /\ p \in AllocatedIn(heap)
         /\ \A t \in TaskSet : OfTask(t) \subseteq AllocatedIn(heap)
<1>1. LiveProcs \subseteq DOMAIN procs
  BY DEF TypeInv, LiveProcs
<1>2. /\ \A p \in LiveProcs : OwnBlocks(p) \subseteq AllocatedIn(heap)
      /\ \A t \in TaskSet : OfTask(t) \subseteq AllocatedIn(heap)
  <2>1. /\ \A p \in LiveProcs : Own[p] \subseteq AllocatedIn(heap)
        /\ \A t \in TaskSet : Oft[t] \subseteq AllocatedIn(heap)
    BY OwnedAllocated DEF AccountInv
  <2>2. QED
    BY <2>1 DEF Own, Oft
<1>3. \A p \in LiveProcs : p \in OwnBlocks(p)
  BY <1>1 DEF OwnBlocks, TypeInv, Tasks
<1>4. QED
  BY <1>1, <1>2, <1>3

(* load_process has made the process structure.                            *)
LEMMA LoadInv ==
  ASSUME Inv, NEW pid \in pids \cup {MAX_PROCESSES}, NEW file \in Files,
         load_process(pid, file)
  PROVE  Inv'
<1> DEFINE new == kzalloc(heap, sizeof_process)
           a   == new.addr
           np  == num_blocks(sizeof_process)
           low == loads * Share
<1>1. /\ call.pc = "idle" /\ loads \in 0 .. (MaxLoads - 1) /\ loads' = loads + 1
      /\ MaxLoads \in Nat /\ call.proc = null
  BY LoadsFit DEF Inv, TypeInv, load_process, MayLoad
<1>2. loads' \in 1 .. MaxLoads /\ loads' - 1 = loads /\ loads \in Nat
  BY <1>1
<1>3. /\ heap' = new.heap
      /\ procs' = With(procs, a, init_process)
      /\ call' = [pc |-> "load", pid |-> pid, file |-> file, proc |-> a, result |-> 0]
      /\ UNCHANGED <<fread_ok, lost, list, page_directory, chunks, processes, held>>
  BY DEF load_process
<1>4. Grown(heap, new, low + np)
  <2>1. Below(heap, low)
    BY <1>1 DEF Inv, HeapInv, Top
  <2>2. low \in Nat /\ low + Share <= TotalEntries /\ Share \in Nat
    BY <1>2, SharesFit
  <2>3. np \in Nat /\ np <= Share
    <3> DEFINE s == num_blocks(file.size) + num_blocks(PROGRAM_USER_PROGRAM_STACK_SIZE)
                      + num_blocks(sizeof_struct) + directory_blocks
    <3>1. np \in Nat /\ s \in Nat
      BY RequestsTakeBlocks
    <3>2. np + s <= Share
      BY RequestsTakeBlocks, LoadWithinShare
    <3> HIDE DEF np, s
    <3>3. QED
      BY <2>2, <3>1, <3>2
  <2> HIDE DEF low, np
  <2>4. low + np <= TotalEntries
    BY <2>2, <2>3, ConfigAssumption
  <2>5. QED
    BY <2>1, <2>2, <2>4, Requests, AllocationGrows DEF np
<1> HIDE DEF new, np, low
<1>5. /\ Below(heap', low + np) /\ a \in Tasks /\ a \in Addrs /\ a # null
      /\ a \notin AllocatedIn(heap) /\ AllocatedIn(heap') = AllocatedIn(heap) \cup {a}
  BY <1>3, <1>4 DEF Grown, Tasks
<1>6. LiveProcs = held /\ LiveProcs' = held \cup {a}
  BY <1>1, <1>3, <1>5 DEF LiveProcs
<1>7. TypeInv /\ AccountInv
  BY DEF Inv
<1>8. held \subseteq DOMAIN procs /\ a \notin held
  BY <1>5, <1>6, <1>7, LiveAllocated
<1>9. /\ procs'[a] = init_process
      /\ DOMAIN procs' = DOMAIN procs \cup {a}
      /\ \A p \in held : procs'[p] = procs[p]
  BY <1>3, <1>8 DEF With
<1>10. Forward' = Forward /\ TaskSet' = TaskSet
  BY <1>3, SameForward
<1>11. TypeInv'
  <2>1. call' \in CallType /\ call'.pc = "load" /\ call'.proc = a /\ call'.file = file
    BY <1>3, <1>5 DEF CallType
  <2>2. procs' \in [DOMAIN procs' -> ProcType]
    <3>1. init_process \in ProcType
      BY ConfigAssumption DEF init_process, ProcType, Addrs, null
    <3>2. QED
      BY <1>3, <1>7, <3>1 DEF With, TypeInv
  <2>3. DOMAIN procs' \subseteq Tasks /\ held' \subseteq DOMAIN procs'
    BY <1>3, <1>5, <1>7, <1>8, <1>9 DEF TypeInv
  <2>4. QED
    BY <1>2, <1>3, <1>5, <1>7, <1>8, <1>9, <2>1, <2>2, <2>3 DEF TypeInv
<1>12. ListInv'
  BY <1>1, <1>2, <1>3, <1>10 DEF Inv, ListInv, Loading
<1>13. PhaseInv'
  BY <1>3, <1>9 DEF PhaseInv, Loading, init_process
<1>14. TaskInv'
  <2>1. \A p \in LiveProcs' : p = a \/ (p \in LiveProcs /\ procs'[p] = procs[p])
    BY <1>6, <1>9
  <2>2. procs'[a].task = null
    BY <1>9 DEF init_process
  <2>3. QED
    BY <1>3, <1>10, <2>1, <2>2 DEF Inv, TaskInv
<1>15. HeapInv'
  BY <1>2, <1>3, <1>5 DEF HeapInv, Top, Spent, low, np
<1>16. AccountInv'
  <2> DEFINE mid == [p \in held \cup {a} |-> IF p = a THEN {} ELSE Own[p]]
  <2>1. Accounted(held, Own, TaskSet, Oft, lost, AllocatedIn(heap))
    BY <1>6, <1>7 DEF AccountInv
  <2>2. mid[a] = {} /\ \A r \in held : mid[r] = Own[r]
    BY <1>8
  <2> HIDE DEF mid
  <2>3. Accounted(held \cup {a}, mid, TaskSet, Oft, lost, AllocatedIn(heap))
    BY <1>8, <2>1, <2>2, OwnerEnters
  <2>4. /\ Own'[a] = {a}
        /\ \A r \in held : Own'[r] = Own[r]
    BY <1>5, <1>6, <1>9 DEF Own, OwnBlocks, init_process
  <2>5. /\ Own'[a] = mid[a] \cup {a}
        /\ \A r \in held \cup {a} : r # a => Own'[r] = mid[r]
    BY <2>2, <2>4
  <2>6. {a} \cap AllocatedIn(heap) = {} /\ a \in held \cup {a}
    BY <1>5
  <2>7. Accounted(held \cup {a}, Own', TaskSet, Oft, lost, AllocatedIn(heap) \cup {a})
    BY <2>3, <2>5, <2>6, OwnerGrows
  <2>8. Oft' = Oft
    BY <1>3, <1>10 DEF Oft, OfTask
  <2>9. QED
    BY <1>3, <1>5, <1>6, <1>10, <2>7, <2>8 DEF AccountInv
<1>17. UserWritesOwnImage'
  <2>1. TaskSet' \subseteq TaskSet /\ chunks' = chunks /\ page_directory' = page_directory
    BY <1>3, <1>10
  <2>2. \A p \in LiveProcs : p \in LiveProcs' /\ procs'[p] = procs[p]
    BY <1>6, <1>9
  <2>3. QED
    BY <2>1, <2>2, WritesKept DEF Inv
<1>18. QED
  BY <1>11, <1>12, <1>13, <1>14, <1>15, <1>16, <1>17 DEF Inv

(* What the steps of a load have taken stays within its share.             *)
LEMMA RoomInLoad ==
  ASSUME TypeInv, call.pc # "idle"
  PROVE  /\ loads \in 1 .. MaxLoads
         /\ Share \in Nat
         /\ (loads - 1) * Share \in Nat
         /\ loads * Share \in Nat
         /\ (loads - 1) * Share + Share = loads * Share
         /\ (loads - 1) * Share + Share <= TotalEntries
         /\ num_blocks(sizeof_process) \in Nat
         /\ num_blocks(call.file.size) \in Nat
         /\ num_blocks(PROGRAM_USER_PROGRAM_STACK_SIZE) \in Nat
         /\ num_blocks(sizeof_struct) \in Nat
         /\ directory_blocks \in Nat
         /\ num_blocks(sizeof_process) + num_blocks(call.file.size)
              + num_blocks(PROGRAM_USER_PROGRAM_STACK_SIZE)
              + num_blocks(sizeof_struct) + directory_blocks <= Share
<1>1. loads \in 1 .. MaxLoads /\ call.file \in Files
  BY LoadsFit DEF TypeInv
<1>2. QED
  BY <1>1, SharesFit, LoadWithinShare, RequestsTakeBlocks

\* The record of load_process after Finish, and after a step.
Finished(c, r) == [c EXCEPT !.pc = "out", !.result = r]
Moved(c, step) == [c EXCEPT !.pc = step]

LEMMA CallFinished ==
  ASSUME NEW c \in CallType, NEW r \in Int
  PROVE  /\ Finished(c, r) \in CallType
         /\ Finished(c, r).pc = "out" /\ Finished(c, r).result = r
         /\ Finished(c, r).pid = c.pid /\ Finished(c, r).file = c.file
         /\ Finished(c, r).proc = c.proc
<1> DEFINE P == pids \cup {0, MAX_PROCESSES}
           F == Files \cup {NoCall.file}
<1> HIDE DEF P, F
<1>1. CallType = [pc : {"idle", "load", "stack", "task", "map", "out"}, pid : P,
                  file : F, proc : Addrs, result : Int]
  BY DEF CallType, P, F
<1>2. c.pid \in P /\ c.file \in F /\ c.proc \in Addrs
  BY <1>1
<1>3. ASSUME NEW d, d = [c EXCEPT !.pc = "out", !.result = r]
      PROVE  d = [pc |-> "out", pid |-> c.pid, file |-> c.file, proc |-> c.proc, result |-> r]
  BY <1>1, <1>3
<1>4. Finished(c, r)
        = [pc |-> "out", pid |-> c.pid, file |-> c.file, proc |-> c.proc, result |-> r]
  BY <1>3, Zenon DEF Finished
<1>5. QED
  BY <1>1, <1>2, <1>4

LEMMA CallMoved ==
  ASSUME NEW c \in CallType, NEW step \in {"stack", "task", "map"}
  PROVE  /\ Moved(c, step) \in CallType
         /\ Moved(c, step).pc = step /\ Moved(c, step).pid = c.pid
         /\ Moved(c, step).file = c.file /\ Moved(c, step).proc = c.proc
BY DEF CallType, Moved

(* The blocks X go to the process c.                                       *)
LEMMA ProcessGains ==
  ASSUME AccountInv, NEW c \in LiveProcs, NEW X, X \cap AllocatedIn(heap) = {},
         LiveProcs' = LiveProcs, TaskSet' = TaskSet, Oft' = Oft, lost' = lost,
         AllocatedIn(heap') = AllocatedIn(heap) \cup X,
         Own'[c] = Own[c] \cup X, \A r \in LiveProcs : r # c => Own'[r] = Own[r]
  PROVE  AccountInv'
<1>1. Accounted(LiveProcs, Own, TaskSet, Oft, lost, AllocatedIn(heap))
  BY DEF AccountInv
<1>2. Accounted(LiveProcs, Own', TaskSet, Oft, lost, AllocatedIn(heap) \cup X)
  BY <1>1, OwnerGrows
<1>3. QED
  BY <1>2 DEF AccountInv

(* The process that is being loaded, still without a task, gets a block.   *)
LEMMA GrowProcess ==
  ASSUME Inv, NEW c, c = call.proc, c # null, NEW a \in Tasks,
         a \notin AllocatedIn(heap), AllocatedIn(heap') = AllocatedIn(heap) \cup {a},
         \A p \in DOMAIN procs : p # c => procs'[p] = procs[p],
         procs'[c].task = null, procs[c].task = null,
         ({procs'[c].phys_mem, procs'[c].stack, c} \ {null}) = OwnBlocks(c) \cup {a},
         call'.proc = c, UNCHANGED <<lost, list, page_directory, chunks, held>>
  PROVE  TaskInv' /\ AccountInv' /\ UserWritesOwnImage'
<1>1. TypeInv /\ AccountInv /\ TaskInv /\ UserWritesOwnImage
  BY DEF Inv
<1>2. c \in LiveProcs /\ LiveProcs' = LiveProcs
  BY <1>1 DEF LiveProcs
<1>3. LiveProcs \subseteq DOMAIN procs
  BY <1>1, LiveAllocated
<1>4. \A p \in LiveProcs : p # c => procs'[p] = procs[p]
  BY <1>3
<1>5. Forward' = Forward /\ TaskSet' = TaskSet
  BY SameForward
<1>6. \A p \in LiveProcs : procs'[p].task = procs[p].task
  BY <1>4
<1>7. TaskInv'
  BY <1>1, <1>2, <1>5, <1>6 DEF TaskInv
<1>8. AccountInv'
  <2>1. Own'[c] = Own[c] \cup {a} /\ \A r \in LiveProcs : r # c => Own'[r] = Own[r]
    BY <1>2, <1>4 DEF Own, OwnBlocks
  <2>2. Oft' = Oft
    BY <1>5 DEF Oft, OfTask
  <2>3. {a} \cap AllocatedIn(heap) = {}
    OBVIOUS
  <2>4. QED
    BY <1>1, <1>2, <1>5, <2>1, <2>2, <2>3, ProcessGains
<1>9. UserWritesOwnImage'
  <2>1. null \notin TaskSet
    BY DEF Inv, ListInv, Holds, TaskSet, ToSet, Tasks
  <2>2. \A p \in LiveProcs : procs[p].task \in TaskSet' => p # c
    BY <1>5, <2>1
  <2>3. QED
    BY <1>1, <1>2, <1>4, <1>5, <2>2, WritesKept
<1>10. QED
  BY <1>7, <1>8, <1>9

LEMMA UnusableInv ==
  ASSUME Inv, load_binary_unusable
  PROVE  Inv'
<1>1. /\ call.pc = "load" /\ call' = [call EXCEPT !.pc = "out", !.result = -EINVAL]
      /\ UNCHANGED <<fread_ok, heap, lost, list, page_directory, chunks, procs,
                     processes, held, loads>>
  BY DEF load_binary_unusable, Finish
<1>2. TypeInv /\ call \in CallType /\ -EINVAL \in Int
  BY LoadsFit DEF Inv, TypeInv
<1>3. /\ call' \in CallType /\ call'.pc = "out" /\ call'.proc = call.proc
      /\ call'.file = call.file
  <2>1. call \in CallType /\ -EINVAL \in Int
        /\ call' = Finished(call, -EINVAL)
    BY <1>1, <1>2 DEF Finished
  <2>2. QED
    BY <2>1, CallFinished
<1>4. Forward' = Forward /\ TaskSet' = TaskSet /\ LiveProcs' = LiveProcs
  BY <1>1, <1>3, SameForward DEF LiveProcs
<1>5. TypeInv'
  BY <1>1, <1>2, <1>3 DEF TypeInv
<1>6. ListInv'
  <2>1. Holds(list, Forward) /\ Len(Forward) <= loads - 1 /\ loads \in Nat /\ Len(Forward) \in Nat
    BY <1>1, <1>2, LoadsFit DEF Inv, ListInv, Loading, TypeInv, Holds
  <2>2. QED
    BY <1>1, <1>3, <1>4, <2>1 DEF ListInv, Loading
<1>7. PhaseInv'
  BY <1>3 DEF PhaseInv, Loading
<1>8. TaskInv'
  BY <1>1, <1>4 DEF Inv, TaskInv
<1>9. HeapInv'
  <2> DEFINE low == (loads - 1) * Share
             np  == num_blocks(sizeof_process)
             nf  == num_blocks(call.file.size)
             nt  == num_blocks(PROGRAM_USER_PROGRAM_STACK_SIZE)
             ns  == num_blocks(sizeof_struct)
             nd  == directory_blocks
  <2>1. Below(heap, low + np)
    BY <1>1 DEF Inv, HeapInv, Top, Spent
  <2>2. /\ low \in Nat /\ Share \in Nat /\ np \in Nat /\ nf \in Nat /\ nt \in Nat
        /\ ns \in Nat /\ nd \in Nat /\ np + nf + nt + ns + nd <= Share
    BY <1>1, <1>2, RoomInLoad
  <2> HIDE DEF low, np, nf, nt, ns, nd
  <2>3. low + np \in Nat /\ low + Share \in Nat /\ low + np <= low + Share
    BY <2>2
  <2>4. Below(heap, low + Share)
    BY <2>1, <2>3, BelowMono
  <2>5. QED
    BY <1>1, <1>3, <2>4 DEF HeapInv, Top, Spent, low
<1>10. AccountInv'
  <2>1. Own' = Own /\ Oft' = Oft
    BY <1>1, <1>4 DEF Own, Oft, OwnBlocks, OfTask
  <2>2. QED
    BY <1>1, <1>4, <2>1 DEF Inv, AccountInv
<1>11. UserWritesOwnImage'
  BY <1>1, <1>4, WritesKept DEF Inv
<1>12. QED
  BY <1>5, <1>6, <1>7, <1>8, <1>9, <1>10, <1>11 DEF Inv

\* The process structures after load_binary and after the allocation of the
\* stack.
WithImage(f, c, a, n)   == [f EXCEPT ![c].phys_mem = a, ![c].size = n]
WithStack(f, c, a, pid) == [f EXCEPT ![c].stack = a, ![c].pid = pid]

LEMMA StructureFilled ==
  ASSUME NEW D, NEW f \in [D -> ProcType], NEW c \in D, NEW a \in Addrs
  PROVE  /\ \A n \in Nat :
              /\ WithImage(f, c, a, n) \in [D -> ProcType]
              /\ WithImage(f, c, a, n)[c].phys_mem = a
              /\ WithImage(f, c, a, n)[c].stack = f[c].stack
              /\ WithImage(f, c, a, n)[c].task = f[c].task
              /\ \A p \in D : p # c => WithImage(f, c, a, n)[p] = f[p]
         /\ \A pid \in pids \cup {0, MAX_PROCESSES} :
              /\ WithStack(f, c, a, pid) \in [D -> ProcType]
              /\ WithStack(f, c, a, pid)[c].phys_mem = f[c].phys_mem
              /\ WithStack(f, c, a, pid)[c].stack = a
              /\ WithStack(f, c, a, pid)[c].task = f[c].task
              /\ \A p \in D : p # c => WithStack(f, c, a, pid)[p] = f[p]
<1> DEFINE P == pids \cup {0, MAX_PROCESSES}
<1>1. ProcType = [pid : P, task : Addrs, phys_mem : Addrs, size : Nat, stack : Addrs]
  BY DEF ProcType
<1> HIDE DEF P
<1>2. f[c] \in ProcType
  OBVIOUS
<1>3. ASSUME NEW n \in Nat
      PROVE  /\ WithImage(f, c, a, n) \in [D -> ProcType]
             /\ WithImage(f, c, a, n)[c].phys_mem = a
             /\ WithImage(f, c, a, n)[c].stack = f[c].stack
             /\ WithImage(f, c, a, n)[c].task = f[c].task
             /\ \A p \in D : p # c => WithImage(f, c, a, n)[p] = f[p]
  BY <1>1, <1>2 DEF WithImage
<1>4. ASSUME NEW pid \in P
      PROVE  /\ WithStack(f, c, a, pid) \in [D -> ProcType]
             /\ WithStack(f, c, a, pid)[c].phys_mem = f[c].phys_mem
             /\ WithStack(f, c, a, pid)[c].stack = a
             /\ WithStack(f, c, a, pid)[c].task = f[c].task
             /\ \A p \in D : p # c => WithStack(f, c, a, pid)[p] = f[p]
  BY <1>1, <1>2 DEF WithStack
<1>5. QED
  BY <1>3, <1>4 DEF P

(* load_binary, whether or not the file can be read.                       *)
LEMMA BinaryInv ==
  ASSUME Inv, NEW read, load_binary(read)
  PROVE  Inv'
<1> DEFINE c   == call.proc
           new == kzalloc(heap, call.file.size)
           a   == new.addr
           low == (loads - 1) * Share
           np  == num_blocks(sizeof_process)
           nf  == num_blocks(call.file.size)
           nt  == num_blocks(PROGRAM_USER_PROGRAM_STACK_SIZE)
           ns  == num_blocks(sizeof_struct)
           nd  == directory_blocks
<1>1. /\ call.pc = "load" /\ heap' = new.heap
      /\ UNCHANGED <<fread_ok, list, page_directory, chunks, processes, held, loads>>
  BY DEF load_binary
<1>2. /\ TypeInv /\ AccountInv /\ TaskInv /\ UserWritesOwnImage /\ call \in CallType
      /\ c \in DOMAIN procs /\ c # null /\ c \in LiveProcs /\ c \notin held
      /\ procs \in [DOMAIN procs -> ProcType] /\ DOMAIN procs \subseteq Tasks
  BY <1>1 DEF Inv, TypeInv, LiveProcs
<1>3. procs[c].phys_mem = null /\ procs[c].stack = null /\ procs[c].task = null
  BY <1>1 DEF Inv, PhaseInv, Loading
<1>4. /\ low \in Nat /\ Share \in Nat /\ np \in Nat /\ nf \in Nat /\ nt \in Nat
      /\ ns \in Nat /\ nd \in Nat /\ np + nf + nt + ns + nd <= Share
      /\ low + Share <= TotalEntries
  BY <1>1, <1>2, RoomInLoad
<1>5. Below(heap, low + np)
  BY <1>1 DEF Inv, HeapInv, Top, Spent
<1>6. call.file \in Files /\ call.file.size \in Nat /\ call.file.size + BlockSize < SIZE_MOD
  BY <1>1, <1>2, Requests DEF TypeInv
<1>7. Forward' = Forward /\ TaskSet' = TaskSet
  BY <1>1, SameForward
<1> HIDE DEF low, np, nf, nt, ns, nd
<1>8. /\ low + np \in Nat /\ low + np + nf \in Nat /\ low + np + nf <= TotalEntries
      /\ low + np + nf <= low + Share /\ low + Share \in Nat
      /\ low + (np + nf) = low + np + nf
  BY <1>4, ConfigAssumption
<1>9. Grown(heap, new, low + np + nf)
  <2> DEFINE top == low + np
  <2>1. top \in Nat /\ Below(heap, top) /\ top + nf <= TotalEntries
    BY <1>5, <1>8
  <2> HIDE DEF top
  <2>2. Grown(heap, new, top + nf)
    BY <1>6, <2>1, AllocationGrows DEF nf
  <2>3. QED
    BY <2>2 DEF top
<1> HIDE DEF new
<1>10. /\ Below(heap', low + np + nf) /\ a \in Tasks /\ a \in Addrs /\ a # null
       /\ a \notin AllocatedIn(heap) /\ AllocatedIn(heap') = AllocatedIn(heap) \cup {a}
  BY <1>1, <1>9 DEF Grown, Tasks
<1>11. CASE read = 1
  <2>1. /\ procs' = WithImage(procs, c, a, call.file.size)
        /\ call' = Moved(call, "stack") /\ lost' = lost
    BY <1>11 DEF load_binary, new, WithImage, Moved
  <2>2. /\ procs' \in [DOMAIN procs -> ProcType] /\ procs'[c].phys_mem = a
        /\ procs'[c].stack = null /\ procs'[c].task = null
        /\ \A p \in DOMAIN procs : p # c => procs'[p] = procs[p]
    BY <1>2, <1>3, <1>6, <1>10, <2>1, StructureFilled
  <2>3. /\ call' \in CallType /\ call'.pc = "stack" /\ call'.file = call.file /\ call'.proc = c
    BY <1>2, <2>1, CallMoved
  <2>4. ({procs'[c].phys_mem, procs'[c].stack, c} \ {null}) = OwnBlocks(c) \cup {a}
    BY <1>2, <1>3, <1>10, <2>2 DEF OwnBlocks
  <2> HIDE DEF c
  <2>5. TaskInv' /\ AccountInv' /\ UserWritesOwnImage'
    BY <1>1, <1>2, <1>3, <1>10, <2>1, <2>2, <2>3, <2>4, GrowProcess DEF c
  <2>6. DOMAIN procs' = DOMAIN procs
    BY <2>2
  <2>7. TypeInv'
    BY <1>1, <1>2, <2>1, <2>2, <2>3, <2>6 DEF TypeInv, c
  <2>8. ListInv'
    BY <1>1, <1>7, <2>3 DEF Inv, ListInv, Loading
  <2>9. PhaseInv'
    BY <2>2, <2>3 DEF PhaseInv, Loading
  <2>10. HeapInv'
    <3>1. Top' = low + (np + nf)
      BY <1>1, <2>3 DEF Top, Spent, low, np, nf
    <3>2. QED
      BY <1>8, <1>10, <3>1 DEF HeapInv
  <2>11. QED
    BY <2>5, <2>7, <2>8, <2>9, <2>10 DEF Inv
<1>12. CASE read # 1
  <2>1. /\ call' = Finished(call, -EIO) /\ lost' = lost \cup {a} /\ procs' = procs
    BY <1>12 DEF load_binary, new, Finish, Finished
  <2>2. -EIO \in Int
    BY LoadsFit
  <2>3. /\ call' \in CallType /\ call'.pc = "out" /\ call'.file = call.file /\ call'.proc = c
    BY <1>2, <2>1, <2>2, CallFinished
  <2>4. LiveProcs' = LiveProcs
    BY <1>1, <2>3 DEF LiveProcs
  <2>5. TypeInv'
    BY <1>1, <1>2, <2>1, <2>3 DEF TypeInv
  <2>6. ListInv'
    <3>1. Holds(list, Forward) /\ Len(Forward) <= loads - 1 /\ loads \in Nat /\ Len(Forward) \in Nat
      BY <1>1, <1>2, LoadsFit DEF Inv, ListInv, Loading, TypeInv, Holds
    <3>2. QED
      BY <1>1, <1>7, <2>3, <3>1 DEF ListInv, Loading
  <2>7. PhaseInv'
    BY <2>3 DEF PhaseInv, Loading
  <2>8. TaskInv'
    BY <1>1, <1>2, <1>7, <2>1, <2>4 DEF TaskInv
  <2>9. HeapInv'
    <3>1. Below(heap', low + Share)
      BY <1>8, <1>10, BelowMono
    <3>2. QED
      BY <1>1, <2>3, <3>1 DEF HeapInv, Top, Spent, low
  <2>10. AccountInv'
    <3>1. Own' = Own /\ Oft' = Oft
      BY <1>1, <1>7, <2>1, <2>4 DEF Own, Oft, OwnBlocks, OfTask
    <3> DEFINE X == {a}
    <3>2. X \cap AllocatedIn(heap) = {}
      BY <1>10
    <3> HIDE DEF X
    <3>3. Accounted(LiveProcs, Own, TaskSet, Oft, lost \cup X, AllocatedIn(heap) \cup X)
      BY <1>2, <3>2, LostGrows DEF AccountInv
    <3>4. QED
      BY <1>7, <1>10, <2>1, <2>4, <3>1, <3>3 DEF AccountInv, X
  <2>11. UserWritesOwnImage'
    BY <1>1, <1>2, <1>7, <2>1, <2>4, WritesKept
  <2>12. QED
    BY <2>5, <2>6, <2>7, <2>8, <2>9, <2>10, <2>11 DEF Inv
<1>13. QED
  BY <1>11, <1>12

(* The stack of the process.                                               *)
LEMMA StackInv ==
  ASSUME Inv, AllocStack
  PROVE  Inv'
<1> DEFINE c   == call.proc
           new == kzalloc(heap, PROGRAM_USER_PROGRAM_STACK_SIZE)
           a   == new.addr
           low == (loads - 1) * Share
           np  == num_blocks(sizeof_process)
           nf  == num_blocks(call.file.size)
           nt  == num_blocks(PROGRAM_USER_PROGRAM_STACK_SIZE)
           ns  == num_blocks(sizeof_struct)
           nd  == directory_blocks
<1>1. /\ call.pc = "stack" /\ heap' = new.heap
      /\ procs' = WithStack(procs, c, a, call.pid)
      /\ call' = Moved(call, "task")
      /\ UNCHANGED <<fread_ok, lost, list, page_directory, chunks, processes, held, loads>>
  BY DEF AllocStack, Moved, WithStack
<1>2. /\ TypeInv /\ call \in CallType
      /\ c \in DOMAIN procs /\ c # null /\ c \in LiveProcs /\ c \notin held
      /\ procs \in [DOMAIN procs -> ProcType] /\ DOMAIN procs \subseteq Tasks
  BY <1>1 DEF Inv, TypeInv, LiveProcs
<1>3. procs[c].stack = null /\ procs[c].task = null
  BY <1>1 DEF Inv, PhaseInv, Loading
<1>4. /\ low \in Nat /\ Share \in Nat /\ np \in Nat /\ nf \in Nat /\ nt \in Nat
      /\ ns \in Nat /\ nd \in Nat /\ np + nf + nt + ns + nd <= Share
      /\ low + Share <= TotalEntries
  BY <1>1, <1>2, RoomInLoad
<1>5. Below(heap, low + (np + nf))
  BY <1>1 DEF Inv, HeapInv, Top, Spent
<1>6. Forward' = Forward /\ TaskSet' = TaskSet
  BY <1>1, SameForward
<1> HIDE DEF low, np, nf, nt, ns, nd
<1> DEFINE top == low + (np + nf)
<1>7. /\ top \in Nat /\ top + nt <= TotalEntries /\ top + nt = low + (np + nf + nt)
  BY <1>4, ConfigAssumption
<1> HIDE DEF top
<1>8. Grown(heap, new, top + nt)
  BY <1>5, <1>7, Requests, AllocationGrows DEF nt, top
<1> HIDE DEF new
<1>9. /\ Below(heap', top + nt) /\ a \in Tasks /\ a \in Addrs /\ a # null
      /\ a \notin AllocatedIn(heap) /\ AllocatedIn(heap') = AllocatedIn(heap) \cup {a}
  BY <1>1, <1>8 DEF Grown, Tasks
<1>10. call.pid \in pids \cup {0, MAX_PROCESSES}
  BY <1>2 DEF CallType
<1>11. /\ procs' \in [DOMAIN procs -> ProcType] /\ procs'[c].phys_mem = procs[c].phys_mem
       /\ procs'[c].stack = a /\ procs'[c].task = null
       /\ \A p \in DOMAIN procs : p # c => procs'[p] = procs[p]
  BY <1>1, <1>2, <1>3, <1>9, <1>10, StructureFilled
<1>12. /\ call' \in CallType /\ call'.pc = "task" /\ call'.file = call.file /\ call'.proc = c
  BY <1>1, <1>2, CallMoved
<1>13. ({procs'[c].phys_mem, procs'[c].stack, c} \ {null}) = OwnBlocks(c) \cup {a}
  BY <1>2, <1>3, <1>9, <1>11 DEF OwnBlocks
<1> HIDE DEF c
<1>14. TaskInv' /\ AccountInv' /\ UserWritesOwnImage'
  BY <1>1, <1>2, <1>3, <1>9, <1>11, <1>12, <1>13, GrowProcess DEF c
<1>15. TypeInv'
  <2>1. DOMAIN procs' = DOMAIN procs
    BY <1>11
  <2>2. QED
    BY <1>1, <1>2, <1>11, <1>12, <2>1 DEF TypeInv, c
<1>16. ListInv'
  BY <1>1, <1>6, <1>12 DEF Inv, ListInv, Loading
<1>17. PhaseInv'
  BY <1>11, <1>12 DEF PhaseInv, Loading
<1>18. HeapInv'
  <2>1. Top' = low + (np + nf + nt)
    BY <1>1, <1>12 DEF Top, Spent, low, np, nf, nt
  <2>2. QED
    BY <1>7, <1>9, <2>1 DEF HeapInv
<1>19. QED
  BY <1>14, <1>15, <1>16, <1>17, <1>18 DEF Inv

\* The process structures after new_task.
WithTask(f, c, t) == [f EXCEPT ![c].task = t]

LEMMA TaskFilled ==
  ASSUME NEW D, NEW f \in [D -> ProcType], NEW c \in D, NEW t \in Addrs
  PROVE  /\ WithTask(f, c, t) \in [D -> ProcType]
         /\ WithTask(f, c, t)[c].task = t
         /\ WithTask(f, c, t)[c].phys_mem = f[c].phys_mem
         /\ WithTask(f, c, t)[c].size = f[c].size
         /\ WithTask(f, c, t)[c].stack = f[c].stack
         /\ \A p \in D : p # c => WithTask(f, c, t)[p] = f[p]
<1> DEFINE P == pids \cup {0, MAX_PROCESSES}
<1>1. ProcType = [pid : P, task : Addrs, phys_mem : Addrs, size : Nat, stack : Addrs]
  BY DEF ProcType
<1> HIDE DEF P
<1>2. f[c] \in ProcType
  OBVIOUS
<1>3. QED
  BY <1>1, <1>2 DEF WithTask

(* The addresses of a task on the list are allocated, its own included.    *)
LEMMA TaskAllocated ==
  ASSUME TypeInv, AccountInv, NEW s \in TaskSet
  PROVE  s \in AllocatedIn(heap) /\ page_directory[s] \in AllocatedIn(heap)
BY LiveAllocated DEF OfTask

(* A task whose blocks are new is linked.                                  *)
LEMMA TaskGained ==
  ASSUME AccountInv, NEW t, t \notin TaskSet, NEW X, X \cap AllocatedIn(heap) = {},
         LiveProcs' = LiveProcs, TaskSet' = TaskSet \cup {t}, lost' = lost,
         AllocatedIn(heap') = AllocatedIn(heap) \cup X,
         \A p \in LiveProcs : Own'[p] = Own[p],
         Oft'[t] = X, \A s \in TaskSet : Oft'[s] = Oft[s]
  PROVE  AccountInv'
<1>1. Accounted(LiveProcs, Own, TaskSet, Oft, lost, AllocatedIn(heap))
  BY DEF AccountInv
<1>2. Accounted(LiveProcs, Own, TaskSet \cup {t}, Oft', lost, AllocatedIn(heap) \cup X)
  BY <1>1, TaskEnters
<1>3. Accounted(LiveProcs, Own', TaskSet \cup {t}, Oft', lost, AllocatedIn(heap) \cup X)
  BY <1>2, AccountedSame
<1>4. QED
  BY <1>3 DEF AccountInv

(* What new_task takes from the heap: the task, and what paging_new takes. *)
LEMMA NewTaskBlocks ==
  ASSUME Inv, call.pc = "task",
         NEW task, task = kzalloc(heap, sizeof_struct),
         NEW flags, NEW new, new = paging_new(task.heap, flags)
  PROVE  /\ Below(new.heap, (loads - 1) * Share + Share)
         /\ task.addr \in Tasks /\ new.addr \in Tasks
         /\ new.chunk.entries = identity(flags)
         /\ identity(flags) \in Entries => new.chunk \in ChunkType
         /\ ({task.addr} \cup BlocksOf(new.addr, new.chunk)) \cap AllocatedIn(heap) = {}
         /\ AllocatedIn(new.heap)
              = AllocatedIn(heap) \cup ({task.addr} \cup BlocksOf(new.addr, new.chunk))
<1> DEFINE low == (loads - 1) * Share
           np  == num_blocks(sizeof_process)
           nf  == num_blocks(call.file.size)
           nt  == num_blocks(PROGRAM_USER_PROGRAM_STACK_SIZE)
           ns  == num_blocks(sizeof_struct)
           nd  == directory_blocks
           top == low + (np + nf + nt)
           mid == top + ns
<1>1. TypeInv
  BY DEF Inv
<1>2. /\ low \in Nat /\ Share \in Nat /\ np \in Nat /\ nf \in Nat /\ nt \in Nat
      /\ ns \in Nat /\ nd \in Nat /\ np + nf + nt + ns + nd <= Share
      /\ low + Share <= TotalEntries
  BY <1>1, RoomInLoad
<1>3. Below(heap, top)
  BY DEF Inv, HeapInv, Top, Spent
<1> HIDE DEF low, np, nf, nt, ns, nd
<1>4. /\ top \in Nat /\ mid \in Nat /\ mid <= TotalEntries /\ mid + nd <= TotalEntries
      /\ mid + nd \in Nat /\ low + Share \in Nat /\ mid + nd <= low + Share
  BY <1>2, ConfigAssumption
<1> HIDE DEF top
<1>5. Grown(heap, task, mid)
  BY <1>3, <1>4, Requests, AllocationGrows DEF ns
<1> HIDE DEF mid
<1>6. Below(task.heap, mid)
  BY <1>5 DEF Grown
<1>7. DirectoryMade(task.heap, new, mid + nd, flags)
  BY <1>4, <1>6, NewDirectory DEF nd
<1>8. Below(new.heap, low + Share)
  BY <1>4, <1>7, BelowMono DEF DirectoryMade
<1>9. /\ task.addr \in Tasks /\ task.addr \notin AllocatedIn(heap)
      /\ AllocatedIn(task.heap) = AllocatedIn(heap) \cup {task.addr}
  BY <1>5 DEF Grown
<1>10. /\ ({task.addr} \cup BlocksOf(new.addr, new.chunk)) \cap AllocatedIn(heap) = {}
       /\ AllocatedIn(new.heap)
            = AllocatedIn(heap) \cup ({task.addr} \cup BlocksOf(new.addr, new.chunk))
  <2> DEFINE A == AllocatedIn(heap)
             M == AllocatedIn(task.heap)
             N == AllocatedIn(new.heap)
             B == BlocksOf(new.addr, new.chunk)
             t == task.addr
  <2>1. B \cap M = {} /\ N = M \cup B /\ t \notin A /\ M = A \cup {t}
    BY <1>7, <1>9 DEF DirectoryMade
  <2> HIDE DEF A, M, N, B, t
  <2>2. ({t} \cup B) \cap A = {} /\ N = A \cup ({t} \cup B)
    BY <2>1
  <2>3. QED
    BY <2>2 DEF A, M, N, B, t
<1>11. QED
  BY <1>7, <1>8, <1>9, <1>10 DEF low, DirectoryMade

(* new_task, for the first task and for a later one.                       *)
LEMMA NewTaskInv ==
  ASSUME Inv, new_task
  PROVE  Inv' /\ \E t \in Tasks : t \notin TaskSet /\ Forward' = Append(Forward, t)
<1> DEFINE c     == call.proc
           task  == kzalloc(heap, sizeof_struct)
           flags == {PAGING_IS_PRESENT, PAGING_ACCESS_FROM_ALL}
           new   == paging_new(task.heap, flags)
           t     == task.addr
           X     == {t} \cup BlocksOf(new.addr, new.chunk)
           got   == linked_task(list, t)
<1>1. /\ call.pc = "task" /\ heap' = new.heap
      /\ chunks' = With(chunks, new.addr, new.chunk)
      /\ page_directory' = With(page_directory, t, new.addr)
      /\ list' = link_task(list, t)
      /\ procs' = WithTask(procs, c, got)
      /\ UNCHANGED <<fread_ok, lost, processes, held, loads>>
  BY DEF new_task, WithTask
<1>2. call' = IF got = null THEN Finished(call, 0) ELSE Moved(call, "map")
  BY DEF new_task, Finish, Finished, Moved
<1>3. /\ TypeInv /\ AccountInv /\ TaskInv /\ UserWritesOwnImage /\ call \in CallType
      /\ c \in DOMAIN procs /\ c # null /\ c \in LiveProcs /\ c \notin held
      /\ procs \in [DOMAIN procs -> ProcType]
  BY <1>1 DEF Inv, TypeInv, LiveProcs
<1>4. procs[c].task = null
  BY <1>1 DEF Inv, PhaseInv, Loading
<1>5. /\ Below(heap', (loads - 1) * Share + Share)
      /\ t \in Tasks /\ new.addr \in Tasks
      /\ new.chunk.entries = identity(flags)
      /\ identity(flags) \in Entries => new.chunk \in ChunkType
      /\ X \cap AllocatedIn(heap) = {}
      /\ AllocatedIn(heap') = AllocatedIn(heap) \cup X
  <2> HIDE DEF task, flags
  <2>1. task = kzalloc(heap, sizeof_struct)
    BY DEF task
  <2>2. QED
    BY <1>1, <2>1, NewTaskBlocks
<1> HIDE DEF task, new
<1>6. t \in Addrs /\ t # null /\ t \notin AllocatedIn(heap) /\ new.addr \notin AllocatedIn(heap)
  BY <1>5 DEF BlocksOf, Tasks
<1>7. /\ t \notin TaskSet
      /\ \A s \in TaskSet : s # t /\ page_directory[s] # new.addr
  BY <1>3, <1>6, TaskAllocated
<1>8. /\ Holds(list, Forward) /\ Len(Forward) <= loads - 1 /\ loads \in 1 .. MaxLoads
      /\ Len(Forward) \in Nat /\ Forward \in Seq(Tasks) /\ MaxLoads \in Nat
  BY <1>1, <1>3, LoadsFit DEF Inv, ListInv, Loading, TypeInv, Holds
<1>9. \A i \in 1 .. Len(Forward) : Forward[i] # t
  BY <1>7 DEF TaskSet, ToSet
<1>10. Holds(list', Append(Forward, t))
  BY <1>1, <1>5, <1>8, <1>9, LinkTask
<1>11. Len(Append(Forward, t)) = Len(Forward) + 1
  BY <1>5, <1>8
<1>12. Forward' = Append(Forward, t)
  <2>1. MaxLoads + 1 \in Nat /\ Len(Append(Forward, t)) < MaxLoads + 1
    BY <1>8, <1>11
  <2>2. Walk(list'.head, list'.next, MaxLoads + 1) = Append(Forward, t)
    BY <1>10, <2>1, WalksOfList
  <2>3. QED
    BY <2>2 DEF Forward
<1>13. TaskSet' = TaskSet \cup {t}
  BY <1>5, <1>8, <1>12, ToSetAppend DEF TaskSet
<1>14. got \in Addrs /\ (got = null \/ got = t)
  BY <1>6, ConfigAssumption DEF linked_task, Addrs, null
<1> HIDE DEF got
<1>15. /\ procs' \in [DOMAIN procs -> ProcType]
       /\ procs'[c].task = got
       /\ procs'[c].phys_mem = procs[c].phys_mem
       /\ procs'[c].size = procs[c].size
       /\ procs'[c].stack = procs[c].stack
       /\ \A p \in DOMAIN procs : p # c => procs'[p] = procs[p]
  BY <1>1, <1>3, <1>14, TaskFilled
<1>16. /\ call' \in CallType /\ call'.file = call.file /\ call'.proc = c
       /\ call'.pc = IF got = null THEN "out" ELSE "map"
  <2>1. CASE got = null
    BY <1>2, <1>3, <2>1, CallFinished
  <2>2. CASE got # null
    BY <1>2, <1>3, <2>2, CallMoved
  <2>3. QED
    BY <2>1, <2>2
<1>17. LiveProcs' = LiveProcs /\ LiveProcs \subseteq DOMAIN procs
  BY <1>1, <1>3, <1>16, LiveAllocated DEF LiveProcs
<1>18. /\ DOMAIN page_directory' = DOMAIN page_directory \cup {t} /\ page_directory'[t] = new.addr
       /\ \A s \in DOMAIN page_directory : s # t => page_directory'[s] = page_directory[s]
       /\ DOMAIN chunks' = DOMAIN chunks \cup {new.addr} /\ chunks'[new.addr] = new.chunk
       /\ \A x \in DOMAIN chunks : x # new.addr => chunks'[x] = chunks[x]
  BY <1>1 DEF With
<1>19. \A s \in TaskSet : /\ s \in DOMAIN page_directory /\ page_directory[s] \in DOMAIN chunks
                          /\ page_directory'[s] = page_directory[s]
                          /\ chunks'[page_directory'[s]] = chunks[page_directory[s]]
  BY <1>3, <1>7, <1>18 DEF TaskInv
<1>20. identity(flags) \in Entries /\ \A d, i \in Idx : identity(flags)[d][i].flags = flags
  BY IdentityEntries
<1>21. TypeInv'
  <2>1. DOMAIN procs' = DOMAIN procs
    BY <1>15
  <2>2. page_directory' \in [DOMAIN page_directory' -> Tasks]
    BY <1>1, <1>3, <1>5 DEF With, TypeInv
  <2>3. new.chunk \in ChunkType
    BY <1>5, <1>20
  <2>4. chunks' \in [DOMAIN chunks' -> ChunkType]
    BY <1>1, <1>3, <2>3 DEF With, TypeInv
  <2>5. QED
    BY <1>1, <1>3, <1>15, <1>16, <2>1, <2>2, <2>4 DEF TypeInv
<1>22. ListInv'
  <2>1. ~Loading'
    BY <1>16 DEF Loading
  <2>2. QED
    BY <1>1, <1>8, <1>10, <1>11, <1>12, <2>1 DEF ListInv
<1>23. PhaseInv'
  BY <1>15, <1>16 DEF PhaseInv, Loading
<1>24. TaskInv'
  <2>1. \A s \in TaskSet' : s \in DOMAIN page_directory' /\ page_directory'[s] \in DOMAIN chunks'
    BY <1>13, <1>18, <1>19
  <2>2. \A p \in LiveProcs : p # c => procs'[p] = procs[p] /\ procs[p].task # t
    BY <1>3, <1>6, <1>7, <1>15, <1>17 DEF TaskInv
  <2>3. \A p \in LiveProcs' : procs'[p].task # null => procs'[p].task \in TaskSet'
    BY <1>3, <1>13, <1>14, <1>15, <1>17, <2>2 DEF TaskInv
  <2>4. \A p, r \in LiveProcs' :
          procs'[p].task = procs'[r].task /\ procs'[p].task # null => p = r
    BY <1>3, <1>14, <1>15, <1>17, <2>2 DEF TaskInv
  <2>5. QED
    BY <2>1, <2>3, <2>4 DEF TaskInv
<1>25. HeapInv'
  <2>1. Top' = (loads - 1) * Share + Share
    BY <1>1, <1>16 DEF Top, Spent
  <2>2. QED
    BY <1>5, <2>1 DEF HeapInv
<1>26. AccountInv'
  <2>1. \A p \in LiveProcs : Own'[p] = Own[p]
    BY <1>15, <1>17 DEF Own, OwnBlocks
  <2>2. \A s \in TaskSet : Oft'[s] = Oft[s]
    BY <1>13, <1>19 DEF Oft, OfTask
  <2>3. Oft'[t] = X
    BY <1>13, <1>18 DEF Oft, OfTask, BlocksOf
  <2> HIDE DEF t, X
  <2>4. QED
    BY <1>1, <1>3, <1>5, <1>7, <1>13, <1>17, <2>1, <2>2, <2>3, TaskGained
<1>27. UserWritesOwnImage'
  <2>1. ASSUME NEW s \in TaskSet', NEW d \in Idx, NEW i \in Idx,
               UserWritable \subseteq chunks'[page_directory'[s]].entries[d][i].flags
        PROVE  /\ s \in TaskSet
               /\ chunks'[page_directory'[s]].entries[d][i]
                     = chunks[page_directory[s]].entries[d][i]
    <3>1. CASE s = t
      <4>1. chunks'[page_directory'[s]].entries = identity(flags)
        <5>1. new.chunk.entries = identity(flags)
          BY <1>5
        <5>2. chunks'[page_directory'[s]] = new.chunk
          BY <1>18, <3>1
        <5>3. QED
          BY <5>1, <5>2
      <4>2. UserWritable \subseteq flags
        BY <1>20, <2>1, <4>1
      <4>3. QED
        BY <4>2 DEF UserWritable, PAGING_IS_PRESENT, PAGING_IS_WRITABLE, PAGING_ACCESS_FROM_ALL
    <3>2. CASE s \in TaskSet
      BY <1>19, <3>2
    <3>3. QED
      BY <1>13, <3>1, <3>2
  <2>2. null \notin TaskSet'
    <3>1. null \notin TaskSet
      BY DEF Inv, ListInv, Holds, TaskSet, ToSet, Tasks
    <3>2. QED
      BY <1>6, <1>13, <3>1
  <2>3. \A p \in LiveProcs : procs[p].task \in TaskSet' =>
           p \in LiveProcs' /\ procs'[p] = procs[p]
    BY <1>4, <1>15, <1>17, <2>2
  <2>4. QED
    BY <1>3, <2>1, <2>3, WritesAfter
<1>28. QED
  BY <1>5, <1>7, <1>12, <1>21, <1>22, <1>23, <1>24, <1>25, <1>26, <1>27 DEF Inv

\* The page directories after paging_map.
WithEntries(f, x, e) == [f EXCEPT ![x].entries = e]

LEMMA EntriesFilled ==
  ASSUME NEW D, NEW f \in [D -> ChunkType], NEW x \in D, NEW e \in Entries
  PROVE  /\ WithEntries(f, x, e) \in [D -> ChunkType]
         /\ WithEntries(f, x, e)[x].entries = e
         /\ WithEntries(f, x, e)[x].directory = f[x].directory
         /\ WithEntries(f, x, e)[x].tables = f[x].tables
         /\ \A y \in D : y # x => WithEntries(f, x, e)[y] = f[y]
<1> DEFINE S == Seq(Tasks)
<1>1. ChunkType = [directory : Tasks, tables : S, entries : Entries]
  BY DEF ChunkType
<1> HIDE DEF S
<1>2. f[x] \in ChunkType
  OBVIOUS
<1>3. QED
  BY <1>1, <1>2 DEF WithEntries

(* No two tasks share a page directory.                                    *)
LEMMA OwnDirectories ==
  ASSUME AccountInv, NEW s \in TaskSet, NEW t \in TaskSet, page_directory[s] = page_directory[t]
  PROVE  s = t
<1>1. s # t => Oft[s] \cap Oft[t] = {}
  BY DEF AccountInv, Accounted
<1>2. page_directory[s] \in Oft[s] /\ page_directory[t] \in Oft[t]
  BY DEF Oft, OfTask
<1>3. QED
  BY <1>1, <1>2

(* mmap_process, whether or not the binary can be mapped.                  *)
LEMMA MapInv ==
  ASSUME Inv, mmap_process
  PROVE  Inv'
<1> DEFINE c      == call.proc
           proc   == procs[c]
           t      == proc.task
           pd     == page_directory[t]
           phys   == proc.phys_mem * BlockSize
           flags  == {PAGING_IS_PRESENT, PAGING_ACCESS_FROM_ALL, PAGING_IS_WRITABLE}
           mapped == paging_map(chunks[pd].entries, PROGRAM_VIRTUAL_ADDRESS, phys,
                                paging_align(phys + proc.size), flags)
<1>1. /\ call.pc = "map"
      /\ chunks' = WithEntries(chunks, pd, mapped.entries)
      /\ call' = Finished(call, mapped.result)
      /\ UNCHANGED <<fread_ok, heap, lost, list, page_directory, procs, held, loads>>
  BY DEF mmap_process, mmap_binary, WithEntries, Finish, Finished
<1>2. /\ TypeInv /\ AccountInv /\ TaskInv /\ UserWritesOwnImage /\ call \in CallType
      /\ c \in DOMAIN procs /\ c # null /\ c \in LiveProcs
      /\ procs \in [DOMAIN procs -> ProcType]
      /\ chunks \in [DOMAIN chunks -> ChunkType]
  BY <1>1 DEF Inv, TypeInv, LiveProcs
<1>3. proc \in ProcType
  BY <1>2
<1>4. proc.phys_mem \in Addrs /\ proc.size \in Nat
  BY <1>3 DEF ProcType
<1>5. t # null /\ t \in TaskSet
  BY <1>1, <1>2 DEF Inv, PhaseInv, TaskInv
<1>6. t \in DOMAIN page_directory /\ pd \in DOMAIN chunks
  BY <1>2, <1>5 DEF TaskInv
<1>7. chunks[pd] \in ChunkType
  BY <1>2, <1>6
<1>8. chunks[pd].entries \in Entries
  BY <1>7 DEF ChunkType
<1>9. flags \in SUBSET {PAGING_IS_PRESENT, PAGING_IS_WRITABLE, PAGING_ACCESS_FROM_ALL}
  OBVIOUS
<1> DEFINE old == chunks[pd].entries
           a   == proc.phys_mem
           n   == proc.size
<1>10. /\ mapped.entries \in Entries
       /\ mapped.result \in Int
       /\ \A d, i \in Idx :
            \/ mapped.entries[d][i] = old[d][i]
            \/ /\ a <= mapped.entries[d][i].page
               /\ mapped.entries[d][i].page * BlockSize < a * BlockSize + n
  <2>1. mapped = paging_map(old, PROGRAM_VIRTUAL_ADDRESS, phys, paging_align(phys + n), flags)
        /\ phys = a * BlockSize
    OBVIOUS
  <2>2. old \in Entries /\ a \in Addrs /\ n \in Nat
    BY <1>4, <1>8
  <2> HIDE DEF mapped, old, phys, a, n, flags
  <2>3. QED
    BY <1>9, <2>1, <2>2, MapBinary
<1> HIDE DEF mapped
<1>11. /\ chunks' \in [DOMAIN chunks -> ChunkType]
       /\ chunks'[pd].entries = mapped.entries
       /\ chunks'[pd].directory = chunks[pd].directory
       /\ chunks'[pd].tables = chunks[pd].tables
       /\ \A y \in DOMAIN chunks : y # pd => chunks'[y] = chunks[y]
  BY <1>1, <1>2, <1>6, <1>10, EntriesFilled
<1>12. DOMAIN chunks' = DOMAIN chunks
  BY <1>11
<1>13. call' \in CallType /\ call'.pc = "out" /\ call'.file = call.file /\ call'.proc = c
  BY <1>1, <1>2, <1>10, CallFinished
<1>14. Forward' = Forward /\ TaskSet' = TaskSet /\ LiveProcs' = LiveProcs
  BY <1>1, <1>13, SameForward DEF LiveProcs
<1>15. \A s \in TaskSet : s # t => page_directory[s] # pd
  BY <1>2, <1>5, OwnDirectories
<1>16. TypeInv'
  BY <1>1, <1>2, <1>11, <1>12, <1>13 DEF TypeInv
<1>17. ListInv'
  BY <1>1, <1>13, <1>14 DEF Inv, ListInv, Loading
<1>18. PhaseInv'
  BY <1>13 DEF PhaseInv, Loading
<1>19. TaskInv'
  BY <1>1, <1>2, <1>12, <1>14 DEF TaskInv
<1>20. HeapInv'
  <2>1. Top' = Top
    BY <1>1, <1>13 DEF Top, Spent
  <2>2. QED
    BY <1>1, <2>1 DEF Inv, HeapInv
<1>21. AccountInv'
  <2>1. Own' = Own
    BY <1>1, <1>14 DEF Own, OwnBlocks
  <2>2. \A s \in TaskSet : OfTask(s)' = OfTask(s)
    BY <1>1, <1>2, <1>11, <1>15 DEF OfTask, TaskInv
  <2>3. Oft' = Oft
    BY <1>14, <2>2 DEF Oft
  <2>4. QED
    BY <1>1, <1>2, <1>14, <2>1, <2>3 DEF AccountInv
<1>22. UserWritesOwnImage'
  <2>1. ASSUME NEW s \in TaskSet', NEW d \in Idx, NEW i \in Idx,
               UserWritable \subseteq chunks'[page_directory'[s]].entries[d][i].flags
        PROVE  \/ /\ s \in TaskSet
                  /\ chunks'[page_directory'[s]].entries[d][i]
                       = chunks[page_directory[s]].entries[d][i]
               \/ \E p \in LiveProcs' :
                    /\ procs'[p].task = s
                    /\ Shows(procs'[p], chunks'[page_directory'[s]].entries[d][i].page)
    <3>1. CASE s # t
      BY <1>1, <1>2, <1>11, <1>14, <1>15, <3>1 DEF TaskInv
    <3>2. CASE s = t
      <4>1. chunks'[page_directory'[s]].entries[d][i] = mapped.entries[d][i]
        BY <1>1, <1>11, <3>2
      <4>2. CASE mapped.entries[d][i] = old[d][i]
        BY <1>1, <1>5, <3>2, <4>1, <4>2
      <4>3. CASE /\ a <= mapped.entries[d][i].page
                 /\ mapped.entries[d][i].page * BlockSize < a * BlockSize + n
        <5>1. Shows(procs'[c], mapped.entries[d][i].page)
          BY <1>1, <4>3 DEF Shows
        <5>2. procs'[c].task = s /\ c \in LiveProcs'
          BY <1>1, <1>2, <1>14, <3>2
        <5>3. QED
          BY <4>1, <5>1, <5>2
      <4>4. QED
        BY <1>10, <4>2, <4>3
    <3>3. QED
      BY <3>1, <3>2
  <2>2. \A p \in LiveProcs : p \in LiveProcs' /\ procs'[p] = procs[p]
    BY <1>1, <1>14
  <2>3. QED
    BY <1>2, <2>1, <2>2, WritesAfter
<1>23. QED
  BY <1>16, <1>17, <1>18, <1>19, <1>20, <1>21, <1>22 DEF Inv

(* Where the allocations end is inside the heap.                           *)
LEMMA TopFits ==
  ASSUME Inv
  PROVE  Top \in Nat /\ Top <= TotalEntries
<1>1. TypeInv /\ loads \in 0 .. MaxLoads /\ MaxLoads \in Nat /\ TotalEntries \in Nat
  BY LoadsFit, ConfigAssumption DEF Inv, TypeInv
<1>2. CASE call.pc = "idle" /\ loads = 0
  <2>1. Share \in Nat
    BY <1>1, LoadsFit, QuotientBound DEF Share
  <2>2. loads * Share = 0
    BY <1>2, <2>1
  <2>3. QED
    BY <1>1, <1>2, <2>2 DEF Top
<1>3. CASE call.pc = "idle" /\ loads # 0
  <2>1. loads \in 1 .. MaxLoads
    BY <1>1, <1>3
  <2>2. loads * Share \in Nat /\ loads * Share <= TotalEntries
    BY <2>1, SharesFit
  <2>3. QED
    BY <1>3, <2>2 DEF Top
<1>4. CASE call.pc # "idle"
  <2> DEFINE low == (loads - 1) * Share
             np  == num_blocks(sizeof_process)
             nf  == num_blocks(call.file.size)
             nt  == num_blocks(PROGRAM_USER_PROGRAM_STACK_SIZE)
             ns  == num_blocks(sizeof_struct)
             nd  == directory_blocks
  <2>1. /\ low \in Nat /\ Share \in Nat /\ np \in Nat /\ nf \in Nat /\ nt \in Nat
        /\ ns \in Nat /\ nd \in Nat /\ np + nf + nt + ns + nd <= Share
        /\ low + Share <= TotalEntries
    BY <1>1, <1>4, RoomInLoad
  <2>2. \/ Spent = np \/ Spent = np + nf \/ Spent = np + nf + nt \/ Spent = Share
    BY DEF Spent
  <2>3. Top = low + Spent
    BY <1>4 DEF Top
  <2> HIDE DEF low, np, nf, nt, ns, nd
  <2>4. Spent \in Nat /\ Spent <= Share
    BY <2>1, <2>2
  <2>5. QED
    BY <1>1, <2>1, <2>3, <2>4
<1>5. QED
  BY <1>2, <1>3, <1>4

(* The tasks that are left when one is taken out.                          *)
LEMMA ToSetRemoved ==
  ASSUME NEW q \in Seq(Tasks), Distinct(q), NEW k \in 1 .. Len(q)
  PROVE  ToSet(RemoveAt(q, k)) = ToSet(q) \ {q[k]}
<1> DEFINE r == RemoveAt(q, k)
<1>1. /\ r \in Seq(Tasks) /\ Len(r) = Len(q) - 1 /\ Len(q) \in Nat
      /\ \A i \in 1 .. (Len(q) - 1) : r[i] = IF i < k THEN q[i] ELSE q[i + 1]
  BY RemovedAt
<1> HIDE DEF r
<1>2. ASSUME NEW x \in ToSet(r) PROVE x \in ToSet(q) \ {q[k]}
  <2>1. PICK i \in 1 .. (Len(q) - 1) : x = r[i]
    BY <1>1 DEF ToSet
  <2>2. PICK j \in 1 .. Len(q) : x = q[j] /\ j # k
    <3>1. CASE i < k
      BY <1>1, <2>1, <3>1
    <3>2. CASE ~(i < k)
      <4>1. i + 1 \in 1 .. Len(q) /\ i + 1 # k /\ x = q[i + 1]
        BY <1>1, <2>1, <3>2
      <4>2. QED
        BY <4>1
    <3>3. QED
      BY <3>1, <3>2
  <2>3. QED
    BY <2>2 DEF Distinct, ToSet
<1>3. ASSUME NEW x \in ToSet(q) \ {q[k]} PROVE x \in ToSet(r)
  <2>1. PICK j \in 1 .. Len(q) : x = q[j] /\ j # k
    BY DEF ToSet
  <2>2. CASE j < k
    <3>1. j \in 1 .. (Len(q) - 1) /\ r[j] = x
      BY <1>1, <2>1, <2>2
    <3>2. QED
      BY <1>1, <3>1 DEF ToSet
  <2>3. CASE j > k
    <3>1. j - 1 \in 1 .. (Len(q) - 1) /\ ~(j - 1 < k) /\ (j - 1) + 1 = j
      BY <1>1, <2>1, <2>3
    <3>2. r[j - 1] = x
      BY <1>1, <2>1, <3>1
    <3>3. QED
      BY <1>1, <3>1, <3>2 DEF ToSet
  <2>4. QED
    BY <1>1, <2>1, <2>2, <2>3
<1>4. QED
  BY <1>2, <1>3 DEF r

(* free_process for a process without a task.                              *)
LEMMA FreeBare ==
  ASSUME Inv, NEW p \in LiveProcs, free_process(p), procs[p].task = null,
         LiveProcs' = LiveProcs \ {p}, lost' = lost
  PROVE  /\ Forward' = Forward /\ Holds(list', Forward')
         /\ page_directory' = page_directory /\ chunks' = chunks
         /\ Below(heap', Top)
         /\ TaskInv' /\ AccountInv' /\ UserWritesOwnImage'
<1>1. /\ heap' = kfree_all(heap, OwnBlocks(p)) /\ procs' = Drop(procs, p)
      /\ UNCHANGED <<list, page_directory, chunks>>
  BY DEF free_process
<1>2. TypeInv /\ ListInv /\ TaskInv /\ AccountInv /\ UserWritesOwnImage /\ Below(heap, Top)
  BY DEF Inv, HeapInv
<1>3. Forward' = Forward /\ TaskSet' = TaskSet /\ Holds(list', Forward')
  BY <1>1, <1>2, SameForward DEF ListInv
<1>4. LiveProcs \subseteq DOMAIN procs
  BY <1>2, LiveAllocated
<1>5. \A r \in LiveProcs' : r # p /\ r \in LiveProcs /\ procs'[r] = procs[r]
  BY <1>1, <1>4 DEF Drop
<1>6. TaskInv'
  BY <1>1, <1>2, <1>3, <1>5 DEF TaskInv
<1>7. Accounted(LiveProcs, Own, TaskSet, Oft, lost, AllocatedIn(heap)) /\ Own[p] = OwnBlocks(p)
  BY <1>2 DEF AccountInv, Own
<1>8. OwnBlocks(p) \in SUBSET AllocatedIn(heap)
  BY <1>7, OwnedAllocated
<1>9. /\ Below(heap', Top)
      /\ AllocatedIn(heap') = AllocatedIn(heap) \ OwnBlocks(p)
  BY <1>1, <1>2, <1>8, TopFits, FreesWhatIsGiven
<1>10. AccountInv'
  <2>1. Accounted(LiveProcs \ {p}, Own, TaskSet, Oft, lost, AllocatedIn(heap) \ Own[p])
    BY <1>7, OwnerLeaves
  <2>2. \A r \in LiveProcs \ {p} : Own'[r] = Own[r]
    BY <1>5 DEF Own, OwnBlocks
  <2>3. \A t \in TaskSet : Oft'[t] = Oft[t]
    BY <1>1, <1>3 DEF Oft, OfTask
  <2>4. Accounted(LiveProcs \ {p}, Own', TaskSet, Oft', lost, AllocatedIn(heap) \ Own[p])
    BY <2>1, <2>2, <2>3, AccountedSame
  <2>5. QED
    BY <1>3, <1>7, <1>9, <2>4 DEF AccountInv
<1>11. UserWritesOwnImage'
  <2>1. null \notin TaskSet
    BY DEF Inv, ListInv, Holds, TaskSet, ToSet, Tasks
  <2>2. \A r \in LiveProcs : procs[r].task \in TaskSet' => r \in LiveProcs' /\ procs'[r] = procs[r]
    BY <1>3, <1>5, <2>1
  <2>3. TaskSet' \subseteq TaskSet /\ chunks' = chunks /\ page_directory' = page_directory
    BY <1>1, <1>3
  <2>4. QED
    BY <1>2, <2>2, <2>3, WritesKept
<1>12. QED
  BY <1>1, <1>3, <1>6, <1>9, <1>10, <1>11

(* free_process for a process with a task: the task leaves the list and    *)
(* its page directory goes with it.                                        *)
LEMMA FreeWithTask ==
  ASSUME Inv, NEW p \in LiveProcs, free_process(p), procs[p].task # null,
         LiveProcs' = LiveProcs \ {p}, lost' = lost
  PROVE  /\ \E k \in 1 .. Len(Forward) : Forward' = RemoveAt(Forward, k)
         /\ Holds(list', Forward') /\ Len(Forward') = Len(Forward) - 1
         /\ page_directory' \in [DOMAIN page_directory' -> Tasks]
         /\ chunks' \in [DOMAIN chunks' -> ChunkType]
         /\ Below(heap', Top)
         /\ TaskInv' /\ AccountInv' /\ UserWritesOwnImage'
<1> DEFINE t  == procs[p].task
           pd == page_directory[t]
<1>1. /\ heap' = kfree_all(heap, free_task(t) \cup OwnBlocks(p)) /\ procs' = Drop(procs, p)
      /\ list' = remove_task(list, t)
      /\ chunks' = Drop(chunks, pd) /\ page_directory' = Drop(page_directory, t)
  BY DEF free_process
<1>2. TypeInv /\ ListInv /\ TaskInv /\ AccountInv /\ UserWritesOwnImage /\ Below(heap, Top)
  BY DEF Inv, HeapInv
<1>3. t \in TaskSet
  BY <1>2 DEF TaskInv
<1>4. /\ Holds(list, Forward) /\ Forward \in Seq(Tasks) /\ Distinct(Forward)
      /\ Len(Forward) \in Nat /\ MaxLoads \in Nat
  BY <1>2, LoadsFit DEF ListInv, Holds
<1>5. PICK k \in 1 .. Len(Forward) : Forward[k] = t
  BY <1>3, <1>4 DEF TaskSet, ToSet
<1> DEFINE q == RemoveAt(Forward, k)
<1>6. Holds(list', q)
  BY <1>1, <1>4, <1>5, RemoveTask
<1>7. Len(q) = Len(Forward) - 1 /\ Len(q) < MaxLoads + 1 /\ MaxLoads + 1 \in Nat
  <2>1. Len(Forward) <= loads /\ loads <= MaxLoads /\ loads \in Nat
    <3>1. loads \in 0 .. MaxLoads
      BY <1>2 DEF TypeInv
    <3>2. Len(Forward) <= loads
      BY <1>2, <1>4, <3>1 DEF ListInv
    <3>3. QED
      BY <1>4, <3>1, <3>2
  <2>2. Len(q) = Len(Forward) - 1
    BY <1>4, RemovedAt
  <2> HIDE DEF q
  <2>3. QED
    BY <1>4, <2>1, <2>2
<1> HIDE DEF q
<1>8. Forward' = q
  <2>1. Walk(list'.head, list'.next, MaxLoads + 1) = q
    BY <1>6, <1>7, WalksOfList
  <2>2. QED
    BY <2>1 DEF Forward
<1>9. TaskSet' = TaskSet \ {t}
  <2>1. ToSet(q) = ToSet(Forward) \ {t}
    BY <1>4, <1>5, ToSetRemoved DEF q
  <2>2. QED
    BY <1>8, <2>1 DEF TaskSet
<1>10. LiveProcs \subseteq DOMAIN procs
  BY <1>2, LiveAllocated
<1>11. \A r \in LiveProcs' : r # p /\ r \in LiveProcs /\ procs'[r] = procs[r] /\ procs[r].task # t
  BY <1>1, <1>2, <1>10 DEF Drop, TaskInv
<1>12. \A s \in TaskSet' : /\ s \in TaskSet /\ s # t
                           /\ s \in DOMAIN page_directory' /\ page_directory'[s] = page_directory[s]
                           /\ page_directory[s] \in DOMAIN chunks /\ page_directory[s] # pd
                           /\ page_directory'[s] \in DOMAIN chunks'
                           /\ chunks'[page_directory'[s]] = chunks[page_directory[s]]
  BY <1>1, <1>2, <1>3, <1>9, OwnDirectories DEF Drop, TaskInv
<1>13. TaskInv'
  <2>1. \A r \in LiveProcs' : procs'[r].task # null => procs'[r].task \in TaskSet'
    BY <1>2, <1>9, <1>11 DEF TaskInv
  <2>2. \A r, s \in LiveProcs' :
          procs'[r].task = procs'[s].task /\ procs'[r].task # null => r = s
    BY <1>2, <1>11 DEF TaskInv
  <2>3. QED
    BY <1>12, <2>1, <2>2 DEF TaskInv
<1>14. /\ page_directory' \in [DOMAIN page_directory' -> Tasks]
       /\ chunks' \in [DOMAIN chunks' -> ChunkType]
  BY <1>1, <1>2 DEF TypeInv, Drop
<1>15. /\ Accounted(LiveProcs, Own, TaskSet, Oft, lost, AllocatedIn(heap))
       /\ Own[p] = OwnBlocks(p) /\ Oft[t] = OfTask(t)
  BY <1>2, <1>3 DEF AccountInv, Own, Oft
<1>16. free_task(t) = OfTask(t)
  BY DEF free_task, paging_free, OfTask
<1>17. free_task(t) \cup OwnBlocks(p) \in SUBSET AllocatedIn(heap)
  BY <1>3, <1>15, <1>16, OwnedAllocated
<1>18. /\ Below(heap', Top)
       /\ AllocatedIn(heap') = AllocatedIn(heap) \ (free_task(t) \cup OwnBlocks(p))
  BY <1>1, <1>2, <1>17, TopFits, FreesWhatIsGiven
<1>19. AccountInv'
  <2>1. Accounted(LiveProcs \ {p}, Own, TaskSet, Oft, lost, AllocatedIn(heap) \ Own[p])
    BY <1>15, OwnerLeaves
  <2>2. Accounted(LiveProcs \ {p}, Own, TaskSet \ {t}, Oft, lost,
                  (AllocatedIn(heap) \ Own[p]) \ Oft[t])
    BY <1>3, <2>1, TaskLeaves
  <2>3. \A r \in LiveProcs \ {p} : Own'[r] = Own[r]
    BY <1>11 DEF Own, OwnBlocks
  <2>4. \A s \in TaskSet \ {t} : Oft'[s] = Oft[s]
    BY <1>9, <1>12 DEF Oft, OfTask
  <2>5. Accounted(LiveProcs \ {p}, Own', TaskSet \ {t}, Oft', lost,
                  (AllocatedIn(heap) \ Own[p]) \ Oft[t])
    BY <2>2, <2>3, <2>4, AccountedSame
  <2>6. AllocatedIn(heap') = (AllocatedIn(heap) \ Own[p]) \ Oft[t]
    BY <1>15, <1>16, <1>18
  <2>7. QED
    BY <1>9, <2>5, <2>6 DEF AccountInv
<1>20. UserWritesOwnImage'
  <2>1. \A r \in LiveProcs : procs[r].task \in TaskSet' => r \in LiveProcs' /\ procs'[r] = procs[r]
    BY <1>9, <1>11
  <2>2. TaskSet' \subseteq TaskSet
        /\ \A s \in TaskSet' : chunks'[page_directory'[s]].entries
                                 = chunks[page_directory[s]].entries
    BY <1>12
  <2>3. QED
    BY <1>2, <2>1, <2>2, WritesKept
<1>21. QED
  BY <1>6, <1>7, <1>8, <1>13, <1>14, <1>18, <1>19, <1>20 DEF q

(* Both cases.                                                             *)
LEMMA FreeProcess ==
  ASSUME Inv, NEW p \in LiveProcs, free_process(p),
         LiveProcs' = LiveProcs \ {p}, lost' = lost
  PROVE  /\ \/ Forward' = Forward
            \/ \E k \in 1 .. Len(Forward) : Forward' = RemoveAt(Forward, k)
         /\ Holds(list', Forward') /\ Len(Forward') <= loads
         /\ page_directory' \in [DOMAIN page_directory' -> Tasks]
         /\ chunks' \in [DOMAIN chunks' -> ChunkType]
         /\ procs' \in [DOMAIN procs' -> ProcType] /\ DOMAIN procs' = DOMAIN procs \ {p}
         /\ Below(heap', Top)
         /\ TaskInv' /\ AccountInv' /\ UserWritesOwnImage'
<1>1. TypeInv /\ ListInv
  BY DEF Inv
<1>2. procs' \in [DOMAIN procs' -> ProcType] /\ DOMAIN procs' = DOMAIN procs \ {p}
  BY <1>1 DEF free_process, Drop, TypeInv
<1>3. Len(Forward) \in Nat /\ loads \in Nat /\ Len(Forward) <= loads
  <2>1. loads \in 0 .. MaxLoads /\ MaxLoads \in Nat
    BY <1>1, LoadsFit DEF TypeInv
  <2>2. Len(Forward) \in Nat
    BY <1>1 DEF ListInv, Holds
  <2>3. QED
    BY <1>1, <2>1, <2>2 DEF ListInv
<1>4. CASE procs[p].task = null
  <2>1. /\ page_directory' \in [DOMAIN page_directory' -> Tasks]
        /\ chunks' \in [DOMAIN chunks' -> ChunkType]
    BY <1>1, <1>4, FreeBare DEF TypeInv
  <2>2. QED
    BY <1>2, <1>3, <1>4, <2>1, FreeBare
<1>5. CASE procs[p].task # null
  <2>1. Len(Forward) - 1 <= loads
    BY <1>3
  <2>2. QED
    BY <1>2, <1>5, <2>1, FreeWithTask
<1>6. QED
  BY <1>4, <1>5

(* A load that failed frees what it took.                                  *)
LEMMA FailedInv ==
  ASSUME Inv, LoadFailed
  PROVE  /\ Inv'
         /\ \/ Forward' = Forward
            \/ \E k \in 1 .. Len(Forward) : Forward' = RemoveAt(Forward, k)
<1> DEFINE c == call.proc
<1>1. /\ call.pc = "out" /\ free_process(c) /\ call' = NoCall
      /\ UNCHANGED <<fread_ok, lost, processes, held, loads>>
  BY DEF LoadFailed
<1>2. /\ TypeInv /\ c \in LiveProcs /\ c \notin held /\ c # null
      /\ held \subseteq DOMAIN procs /\ DOMAIN procs \subseteq Tasks
  BY <1>1 DEF Inv, TypeInv, LiveProcs
<1>3. NoCall.pc = "idle" /\ NoCall.proc = null /\ NoCall \in CallType
  BY ConfigAssumption DEF NoCall, CallType, Addrs, null
<1>4. LiveProcs' = LiveProcs \ {c}
  BY <1>1, <1>2, <1>3 DEF LiveProcs
<1>5. /\ \/ Forward' = Forward
         \/ \E k \in 1 .. Len(Forward) : Forward' = RemoveAt(Forward, k)
      /\ Holds(list', Forward') /\ Len(Forward') <= loads
      /\ page_directory' \in [DOMAIN page_directory' -> Tasks]
      /\ chunks' \in [DOMAIN chunks' -> ChunkType]
      /\ procs' \in [DOMAIN procs' -> ProcType] /\ DOMAIN procs' = DOMAIN procs \ {c}
      /\ Below(heap', Top)
      /\ TaskInv' /\ AccountInv' /\ UserWritesOwnImage'
  BY <1>1, <1>2, <1>4, FreeProcess
<1>6. TypeInv'
  <2>1. held' \subseteq DOMAIN procs' /\ DOMAIN procs' \subseteq Tasks /\ null \notin held'
    BY <1>1, <1>2, <1>5 DEF Tasks
  <2>2. QED
    BY <1>1, <1>2, <1>3, <1>5, <2>1 DEF TypeInv
<1>7. ListInv' /\ PhaseInv'
  BY <1>1, <1>3, <1>5 DEF ListInv, PhaseInv, Loading
<1>8. HeapInv'
  <2>1. (loads - 1) * Share + Share = loads * Share
    BY <1>1, <1>2, RoomInLoad
  <2>2. Top' = Top
    BY <1>1, <1>3, <2>1 DEF Top, Spent
  <2>3. QED
    BY <1>5, <2>2 DEF HeapInv
<1>9. QED
  BY <1>5, <1>6, <1>7, <1>8 DEF Inv

(* A caller gives a process back.                                          *)
LEMMA ReleaseInv ==
  ASSUME Inv, NEW p \in held, ReleaseProcess(p)
  PROVE  /\ Inv'
         /\ \/ Forward' = Forward
            \/ \E k \in 1 .. Len(Forward) : Forward' = RemoveAt(Forward, k)
<1>1. /\ call.pc = "idle" /\ free_process(p) /\ call' = call /\ held' = held \ {p}
      /\ UNCHANGED <<fread_ok, lost, processes, loads>>
  BY DEF ReleaseProcess
<1>2. /\ TypeInv /\ p \in LiveProcs /\ call.proc = null
      /\ held \subseteq DOMAIN procs /\ DOMAIN procs \subseteq Tasks
  BY <1>1 DEF Inv, TypeInv, LiveProcs
<1>3. LiveProcs' = LiveProcs \ {p}
  BY <1>1, <1>2 DEF LiveProcs
<1>4. /\ \/ Forward' = Forward
         \/ \E k \in 1 .. Len(Forward) : Forward' = RemoveAt(Forward, k)
      /\ Holds(list', Forward') /\ Len(Forward') <= loads
      /\ page_directory' \in [DOMAIN page_directory' -> Tasks]
      /\ chunks' \in [DOMAIN chunks' -> ChunkType]
      /\ procs' \in [DOMAIN procs' -> ProcType] /\ DOMAIN procs' = DOMAIN procs \ {p}
      /\ Below(heap', Top)
      /\ TaskInv' /\ AccountInv' /\ UserWritesOwnImage'
  BY <1>1, <1>2, <1>3, FreeProcess
<1>5. TypeInv'
  <2>1. held' \subseteq DOMAIN procs' /\ DOMAIN procs' \subseteq Tasks
    BY <1>1, <1>2, <1>4
  <2>2. QED
    BY <1>1, <1>2, <1>4, <2>1 DEF TypeInv
<1>6. ListInv' /\ PhaseInv'
  BY <1>1, <1>4 DEF ListInv, PhaseInv, Loading
<1>7. HeapInv'
  <2>1. Top' = Top
    BY <1>1 DEF Top
  <2>2. QED
    BY <1>4, <2>1 DEF HeapInv
<1>8. QED
  BY <1>4, <1>5, <1>6, <1>7 DEF Inv

(* load_process returns 0 or a pointer: the process is held, or lost.      *)
LEMMA ReturnedInv ==
  ASSUME Inv, LoadReturned
  PROVE  Inv' /\ Forward' = Forward
<1> DEFINE c == call.proc
<1>1. /\ call.pc = "out" /\ call' = NoCall
      /\ UNCHANGED <<fread_ok, heap, list, page_directory, chunks, procs, processes, loads>>
  BY DEF LoadReturned
<1>2. /\ TypeInv /\ TaskInv /\ AccountInv /\ UserWritesOwnImage
      /\ c \in LiveProcs /\ c \notin held /\ c # null /\ c \in DOMAIN procs
      /\ held \subseteq DOMAIN procs /\ DOMAIN procs \subseteq Tasks
  BY <1>1 DEF Inv, TypeInv, LiveProcs
<1>3. NoCall.pc = "idle" /\ NoCall.proc = null /\ NoCall \in CallType
  BY ConfigAssumption DEF NoCall, CallType, Addrs, null
<1>4. Forward' = Forward /\ TaskSet' = TaskSet
  BY <1>1, SameForward
<1>5. held' \subseteq held \cup {c}
  BY DEF LoadReturned
<1>6. TypeInv'
  <2>1. held' \subseteq DOMAIN procs' /\ null \notin held'
    BY <1>1, <1>2, <1>5 DEF Tasks
  <2>2. QED
    BY <1>1, <1>2, <1>3, <2>1 DEF TypeInv
<1>7. ListInv'
  BY <1>1, <1>3, <1>4 DEF Inv, ListInv, Loading
<1>8. PhaseInv'
  BY <1>1, <1>3 DEF PhaseInv, Loading
<1>9. HeapInv'
  <2>1. (loads - 1) * Share + Share = loads * Share
    BY <1>1, <1>2, RoomInLoad
  <2>2. Top' = Top
    BY <1>1, <1>3, <2>1 DEF Top, Spent
  <2>3. QED
    BY <1>1, <2>2 DEF Inv, HeapInv
<1>10. LiveProcs' \subseteq LiveProcs
  BY <1>1, <1>2, <1>3, <1>5 DEF LiveProcs
<1>11. TaskInv'
  BY <1>1, <1>2, <1>4, <1>10 DEF TaskInv
<1>12. CASE procs[c].task = null
  <2>1. lost' = lost \cup OwnBlocks(c) /\ held' = held
    BY <1>12 DEF LoadReturned
  <2>2. LiveProcs' = LiveProcs \ {c}
    BY <1>1, <1>2, <1>3, <2>1 DEF LiveProcs
  <2>3. AccountInv'
    <3>1. /\ Accounted(LiveProcs, Own, TaskSet, Oft, lost, AllocatedIn(heap))
          /\ Own[c] = OwnBlocks(c)
      BY <1>2 DEF AccountInv, Own
    <3>2. Accounted(LiveProcs \ {c}, Own, TaskSet, Oft, lost \cup Own[c], AllocatedIn(heap))
      BY <1>2, <3>1, OwnerLeaves
    <3>3. /\ \A r \in LiveProcs \ {c} : Own'[r] = Own[r]
          /\ \A t \in TaskSet : Oft'[t] = Oft[t]
      BY <1>1, <1>4, <2>2 DEF Own, OwnBlocks, Oft, OfTask
    <3>4. Accounted(LiveProcs \ {c}, Own', TaskSet, Oft', lost \cup Own[c], AllocatedIn(heap))
      BY <3>2, <3>3, AccountedSame
    <3>5. QED
      BY <1>1, <1>4, <2>1, <2>2, <3>1, <3>4 DEF AccountInv
  <2>4. UserWritesOwnImage'
    <3>1. null \notin TaskSet
      BY DEF Inv, ListInv, Holds, TaskSet, ToSet, Tasks
    <3>2. \A r \in LiveProcs : procs[r].task \in TaskSet' => r \in LiveProcs' /\ procs'[r] = procs[r]
      BY <1>1, <1>4, <1>12, <2>2, <3>1
    <3>3. QED
      BY <1>1, <1>2, <1>4, <3>2, WritesKept
  <2>5. QED
    BY <1>4, <1>6, <1>7, <1>8, <1>9, <1>11, <2>3, <2>4 DEF Inv
<1>13. CASE procs[c].task # null
  <2>1. lost' = lost /\ held' = held \cup {c}
    BY <1>13 DEF LoadReturned
  <2>2. LiveProcs' = LiveProcs
    BY <1>1, <1>2, <1>3, <2>1 DEF LiveProcs
  <2>3. AccountInv'
    <3>1. Own' = Own /\ Oft' = Oft
      BY <1>1, <1>4, <2>2 DEF Own, Oft, OwnBlocks, OfTask
    <3>2. QED
      BY <1>1, <1>2, <1>4, <2>1, <2>2, <3>1 DEF AccountInv
  <2>4. UserWritesOwnImage'
    BY <1>1, <1>2, <1>4, <2>2, WritesKept
  <2>5. QED
    BY <1>4, <1>6, <1>7, <1>8, <1>9, <1>11, <2>3, <2>4 DEF Inv
<1>14. QED
  BY <1>12, <1>13

LEMMA StutterInv ==
  ASSUME Inv, UNCHANGED vars
  PROVE  Inv' /\ Forward' = Forward
<1>1. UNCHANGED <<fread_ok, heap, lost, list, page_directory, chunks, procs, processes, held,
                  call, ret, loads>>
  BY DEF vars
<1>2. Forward' = Forward /\ TaskSet' = TaskSet /\ LiveProcs' = LiveProcs
  BY <1>1, SameForward DEF LiveProcs
<1>3. TypeInv' /\ PhaseInv' /\ TaskInv'
  BY <1>1, <1>2 DEF Inv, TypeInv, PhaseInv, TaskInv, Loading
<1>4. ListInv'
  BY <1>1, <1>2 DEF Inv, ListInv, Loading
<1>5. HeapInv'
  BY <1>1 DEF Inv, HeapInv, Top, Spent
<1>6. AccountInv'
  <2>1. Own' = Own /\ Oft' = Oft
    BY <1>1, <1>2 DEF Own, Oft, OwnBlocks, OfTask
  <2>2. QED
    BY <1>1, <1>2, <2>1 DEF Inv, AccountInv
<1>7. UserWritesOwnImage'
  BY <1>1, <1>2, WritesKept DEF Inv
<1>8. QED
  BY <1>2, <1>3, <1>4, <1>5, <1>6, <1>7 DEF Inv

\* What a step may do to the list: nothing, add a task or take one out.
QueueStep ==
  \/ Forward' = Forward
  \/ \E t \in Tasks : t \notin TaskSet /\ Forward' = Append(Forward, t)
  \/ \E k \in 1 .. Len(Forward) : Forward' = RemoveAt(Forward, k)

LEMMA NextInv == Inv /\ [Next]_vars => Inv' /\ QueueStep
<1> SUFFICES ASSUME Inv, [Next]_vars PROVE Inv' /\ QueueStep
  OBVIOUS
<1>1. ASSUME NEW pid \in pids \cup {MAX_PROCESSES}, load_refused(pid) PROVE Inv' /\ QueueStep
  <2>1. Forward' = Forward
    BY <1>1, SameForward DEF load_refused
  <2>2. QED
    BY <1>1, <2>1, RefusedInv DEF QueueStep
<1>2. ASSUME NEW pid \in pids \cup {MAX_PROCESSES}, NEW file \in Files, load_process(pid, file)
      PROVE  Inv' /\ QueueStep
  <2>1. Forward' = Forward
    BY <1>2, SameForward DEF load_process
  <2>2. QED
    BY <1>2, <2>1, LoadInv DEF QueueStep
<1>3. CASE load_binary_unusable
  <2>1. Forward' = Forward
    BY <1>3, SameForward DEF load_binary_unusable
  <2>2. QED
    BY <1>3, <2>1, UnusableInv DEF QueueStep
<1>4. ASSUME NEW read \in fread_results, load_binary(read) PROVE Inv' /\ QueueStep
  <2>1. Forward' = Forward
    BY <1>4, SameForward DEF load_binary
  <2>2. QED
    BY <1>4, <2>1, BinaryInv DEF QueueStep
<1>5. CASE AllocStack
  <2>1. Forward' = Forward
    BY <1>5, SameForward DEF AllocStack
  <2>2. QED
    BY <1>5, <2>1, StackInv DEF QueueStep
<1>6. CASE new_task
  BY <1>6, NewTaskInv DEF QueueStep
<1>7. CASE mmap_process
  <2>1. Forward' = Forward
    BY <1>7, SameForward DEF mmap_process
  <2>2. QED
    BY <1>7, <2>1, MapInv DEF QueueStep
<1>8. CASE LoadFailed
  BY <1>8, FailedInv DEF QueueStep
<1>9. CASE LoadReturned
  BY <1>9, ReturnedInv DEF QueueStep
<1>10. ASSUME NEW p \in held, ReleaseProcess(p) PROVE Inv' /\ QueueStep
  BY <1>10, ReleaseInv DEF QueueStep
<1>11. CASE UNCHANGED vars
  BY <1>11, StutterInv DEF QueueStep
<1>12. QED
  BY <1>1, <1>2, <1>3, <1>4, <1>5, <1>6, <1>7, <1>8, <1>9, <1>10, <1>11 DEF Next

----------------------------------------------------------------------------
(* The theorems.                                                           *)

(* Every reachable state of load_process and free_process satisfies the    *)
(* inductive invariant.                                                    *)
THEOREM ProcessInvariant == Spec => []Inv
BY InitInv, NextInv, PTL DEF Spec

(* new_task and remove_task keep the list in order in both directions,     *)
(* wherever in the list the task of a failed or released process stands.   *)
THEOREM ProcessListLinked == Spec => []ListLinked
<1>1. Inv => ListLinked
  <2> SUFFICES ASSUME Inv PROVE ListLinked
    OBVIOUS
  <2>1. /\ Holds(list, Forward) /\ Len(Forward) \in Nat /\ loads \in 0 .. MaxLoads
        /\ MaxLoads \in Nat
    BY LoadsFit DEF Inv, TypeInv, ListInv, Holds
  <2>2. Len(Forward) <= loads
    BY <2>1 DEF Inv, ListInv
  <2>3. Len(Forward) < MaxLoads + 1 /\ MaxLoads + 1 \in Nat
    BY <2>1, <2>2
  <2>4. Walk(list.tail, list.prev, MaxLoads + 1) = Reverse(Forward)
    BY <2>1, <2>3, WalksOfList
  <2>5. QED
    BY <2>4 DEF ListLinked, Backward
<1>2. QED
  BY <1>1, ProcessInvariant, PTL

(* Nothing that a process, a task or a page directory in use points to is  *)
(* freed, and nothing is left on the heap but that and what load_binary    *)
(* and the first new_task drop.                                            *)
THEOREM ProcessHeapIsAccounted == Spec => []ProcessHeapAccounted
<1>1. Inv => ProcessHeapAccounted
  <2> SUFFICES ASSUME Inv PROVE ProcessHeapAccounted
    OBVIOUS
  <2> DEFINE P == UNION {Own[p] : p \in LiveProcs}
             T == UNION {Oft[t] : t \in TaskSet}
  <2>1. Accounted(LiveProcs, Own, TaskSet, Oft, lost, AllocatedIn(heap))
    BY DEF Inv, AccountInv
  <2>2. Reachable = P \cup T
    <3>1. \A p \in LiveProcs : Own[p] = OwnBlocks(p)
      BY DEF Own
    <3>2. \A t \in TaskSet : Oft[t] = OfTask(t)
      BY DEF Oft
    <3>3. Reachable = UNION ({OwnBlocks(p) : p \in LiveProcs} \cup {OfTask(t) : t \in TaskSet})
      BY DEF Reachable, TaskSet
    <3>4. QED
      BY <3>1, <3>2, <3>3
  <2>3. AllocatedIn(heap) = P \cup T \cup lost
    BY <2>1 DEF Accounted
  <2>4. P \cap lost = {} /\ T \cap lost = {}
    BY <2>1 DEF Accounted
  <2>5. Allocated = AllocatedIn(heap)
    BY DEF Allocated, AllocatedIn
  <2> HIDE DEF P, T
  <2>6. QED
    BY <2>2, <2>3, <2>4, <2>5 DEF ProcessHeapAccounted
<1>2. QED
  BY <1>1, ProcessInvariant, PTL

(* Whatever the size of the program and wherever its buffer lies, the      *)
(* page directory lets user code write to pages of its own image only.     *)
THEOREM ProcessUserWritesOwnImage == Spec => []UserWritesOwnImage
<1>1. Inv => UserWritesOwnImage
  BY DEF Inv
<1>2. QED
  BY <1>1, ProcessInvariant, PTL

(* The linked tasks implement the queue: each step of load_process or      *)
(* free_process adds one task at the end, takes one out, or leaves the     *)
(* list as it is.                                                          *)
THEOREM ProcessImplementsTaskQueue == Spec => ImplementsTaskQueue
<1>1. Init => Queue!Init
  <2> SUFFICES ASSUME Init PROVE Forward = << >>
    BY DEF Queue!Init
  <2>1. Holds(list, << >>)
    BY ConfigAssumption DEF Init, EmptyList, Holds, ListType, Distinct, Chained, Addrs, null
  <2>2. Len(<< >>) < MaxLoads + 1 /\ MaxLoads + 1 \in Nat
    BY LoadsFit
  <2>3. QED
    BY <2>1, <2>2, WalksOfList DEF Forward
<1>2. Inv /\ [Next]_vars => [Queue!Next]_Forward
  <2> SUFFICES ASSUME Inv, QueueStep PROVE [Queue!Next]_Forward
    BY NextInv
  <2>1. CASE Forward' = Forward
    BY <2>1
  <2>2. ASSUME NEW t \in Tasks, t \notin TaskSet, Forward' = Append(Forward, t)
        PROVE  Queue!Next
    <3>1. t \in Addrs
      BY DEF Tasks
    <3>2. Queue!Add(t)
      BY <2>2 DEF Queue!Add, TaskSet, ToSet, Queue!ToSet
    <3>3. QED
      BY <3>1, <3>2 DEF Queue!Next
  <2>3. ASSUME NEW k \in 1 .. Len(Forward), Forward' = RemoveAt(Forward, k)
        PROVE  Queue!Next
    <3>1. Forward \in Seq(Tasks)
      BY DEF Inv, ListInv, Holds
    <3>2. Forward[k] \in Addrs /\ k \in DOMAIN Forward
      BY <3>1 DEF Tasks
    <3>3. Queue!Take(Forward[k])
      BY <2>3, <3>2 DEF Queue!Take, RemoveAt, Queue!RemoveAt
    <3>4. QED
      BY <3>2, <3>3 DEF Queue!Next
  <2>4. QED
    BY <2>1, <2>2, <2>3 DEF QueueStep
<1>3. QED
  BY <1>1, <1>2, ProcessInvariant, PTL DEF Spec, ImplementsTaskQueue, Queue!Spec

============================================================================
