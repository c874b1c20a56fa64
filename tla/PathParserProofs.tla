-------------------------- MODULE PathParserProofs --------------------------
(***************************************************************************)
(* What parse makes of a path and what free gives back, for every set of   *)
(* characters, every path over it and every size of the heap.              *)
(***************************************************************************)
EXTENDS PathParser, Numbers, FiniteSetTheorems, SequenceTheorems

(* The names that are not null, by index.                                  *)
Named(ps) == {i \in 1 .. Len(ps) : ps[i] # NullName}

(* The heap and the list: nothing is held before create_root and after     *)
(* free, and in between all that is held is the list, unless a request was *)
(* made of a full heap.                                                    *)
Held ==
  /\ pc = "parse" => root = "null" /\ parts = << >> /\ used = 0 /\ ~aliased
  /\ pc \in {"first", "parts"} => root = "root"
  /\ pc = "first" => parts = << >>
  /\ pc = "freed" => root = "null"
  /\ root = "root" => /\ HeldBy(parts) <= used
                      /\ ~aliased => used = HeldBy(parts)
                      /\ aliased => used = HeapCapacity
  /\ root = "null" /\ ~aliased => used = 0

(* The components that start before t are in the list.                     *)
Before(p, t) == {b \in Starts(p) : b < t}

PartsUpTo(p, ps, t) ==
  /\ t = Len(p) + 1 \/ p[t - 1] = "/"
  /\ Len(ps) = Cardinality(Before(p, t))
  /\ \A i \in 1 .. Len(ps) :
       \E b \in Starts(p) :
         Rank(p, b) = i /\ \E e \in Ends(p, b) : ps[i] = SubSeq(p, b, e)

(* Behind the drive the parser has met an empty component, at which it     *)
(* stays; or the path was a bare drive; or the list is right so far.       *)
Parsed ==
  /\ pc \in {"first", "parts"} => Len(path) >= 3 /\ path[3] = "/" /\ tmp_path >= 4
  /\ pc = "first" => tmp_path = 4
  /\ pc = "parts" /\ ~aliased =>
       \/ tmp_path # Terminator /\ path[tmp_path] = "/"
       \/ tmp_path = Terminator /\ Starts(path) = {} /\ parts = <<NullName>>
       \/ parts # << >> /\ PartsUpTo(path, parts, tmp_path)

Inv == TypeOK /\ Held /\ Parsed /\ PartsAreComponents

----------------------------------------------------------------------------
(* The end of a component.                                                 *)

(* get_path_part_str stops at the first slash, or at the end.              *)
LEMMA PartEndIs ==
  ASSUME path \in Seq(Chars), NEW t \in 1 .. Terminator
  PROVE  /\ PartEnd(t) \in t .. Terminator
         /\ PartEnd(t) = Terminator \/ path[PartEnd(t)] = "/"
         /\ \A c \in t .. (PartEnd(t) - 1) : path[c] # "/"
<1> DEFINE P(e) == /\ e = Terminator \/ path[e] = "/"
                   /\ \A c \in t .. (e - 1) : path[c] # "/"
           S == {e \in t .. Terminator : e = Terminator \/ path[e] = "/"}
<1>1. Terminator \in Nat /\ t \in Nat /\ t <= Terminator
  BY DEF Terminator
<1>2. S \in SUBSET Nat /\ Terminator \in S
  BY <1>1
<1>3. PICK x \in S : \A y \in S : x <= y
  BY <1>2, LeastNat
<1>4. x \in t .. Terminator /\ P(x)
  <2>1. ASSUME NEW c \in t .. (x - 1) PROVE path[c] # "/"
    BY <1>1, <1>3
  <2>2. QED
    BY <1>3, <2>1
<1>5. PartEnd(t) = CHOOSE e \in t .. Terminator : P(e)
  BY DEF PartEnd
<1> HIDE DEF P
<1>6. PartEnd(t) \in t .. Terminator /\ P(PartEnd(t))
  BY <1>4, <1>5
<1>7. QED
  BY <1>6 DEF P

(* A component that is not empty has a name of characters of the path.     *)
LEMMA NameIs ==
  ASSUME path \in Seq(Chars), NEW t \in 1 .. Len(path), NEW e \in (t + 1) .. Terminator
  PROVE  SubSeq(path, t, e - 1) \in Seq(Chars) /\ SubSeq(path, t, e - 1) # NullName
<1>1. Len(path) \in Nat /\ t \in Nat /\ e - 1 \in t .. Len(path)
  BY DEF Terminator
<1>2. SubSeq(path, t, e - 1) \in Seq(Chars)
  BY <1>1
<1>3. SubSeq(path, t, e - 1)[1] = path[t]
  BY <1>1
<1>4. path[t] \in Chars
  OBVIOUS
<1>5. path[t] # "nullptr" /\ NullName[1] = "nullptr"
  BY <1>4, PathAssumption DEF NullName
<1> HIDE DEF NullName
<1>6. QED
  BY <1>2, <1>3, <1>5

(* What free gives back grows with the list.                               *)
LEMMA HeldByAppend ==
  ASSUME NEW T, NEW ps \in Seq(T), NEW name \in T
  PROVE  /\ HeldBy(ps) \in Nat \ {0}
         /\ HeldBy(Append(ps, name)) = HeldBy(ps) + IF name = NullName THEN 1 ELSE 2
<1> DEFINE qs == Append(ps, name)
           n == Len(ps) + 1
<1>1. Len(ps) \in Nat /\ Len(qs) = n /\ qs[n] = name /\ \A i \in 1 .. Len(ps) : qs[i] = ps[i]
  OBVIOUS
<1>2. IsFiniteSet(Named(ps))
  <2>1. IsFiniteSet(1 .. Len(ps))
    BY <1>1, FS_Interval
  <2>2. QED
    BY <2>1, FS_Subset DEF Named
<1>3. Cardinality(Named(ps)) \in Nat
  BY <1>2, FS_CardinalityType
<1>4. Named(qs) = IF name = NullName THEN Named(ps) ELSE Named(ps) \cup {n}
  <2> HIDE DEF qs
  <2>1. \A i : i \in 1 .. n <=> i \in 1 .. Len(ps) \/ i = n
    BY <1>1
  <2> HIDE DEF n
  <2>2. QED
    BY <1>1, <2>1 DEF Named
<1>5. n \notin Named(ps)
  BY <1>1 DEF Named
<1>6. Cardinality(Named(qs)) = Cardinality(Named(ps)) + IF name = NullName THEN 0 ELSE 1
  <2>1. CASE name = NullName
    BY <1>3, <1>4, <2>1
  <2>2. CASE name # NullName
    <3> HIDE DEF n, qs
    <3>1. Cardinality(Named(ps) \cup {n}) = Cardinality(Named(ps)) + 1
      BY <1>2, <1>5, FS_AddElement
    <3>2. QED
      BY <1>4, <2>2, <3>1
  <2>3. QED
    BY <2>1, <2>2
<1>7. /\ HeldBy(ps) = 1 + Len(ps) + Cardinality(Named(ps))
      /\ HeldBy(qs) = 1 + Len(qs) + Cardinality(Named(qs))
  BY DEF HeldBy, Named
<1> HIDE DEF qs
<1>8. QED
  BY <1>1, <1>3, <1>6, <1>7 DEF qs

----------------------------------------------------------------------------
(* The components of a path.                                               *)

LEMMA StartsFinite ==
  ASSUME NEW p \in Seq(Chars)
  PROVE  IsFiniteSet(Starts(p)) /\ \A T \in SUBSET Starts(p) : IsFiniteSet(T)
<1>1. IsFiniteSet(4 .. Len(p))
  BY FS_Interval
<1>2. IsFiniteSet(Starts(p))
  BY <1>1, FS_Subset DEF Starts
<1>3. QED
  BY <1>2, FS_Subset

(* Components are numbered in the order in which they start.               *)
LEMMA RankIsInjective ==
  ASSUME NEW p \in Seq(Chars), NEW a \in Starts(p), NEW b \in Starts(p),
         Rank(p, a) = Rank(p, b)
  PROVE  a = b
<1>1. ASSUME NEW x \in Starts(p), NEW y \in Starts(p), x < y, Rank(p, x) = Rank(p, y)
      PROVE  FALSE
  <2> DEFINE S == {z \in Starts(p) : z <= y}
             T == {z \in Starts(p) : z <= x}
  <2>1. x \in Int /\ y \in Int /\ \A z \in Starts(p) : z \in Int
    BY DEF Starts
  <2>2. T \in SUBSET S
    <3>1. ASSUME NEW z \in T PROVE z \in S
      BY <1>1, <2>1
    <3>2. QED
      BY <3>1
  <2>3. y \in S /\ y \notin T
    BY <1>1, <2>1
  <2>4. IsFiniteSet(S)
    BY StartsFinite
  <2>5. Cardinality(S) = Cardinality(T)
    BY <1>1 DEF Rank
  <2> HIDE DEF S, T
  <2>6. QED
    BY <2>2, <2>3, <2>4, <2>5, FS_Subset
<1>2. a \in Int /\ b \in Int
  BY DEF Starts
<1>3. QED
  BY <1>1, <1>2

(* A component ends in one place.                                          *)
LEMMA EndIsUnique ==
  ASSUME NEW p \in Seq(Chars), NEW b \in Starts(p), NEW d \in Ends(p, b), NEW e \in Ends(p, b)
  PROVE  d = e
<1>1. b \in Int /\ d \in Int /\ e \in Int /\ Len(p) \in Nat
  BY DEF Starts, Ends
<1>2. ASSUME NEW x \in Ends(p, b), NEW y \in Ends(p, b), x \in Int, y \in Int, x < y
      PROVE  FALSE
  <2>1. x + 1 \in b .. y /\ x # Len(p)
    BY <1>1, <1>2 DEF Ends
  <2>2. p[x + 1] = "/"
    BY <2>1 DEF Ends
  <2>3. QED
    BY <2>1, <2>2 DEF Ends
<1>3. QED
  BY <1>1, <1>2

(* A list that has a component for every number is the list of components. *)
LEMMA ComponentsAre ==
  ASSUME NEW p \in Seq(Chars), NEW T, NEW ps \in Seq(T),
         Len(ps) = Cardinality(Starts(p)),
         \A i \in 1 .. Len(ps) :
           \E b \in Starts(p) :
             Rank(p, b) = i /\ \E e \in Ends(p, b) : ps[i] = SubSeq(p, b, e)
  PROVE  ps = Components(p)
<1> DEFINE B(i) == CHOOSE x \in Starts(p) : Rank(p, x) = i
           C(i) == SubSeq(p, B(i), CHOOSE e \in Ends(p, B(i)) : TRUE)
<1>1. ASSUME NEW i \in 1 .. Len(ps) PROVE ps[i] = C(i)
  <2>1. PICK b \in Starts(p) :
          Rank(p, b) = i /\ \E e \in Ends(p, b) : ps[i] = SubSeq(p, b, e)
    OBVIOUS
  <2>2. B(i) \in Starts(p) /\ Rank(p, B(i)) = i
    BY <2>1
  <2> HIDE DEF B
  <2>3. B(i) = b
    BY <2>1, <2>2, RankIsInjective
  <2>4. PICK e \in Ends(p, b) : ps[i] = SubSeq(p, b, e)
    BY <2>1
  <2>5. (CHOOSE d \in Ends(p, b) : TRUE) \in Ends(p, b)
    BY <2>4
  <2>6. (CHOOSE d \in Ends(p, b) : TRUE) = e
    BY <2>5, EndIsUnique
  <2>7. QED
    BY <2>3, <2>4, <2>6
<1>2. Components(p) = [i \in 1 .. Len(ps) |-> C(i)]
  BY DEF Components
<1>3. ps = [i \in 1 .. Len(ps) |-> ps[i]]
  OBVIOUS
<1> HIDE DEF C
<1>4. QED
  BY <1>1, <1>2, <1>3

(* The component at t follows those before it, and the next one starts     *)
(* behind its slash.                                                       *)
LEMMA NextComponent ==
  ASSUME NEW p \in Seq(Chars), NEW t \in 4 .. Len(p), p[t - 1] = "/",
         NEW e \in (t + 1) .. (Len(p) + 1), e = Len(p) + 1 \/ p[e] = "/",
         \A c \in t .. (e - 1) : p[c] # "/",
         NEW n, n = IF e < Len(p) + 1 THEN e + 1 ELSE e
  PROVE  /\ t \in Starts(p)
         /\ e - 1 \in Ends(p, t)
         /\ Cardinality(Before(p, n)) = Cardinality(Before(p, t)) + 1
         /\ Rank(p, t) = Cardinality(Before(p, t)) + 1
         /\ n = Len(p) + 1 \/ p[n - 1] = "/"
<1>1. Len(p) \in Nat /\ t \in Int /\ e \in Int /\ n \in Int /\ t < n /\ t \in t .. (e - 1)
  OBVIOUS
<1>2. t \in Starts(p)
  BY <1>1 DEF Starts
<1>3. e - 1 \in Ends(p, t)
  <2>1. e - 1 \in t .. Len(p) /\ (e - 1) + 1 = e
    BY <1>1
  <2>2. e - 1 = Len(p) \/ p[(e - 1) + 1] = "/"
    BY <1>1, <2>1
  <2>3. QED
    BY <2>1, <2>2 DEF Ends
<1>4. ASSUME NEW b \in Starts(p), t < b PROVE ~(b < n)
  <2> SUFFICES ASSUME b < n PROVE FALSE
    OBVIOUS
  <2>1. b \in 4 .. Len(p) /\ p[b] # "/" /\ p[b - 1] = "/"
    BY DEF Starts
  <2>2. b \in Int /\ b - 1 \in Int
    BY <2>1
  <2>3. CASE b <= e
    <3>1. b - 1 \in t .. (e - 1)
      BY <1>1, <1>4, <2>2, <2>3
    <3>2. QED
      BY <2>1, <3>1
  <2>4. CASE ~(b <= e)
    BY <1>1, <2>1, <2>2, <2>4
  <2>5. QED
    BY <2>3, <2>4
<1>5. \A b \in Starts(p) : b \in Int
  BY DEF Starts
<1>6. Before(p, n) = Before(p, t) \cup {t}
  <2>1. ASSUME NEW b \in Starts(p) PROVE b < n <=> b < t \/ b = t
    BY <1>1, <1>4, <1>5
  <2>2. QED
    BY <1>2, <2>1 DEF Before
<1>7. {y \in Starts(p) : y <= t} = Before(p, t) \cup {t}
  <2>1. ASSUME NEW b \in Starts(p) PROVE b <= t <=> b < t \/ b = t
    BY <1>1, <1>5
  <2>2. QED
    BY <1>2, <2>1 DEF Before
<1>8. IsFiniteSet(Before(p, t)) /\ t \notin Before(p, t)
  BY <1>1, StartsFinite DEF Before
<1>9. Cardinality(Before(p, t) \cup {t}) = Cardinality(Before(p, t)) + 1
  BY <1>8, FS_AddElement
<1>10. n = Len(p) + 1 \/ p[n - 1] = "/"
  <2>1. CASE e < Len(p) + 1
    <3>1. n - 1 = e /\ p[e] = "/"
      BY <1>1, <2>1
    <3>2. QED
      BY <3>1
  <2>2. CASE ~(e < Len(p) + 1)
    BY <1>1, <2>2
  <2>3. QED
    BY <2>1, <2>2
<1>11. QED
  BY <1>2, <1>3, <1>6, <1>7, <1>9, <1>10 DEF Rank

(* Adding the component at t to the list of those before it.               *)
LEMMA PartsGrow ==
  ASSUME NEW p \in Seq(Chars), NEW T, NEW ps \in Seq(T), NEW t \in 4 .. Len(p), p[t - 1] = "/",
         PartsUpTo(p, ps, t),
         NEW e \in (t + 1) .. (Len(p) + 1), e = Len(p) + 1 \/ p[e] = "/",
         \A c \in t .. (e - 1) : p[c] # "/",
         SubSeq(p, t, e - 1) \in T,
         NEW n, n = IF e < Len(p) + 1 THEN e + 1 ELSE e
  PROVE  PartsUpTo(p, Append(ps, SubSeq(p, t, e - 1)), n)
<1> DEFINE name == SubSeq(p, t, e - 1)
           qs == Append(ps, name)
<1>1. /\ t \in Starts(p)
      /\ e - 1 \in Ends(p, t)
      /\ Cardinality(Before(p, n)) = Cardinality(Before(p, t)) + 1
      /\ Rank(p, t) = Cardinality(Before(p, t)) + 1
      /\ n = Len(p) + 1 \/ p[n - 1] = "/"
  BY NextComponent
<1>2. name = SubSeq(p, t, e - 1) /\ name \in T
  OBVIOUS
<1> HIDE DEF name
<1>3. /\ Len(ps) \in Nat /\ Len(qs) = Len(ps) + 1 /\ qs[Len(ps) + 1] = name
      /\ \A i \in 1 .. Len(ps) : qs[i] = ps[i]
  BY <1>2
<1> HIDE DEF qs
<1>4. Len(qs) = Cardinality(Before(p, n))
  BY <1>1, <1>3 DEF PartsUpTo
<1>5. ASSUME NEW i \in 1 .. Len(qs)
      PROVE  \E b \in Starts(p) :
               Rank(p, b) = i /\ \E d \in Ends(p, b) : qs[i] = SubSeq(p, b, d)
  <2>1. CASE i \in 1 .. Len(ps)
    <3>1. qs[i] = ps[i]
      BY <1>3, <2>1
    <3>2. QED
      BY <2>1, <3>1 DEF PartsUpTo
  <2>2. CASE i = Len(ps) + 1
    <3>1. Rank(p, t) = i
      BY <1>1, <2>2 DEF PartsUpTo
    <3>2. qs[i] = SubSeq(p, t, e - 1)
      BY <1>2, <1>3, <2>2
    <3>3. QED
      BY <1>1, <3>1, <3>2
  <2>3. QED
    BY <1>3, <2>1, <2>2
<1>6. PartsUpTo(p, qs, n)
  BY <1>1, <1>4, <1>5 DEF PartsUpTo
<1>7. QED
  BY <1>6 DEF qs, name

----------------------------------------------------------------------------
(* The steps.                                                              *)

(* The heap never holds more than it can.                                  *)
LEMMA AllocateStep ==
  ASSUME TypeOK, NEW n \in {1, 2}, Allocate(n)
  PROVE  /\ used' \in 0 .. HeapCapacity /\ aliased' \in BOOLEAN
         /\ used + n <= HeapCapacity => used' = used + n /\ aliased' = aliased
         /\ ~(used + n <= HeapCapacity) => used' = HeapCapacity /\ aliased' = TRUE
<1>1. used \in Nat /\ used <= HeapCapacity /\ HeapCapacity \in Nat /\ aliased \in BOOLEAN
  BY PathAssumption DEF TypeOK
<1>2. CASE used + n <= HeapCapacity
  <2>1. used' = used + n /\ ~(used + n > HeapCapacity)
    BY <1>1, <1>2 DEF Allocate
  <2>2. aliased' = aliased
    BY <1>1, <2>1, Zenon DEF Allocate
  <2>3. used' \in 0 .. HeapCapacity
    BY <1>1, <1>2, <2>1
  <2>4. QED
    BY <1>1, <1>2, <2>1, <2>2, <2>3
<1>3. CASE ~(used + n <= HeapCapacity)
  <2>1. used' = HeapCapacity /\ used + n > HeapCapacity
    BY <1>1, <1>3 DEF Allocate
  <2>2. aliased' = TRUE
    BY <2>1, Zenon DEF Allocate
  <2>3. used' \in 0 .. HeapCapacity
    BY <1>1, <2>1
  <2>4. QED
    BY <1>3, <2>1, <2>2, <2>3
<1>4. QED
  BY <1>2, <1>3

(* parse_path_part, with the names its LET gives.                          *)
LEMMA PartStep ==
  ASSUME Inv, pc \in {"first", "parts"}, pc = "parts" => tmp_path # Terminator,
         parse_path_part, pc' = "parts"
  PROVE  Inv'
<1> DEFINE T == {NullName} \cup Seq(Chars)
           end == PartEnd(tmp_path)
           none == end = tmp_path
           name == SubSeq(path, tmp_path, end - 1)
           nm == IF none THEN NullName ELSE name
           need == IF none THEN 1 ELSE 2
<1>1. /\ path \in Seq(Chars) /\ Len(path) \in Nat /\ tmp_path \in 1 .. Terminator
      /\ parts \in Seq(T) /\ used \in Nat /\ aliased \in BOOLEAN
  BY PathAssumption DEF Inv, TypeOK
<1>2. /\ root = "root" /\ Len(path) >= 3 /\ path[3] = "/" /\ tmp_path >= 4
      /\ pc = "first" => parts = << >> /\ tmp_path = 4
  BY DEF Inv, Held, Parsed
<1>3. /\ end \in tmp_path .. Terminator
      /\ end = Terminator \/ path[end] = "/"
      /\ \A c \in tmp_path .. (end - 1) : path[c] # "/"
  BY <1>1, PartEndIs
<1>4. /\ tmp_path' = IF none THEN tmp_path ELSE SkipSlash(end)
      /\ Allocate(need)
      /\ parts' = IF used + need <= HeapCapacity THEN Append(parts, nm) ELSE parts
      /\ UNCHANGED <<path, root>>
  BY DEF parse_path_part
<1> HIDE DEF end
<1>5. ~none => /\ tmp_path \in 4 .. Len(path)
               /\ end \in (tmp_path + 1) .. Terminator
               /\ end \in (tmp_path + 1) .. (Len(path) + 1)
  BY <1>1, <1>2, <1>3 DEF Terminator
<1>6. nm \in T /\ (nm = NullName <=> none)
  <2>1. CASE none
    BY <2>1
  <2>2. CASE ~none
    <3>1. name \in Seq(Chars) /\ name # NullName
      BY <1>1, <1>5, <2>2, NameIs
    <3>2. QED
      BY <2>2, <3>1
  <2>3. QED
    BY <2>1, <2>2
<1>7. need \in {1, 2} /\ need = IF nm = NullName THEN 1 ELSE 2
  BY <1>6
<1> HIDE DEF nm, need
<1>8. /\ used' \in 0 .. HeapCapacity /\ aliased' \in BOOLEAN
      /\ used + need <= HeapCapacity => used' = used + need /\ aliased' = aliased
      /\ ~(used + need <= HeapCapacity) => used' = HeapCapacity /\ aliased' = TRUE
  BY <1>4, <1>7, AllocateStep DEF Inv
<1>9. TypeOK'
  <2>1. tmp_path' \in 1 .. Terminator'
    BY <1>1, <1>3, <1>4 DEF SkipSlash, Terminator
  <2>2. parts' \in Seq(T)
    BY <1>1, <1>4, <1>6
  <2>3. QED
    BY <1>4, <1>8, <2>1, <2>2 DEF Inv, TypeOK
<1>10. Held'
  <2>1. /\ HeldBy(parts) \in Nat \ {0}
        /\ HeldBy(Append(parts, nm)) = HeldBy(parts) + need
    BY <1>1, <1>6, <1>7, HeldByAppend
  <2>2. /\ HeldBy(parts) <= used
        /\ ~aliased => used = HeldBy(parts)
        /\ aliased => used = HeapCapacity
    BY <1>2 DEF Inv, Held
  <2>3. /\ HeldBy(parts') <= used'
        /\ ~aliased' => used' = HeldBy(parts')
        /\ aliased' => used' = HeapCapacity
    <3>1. HeapCapacity \in Nat /\ need \in Nat \ {0}
      BY <1>7, PathAssumption
    <3>2. CASE used + need <= HeapCapacity
      <4>1. parts' = Append(parts, nm) /\ used' = used + need /\ aliased' = aliased
        BY <1>4, <1>8, <3>2
      <4>2. HeldBy(parts') = HeldBy(parts) + need
        BY <2>1, <4>1
      <4>3. used # HeapCapacity
        BY <1>1, <3>1, <3>2
      <4>4. ~aliased /\ ~aliased'
        BY <2>2, <4>1, <4>3
      <4>5. used' = HeldBy(parts') /\ HeldBy(parts') <= used'
        BY <1>1, <2>1, <2>2, <3>1, <4>1, <4>2, <4>4
      <4>6. QED
        BY <4>4, <4>5
    <3>3. CASE ~(used + need <= HeapCapacity)
      <4>1. parts' = parts /\ used' = HeapCapacity /\ aliased' = TRUE
        BY <1>4, <1>8, <3>3
      <4>2. used <= HeapCapacity
        BY <3>1 DEF Inv, TypeOK
      <4>3. QED
        BY <1>1, <2>1, <2>2, <3>1, <4>1, <4>2
    <3>4. QED
      BY <3>2, <3>3
  <2>4. QED
    BY <1>2, <1>4, <2>3 DEF Held
<1>11. Parsed'
  <2>1. tmp_path' >= 4
    BY <1>1, <1>2, <1>3, <1>4 DEF SkipSlash, Terminator
  <2> SUFFICES ASSUME ~aliased'
               PROVE  \/ tmp_path' # Terminator' /\ path'[tmp_path'] = "/"
                      \/ tmp_path' = Terminator' /\ Starts(path') = {} /\ parts' = <<NullName>>
                      \/ parts' # << >> /\ PartsUpTo(path', parts', tmp_path')
    BY <1>2, <1>4, <2>1 DEF Parsed
  <2>2. ~aliased /\ parts' = Append(parts, nm)
    BY <1>4, <1>8
  <2>3. path' = path /\ Terminator' = Terminator
    BY <1>4 DEF Terminator
  <2>4. CASE none /\ tmp_path # Terminator
    <3>1. tmp_path' = tmp_path /\ path[tmp_path] = "/"
      BY <1>3, <1>4, <2>4
    <3>2. QED
      BY <2>3, <2>4, <3>1
  <2>5. CASE none /\ tmp_path = Terminator
    <3>1. tmp_path' = tmp_path /\ tmp_path = 4 /\ parts = << >> /\ nm = NullName
      BY <1>2, <1>4, <1>6, <2>5
    <3>2. Starts(path) = {}
      BY <1>1, <2>5, <3>1 DEF Starts, Terminator
    <3>3. parts' = <<NullName>>
      BY <2>2, <3>1
    <3>4. QED
      BY <2>3, <2>5, <3>1, <3>2, <3>3
  <2>6. CASE ~none
    <3>1. path[tmp_path] # "/"
      <4>1. tmp_path \in tmp_path .. (end - 1)
        BY <1>1, <1>5, <2>6
      <4>2. QED
        BY <1>3, <4>1
    <3>2. PartsUpTo(path, parts, tmp_path) /\ path[tmp_path - 1] = "/"
      <4>1. CASE pc = "first"
        <5>1. tmp_path = 4 /\ parts = << >> /\ path[tmp_path - 1] = "/"
          BY <1>2, <4>1
        <5>2. Before(path, 4) = {}
          BY DEF Before, Starts
        <5>3. Len(parts) = Cardinality(Before(path, 4)) /\ 1 .. Len(parts) = {}
          BY <5>1, <5>2, FS_EmptySet
        <5>4. QED
          BY <5>1, <5>3 DEF PartsUpTo
      <4>2. CASE pc = "parts"
        <5>1. PartsUpTo(path, parts, tmp_path)
          BY <2>2, <3>1, <4>2 DEF Inv, Parsed
        <5>2. tmp_path # Len(path) + 1
          BY <4>2 DEF Terminator
        <5>3. QED
          BY <5>1, <5>2 DEF PartsUpTo
      <4>3. QED
        BY <4>1, <4>2
    <3>3. nm = SubSeq(path, tmp_path, end - 1) /\ nm \in T
      BY <1>6, <2>6 DEF nm
    <3>4. tmp_path' = IF end < Len(path) + 1 THEN end + 1 ELSE end
      BY <1>4, <2>6 DEF SkipSlash, Terminator
    <3>5. end = Len(path) + 1 \/ path[end] = "/"
      BY <1>3 DEF Terminator
    <3>6. PartsUpTo(path, Append(parts, nm), tmp_path')
      <4> HIDE DEF T
      <4>1. QED
        BY <1>1, <1>3, <1>5, <2>6, <3>2, <3>3, <3>4, <3>5, PartsGrow
    <3>7. parts' # << >>
      BY <1>1, <1>6, <2>2
    <3>8. QED
      BY <2>2, <2>3, <3>6, <3>7
  <2>7. QED
    BY <2>4, <2>5, <2>6
<1>12. PartsAreComponents'
  BY DEF PartsAreComponents
<1>13. QED
  BY <1>9, <1>10, <1>11, <1>12 DEF Inv

LEMMA HeldByEmpty == HeldBy(<< >>) = 1
<1>1. Len(<< >>) = 0 /\ {i \in 1 .. Len(<< >>) : << >>[i] # NullName} = {}
  OBVIOUS
<1>2. QED
  BY <1>1, FS_EmptySet DEF HeldBy

LEMMA InvInit == Init => Inv
<1> SUFFICES ASSUME Init PROVE Inv
  OBVIOUS
<1>1. TypeOK
  <2>1. Len(path) \in Nat
    BY PathAssumption DEF Init
  <2>2. tmp_path \in 1 .. Terminator
    BY <2>1 DEF Init, Terminator
  <2>3. << >> \in Seq({NullName} \cup Seq(Chars))
    OBVIOUS
  <2>4. used \in 0 .. HeapCapacity
    BY PathAssumption DEF Init
  <2>5. QED
    BY <2>2, <2>3, <2>4 DEF Init, TypeOK
<1>2. Held /\ Parsed /\ PartsAreComponents
  BY DEF Init, Held, Parsed, PartsAreComponents
<1>3. QED
  BY <1>1, <1>2 DEF Inv

LEMMA InvStep == Inv /\ [Next]_vars => Inv'
<1> SUFFICES ASSUME Inv, [Next]_vars PROVE Inv'
  OBVIOUS
<1>1. /\ path \in Seq(Chars) /\ Len(path) \in Nat /\ tmp_path \in 1 .. Terminator
      /\ parts \in Seq({NullName} \cup Seq(Chars)) /\ used \in Nat
      /\ used <= HeapCapacity /\ HeapCapacity \in Nat
  BY PathAssumption DEF Inv, TypeOK
<1>2. CASE Reject
  <2>1. /\ UNCHANGED <<path, tmp_path, parts, root, used, aliased>>
        /\ pc = "parse" /\ pc' = "returned" /\ root = "null"
    BY <1>2 DEF Reject, Inv, Held
  <2>2. Terminator' = Terminator
    BY <2>1 DEF Terminator
  <2>3. TypeOK'
    BY <2>1, <2>2 DEF Inv, TypeOK
  <2>4. Held' /\ Parsed' /\ PartsAreComponents'
    BY <2>1 DEF Inv, Held, Parsed, PartsAreComponents
  <2>5. QED
    BY <2>3, <2>4 DEF Inv
<1>3. CASE create_root
  <2>1. /\ UNCHANGED <<path, parts>> /\ pc = "parse" /\ pc' = "first" /\ root' = "root"
        /\ tmp_path' = 4 /\ Allocate(1)
        /\ Len(path) >= 3 /\ path[3] = "/"
    BY <1>3 DEF create_root, validate_path
  <2>2. used = 0 /\ ~aliased /\ parts = << >>
    BY <2>1 DEF Inv, Held
  <2>3. used + 1 <= HeapCapacity
    BY <2>2, PathAssumption
  <2>4. used' = 1 /\ used' \in 0 .. HeapCapacity /\ ~aliased' /\ aliased' \in BOOLEAN
    <3>1. /\ used' \in 0 .. HeapCapacity /\ aliased' \in BOOLEAN
          /\ used' = used + 1 /\ aliased' = aliased
      BY <2>1, <2>3, AllocateStep DEF Inv
    <3>2. QED
      BY <2>2, <3>1
  <2>5. tmp_path' \in 1 .. Terminator'
    BY <1>1, <2>1 DEF Terminator
  <2>6. TypeOK'
    BY <2>1, <2>4, <2>5 DEF Inv, TypeOK
  <2>7. Held'
    BY <2>1, <2>2, <2>4, HeldByEmpty DEF Held
  <2>8. Parsed' /\ PartsAreComponents'
    BY <2>1 DEF Parsed, PartsAreComponents
  <2>9. QED
    BY <2>6, <2>7, <2>8 DEF Inv
<1>4. CASE FirstPart
  BY <1>4, PartStep DEF FirstPart
<1>5. CASE NextPart
  BY <1>5, PartStep DEF NextPart
<1>6. CASE Finished
  <2>1. /\ UNCHANGED <<path, tmp_path, parts, root, used, aliased>>
        /\ pc = "parts" /\ pc' = "returned" /\ tmp_path = Terminator
    BY <1>6 DEF Finished
  <2>2. Terminator' = Terminator
    BY <2>1 DEF Terminator
  <2>3. TypeOK'
    BY <2>1, <2>2 DEF Inv, TypeOK
  <2>4. Held' /\ Parsed'
    BY <2>1 DEF Inv, Held, Parsed
  <2>5. ~aliased => parts = IF Components(path) = << >> THEN <<NullName>> ELSE Components(path)
    <3> SUFFICES ASSUME ~aliased
                 PROVE  parts = IF Components(path) = << >> THEN <<NullName>> ELSE Components(path)
      OBVIOUS
    <3>1. CASE Starts(path) = {} /\ parts = <<NullName>>
      <4>1. Cardinality(Starts(path)) = 0
        BY <3>1, FS_EmptySet
      <4>2. Components(path) = << >>
        BY <4>1 DEF Components
      <4>3. QED
        BY <3>1, <4>2
    <3>2. CASE parts # << >> /\ PartsUpTo(path, parts, tmp_path)
      <4>1. Before(path, tmp_path) = Starts(path)
        BY <1>1, <2>1 DEF Before, Starts, Terminator
      <4>2. /\ Len(parts) = Cardinality(Starts(path))
            /\ \A i \in 1 .. Len(parts) :
                 \E b \in Starts(path) :
                   Rank(path, b) = i /\ \E e \in Ends(path, b) : parts[i] = SubSeq(path, b, e)
        BY <3>2, <4>1 DEF PartsUpTo
      <4>3. parts = Components(path)
        BY <1>1, <4>2, ComponentsAre
      <4>4. QED
        BY <3>2, <4>3
    <3>3. QED
      BY <2>1, <3>1, <3>2 DEF Inv, Parsed
  <2>6. PartsAreComponents'
    BY <2>1, <2>5 DEF PartsAreComponents
  <2>7. QED
    BY <2>3, <2>4, <2>6 DEF Inv
<1>7. CASE free
  <2>1. /\ UNCHANGED <<path, tmp_path, aliased>>
        /\ pc' = "freed" /\ root = "root" /\ root' = "null" /\ parts' = << >>
        /\ used' = used - HeldBy(parts)
    BY <1>7 DEF free
  <2>2. HeldBy(parts) \in Nat \ {0}
    BY <1>1, HeldByAppend
  <2>3. HeldBy(parts) <= used /\ (~aliased => used = HeldBy(parts))
    BY <2>1 DEF Inv, Held
  <2>4. used' \in 0 .. HeapCapacity /\ (~aliased => used' = 0)
    BY <1>1, <2>1, <2>2, <2>3
  <2>5. Terminator' = Terminator
    BY <2>1 DEF Terminator
  <2>6. << >> \in Seq({NullName} \cup Seq(Chars))
    OBVIOUS
  <2>7. TypeOK'
    BY <2>1, <2>4, <2>5, <2>6 DEF Inv, TypeOK
  <2>8. Held' /\ Parsed' /\ PartsAreComponents'
    BY <2>1, <2>4 DEF Held, Parsed, PartsAreComponents
  <2>9. QED
    BY <2>7, <2>8 DEF Inv
<1>8. CASE UNCHANGED vars
  <2>1. UNCHANGED <<path, pc, tmp_path, parts, root, used, aliased>> /\ Terminator' = Terminator
    BY <1>8 DEF vars, Terminator
  <2>2. QED
    BY <2>1 DEF Inv, TypeOK, Held, Parsed, PartsAreComponents
<1>9. QED
  BY <1>2, <1>3, <1>4, <1>5, <1>6, <1>7, <1>8 DEF Next, parse

LEMMA InvAlways == Spec => []Inv
  BY InvInit, InvStep, PTL DEF Spec

----------------------------------------------------------------------------
(* The theorems.                                                           *)

(* The pointer of the parser stays within the string and its terminator,   *)
(* and free never gives back more than is held, also after the heap was    *)
(* exhausted.                                                              *)
THEOREM ParserTypes == Spec => []TypeOK
<1>1. Inv => TypeOK
  BY DEF Inv
<1>2. QED
  BY <1>1, InvAlways, PTL

(* The list that parse returns holds the components of the path, each once *)
(* and in order, and a single nameless part for a bare drive.              *)
THEOREM ParserPartsAreComponents == Spec => []PartsAreComponents
<1>1. Inv => PartsAreComponents
  BY DEF Inv
<1>2. QED
  BY <1>1, InvAlways, PTL

(* free leaves nothing behind of what parse allocated, null names and bare *)
(* drives included.                                                        *)
THEOREM ParserFreeReleasesAll == Spec => []FreeReleasesAll
<1>1. Inv => FreeReleasesAll
  BY DEF Inv, Held, FreeReleasesAll
<1>2. QED
  BY <1>1, InvAlways, PTL

============================================================================
