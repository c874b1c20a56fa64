------------------------------ MODULE TaskList ------------------------------
(***************************************************************************)
(* The doubly linked list of tasks: kernel/arch/i386/task/task.cpp as      *)
(* operators on a list value [head, tail, current, next, prev].  A task is *)
(* its address; next and prev are the fields of the tasks in memory.       *)
(***************************************************************************)
EXTENDS Integers, SequencesExt

null == 0

EmptyList(Addrs) ==
  [head |-> null, tail |-> null, current |-> null,
   next |-> [a \in Addrs |-> null], prev |-> [a \in Addrs |-> null]]

\* new_task, after init_task has zeroed the task.
link_task(list, task) ==
  IF list.head = null
  THEN [list EXCEPT !.head = task, !.tail = task,
                    !.next[task] = null, !.prev[task] = null]
  ELSE [list EXCEPT !.next = [list.next EXCEPT ![list.tail] = task, ![task] = null],
                    !.prev[task] = list.tail,
                    !.tail = task]

\* What new_task returns: nothing for the first task.
linked_task(list, task) == IF list.head = null THEN null ELSE task

get_next_task(list) ==
  IF list.next[list.current] = null THEN list.head ELSE list.next[list.current]

\* Mutants: the neighbour behind keeps its prev; the one in front loses
\* what follows the task.
remove_task_noprev(list, task) ==
  LET before == list.prev[task]
      after  == list.next[task]
  IN  [list EXCEPT
         !.next = [a \in DOMAIN list.next |->
                     IF a = task THEN null ELSE IF a = before THEN after ELSE list.next[a]],
         !.prev[task] = null,
         !.head = IF task = list.head THEN after ELSE list.head,
         !.tail = IF task = list.tail THEN before ELSE list.tail]

remove_task_cut(list, task) ==
  LET after == list.next[task]
  IN  [list EXCEPT
         !.next = [a \in DOMAIN list.next |-> IF a = list.prev[task] THEN null ELSE list.next[a]],
         !.prev[task] = null,
         !.head = IF task = list.head THEN after ELSE list.head,
         !.tail = IF task = list.tail THEN list.prev[task] ELSE list.tail]

remove_task(list, task) ==
  LET before   == list.prev[task]
      after    == list.next[task]
      unlinked == [
         head    |-> IF task = list.head THEN after ELSE list.head,
         tail    |-> IF task = list.tail THEN before ELSE list.tail,
         current |-> list.current,
         next    |-> [a \in DOMAIN list.next |->
                        IF a = before /\ a # null THEN after ELSE list.next[a]],
         prev    |-> [a \in DOMAIN list.prev |->
                        IF a = after /\ a # null THEN before ELSE list.prev[a]]]
  IN  [unlinked EXCEPT
         !.current = IF task = list.current THEN get_next_task(unlinked) ELSE list.current,
         !.next[task] = null,
         !.prev[task] = null]

----------------------------------------------------------------------------
\* The tasks along the pointers of link, from first on and at most max.
Walk(first, link, max) ==
  LET at[i \in 1 .. max] ==
        IF i = 1 THEN first
        ELSE IF at[i - 1] = null THEN null ELSE link[at[i - 1]]
      length == CHOOSE n \in 0 .. max :
        /\ \A i \in 1 .. n : at[i] # null
        /\ n < max => at[n + 1] = null
  IN  [i \in 1 .. length |-> at[i]]

============================================================================
