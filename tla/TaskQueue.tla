----------------------------- MODULE TaskQueue -----------------------------
(***************************************************************************)
(* What the list of tasks promises: a queue without duplicates to whose    *)
(* end a task is added and from which any task is taken out, the others    *)
(* keeping their order.                                                    *)
(***************************************************************************)
EXTENDS Sequences, SequencesExt

CONSTANT Task

VARIABLE queue

Init == queue = << >>

Add(t) == t \notin ToSet(queue) /\ queue' = Append(queue, t)

Take(t) == \E i \in DOMAIN queue : queue[i] = t /\ queue' = RemoveAt(queue, i)

Next == \E t \in Task : Add(t) \/ Take(t)

Spec == Init /\ [][Next]_queue

============================================================================
