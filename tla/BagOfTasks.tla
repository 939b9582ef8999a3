------------------------------ MODULE BagOfTasks ------------------------------
(***************************************************************************)
(* What a task farm promises, with no farmer and no messages: each task is *)
(* taken once, by a worker that has nothing else to do, and is done when   *)
(* that worker hands in its result.                                        *)
(***************************************************************************)
CONSTANTS Tasks, Workers, Result(_)

VARIABLES
  todo,    \* tasks nobody has taken
  holds,   \* holds[w]: the task of worker w, as a set of at most one task
  results  \* the results handed in, as pairs <<task, result>>

vars == <<todo, holds, results>>

Init ==
  /\ todo = Tasks
  /\ holds = [w \in Workers |-> {}]
  /\ results = {}

Take(w, t) ==
  /\ holds[w] = {}
  /\ t \in todo
  /\ todo' = todo \ {t}
  /\ holds' = [holds EXCEPT ![w] = {t}]
  /\ UNCHANGED results

HandIn(w, t) ==
  /\ t \in holds[w]
  /\ holds' = [holds EXCEPT ![w] = {}]
  /\ results' = results \cup {<<t, Result(t)>>}
  /\ UNCHANGED todo

Next == \E w \in Workers, t \in Tasks : Take(w, t) \/ HandIn(w, t)

Safety == Init /\ [][Next]_vars

(* As long as a task is to be done, one is taken or handed in.             *)
Spec == Safety /\ WF_vars(Next)
=============================================================================
