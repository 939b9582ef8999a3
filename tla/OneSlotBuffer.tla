----------------------------- MODULE OneSlotBuffer -----------------------------
(***************************************************************************)
(* What the producer and the consumer promise together: the items pass     *)
(* through a buffer of one slot, each exactly once and in order.           *)
(***************************************************************************)
EXTENDS Sequences

VARIABLES
  todo,   \* items not yet put, in order
  slot,   \* the item in the buffer, as a sequence of at most one item
  got     \* items taken, in order

vars == <<todo, slot, got>>

Init == slot = << >> /\ got = << >>

Put ==
  /\ todo # << >>
  /\ slot = << >>
  /\ slot' = <<Head(todo)>>
  /\ todo' = Tail(todo)
  /\ UNCHANGED got

Take ==
  /\ slot # << >>
  /\ got' = got \o slot
  /\ slot' = << >>
  /\ UNCHANGED todo

Safety == Init /\ [][Put \/ Take]_vars

(* As long as there are items left, one is put or taken.                   *)
Spec == Safety /\ WF_vars(Put \/ Take)
=============================================================================
