------------------------------ MODULE ThreadSet ------------------------------
(***************************************************************************)
(* The threads of a pthread program: NTHREADS of them, numbered from 0.    *)
(***************************************************************************)
EXTENDS Integers

CONSTANT NTHREADS

ASSUME ThreadsAssumption == NTHREADS \in Nat \ {0}

Threads == 0 .. NTHREADS - 1
=============================================================================
