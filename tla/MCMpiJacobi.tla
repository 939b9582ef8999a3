----------------------------- MODULE MCMpiJacobi -----------------------------
(***************************************************************************)
(* MpiJacobi on rings of six values, in units of 1/2^(MAX_ITER + 1): what  *)
(* read_problem sets (0, 20, .., 100), and values whose changes halve in   *)
(* every iteration.                                                        *)
(***************************************************************************)
EXTENDS MpiJacobi

Unit == 2 ^ (MAX_ITER + 1)

ReadProblemValues == [c \in 0 .. 5 |-> 20 * c * Unit]

HalvingValues == [c \in 0 .. 5 |-> <<2, 1, -1, -2, -1, 1>>[c + 1] * Unit]

BothInputs == {ReadProblemValues, HalvingValues}

ShippedInput == {ReadProblemValues}
=============================================================================
