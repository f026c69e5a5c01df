--------------------------- MODULE MCPayerRequests ---------------------------
(***************************************************************************)
(* An instance of PayerRequests for TLC.  A second is 4 ticks and a        *)
(* duration has 5 bits, so of the max-ages 4 wraps to a negative and 8 to  *)
(* a zero duration.  0 and -1 can be sent by a node, too.                  *)
(***************************************************************************)
EXTENDS PayerRequests, TLC

MCHalfRange == 2^4
MCMaxAges == {-1, 0, 1, 4, 8}

Symmetry == Permutations(Payers)

=============================================================================
