-------------------------- MODULE MCCallbackChannel --------------------------
(***************************************************************************)
(* Instances of CallbackChannel for TLC: two requests, two posts and two   *)
(* ids are enough for a shared id, a duplicate post, a post before Do      *)
(* returns and a post racing a timeout.                                    *)
(***************************************************************************)
EXTENDS CallbackChannel, TLC

(* The members of each set are interchangeable: safety runs only.          *)
Symmetry == Permutations(Requests) \cup Permutations(Posts)
              \cup Permutations(Ids) \cup Permutations(Responses)

=============================================================================
