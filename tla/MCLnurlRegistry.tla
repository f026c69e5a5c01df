--------------------------- MODULE MCLnurlRegistry ---------------------------
(***************************************************************************)
(* Instances of LnurlRegistry for TLC.  Names are "A" and "a", two         *)
(* spellings of one username, and "b"; two offers and two pubkeys make     *)
(* offer changes, moves between usernames and conflicts happen.            *)
(***************************************************************************)
EXTENDS LnurlRegistry, TLC

MCNames == {"A", "a", "b"}
MCLower == [n \in MCNames |-> IF n = "A" THEN "a" ELSE n]
LnurlOps == {"lnurlRegister", "lnurlUnregister"}
OfferOps == {"offerRegister", "offerUnregister"}

Symmetry == Permutations(Pubkeys) \cup Permutations(Urls)
              \cup Permutations(Offers) \cup Permutations(Workers)

=============================================================================
