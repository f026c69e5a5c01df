----------------------------- MODULE MCNwcRelays -----------------------------
(***************************************************************************)
(* An instance of NwcRelays for TLC: of three apps two share a wallet; two *)
(* lists overlap, and the relays just fill the ring.                       *)
(***************************************************************************)
EXTENDS NwcRelays, TLC

CONSTANTS a1, a2, a3, w1, w2, r1, r2, r3

MCApps == {a1, a2, a3}
MCWalletOf == [a \in Apps |-> IF a = a3 THEN w2 ELSE w1]
MCLists == {<<r1, r2>>, <<r2, r3>>}

Symmetry == Permutations({a1, a2}) \cup Permutations(Handlers)

=============================================================================
