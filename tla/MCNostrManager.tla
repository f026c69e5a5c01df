--------------------------- MODULE MCNostrManager ---------------------------
(***************************************************************************)
(* Instances of NostrManager for TLC: one wallet service with two apps, of *)
(* which one sends events and the other registers and unregisters, so that *)
(* subscriptions are replaced while an event is on its way.                *)
(***************************************************************************)
EXTENDS NostrManager, TLC

CONSTANTS w1, a1, a2, e1

MCWallets == {w1}
MCApps == {a1, a2}
OneEvent == {e1}
OneAuthor == (e1 :> a1)
OneTarget == (e1 :> w1)

Symmetry == Permutations(Handlers)

=============================================================================
