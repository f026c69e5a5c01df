--------------------------- MODULE RegistryHistory ---------------------------
(***************************************************************************)
(* LnurlRegistry with history variables, to say what it promises over many *)
(* requests, while clients interleave, calls fail and the server crashes:  *)
(* it implements AddressBook, where promised is what clients were told;    *)
(* spoiled remembers whose offer has met one of the events that leave it   *)
(* recorded and unpublished, and littered under which usernames one may    *)
(* have left a record behind that is not, or not any more, its holder's.   *)
(***************************************************************************)
EXTENDS LnurlRegistry

VARIABLES
  promised,  \* the username each pubkey was last told is its own, until it asks again
  spoiled,   \* pubkeys whose offer has met such an event since its publication
  littered   \* usernames where a record was left behind since the name was last cleared

hvars == <<rows, details, zone, pc, req, last, reply, promised, spoiled, littered>>

Promise(p, n) == promised' = [promised EXCEPT ![p] = n]

(* Offers that may be recorded and not published. *)
Spoil(ps) == spoiled' = spoiled \cup ps
Own(w)    == {req[w].pubkey}
OwnIf(w, lost) == Spoil(IF lost THEN Own(w) ELSE {})

(* Those whose username the handler of another client removes: it claimed  *)
(* another one before, and they took this one up since.                    *)
Bereft(w) == {p \in Pubkeys \ Own(w) : details[p].name = last[w].name}

(* Names where a record may be published and not recorded. *)
Litter(ns)       == littered' = littered \cup ns
LitterIf(bad, n) == Litter(IF bad THEN {n} ELSE {})

(* A claim overwrites a recorded offer that its handler will not remove:   *)
(* the BOLT 12 router replaces the offer of a name it keeps, a handler did *)
(* not find the offer, or the claim is reported as failed.                 *)
Overwrites(w) ==
  /\ details' # details
  /\ details[req[w].pubkey].offer # None
  /\ ~(LastOffer(w) # None /\ pc'[w] \in {"insert", "unpublish"})

(* Publications whose offer is not the recorded one, and names whose offer *)
(* has been moved away and is yet to be removed.                           *)
Unrecorded == {w \in Workers : pc[w] = "record" /\ details[req[w].pubkey].offer # req[w].offer}
Unremoved  == {w \in Workers : pc[w] \in {"insert", "unpublish"} /\ MovedOffer(w)}

HInit == Init /\ promised = [p \in Pubkeys |-> None] /\ spoiled = {} /\ littered = {}

(* A handler's own offer is lost when it dies midway, when a call fails    *)
(* that it does not make good for, or when its last write meets a conflict *)
(* and is ignored.  A successful publication starts afresh, and so does a  *)
(* name once a removal has left nothing under it.                          *)
HNext ==
  \/ \E w \in Workers :
       \/ /\ UNCHANGED <<spoiled, littered>>
          /\ \/ Start(w) /\ Promise(req'[w].pubkey, None)
             \/ /\ Return(w)
                /\ IF Confirmed(w) /\ ~Reverted(w) THEN Promise(req[w].pubkey, Lower[req[w].name])
                   ELSE UNCHANGED promised
             \/ (Read(w) \/ Delete(w)) /\ UNCHANGED promised
       \/ /\ UNCHANGED promised
          /\ \/ /\ Claim(w)
                /\ OwnIf(w, reply'[w] = "conflict" /\ details' # details)
                /\ LitterIf(Overwrites(w), details[req[w].pubkey].name)
             \/ /\ Insert(w)
                /\ OwnIf(w, reply'[w] = "error" /\ MovedOffer(w))
                /\ LitterIf(reply'[w] = "error" /\ MovedOffer(w), last[w].name)
             \/ /\ Unpublish(w)
                /\ Spoil(Bereft(w))
                /\ IF zone'[last[w].name] = {} THEN littered' = littered \ {last[w].name}
                   ELSE Litter({last[w].name})
             \/ /\ Publish(w)
                /\ IF pc'[w] = "record" THEN spoiled' = spoiled \ Own(w) ELSE OwnIf(w, IsLnurl(w))
                /\ LitterIf(pc'[w] # "record", Lower[req[w].name])
             \/ /\ Record(w)
                /\ OwnIf(w, details'[req[w].pubkey].offer # StoredOffer(w))
                /\ LitterIf(pc[w] = "record" /\ details'[req[w].pubkey].offer # req[w].offer,
                            Lower[req[w].name])
  \/ (\E p \in Pubkeys : DeleteExpired(p)) /\ UNCHANGED <<promised, spoiled, littered>>
  \/ /\ Crash /\ UNCHANGED promised
     /\ Spoil({req[w].pubkey : w \in Midway})
     /\ Litter({last[w].name : w \in Unremoved} \cup {Lower[req[w].name] : w \in Unrecorded})

HSpec == HInit /\ [][HNext]_hvars

-----------------------------------------------------------------------------
(* PublishedUnlessSpoiled: between requests, every recorded offer is       *)
(* published under its username unless, since its handler published it,    *)
(* another client's handler removed the name, the server died midway, a    *)
(* call failed after the claim, or the last write was refused and ignored: *)
(* there is no other way for the database and the zone to come apart, and  *)
(* the next publication mends it.                                          *)
PublishedUnlessSpoiled ==
  Quiet => \A p \in Pubkeys :
    details[p].offer # None => details[p].offer \in zone[details[p].name] \/ p \in spoiled

(* ClearUnlessLittered: between requests, under a username that has not    *)
(* been littered since it was last cleared, nothing is published but the   *)
(* offer that the database holds for the name: other than by the events    *)
(* above, no request of either router leaves a payer with an offer that    *)
(* the name's holder did not register.                                     *)
ClearUnlessLittered ==
  Quiet => \A n \in Usernames \ littered :
    \A o \in zone[n] : \E p \in Pubkeys : details[p] = [name |-> n, offer |-> o]

(* ImplementsAddressBook: whatever other clients, faults, crashes and      *)
(* expiry do between the calls of its handlers, the server keeps the       *)
(* promises of AddressBook: a username changes hands only by its holder's  *)
(* requests, and a confirmed one stays the client's until it asks again.   *)
Book == INSTANCE AddressBook WITH
          Clients <- Pubkeys, username <- [p \in Pubkeys |-> details[p].name],
          published <- zone

ImplementsAddressBook == Book!Spec

=============================================================================
