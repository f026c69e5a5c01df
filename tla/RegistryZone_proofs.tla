------------------------ MODULE RegistryZone_proofs -------------------------
(***************************************************************************)
(* Theorems about LnurlRegistry that relate the database to the DNS zone,  *)
(* for any pubkeys, names and offers.                                      *)
(***************************************************************************)
EXTENDS LnurlRegistry_proofs

(* One request at a time, as a client alone sees it: the store does not    *)
(* fail, DNS may fail for the BOLT 12 router, webhooks may expire.         *)
OneAtATime ==
  /\ \A v, w \in Workers : v = w
  /\ ~StoreFaults /\ ~Crashes
  /\ DnsFaults \subseteq {"offerRegister", "offerUnregister"}

(* No username is held twice. *)
Unique ==
  \A p, q \in Pubkeys : p # q /\ details[p].name # None => details[p].name # details[q].name

Published(p) == details[p].offer # None => details[p].offer \in zone[details[p].name]

(* The details of its client and the zone may disagree while a handler is  *)
(* between its first and its last write.                                   *)
Changing(w) ==
  \/ pc[w] \in {"unpublish", "publish", "record", "retract", "forget"}
  \/ pc[w] = "insert" /\ req[w].name # None

(* What a lone handler may rely on at each of its steps.                   *)
Relies(w) ==
  /\ last[w] # None =>
       /\ pc[w] \notin {"idle", "read"}
       /\ \A q \in Pubkeys \ {req[w].pubkey} : last[w].name # None => details[q].name # last[w].name
  /\ pc[w] \in {"claim", "insert"} /\ HadOffer(w) => last[w].offer \in zone[last[w].name]
  /\ pc[w] = "insert" /\ req[w].name # None =>
       details[req[w].pubkey] = [name |-> Lower[req[w].name], offer |-> LastOffer(w)]
  /\ pc[w] \in {"publish", "record", "retract"} \/ (pc[w] = "unpublish" /\ req[w].offer # None)
       => details[req[w].pubkey].name = Lower[req[w].name]
  /\ pc[w] = "record" => req[w].offer \in zone[Lower[req[w].name]]

Zone ==
  /\ Unique
  /\ \A p \in Pubkeys :
       (\A w \in Workers : ~(Changing(w) /\ req[w].pubkey = p)) => Published(p)
  /\ \A w \in Workers : Relies(w)

ZoneInv == Typed /\ Zone

LEMMA InitZone == Init => ZoneInv
  BY InitTyped, RegistryAssumption
     DEF Init, ZoneInv, Zone, Unique, Published, Changing, Relies, NoDetails, HadOffer

LEMMA SoundOutcome == \A out \in Outcomes(FALSE) : out.ok /\ out.applied
  BY DEF Outcomes

LEMMA SoundStore == OneAtATime => \A out \in Outcomes(StoreFaults) : out.ok /\ out.applied
<1>1. OneAtATime => StoreFaults = FALSE
  BY RegistryAssumption DEF OneAtATime
<1> QED BY <1>1, SoundOutcome

(* Storing a username that nobody else holds keeps usernames unique.       *)
LEMMA StoreUnique ==
  ASSUME Typed, Unique, NEW p \in Pubkeys, NEW n \in Names, NEW o \in MaybeOffer,
         ~Conflict(p, Lower[n]), SetPubkeyDetails(p, n, o)
  PROVE  /\ Unique' /\ details'[p] = [name |-> Lower[n], offer |-> o]
         /\ \A q \in Pubkeys \ {p} : details'[q] = details[q]
<1>1. \A q \in Pubkeys \ {p} : details'[q] = details[q]
  BY DEF SetPubkeyDetails, Typed, TypeOK
<1>2. details'[p] = [name |-> Lower[n], offer |-> o]
  BY DEF SetPubkeyDetails, Typed, TypeOK
<1>3. Unique'
  BY <1>1, <1>2 DEF Unique, Conflict
<1> QED BY <1>1, <1>2, <1>3

(* What is left to show of a step of the only handler. *)
LEMMA LoneStep ==
  ASSUME OneAtATime, ZoneInv, Typed', NEW w \in Workers, Unique', Relies(w)',
         \A p \in Pubkeys : ~(Changing(w)' /\ req'[w].pubkey = p) => Published(p)'
  PROVE  ZoneInv'
  BY DEF OneAtATime, ZoneInv, Zone

LEMMA StartZone ==
  ASSUME OneAtATime, ZoneInv, Typed', NEW w \in Workers, Start(w) \/ Return(w)
  PROVE  ZoneInv'
<1>1. UNCHANGED <<rows, details, zone>> /\ pc'[w] \in {"idle", "read"} /\ last'[w] = None
  BY DEF Start, Return, stores, ZoneInv, Typed, TypeOK, Zone, Relies
<1>2. ~Changing(w)
  BY DEF Start, Return, Changing
<1>3. Unique' /\ \A p \in Pubkeys : Published(p)'
  BY <1>1, <1>2 DEF ZoneInv, Zone, Unique, Published, OneAtATime
<1>4. Relies(w)'
  BY <1>1 DEF Relies
<1> QED BY <1>3, <1>4, LoneStep

LEMMA ReadZone ==
  ASSUME OneAtATime, ZoneInv, Typed', NEW w \in Workers, Read(w)
  PROVE  ZoneInv'
<1>1. /\ pc[w] = "read" /\ req[w] \in Requests /\ req[w].pubkey \in Pubkeys
      /\ UNCHANGED <<rows, details, zone, req>>
  BY RequestFields DEF Read, stores, ZoneInv, Typed, InFlight
<1>2. last'[w] = Snapshot(w) /\ pc'[w] = AfterRead(w, Snapshot(w))
  BY DEF Read, OneAtATime, ZoneInv, Typed, TypeOK
<1>3. last'[w] \in {None, details[req[w].pubkey]}
  BY <1>2 DEF Snapshot
<1>4. /\ pc'[w] \in {"claim", "insert", "delete", "unpublish", "done"}
      /\ pc'[w] = "insert" => req[w].name = None
      /\ pc'[w] = "unpublish" => req[w].offer = None
  BY <1>1, <1>2, RequestFields DEF AfterRead, FirstWrite, IsRegister, Operations
<1>5. ~Changing(w)
  BY <1>1 DEF Changing
<1>6. Unique' /\ \A p \in Pubkeys : Published(p) /\ Published(p)'
  BY <1>1, <1>5 DEF ZoneInv, Zone, Unique, Published, OneAtATime
<1>7. Relies(w)'
  <2>1. \A q \in Pubkeys \ {req[w].pubkey} :
          details[req[w].pubkey].name # None => details[q].name # details[req[w].pubkey].name
    BY <1>1 DEF ZoneInv, Zone, Unique
  <2> QED BY <1>1, <1>3, <1>4, <1>6, <2>1 DEF Relies, HadOffer, Published
<1> QED BY <1>6, <1>7, LoneStep

LEMMA ClaimZone ==
  ASSUME OneAtATime, ZoneInv, Typed', NEW w \in Workers, Claim(w)
  PROVE  ZoneInv'
<1> DEFINE p == req[w].pubkey
           n == req[w].name
           o == IF IsLnurl(w) THEN LastOffer(w) ELSE req[w].offer
<1>1. /\ pc[w] = "claim" /\ req[w] \in Requests /\ p \in Pubkeys /\ n \in Names
      /\ o \in MaybeOffer /\ UNCHANGED <<rows, zone, req, last>> /\ IsRegister(w)
      /\ last[w] \in Details \cup {None}
  BY RequestFields DEF Claim, Goto, Answer, Proceed, ZoneInv, Typed, TypeOK, InFlight,
                       LastOffer, MaybeName, MaybeOffer, Details
<1>2. ~Changing(w) /\ \A q \in Pubkeys : Published(q)
  BY <1>1 DEF Changing, ZoneInv, Zone, OneAtATime
<1>3. Relies(w) /\ Unique
  BY DEF ZoneInv, Zone
<1>4. CASE Conflict(p, Lower[n])
  <2>1. UNCHANGED details /\ pc'[w] = "done"
    BY <1>1, <1>4 DEF Claim, Answer, ZoneInv, Typed, TypeOK
  <2>2. Relies(w)'
    BY <1>1, <1>3, <2>1 DEF Relies
  <2> QED BY <1>1, <1>2, <1>3, <2>1, <2>2, LoneStep DEF Unique, Published
<1>5. CASE ~Conflict(p, Lower[n])
  <2>1. /\ SetPubkeyDetails(p, n, o)
        /\ Proceed(w, IF IsLnurl(w) THEN "insert" ELSE AfterStore(w))
    BY <1>5, SoundStore DEF Claim
  <2>2. /\ Unique' /\ details'[p] = [name |-> Lower[n], offer |-> o]
        /\ \A q \in Pubkeys \ {p} : details'[q] = details[q]
    BY <1>1, <1>3, <1>5, <2>1, StoreUnique DEF ZoneInv
  <2>3. pc'[w] = IF IsLnurl(w) THEN "insert" ELSE AfterStore(w)
    BY <2>1 DEF Proceed, Goto, Answer, ZoneInv, Typed, TypeOK
  <2>4. n # None /\ Lower[n] \in Usernames
    BY <1>1, LowerType, RegistryAssumption
  <2>5. \A q \in Pubkeys \ {p} : Published(q)'
    BY <1>1, <1>2, <2>2 DEF Published
  <2>6. CASE IsLnurl(w)
    <3>1. pc'[w] = "insert" /\ Changing(w)' /\ o = LastOffer(w)
      BY <1>1, <2>3, <2>4, <2>6 DEF Changing
    <3>2. Relies(w)'
      BY <1>1, <1>3, <2>2, <3>1 DEF Relies, HadOffer, LastOffer
    <3> QED BY <1>1, <2>2, <2>5, <3>1, <3>2, LoneStep
  <2>7. CASE ~IsLnurl(w)
    <3>1. req[w].op = "offerRegister" /\ req[w].offer \in Offers /\ req[w].offer # None
      BY <1>1, <2>7, RequestFields, RegistryAssumption DEF IsLnurl, IsRegister
    <3>2. /\ pc'[w] \in {"publish", "unpublish", "done"} /\ o = req[w].offer
          /\ pc'[w] = "done" => HadOffer(w) /\ ~NameChanges(w) /\ ~OfferChanges(w)
      BY <2>3, <2>4, <2>7, <3>1 DEF AfterStore
    <3>3. Relies(w)'
      BY <1>1, <1>3, <2>2, <3>2 DEF Relies
    <3>4. CASE pc'[w] = "done"
      <4>1. /\ HadOffer(w) /\ last[w].name = Lower[n] /\ last[w].offer = o
            /\ last[w].offer \in zone[last[w].name]
        BY <1>1, <1>3, <2>7, <3>2, <3>4 DEF NameChanges, OfferChanges, NewName, Relies
      <4>2. Published(p)'
        BY <1>1, <2>2, <4>1 DEF Published
      <4>3. \A q \in Pubkeys : Published(q)'
        BY <1>1, <2>5, <4>2 DEF Published
      <4> QED BY <2>2, <3>3, <4>3, LoneStep
    <3>5. CASE pc'[w] \in {"publish", "unpublish"}
      <4>1. Changing(w)'
        BY <3>5 DEF Changing
      <4> QED BY <1>1, <2>2, <2>5, <3>3, <4>1, LoneStep
    <3> QED BY <3>2, <3>4, <3>5
  <2> QED BY <2>6, <2>7
<1> QED BY <1>4, <1>5

LEMMA InsertZone ==
  ASSUME OneAtATime, ZoneInv, Typed', NEW w \in Workers, Insert(w)
  PROVE  ZoneInv'
<1> DEFINE p == req[w].pubkey
<1>1. /\ pc[w] = "insert" /\ req[w] \in Requests /\ p \in Pubkeys
      /\ req[w].op = "lnurlRegister" /\ IsLnurl(w)
      /\ UNCHANGED <<details, zone, req, last>> /\ last[w] \in Details \cup {None}
      /\ req[w].name \in MaybeName
  BY RequestFields DEF Insert, Goto, Answer, Proceed, ZoneInv, Typed, TypeOK, InFlight, IsLnurl
<1>2. pc'[w] = AfterStore(w)
  BY SoundStore DEF Insert, Proceed, Goto, Answer, ZoneInv, Typed, TypeOK
<1>3. Relies(w) /\ Unique /\ \A q \in Pubkeys \ {p} : Published(q)
  BY DEF ZoneInv, Zone, OneAtATime
<1>4. /\ pc'[w] \in {"publish", "unpublish", "done"}
      /\ pc'[w] = "publish" => req[w].name # None
      /\ pc'[w] = "unpublish" /\ req[w].offer # None => req[w].name # None
  BY <1>2 DEF AfterStore
<1>5. Unique' /\ Relies(w)'
  BY <1>1, <1>3, <1>4 DEF Unique, Relies
<1>6. CASE pc'[w] = "done"
  <2>1. CASE req[w].name = None
    <3>1. Published(p)
      BY <1>1, <2>1 DEF ZoneInv, Zone, OneAtATime, Changing
    <3> QED BY <1>1, <1>3, <1>5, <3>1, LoneStep DEF Published
  <2>2. CASE req[w].name # None
    <3>1. details[p] = [name |-> Lower[req[w].name], offer |-> LastOffer(w)]
      BY <1>1, <1>3, <2>2 DEF Relies
    <3>2. Published(p)
      <4>1. CASE ~HadOffer(w)
        BY <3>1, <4>1 DEF Published, HadOffer, LastOffer
      <4>2. CASE HadOffer(w)
        <5>1. ~NameChanges(w)
          BY <1>2, <1>6, <2>2, <4>2 DEF AfterStore
        <5>2. last[w].name = req[w].name /\ last[w].name \in Usernames
          BY <1>1, <2>2, <4>2, <5>1 DEF NameChanges, NewName, HadOffer, Details
        <5>3. Lower[last[w].name] = last[w].name
          BY <5>2, RegistryAssumption DEF Usernames
        <5> QED BY <1>1, <1>3, <3>1, <4>2, <5>2, <5>3 DEF Published, Relies, LastOffer, HadOffer
      <4> QED BY <4>1, <4>2
    <3> QED BY <1>1, <1>3, <1>5, <3>2, LoneStep DEF Published
  <2> QED BY <2>1, <2>2
<1>7. CASE pc'[w] # "done"
  <2>1. Changing(w)'
    BY <1>4, <1>7 DEF Changing
  <2> QED BY <1>1, <1>3, <1>5, <2>1, LoneStep DEF Published
<1> QED BY <1>6, <1>7

LEMMA DeleteZone ==
  ASSUME OneAtATime, ZoneInv, Typed', NEW w \in Workers, Delete(w)
  PROVE  ZoneInv'
<1>1. /\ pc[w] = "delete" /\ req[w] \in Requests /\ req[w].op = "lnurlUnregister"
      /\ UNCHANGED <<details, zone, req, last>> /\ req[w].offer = None
  BY RequestFields DEF Delete, Goto, Answer, Proceed, ZoneInv, Typed, InFlight
<1>2. pc'[w] \in {"unpublish", "done"}
  BY DEF Delete, Proceed, Goto, Answer, ZoneInv, Typed, TypeOK
<1>3. Relies(w) /\ Unique /\ \A q \in Pubkeys : Published(q)
  BY <1>1 DEF ZoneInv, Zone, OneAtATime, Changing
<1>4. Unique' /\ Relies(w)' /\ \A q \in Pubkeys : Published(q)'
  BY <1>1, <1>2, <1>3 DEF Unique, Relies, Published
<1> QED BY <1>4, LoneStep

(* The name that is removed from the zone is nobody else's. *)
LEMMA UnpublishZone ==
  ASSUME OneAtATime, ZoneInv, Typed', NEW w \in Workers, Unpublish(w)
  PROVE  ZoneInv'
<1> DEFINE p == req[w].pubkey
<1>1. /\ pc[w] = "unpublish" /\ UNCHANGED <<rows, details, req, last>>
      /\ zone' \in {zone, [zone EXCEPT ![last[w].name] = {}]}
      /\ last[w] # None /\ last[w].name # None
      /\ pc'[w] = IF req[w].offer # None THEN "publish" ELSE "forget"
  BY DEF Unpublish, Goto, ZoneInv, Typed, TypeOK, InFlight
<1>2. Relies(w) /\ Unique /\ \A q \in Pubkeys \ {p} : Published(q)
  BY DEF ZoneInv, Zone, OneAtATime
<1>3. \A q \in Pubkeys \ {p} : Published(q)'
  BY <1>1, <1>2 DEF Published, Relies, ZoneInv, Typed, TypeOK, NamedOffers, Details
<1>4. Unique' /\ Relies(w)' /\ Changing(w)'
  BY <1>1, <1>2 DEF Unique, Relies, Changing
<1> QED BY <1>1, <1>3, <1>4, LoneStep

LEMMA PublishZone ==
  ASSUME OneAtATime, ZoneInv, Typed', NEW w \in Workers, Publish(w)
  PROVE  ZoneInv'
<1> DEFINE p == req[w].pubkey
           n == Lower[req[w].name]
<1>1. /\ pc[w] = "publish" /\ req[w] \in Requests /\ p \in Pubkeys /\ IsRegister(w)
      /\ req[w].name \in Names /\ n \in Usernames
      /\ UNCHANGED <<rows, details, req, last>>
  BY RequestFields, LowerType
     DEF Publish, Goto, Answer, Proceed, ZoneInv, Typed, InFlight, MaybeName
<1>2. PICK out \in Outcomes(req[w].op \in DnsFaults) :
        /\ zone' = IF out.applied THEN [zone EXCEPT ![n] = @ \cup {req[w].offer}] ELSE zone
        /\ Proceed(w, IF out.ok THEN "record" ELSE AfterPublishError(w))
  BY DEF Publish
<1>3. /\ out.ok => out.applied
      /\ IsLnurl(w) => out.ok
  <2>1. (req[w].op \in DnsFaults) \in BOOLEAN
    OBVIOUS
  <2>2. IsLnurl(w) => (req[w].op \in DnsFaults) = FALSE
    BY DEF OneAtATime, IsLnurl
  <2> QED BY <2>1, <2>2, OkIsApplied, SoundOutcome
<1>4. pc'[w] = IF out.ok THEN "record" ELSE "retract"
  BY <1>2, <1>3 DEF AfterPublishError, Proceed, Goto, ZoneInv, Typed, TypeOK
<1>5. Relies(w) /\ Unique /\ \A q \in Pubkeys \ {p} : Published(q)
  BY DEF ZoneInv, Zone, OneAtATime
<1>6. \A x \in Usernames : zone[x] \subseteq zone'[x]
  BY <1>1, <1>2 DEF ZoneInv, Typed, TypeOK
<1>7. \A q \in Pubkeys \ {p} : Published(q)'
  BY <1>1, <1>5, <1>6 DEF Published, ZoneInv, Typed, TypeOK, NamedOffers, Details
<1>8. out.ok => req[w].offer \in zone'[n]
  BY <1>1, <1>2, <1>3 DEF ZoneInv, Typed, TypeOK
<1>9. Unique' /\ Relies(w)' /\ Changing(w)'
  BY <1>1, <1>4, <1>5, <1>8 DEF Unique, Relies, Changing
<1> QED BY <1>1, <1>7, <1>9, LoneStep

(* The last write meets no conflict, and makes the details say what the    *)
(* zone says.                                                              *)
LEMMA RecordZone ==
  ASSUME OneAtATime, ZoneInv, Typed', NEW w \in Workers, Record(w)
  PROVE  ZoneInv'
<1> DEFINE p == req[w].pubkey
           n == StoredName(w)
           o == StoredOffer(w)
<1>1. /\ pc[w] \in {"record", "retract", "forget"} /\ req[w] \in Requests /\ p \in Pubkeys
      /\ UNCHANGED <<rows, zone, req, last>> /\ pc'[w] = "done"
  BY RequestFields DEF Record, Answer, ZoneInv, Typed, TypeOK, InFlight
<1>2. Relies(w) /\ Unique /\ \A q \in Pubkeys \ {p} : Published(q)
  BY DEF ZoneInv, Zone, OneAtATime
<1>3. n \in Names /\ o \in MaybeOffer /\ Lower[n] \in Usernames /\ Lower[n] # None
  <2>1. CASE pc[w] = "forget"
    <3>1. last[w] \in Details /\ last[w].name # None
      BY <2>1 DEF ZoneInv, Typed, TypeOK, InFlight
    <3> QED BY <2>1, <3>1, LowerType DEF StoredName, StoredOffer, Details, MaybeOffer
  <2>2. CASE pc[w] # "forget"
    <3>1. req[w].name \in Names
      BY <1>1, <2>2, RequestFields DEF ZoneInv, Typed, InFlight, MaybeName
    <3> QED BY <1>1, <2>2, <3>1, LowerType, RequestFields DEF StoredName, StoredOffer, MaybeOffer
  <2> QED BY <2>1, <2>2
<1>4. ~Conflict(p, Lower[n])
  <2>1. CASE pc[w] = "forget"
    <3>1. n = last[w].name /\ last[w] # None /\ last[w].name \in Usernames
      BY <2>1, RegistryAssumption DEF ZoneInv, Typed, TypeOK, InFlight, StoredName, Details
    <3>2. Lower[n] = n
      BY <3>1, RegistryAssumption DEF Usernames
    <3> QED BY <1>2, <1>3, <3>1, <3>2 DEF Relies, Conflict
  <2>2. CASE pc[w] # "forget"
    <3>1. details[p].name = Lower[n]
      BY <1>1, <1>2, <2>2 DEF Relies, StoredName
    <3> QED BY <1>1, <1>2, <1>3, <3>1 DEF Unique, Conflict
  <2> QED BY <2>1, <2>2
<1>5. SetPubkeyDetails(p, n, o)
  BY <1>4, SoundStore DEF Record
<1>6. /\ Unique' /\ details'[p] = [name |-> Lower[n], offer |-> o]
      /\ \A q \in Pubkeys \ {p} : details'[q] = details[q]
  BY <1>1, <1>2, <1>3, <1>4, <1>5, StoreUnique DEF ZoneInv
<1>7. Published(p)'
  <2>1. o # None => pc[w] = "record" /\ n = req[w].name /\ o = req[w].offer
    BY DEF StoredName, StoredOffer
  <2> QED BY <1>1, <1>2, <1>6, <2>1 DEF Published, Relies
<1>8. \A q \in Pubkeys \ {p} : Published(q)'
  BY <1>1, <1>2, <1>6 DEF Published
<1>9. Relies(w)'
  BY <1>1, <1>2, <1>6 DEF Relies
<1>10. \A q \in Pubkeys : Published(q)'
  BY <1>1, <1>7, <1>8 DEF Published
<1> QED BY <1>6, <1>9, <1>10, LoneStep

LEMMA StepZone ==
  ASSUME OneAtATime, ZoneInv, [Next]_vars
  PROVE  ZoneInv'
<1>1. Typed'
  BY StepTyped DEF ZoneInv
<1>2. CASE UNCHANGED vars
  BY <1>1, <1>2 DEF vars, ZoneInv, Zone, Unique, Published, Changing, Relies,
                    HadOffer, LastOffer
<1>3. ASSUME NEW p \in Pubkeys, DeleteExpired(p)
      PROVE  ZoneInv'
  BY <1>1, <1>3 DEF DeleteExpired, workers, ZoneInv, Zone, Unique, Published, Changing, Relies,
                    HadOffer, LastOffer
<1>4. ~Crash
  BY DEF Crash, OneAtATime
<1> QED
  BY <1>1, <1>2, <1>3, <1>4, StartZone, ReadZone, ClaimZone, InsertZone, DeleteZone,
     UnpublishZone, PublishZone, RecordZone DEF Next

(* DatabaseIsPublished: with one request at a time, an offer the database  *)
(* holds for a username is published under it, although every registration *)
(* passes through states where it is not, DNS updates of the BOLT 12       *)
(* router may fail and webhooks expire (OfferPublished).                   *)
THEOREM DatabaseIsPublished ==
  ASSUME OneAtATime
  PROVE  Spec => []OfferPublished
<1>1. ZoneInv /\ [Next]_vars => ZoneInv'
  BY OneAtATime, StepZone
<1>2. ZoneInv => OfferPublished
  BY DEF ZoneInv, Zone, OfferPublished, Quiet, Published, Changing
<1> QED
  BY InitZone, <1>1, <1>2, PTL DEF Spec

-----------------------------------------------------------------------------
(* Many handlers of the lnurl router *)

(* Any number of lnurl requests, one in flight for each client, without    *)
(* failures, expiry or crashes.                                            *)
LnurlAlone ==
  /\ Ops \subseteq {"lnurlRegister", "lnurlUnregister"}
  /\ OnePerPubkey /\ ~StoreFaults /\ ~Expiry /\ ~Crashes
  /\ DnsFaults \cap {"lnurlRegister", "lnurlUnregister"} = {}

(* A handler that is about to change what its client has published.        *)
Unsettled(w) ==
  \/ pc[w] \in {"unpublish", "publish", "record", "forget"}
  \/ pc[w] = "insert" /\ AfterStore(w) # "done"

(* Why a record is in the zone: a client has it recorded, a handler is     *)
(* about to remove all records of the name, or to record this one.         *)
KeptBy(p, n, o) ==
  /\ details[p] = [name |-> n, offer |-> o]
  /\ \A w \in Workers : ~(Unsettled(w) /\ req[w].pubkey = p)

DoomedBy(w, n) ==
  /\ pc[w] = "unpublish" \/ (pc[w] = "insert" /\ AfterStore(w) = "unpublish")
  /\ last[w].name = n

FreshBy(w, n, o) ==
  pc[w] = "record" /\ Lower[req[w].name] = n /\ req[w].offer = o

Explained(n, o) ==
  \/ \E p \in Pubkeys : KeptBy(p, n, o)
  \/ \E w \in Workers : DoomedBy(w, n) \/ FreshBy(w, n, o)

(* What a handler read is still so until it writes; a registration that    *)
(* goes on to DNS has a webhook.                                           *)
Current(w) ==
  /\ pc[w] # "idle" => IsLnurl(w) /\ pc[w] # "retract"
  /\ pc[w] \in {"claim", "delete"} \/ (pc[w] = "insert" /\ req[w].name = None) =>
       last[w] = details[req[w].pubkey] \/ (last[w] = None /\ details[req[w].pubkey].offer = None)
  /\ pc[w] \in {"unpublish", "forget"} /\ req[w].op = "lnurlUnregister" =>
       last[w] = details[req[w].pubkey]
  /\ pc[w] \in {"unpublish", "publish", "record", "forget"} /\ req[w].op = "lnurlRegister" =>
       rows[req[w].pubkey] # {}

(* A pubkey without webhooks has no offer, but while one is being removed. *)
NoHookNoOffer ==
  \A p \in Pubkeys : rows[p] = {} =>
    \/ details[p].offer = None
    \/ \E w \in Workers : /\ pc[w] \in {"unpublish", "forget"}
                          /\ req[w].op = "lnurlUnregister" /\ req[w].pubkey = p

Records ==
  /\ Unique
  /\ \A w \in Workers : Current(w)
  /\ NoHookNoOffer
  /\ \A n \in Usernames : \A o \in zone[n] : Explained(n, o)

RecordsInv == Claims /\ Records

LEMMA InitRecords == Init => RecordsInv
  BY InitClaims, RegistryAssumption
     DEF Init, RecordsInv, Records, Unique, Current, NoHookNoOffer, NoDetails

(* What a handler's own client or the handler itself explains. *)
OwnExplains(w, n, o) ==
  \/ details[req[w].pubkey] = [name |-> n, offer |-> o] /\ ~Unsettled(w)
  \/ DoomedBy(w, n) \/ FreshBy(w, n, o)

Remains(w) ==
  pc[w] \in {"unpublish", "forget"} /\ req[w].op = "lnurlUnregister"

(* What is left to show of a step of w: it touches its own client only,    *)
(* and explains what it adds and what it used to explain.                  *)
LEMMA OwnStep ==
  ASSUME RecordsInv, Claims', NEW w \in Workers, pc[w] # "idle", pc'[w] # "idle",
         UNCHANGED req,
         \A v \in Workers \ {w} : pc'[v] = pc[v] /\ last'[v] = last[v],
         \A q \in Pubkeys \ {req[w].pubkey} : details'[q] = details[q] /\ rows'[q] = rows[q],
         Unique', Current(w)',
         rows'[req[w].pubkey] = {} => details'[req[w].pubkey].offer = None \/ Remains(w)',
         \A n \in Usernames : \A o \in zone'[n] :
           o \notin zone[n] \/ OwnExplains(w, n, o) => OwnExplains(w, n, o)'
  PROVE  RecordsInv'
<1> DEFINE p == req[w].pubkey
<1>1. /\ p \in Pubkeys
      /\ \A v \in Workers \ {w} : pc[v] # "idle" => req[v].pubkey # p
  BY RequestFields DEF RecordsInv, Claims, Typed, InFlight, Solo
<1>2. ASSUME NEW v \in Workers \ {w}
      PROVE  /\ Unsettled(v)' <=> Unsettled(v)
             /\ \A n : DoomedBy(v, n)' <=> DoomedBy(v, n)
             /\ \A n, o : FreshBy(v, n, o)' <=> FreshBy(v, n, o)
  BY <1>2 DEF Unsettled, DoomedBy, FreshBy, AfterStore, HadOffer, NameChanges, NewName,
              OfferChanges, IsLnurl
<1>3. \A v \in Workers : Current(v)'
  <2>1. ASSUME NEW v \in Workers \ {w}
        PROVE  Current(v)'
    <3>1. Current(v)
      BY DEF RecordsInv, Records
    <3>2. CASE pc[v] = "idle"
      BY <3>2 DEF Current
    <3>3. CASE pc[v] # "idle"
      <4>1. req[v].pubkey \in Pubkeys \ {p}
        BY <1>1, <3>3, RequestFields DEF RecordsInv, Claims, Typed, InFlight
      <4> QED BY <3>1, <4>1 DEF Current, IsLnurl
    <3> QED BY <3>2, <3>3
  <2> QED BY <2>1
<1>4. NoHookNoOffer'
  <2> SUFFICES ASSUME NEW q \in Pubkeys, rows'[q] = {}, details'[q].offer # None
               PROVE  \E v \in Workers : Remains(v)' /\ req'[v].pubkey = q
    BY DEF NoHookNoOffer, Remains
  <2>1. CASE q = p
    BY <2>1 DEF Remains
  <2>2. CASE q # p
    <3>1. PICK v \in Workers : Remains(v) /\ req[v].pubkey = q
      BY <2>2 DEF RecordsInv, Records, NoHookNoOffer, Remains
    <3>2. v # w
      BY <2>2, <3>1
    <3> QED BY <3>1, <3>2 DEF Remains
  <2> QED BY <2>1, <2>2
<1>5. ASSUME NEW n \in Usernames, NEW o \in zone'[n]
      PROVE  Explained(n, o)'
  <2>1. CASE OwnExplains(w, n, o)'
    <3>1. CASE DoomedBy(w, n)' \/ FreshBy(w, n, o)'
      BY <3>1 DEF Explained
    <3>2. CASE details'[p] = [name |-> n, offer |-> o] /\ ~Unsettled(w)'
      <4>1. ASSUME NEW v \in Workers
            PROVE  ~(Unsettled(v)' /\ req'[v].pubkey = p)
        <5>1. CASE v = w
          BY <3>2, <5>1
        <5>2. CASE v # w
          BY <1>1, <1>2, <5>2 DEF Unsettled
        <5> QED BY <5>1, <5>2
      <4>2. KeptBy(p, n, o)'
        BY <3>2, <4>1 DEF KeptBy
      <4> QED BY <1>1, <4>2 DEF Explained
    <3> QED BY <2>1, <3>1, <3>2 DEF OwnExplains
  <2>2. CASE o \in zone[n] /\ ~OwnExplains(w, n, o)
    <3>1. Explained(n, o)
      BY <2>2 DEF RecordsInv, Records
    <3>2. ASSUME NEW q \in Pubkeys, KeptBy(q, n, o)
          PROVE  KeptBy(q, n, o)'
      <4>1. q # p
        BY <2>2, <3>2 DEF KeptBy, OwnExplains
      <4>2. ASSUME NEW v \in Workers
            PROVE  ~(Unsettled(v)' /\ req'[v].pubkey = q)
        <5>1. CASE v = w
          BY <4>1, <5>1
        <5>2. CASE v # w
          BY <1>2, <3>2, <5>2 DEF KeptBy
        <5> QED BY <5>1, <5>2
      <4> QED BY <3>2, <4>1, <4>2 DEF KeptBy
    <3>3. ASSUME NEW v \in Workers, DoomedBy(v, n) \/ FreshBy(v, n, o)
          PROVE  DoomedBy(v, n)' \/ FreshBy(v, n, o)'
      <4>1. v # w
        BY <2>2, <3>3 DEF OwnExplains
      <4> QED BY <1>2, <3>3, <4>1
    <3> QED BY <3>1, <3>2, <3>3 DEF Explained
  <2> QED BY <2>1, <2>2
<1> QED BY <1>3, <1>4, <1>5 DEF RecordsInv, Records

(* A request comes or goes: nothing is explained by its handler alone.     *)
LEMMA StartRecords ==
  ASSUME LnurlAlone, RecordsInv, Claims', NEW w \in Workers, Start(w) \/ Return(w)
  PROVE  RecordsInv'
<1>1. /\ UNCHANGED <<rows, details, zone>>
      /\ pc[w] \in {"idle", "done"} /\ pc'[w] \in {"idle", "read"}
      /\ \A v \in Workers \ {w} : pc'[v] = pc[v] /\ last'[v] = last[v] /\ req'[v] = req[v]
      /\ pc'[w] # "idle" => req'[w].op \in Ops
  BY DEF Start, Return, stores, RecordsInv, Claims, Typed, TypeOK
<1>2. ASSUME NEW v \in Workers
      PROVE  /\ Unsettled(v)' => Unsettled(v) /\ req'[v] = req[v]
             /\ \A n : DoomedBy(v, n) => DoomedBy(v, n)'
             /\ \A n, o : FreshBy(v, n, o) => FreshBy(v, n, o)'
             /\ Current(v)'
             /\ Remains(v) => Remains(v)' /\ req'[v] = req[v]
  <2>1. CASE v = w
    BY <1>1, <2>1 DEF Unsettled, DoomedBy, FreshBy, Current, Remains, LnurlAlone, IsLnurl
  <2>2. CASE v # w
    BY <1>1, <2>2 DEF Unsettled, DoomedBy, FreshBy, AfterStore, HadOffer, NameChanges, NewName,
                      OfferChanges, IsLnurl, Remains, Current, RecordsInv, Records
  <2> QED BY <2>1, <2>2
<1>3. Unique' /\ NoHookNoOffer'
  BY <1>1, <1>2 DEF Unique, NoHookNoOffer, Remains, RecordsInv, Records
<1>4. ASSUME NEW n \in Usernames, NEW o \in zone[n]
      PROVE  Explained(n, o)'
  <2>1. Explained(n, o)
    BY DEF RecordsInv, Records
  <2>2. \A p \in Pubkeys : KeptBy(p, n, o) => KeptBy(p, n, o)'
    BY <1>1, <1>2 DEF KeptBy
  <2> QED BY <1>2, <2>1, <2>2 DEF Explained
<1> QED BY <1>1, <1>2, <1>3, <1>4 DEF RecordsInv, Records

LEMMA LnurlStore == LnurlAlone => \A out \in Outcomes(StoreFaults) : out.ok /\ out.applied
<1>1. LnurlAlone => StoreFaults = FALSE
  BY RegistryAssumption DEF LnurlAlone
<1> QED BY <1>1, SoundOutcome

(* What a handler in flight knows. *)
LEMMA OwnRequest ==
  ASSUME RecordsInv, NEW w \in Workers, pc[w] # "idle"
  PROVE  /\ req[w] \in Requests /\ req[w].pubkey \in Pubkeys /\ IsLnurl(w) /\ pc[w] # "retract"
         /\ req[w].name \in MaybeName /\ req[w].offer \in MaybeOffer
         /\ last[w] \in Details \cup {None} /\ details[req[w].pubkey] \in Details
         /\ Current(w) /\ Unique
         /\ rows[req[w].pubkey] = {} => details[req[w].pubkey].offer = None \/ Remains(w)
         /\ \A n \in Usernames : \A o \in zone[n] : o # None
<1>1. req[w] \in Requests /\ req[w].pubkey \in Pubkeys
  BY RequestFields DEF RecordsInv, Claims, Typed, InFlight
<1>2. rows[req[w].pubkey] = {} => details[req[w].pubkey].offer = None \/ Remains(w)
  BY <1>1 DEF RecordsInv, Records, NoHookNoOffer, Remains, Claims, Solo
<1>3. \A n \in Usernames : \A o \in zone[n] : o # None
  BY RegistryAssumption DEF RecordsInv, Claims, Typed, TypeOK
<1>4. /\ last[w] \in Details \cup {None} /\ details[req[w].pubkey] \in Details
      /\ req[w].name \in MaybeName /\ req[w].offer \in MaybeOffer
  BY <1>1, RequestFields DEF RecordsInv, Claims, Typed, TypeOK
<1> QED BY <1>1, <1>2, <1>3, <1>4 DEF RecordsInv, Records, Current

LEMMA ReadRecords ==
  ASSUME LnurlAlone, RecordsInv, Claims', NEW w \in Workers, Read(w)
  PROVE  RecordsInv'
<1> DEFINE p == req[w].pubkey
<1>1. /\ pc[w] = "read" /\ UNCHANGED <<rows, details, zone, req>>
      /\ \A v \in Workers \ {w} : pc'[v] = pc[v] /\ last'[v] = last[v]
      /\ last'[w] = Snapshot(w) /\ pc'[w] = AfterRead(w, Snapshot(w))
  BY DEF Read, stores, LnurlAlone, RecordsInv, Claims, Typed, TypeOK
<1>2. /\ req[w] \in Requests /\ p \in Pubkeys /\ IsLnurl(w) /\ Unique /\ details[p] \in Details
      /\ rows[p] = {} => details[p].offer = None
      /\ \A n \in Usernames : \A o \in zone[n] : o # None
  BY <1>1, OwnRequest DEF Remains
<1>3. last'[w] = details[p] \/ (last'[w] = None /\ details[p].offer = None)
  BY <1>1, <1>2 DEF Snapshot
<1>4. /\ pc'[w] \in {"claim", "insert", "delete", "done"}
      /\ pc'[w] = "insert" => req[w].name = None
  BY <1>1, <1>2 DEF AfterRead, FirstWrite, IsRegister, IsLnurl
<1>5. Current(w)' /\ Unique'
  BY <1>1, <1>2, <1>3, <1>4 DEF Current, IsLnurl, Unique
<1>6. ASSUME NEW n \in Usernames, NEW o \in zone'[n],
             o \notin zone[n] \/ OwnExplains(w, n, o)
      PROVE  OwnExplains(w, n, o)'
  <2>1. details[p] = [name |-> n, offer |-> o] /\ o # None
    BY <1>1, <1>2, <1>6 DEF OwnExplains, DoomedBy, FreshBy
  <2>2. last'[w] = details[p]
    BY <1>3, <2>1
  <2>3. CASE ~Unsettled(w)'
    BY <1>1, <2>1, <2>3 DEF OwnExplains
  <2>4. CASE Unsettled(w)'
    <3>1. pc'[w] = "insert" /\ AfterStore(w)' = "unpublish"
      BY <1>1, <1>4, <2>4 DEF Unsettled, AfterStore
    <3> QED BY <2>1, <2>2, <3>1 DEF OwnExplains, DoomedBy
  <2> QED BY <2>3, <2>4
<1>7. rows'[p] = {} => details'[p].offer = None
  BY <1>1, <1>2
<1> QED BY <1>1, <1>2, <1>4, <1>5, <1>6, <1>7, OwnStep

LEMMA ClaimRecords ==
  ASSUME LnurlAlone, RecordsInv, Claims', NEW w \in Workers, Claim(w)
  PROVE  RecordsInv'
<1> DEFINE p == req[w].pubkey
           n == req[w].name
           o == LastOffer(w)
<1>1. /\ pc[w] = "claim" /\ UNCHANGED <<rows, zone, req, last>>
      /\ \A v \in Workers \ {w} : pc'[v] = pc[v]
  BY DEF Claim, Proceed, Goto, Answer, RecordsInv, Claims, Typed, TypeOK
<1>2. /\ req[w] \in Requests /\ p \in Pubkeys /\ IsLnurl(w) /\ Unique /\ n \in Names
      /\ last[w] \in Details \cup {None} /\ details[p] \in Details
      /\ last[w] = details[p] \/ (last[w] = None /\ details[p].offer = None)
      /\ rows[p] = {} => details[p].offer = None
      /\ \A x \in Usernames : \A y \in zone[x] : y # None
  <2>1. n \in Names
    BY <1>1, RequestFields DEF RecordsInv, Claims, Typed, InFlight, MaybeName
  <2> QED BY <1>1, <2>1, OwnRequest DEF Remains, Current
<1>3. CASE Conflict(p, Lower[n])
  <2>1. UNCHANGED details /\ pc'[w] = "done"
    BY <1>1, <1>3 DEF Claim, Answer, RecordsInv, Claims, Typed, TypeOK
  <2>2. Unique' /\ Current(w)'
    BY <1>1, <1>2, <2>1 DEF Unique, Current, IsLnurl
  <2>3. ASSUME NEW x \in Usernames, NEW y \in zone'[x],
               y \notin zone[x] \/ OwnExplains(w, x, y)
        PROVE  OwnExplains(w, x, y)'
    BY <1>1, <2>1, <2>3 DEF OwnExplains, Unsettled, DoomedBy, FreshBy
  <2> QED BY <1>1, <1>2, <2>1, <2>2, <2>3, OwnStep
<1>4. CASE ~Conflict(p, Lower[n])
  <2>1. SetPubkeyDetails(p, n, o) /\ pc'[w] = "insert"
    <3>1. SetPubkeyDetails(p, n, o) /\ Proceed(w, "insert")
      BY <1>2, <1>4, LnurlStore DEF Claim
    <3> QED BY <3>1 DEF Proceed, Goto, RecordsInv, Claims, Typed, TypeOK
  <2>2. o \in MaybeOffer
    BY <1>2 DEF LastOffer, Details, MaybeOffer
  <2>3. /\ Unique' /\ details'[p] = [name |-> Lower[n], offer |-> o]
        /\ \A q \in Pubkeys \ {p} : details'[q] = details[q]
    BY <1>2, <1>4, <2>1, <2>2, StoreUnique DEF RecordsInv, Claims
  <2>4. n # None /\ o = details[p].offer
    <3>1. n # None
      BY <1>2, RegistryAssumption
    <3>2. details[p] # None
      BY <1>2, NoRowAssumption
    <3> QED BY <1>2, <3>1, <3>2 DEF LastOffer
  <2>5. Current(w)'
    BY <1>1, <1>2, <2>1, <2>4 DEF Current, IsLnurl
  <2>6. ASSUME NEW x \in Usernames, NEW y \in zone'[x],
               y \notin zone[x] \/ OwnExplains(w, x, y)
        PROVE  OwnExplains(w, x, y)'
    <3>1. details[p] = [name |-> x, offer |-> y] /\ y # None
      BY <1>1, <1>2, <2>6 DEF OwnExplains, DoomedBy, FreshBy
    <3>2. last[w] = details[p] /\ HadOffer(w)
      <4>1. last[w] = details[p] /\ details[p].offer # None
        BY <1>2, <3>1
      <4>2. details[p] # None
        BY <1>2, NoRowAssumption
      <4> QED BY <4>1, <4>2 DEF HadOffer
    <3>3. AfterStore(w)' = AfterStore(w) /\ AfterStore(w) \in {"unpublish", "done"}
      <4>1. AfterStore(w)' = AfterStore(w)
        BY <1>1 DEF AfterStore, HadOffer, NameChanges, NewName, OfferChanges, IsLnurl
      <4>2. AfterStore(w) \in {"unpublish", "done"}
        BY <1>2, <3>2 DEF AfterStore
      <4> QED BY <4>1, <4>2
    <3>4. CASE AfterStore(w) = "unpublish"
      BY <1>1, <2>1, <3>1, <3>2, <3>3, <3>4 DEF OwnExplains, DoomedBy
    <3>5. CASE AfterStore(w) = "done"
      <4>1. n = last[w].name
        BY <1>2, <2>4, <3>2, <3>5 DEF AfterStore, NameChanges, NewName
      <4>2. Lower[n] = x
        BY <3>1, <3>2, <4>1, RegistryAssumption DEF Usernames
      <4>3. details'[p] = [name |-> x, offer |-> y]
        BY <2>3, <2>4, <3>1, <4>2
      <4> QED BY <1>1, <2>1, <3>3, <3>5, <4>3 DEF OwnExplains, Unsettled
    <3> QED BY <3>3, <3>4, <3>5
  <2>7. rows'[p] = {} => details'[p].offer = None
    BY <1>1, <1>2, <2>3, <2>4
  <2> QED BY <1>1, <1>2, <2>1, <2>3, <2>5, <2>6, <2>7, OwnStep
<1> QED BY <1>3, <1>4

LEMMA InsertRecords ==
  ASSUME LnurlAlone, RecordsInv, Claims', NEW w \in Workers, Insert(w)
  PROVE  RecordsInv'
<1> DEFINE p == req[w].pubkey
<1>1. /\ pc[w] = "insert" /\ UNCHANGED <<details, zone, req, last>>
      /\ \A v \in Workers \ {w} : pc'[v] = pc[v]
  BY DEF Insert, Proceed, Goto, Answer, RecordsInv, Claims, Typed, TypeOK
<1>2. /\ req[w] \in Requests /\ p \in Pubkeys /\ IsLnurl(w) /\ Unique
      /\ req[w].op = "lnurlRegister"
  BY <1>1, OwnRequest DEF RecordsInv, Claims, Typed, InFlight
<1>3. /\ rows' = [rows EXCEPT ![p] = @ \cup {req[w].url}]
      /\ pc'[w] = AfterStore(w)
  BY LnurlStore DEF Insert, Proceed, Goto, Answer, RecordsInv, Claims, Typed, TypeOK
<1>4. rows'[p] # {} /\ \A q \in Pubkeys \ {p} : rows'[q] = rows[q]
  BY <1>2, <1>3 DEF RecordsInv, Claims, Typed, TypeOK
<1>5. pc'[w] \in {"publish", "unpublish", "done"}
  BY <1>3 DEF AfterStore
<1>6. Unique' /\ Current(w)'
  BY <1>1, <1>2, <1>4, <1>5 DEF Unique, Current, IsLnurl
<1>7. ASSUME NEW n \in Usernames, NEW o \in zone'[n],
             o \notin zone[n] \/ OwnExplains(w, n, o)
      PROVE  OwnExplains(w, n, o)'
  BY <1>1, <1>3, <1>5, <1>7 DEF OwnExplains, Unsettled, DoomedBy, FreshBy
<1> QED BY <1>1, <1>2, <1>4, <1>5, <1>6, <1>7, OwnStep

LEMMA DeleteRecords ==
  ASSUME LnurlAlone, RecordsInv, Claims', NEW w \in Workers, Delete(w)
  PROVE  RecordsInv'
<1> DEFINE p == req[w].pubkey
<1>1. /\ pc[w] = "delete" /\ UNCHANGED <<details, zone, req, last>>
      /\ \A v \in Workers \ {w} : pc'[v] = pc[v]
  BY DEF Delete, Proceed, Goto, Answer, RecordsInv, Claims, Typed, TypeOK
<1>2. /\ req[w] \in Requests /\ p \in Pubkeys /\ IsLnurl(w) /\ Unique
      /\ req[w].op = "lnurlUnregister" /\ last[w] # None /\ details[p] \in Details
      /\ \A n \in Usernames : \A o \in zone[n] : o # None
  BY <1>1, OwnRequest DEF RecordsInv, Claims, Typed, InFlight
<1>3. last[w] = details[p]
  BY <1>1, <1>2, OwnRequest DEF Current
<1>4. /\ \A q \in Pubkeys \ {p} : rows'[q] = rows[q]
      /\ pc'[w] = IF last[w].name # None THEN "unpublish" ELSE "done"
  BY LnurlStore DEF Delete, Proceed, Goto, Answer, RecordsInv, Claims, Typed, TypeOK
<1>5. Unique' /\ Current(w)'
  BY <1>1, <1>2, <1>3, <1>4 DEF Unique, Current, IsLnurl
<1>6. ASSUME NEW n \in Usernames, NEW o \in zone'[n],
             o \notin zone[n] \/ OwnExplains(w, n, o)
      PROVE  OwnExplains(w, n, o)'
  <2>1. details[p] = [name |-> n, offer |-> o]
    BY <1>1, <1>6 DEF OwnExplains, DoomedBy, FreshBy
  <2>2. pc'[w] = "unpublish" /\ last'[w].name = n
    BY <1>1, <1>3, <1>4, <2>1, LowerType
  <2> QED BY <2>2 DEF OwnExplains, DoomedBy
<1>7. details'[p].offer = None \/ Remains(w)'
  <2>1. CASE details[p].offer = None
    BY <1>1, <2>1
  <2>2. CASE details[p].offer # None
    <3>1. details[p].name # None
      BY <1>2, <2>2 DEF RecordsInv, Claims, Typed, NamedOffers
    <3> QED BY <1>1, <1>2, <1>3, <1>4, <3>1 DEF Remains
  <2> QED BY <2>1, <2>2
<1>8. pc'[w] # "idle"
  BY <1>4
<1> QED BY <1>1, <1>2, <1>4, <1>5, <1>6, <1>7, <1>8, OwnStep

(* A DNS update of the lnurl router takes effect. *)
LEMMA LnurlDns ==
  ASSUME LnurlAlone, NEW w \in Workers, IsLnurl(w)
  PROVE  \A out \in Outcomes(req[w].op \in DnsFaults) : out.ok /\ out.applied
<1>1. (req[w].op \in DnsFaults) = FALSE
  BY DEF LnurlAlone, IsLnurl
<1> QED BY <1>1, SoundOutcome

LEMMA UnpublishRecords ==
  ASSUME LnurlAlone, RecordsInv, Claims', NEW w \in Workers, Unpublish(w)
  PROVE  RecordsInv'
<1> DEFINE p == req[w].pubkey
<1>1. /\ pc[w] = "unpublish" /\ UNCHANGED <<rows, details, req, last>>
      /\ \A v \in Workers \ {w} : pc'[v] = pc[v]
      /\ pc'[w] = IF req[w].offer # None THEN "publish" ELSE "forget"
  BY DEF Unpublish, Goto, RecordsInv, Claims, Typed, TypeOK
<1>2. /\ req[w] \in Requests /\ p \in Pubkeys /\ IsLnurl(w) /\ Unique /\ Current(w)
      /\ rows[p] = {} => details[p].offer = None \/ Remains(w)
  BY <1>1, OwnRequest
<1>3. zone' = [zone EXCEPT ![last[w].name] = {}]
  BY <1>2, LnurlDns DEF Unpublish
<1>4. req[w].op = "lnurlUnregister" => req[w].offer = None
  BY <1>2, RequestFields
<1>5. Unique' /\ Current(w)'
  BY <1>1, <1>2, <1>4 DEF Unique, Current, IsLnurl
<1>6. ASSUME NEW n \in Usernames, NEW o \in zone'[n],
             o \notin zone[n] \/ OwnExplains(w, n, o)
      PROVE  FALSE
  <2>1. n # last[w].name /\ o \in zone[n]
    BY <1>3, <1>6 DEF RecordsInv, Claims, Typed, TypeOK
  <2> QED BY <1>1, <1>6, <2>1 DEF OwnExplains, Unsettled, DoomedBy, FreshBy
<1>7. rows'[p] = {} => details'[p].offer = None \/ Remains(w)'
  BY <1>1, <1>2, <1>4 DEF Remains
<1>8. pc'[w] # "idle"
  BY <1>1
<1> QED BY <1>1, <1>2, <1>5, <1>6, <1>7, <1>8, OwnStep

LEMMA PublishRecords ==
  ASSUME LnurlAlone, RecordsInv, Claims', NEW w \in Workers, Publish(w)
  PROVE  RecordsInv'
<1> DEFINE p == req[w].pubkey
<1>1. /\ pc[w] = "publish" /\ UNCHANGED <<rows, details, req, last>>
      /\ \A v \in Workers \ {w} : pc'[v] = pc[v]
  BY DEF Publish, Proceed, Goto, Answer, RecordsInv, Claims, Typed, TypeOK
<1>2. /\ req[w] \in Requests /\ p \in Pubkeys /\ IsLnurl(w) /\ Unique /\ Current(w)
      /\ IsRegister(w)
  BY <1>1, OwnRequest DEF RecordsInv, Claims, Typed, InFlight
<1>3. /\ zone' = [zone EXCEPT ![Lower[req[w].name]] = @ \cup {req[w].offer}]
      /\ pc'[w] = "record"
  BY <1>2, LnurlDns DEF Publish, Proceed, Goto, RecordsInv, Claims, Typed, TypeOK
<1>4. req[w].op = "lnurlRegister" /\ rows[p] # {}
  BY <1>1, <1>2 DEF IsLnurl, IsRegister, Current
<1>5. Unique' /\ Current(w)'
  BY <1>1, <1>2, <1>3, <1>4 DEF Unique, Current, IsLnurl
<1>6. ASSUME NEW n \in Usernames, NEW o \in zone'[n],
             o \notin zone[n] \/ OwnExplains(w, n, o)
      PROVE  OwnExplains(w, n, o)'
  <2>1. o \notin zone[n]
    BY <1>1, <1>6 DEF OwnExplains, Unsettled, DoomedBy, FreshBy
  <2>2. n = Lower[req[w].name] /\ o = req[w].offer
    BY <1>3, <1>6, <2>1 DEF RecordsInv, Claims, Typed, TypeOK
  <2> QED BY <1>1, <1>3, <2>2 DEF OwnExplains, FreshBy
<1>7. rows'[p] # {}
  BY <1>1, <1>4
<1>8. pc'[w] # "idle"
  BY <1>3
<1> QED BY <1>1, <1>2, <1>5, <1>6, <1>7, <1>8, OwnStep

(* The last write finds the username still its client's own.               *)
LEMMA RecordRecords ==
  ASSUME LnurlAlone, RecordsInv, Claims', NEW w \in Workers, Record(w)
  PROVE  RecordsInv'
<1> DEFINE p == req[w].pubkey
           n == StoredName(w)
           o == StoredOffer(w)
<1>1. /\ pc[w] \in {"record", "forget"} /\ UNCHANGED <<rows, zone, req, last>>
      /\ \A v \in Workers \ {w} : pc'[v] = pc[v]
      /\ pc'[w] = "done"
  BY OwnRequest DEF Record, Answer, RecordsInv, Claims, Typed, TypeOK
<1>2. /\ req[w] \in Requests /\ p \in Pubkeys /\ IsLnurl(w) /\ Unique /\ Current(w)
      /\ rows[p] = {} => details[p].offer = None \/ Remains(w)
  BY <1>1, OwnRequest
<1>3. /\ req[w].op \in {"lnurlRegister", "lnurlUnregister"}
      /\ pc[w] = "record" => req[w].op = "lnurlRegister" /\ req[w].name \in Names
  <2>1. pc[w] = "record" => IsRegister(w) /\ req[w].name # None
    BY DEF RecordsInv, Claims, Typed, InFlight
  <2> QED BY <1>2, <2>1, RequestFields DEF IsLnurl, IsRegister, MaybeName
<1>4. n \in Names /\ o \in MaybeOffer /\ Lower[n] # None
  <2>1. CASE pc[w] = "forget"
    <3>1. last[w] \in Details /\ last[w].name # None
      BY <2>1 DEF RecordsInv, Claims, Typed, TypeOK, InFlight
    <3> QED BY <2>1, <3>1, LowerType DEF StoredName, StoredOffer, Details, MaybeOffer
  <2>2. CASE pc[w] = "record"
    BY <1>2, <1>3, <2>2, LowerType, RequestFields DEF StoredName, StoredOffer
  <2> QED BY <1>1, <2>1, <2>2
<1>5. Conflict(p, Lower[n]) => req[w].op = "lnurlRegister" /\ pc[w] = "forget"
  <2>1. CASE pc[w] = "record"
    <3>1. Claimed(w)
      BY <2>1 DEF RecordsInv, Claims, Claimed, Typed, InFlight
    <3>2. details[p].name = Lower[n]
      BY <2>1, <3>1 DEF RecordsInv, Claims, Holds, StoredName
    <3> QED BY <1>2, <1>4, <3>2 DEF Conflict, Unique
  <2>2. CASE pc[w] = "forget" /\ req[w].op = "lnurlUnregister"
    <3>1. n = details[p].name /\ n \in Usernames
      BY <1>2, <2>2 DEF Current, StoredName, RecordsInv, Claims, Typed, TypeOK, InFlight, Details
    <3>2. Lower[n] = n
      BY <3>1, RegistryAssumption DEF Usernames
    <3> QED BY <1>2, <1>4, <3>1, <3>2 DEF Conflict, Unique
  <2> QED BY <1>1, <1>3, <2>1, <2>2
<1>6. /\ Unique' /\ \A q \in Pubkeys \ {p} : details'[q] = details[q]
      /\ details'[p] = IF Conflict(p, Lower[n]) THEN details[p] ELSE [name |-> Lower[n], offer |-> o]
  <2>1. CASE Conflict(p, Lower[n])
    BY <1>2, <2>1 DEF Record, Unique
  <2>2. CASE ~Conflict(p, Lower[n])
    <3>1. SetPubkeyDetails(p, n, o)
      BY <2>2, LnurlStore DEF Record
    <3> QED BY <1>2, <1>4, <2>2, <3>1, StoreUnique DEF RecordsInv, Claims
  <2> QED BY <2>1, <2>2
<1>7. Current(w)'
  BY <1>1, <1>2 DEF Current, IsLnurl
<1>8. ASSUME NEW x \in Usernames, NEW y \in zone'[x],
             y \notin zone[x] \/ OwnExplains(w, x, y)
      PROVE  OwnExplains(w, x, y)'
  <2>1. pc[w] = "record" /\ Lower[req[w].name] = x /\ req[w].offer = y
    BY <1>1, <1>8 DEF OwnExplains, Unsettled, DoomedBy, FreshBy
  <2>2. details'[p] = [name |-> x, offer |-> y]
    BY <1>5, <1>6, <2>1 DEF StoredName, StoredOffer
  <2> QED BY <1>1, <2>2 DEF OwnExplains, Unsettled
<1>9. rows'[p] = {} => details'[p].offer = None
  <2> SUFFICES ASSUME rows[p] = {} PROVE details'[p].offer = None
    BY <1>1
  <2>1. pc[w] = "forget" /\ req[w].op = "lnurlUnregister"
    BY <1>1, <1>2, <1>3 DEF Current
  <2> QED BY <1>5, <1>6, <2>1 DEF StoredOffer
<1>10. pc[w] # "idle" /\ pc'[w] # "idle"
  BY <1>1
<1> QED BY <1>1, <1>2, <1>6, <1>7, <1>8, <1>9, <1>10, OwnStep

LEMMA StepRecords ==
  ASSUME LnurlAlone
  PROVE  RecordsInv /\ [Next]_vars => RecordsInv'
<1> SUFFICES ASSUME RecordsInv, [Next]_vars PROVE RecordsInv'
  OBVIOUS
<1>1. Claims'
  BY StepClaims DEF LnurlAlone, RecordsInv
<1>2. ASSUME NEW w \in Workers, Start(w) \/ Return(w) PROVE RecordsInv'
  BY <1>1, <1>2, StartRecords
<1>3. ASSUME NEW w \in Workers, Read(w) PROVE RecordsInv'
  BY <1>1, <1>3, ReadRecords
<1>4. ASSUME NEW w \in Workers, Claim(w) PROVE RecordsInv'
  BY <1>1, <1>4, ClaimRecords
<1>5. ASSUME NEW w \in Workers, Insert(w) PROVE RecordsInv'
  BY <1>1, <1>5, InsertRecords
<1>6. ASSUME NEW w \in Workers, Delete(w) PROVE RecordsInv'
  BY <1>1, <1>6, DeleteRecords
<1>7. ASSUME NEW w \in Workers, Unpublish(w) PROVE RecordsInv'
  BY <1>1, <1>7, UnpublishRecords
<1>8. ASSUME NEW w \in Workers, Publish(w) PROVE RecordsInv'
  BY <1>1, <1>8, PublishRecords
<1>9. ASSUME NEW w \in Workers, Record(w) PROVE RecordsInv'
  BY <1>1, <1>9, RecordRecords
<1>10. ASSUME NEW p \in Pubkeys, DeleteExpired(p) PROVE RecordsInv'
  BY <1>10 DEF DeleteExpired, LnurlAlone
<1>11. ASSUME Crash PROVE RecordsInv'
  BY <1>11 DEF Crash, LnurlAlone
<1>12. CASE UNCHANGED vars
  BY <1>1, <1>12 DEF vars, RecordsInv, Records, Unique, Current, IsLnurl, NoHookNoOffer, Explained,
       KeptBy, DoomedBy, FreshBy, Unsettled, AfterStore, HadOffer, NameChanges, NewName, OfferChanges
<1> QED
  BY <1>2, <1>3, <1>4, <1>5, <1>6, <1>7, <1>8, <1>9, <1>10, <1>11, <1>12 DEF Next

(* NothingStray: however many lnurl requests interleave, one for each      *)
(* client, a username resolves to no offer but its holder's whenever no    *)
(* handler is under way (NoStrayRecord), also when it has just changed     *)
(* hands.                                                                  *)
THEOREM NothingStray ==
  ASSUME LnurlAlone
  PROVE  Spec => []NoStrayRecord
<1>1. RecordsInv /\ [Next]_vars => RecordsInv'
  BY LnurlAlone, StepRecords
<1>2. RecordsInv => NoStrayRecord
  <2> SUFFICES ASSUME RecordsInv, Quiet, NEW n \in Usernames, NEW o \in zone[n]
               PROVE  \E p \in Pubkeys : details[p] = [name |-> n, offer |-> o]
    BY DEF NoStrayRecord
  <2>1. Explained(n, o)
    BY DEF RecordsInv, Records
  <2> QED BY <2>1 DEF Explained, KeptBy, DoomedBy, FreshBy, Quiet
<1> QED
  BY InitRecords, <1>1, <1>2, PTL DEF Spec

=============================================================================
