------------------------- MODULE LnurlRegistry_proofs -------------------------
(***************************************************************************)
(* Proofs about LnurlRegistry for any pubkeys, names, offers and workers,  *)
(* with every fault, crashes and expiry.  Typed says what a handler knows  *)
(* at each of its steps; Claims adds that the name it claimed is still its    *)
(* own, which needs clients that have one request at a time in flight.     *)
(***************************************************************************)
EXTENDS LnurlRegistry, TLAPS

(* A row with an offer has a username, also in a handler's copy of it.     *)
NamedOffers ==
  /\ \A p \in Pubkeys : details[p].offer # None => details[p].name # None
  /\ \A w \in Workers : last[w] # None /\ last[w].offer # None => last[w].name # None

(* What is known of the request and of the copy at each step.              *)
InFlight ==
  \A w \in Workers :
    /\ pc[w] # "idle" => req[w] \in Requests
    /\ pc[w] \in {"claim", "publish", "record", "retract"} => IsRegister(w) /\ req[w].name # None
    /\ pc[w] = "insert" => req[w].op = "lnurlRegister"
    /\ pc[w] \in {"publish", "record"} => req[w].offer # None
    /\ pc[w] \in {"unpublish", "forget"} => last[w] # None /\ last[w].name # None
    /\ pc[w] = "unpublish" /\ req[w].offer # None => IsRegister(w) /\ req[w].name # None
    /\ pc[w] = "delete" => last[w] # None /\ req[w].op = "lnurlUnregister"

Typed == TypeOK /\ NamedOffers /\ InFlight

LEMMA RequestFields ==
  ASSUME NEW r \in Requests
  PROVE  /\ r.op \in Operations /\ r.pubkey \in Pubkeys /\ r.url \in Urls \cup {None}
         /\ r.name \in MaybeName /\ r.offer \in MaybeOffer
         /\ r.op = "lnurlRegister" => r.url \in Urls
         /\ r.op = "lnurlUnregister" => r.url \in Urls /\ r.name = None /\ r.offer = None
         /\ r.op = "offerRegister" => r.name \in Names /\ r.offer \in Offers
         /\ r.op = "offerUnregister" => r.name = None /\ r.offer = None
  BY RegistryAssumption DEF Requests, Operations, MaybeName, MaybeOffer

LEMMA LowerType ==
  /\ \A n \in Names : Lower[n] \in Usernames
  /\ Usernames \subseteq Names /\ None \notin Usernames
  BY RegistryAssumption DEF Usernames

LEMMA OutcomeType ==
  ASSUME NEW f \in BOOLEAN, NEW out \in Outcomes(f)
  PROVE  out.ok \in BOOLEAN /\ out.applied \in BOOLEAN
<1>1. CASE out = [ok |-> TRUE, applied |-> TRUE]
  BY <1>1
<1>2. CASE out \in [ok : {FALSE}, applied : BOOLEAN]
  BY <1>2
<1> QED
  BY <1>1, <1>2 DEF Outcomes

LEMMA OkIsApplied ==
  ASSUME NEW f \in BOOLEAN, NEW out \in Outcomes(f)
  PROVE  out.ok => out.applied
<1>1. CASE out = [ok |-> TRUE, applied |-> TRUE]
  BY <1>1
<1>2. CASE out \in [ok : {FALSE}, applied : BOOLEAN]
  BY <1>2
<1> QED
  BY <1>1, <1>2 DEF Outcomes

DetailsTyped ==
  /\ details \in [Pubkeys -> Details]
  /\ \A p \in Pubkeys : details[p].offer # None => details[p].name # None

(* SetPubkeyDetails stores a username with whatever offer it is given.     *)
LEMMA StoredTyped ==
  ASSUME DetailsTyped, NEW p \in Pubkeys, NEW n \in Names, NEW o \in MaybeOffer,
         SetPubkeyDetails(p, n, o)
  PROVE  DetailsTyped'
<1> DEFINE new == [name |-> Lower[n], offer |-> o]
<1>1. new \in Details /\ new.name # None
  BY LowerType DEF Details
<1>2. details' = [details EXCEPT ![p] = new]
  BY DEF SetPubkeyDetails
<1> HIDE DEF new
<1> QED
  BY <1>1, <1>2 DEF DetailsTyped

LEMMA InitTyped == Init => Typed
  BY RegistryAssumption, LowerType
  DEF Init, Typed, TypeOK, NamedOffers, InFlight, Pcs, NoDetails, Details, MaybeOffer

LEMMA StepTyped == Typed /\ [Next]_vars => Typed'
<1> SUFFICES ASSUME Typed, [Next]_vars PROVE Typed'
  OBVIOUS
<1> USE RegistryAssumption, LowerType, RequestFields, OutcomeType
    DEF Typed, TypeOK, NamedOffers, InFlight, Pcs, Details, MaybeName, MaybeOffer, stores, workers,
        IsRegister, IsLnurl, Proceed, Goto, Answer
<1>1. ASSUME NEW w \in Workers, Start(w) PROVE Typed'
  BY <1>1 DEF Start
<1>2. ASSUME NEW w \in Workers, Read(w) PROVE Typed'
  BY <1>2 DEF Read, AfterRead, FirstWrite, Snapshot, NoDetails, Operations
<1>3. ASSUME NEW w \in Workers, Claim(w) PROVE Typed'
  <2>1. /\ pc[w] = "claim" /\ req[w] \in Requests /\ IsRegister(w) /\ req[w].name \in Names
        /\ UNCHANGED <<rows, zone>>
    BY <1>3 DEF Claim
  <2>2. UNCHANGED details \/ \E o \in MaybeOffer : SetPubkeyDetails(req[w].pubkey, req[w].name, o)
    BY <1>3, <2>1 DEF Claim, LastOffer
  <2>3. DetailsTyped'
    BY <2>1, <2>2, StoredTyped DEF DetailsTyped
  <2>4. \/ Answer(w, "conflict") \/ Answer(w, "ok")
        \/ Goto(w, "insert") /\ req[w].op = "lnurlRegister"
        \/ Goto(w, "publish") /\ req[w].offer # None
        \/ Goto(w, "unpublish") /\ HadOffer(w)
    BY <1>3, <2>1 DEF Claim, AfterStore, Operations
  <2>5. TypeOK'
    BY <2>1, <2>3, <2>4 DEF DetailsTyped
  <2>6. NamedOffers'
    BY <2>1, <2>3, <2>4 DEF DetailsTyped
  <2>7. InFlight'
    BY <2>1, <2>4 DEF HadOffer
  <2> QED
    BY <2>5, <2>6, <2>7
<1>4. ASSUME NEW w \in Workers, Insert(w) PROVE Typed'
  <2>1. /\ pc[w] = "insert" /\ req[w] \in Requests /\ req[w].op = "lnurlRegister"
        /\ IsRegister(w) /\ UNCHANGED <<details, zone>>
    BY <1>4 DEF Insert
  <2>2. rows' \in [Pubkeys -> SUBSET Urls]
    <3>1. req[w].pubkey \in Pubkeys /\ req[w].url \in Urls
      BY <2>1
    <3>2. rows' \in {rows, [rows EXCEPT ![req[w].pubkey] = @ \cup {req[w].url}]}
      BY <1>4 DEF Insert
    <3> QED
      BY <3>1, <3>2
  <2>3. \/ Answer(w, "error") \/ Answer(w, "ok")
        \/ Goto(w, "publish") /\ req[w].name # None /\ req[w].offer # None
        \/ Goto(w, "unpublish") /\ HadOffer(w) /\ (req[w].offer # None => req[w].name # None)
    BY <1>4, <2>1 DEF Insert, AfterStore
  <2>4. TypeOK'
    BY <2>1, <2>2, <2>3
  <2>5. NamedOffers'
    BY <2>1, <2>3
  <2>6. InFlight'
    BY <2>1, <2>3 DEF HadOffer
  <2> QED
    BY <2>4, <2>5, <2>6
<1>5. ASSUME NEW w \in Workers, Delete(w) PROVE Typed'
  <2>1. /\ pc[w] = "delete" /\ req[w] \in Requests /\ req[w].op = "lnurlUnregister"
        /\ last[w] # None /\ UNCHANGED <<details, zone>>
    BY <1>5 DEF Delete
  <2>2. rows' \in [Pubkeys -> SUBSET Urls]
    <3>1. req[w].pubkey \in Pubkeys
      BY <2>1
    <3>2. rows' \in {rows, [rows EXCEPT ![req[w].pubkey] = @ \ {req[w].url}]}
      BY <1>5 DEF Delete
    <3> QED
      BY <3>1, <3>2
  <2>3. \/ Answer(w, "error") \/ Answer(w, "ok")
        \/ Goto(w, "unpublish") /\ last[w].name # None
    BY <1>5 DEF Delete
  <2>4. req[w].offer = None
    BY <2>1
  <2>5. TypeOK'
    BY <2>1, <2>2, <2>3
  <2>6. NamedOffers'
    BY <2>1, <2>3
  <2>7. InFlight'
    BY <2>1, <2>3, <2>4
  <2> QED
    BY <2>5, <2>6, <2>7
<1>6. ASSUME NEW w \in Workers, Unpublish(w) PROVE Typed'
  <2>1. /\ pc[w] = "unpublish" /\ last[w] # None /\ last[w].name \in Usernames
        /\ req[w] \in Requests /\ UNCHANGED <<rows, details>>
        /\ Goto(w, IF req[w].offer # None THEN "publish" ELSE "forget")
    BY <1>6 DEF Unpublish
  <2>2. zone' \in [Usernames -> SUBSET Offers]
    BY <1>6 DEF Unpublish
  <2>3. TypeOK'
    BY <2>1, <2>2
  <2>4. NamedOffers'
    BY <2>1
  <2>5. InFlight'
    BY <2>1
  <2> QED
    BY <2>3, <2>4, <2>5
<1>7. ASSUME NEW w \in Workers, Publish(w) PROVE Typed'
  <2>1. /\ pc[w] = "publish" /\ req[w] \in Requests /\ UNCHANGED <<rows, details>>
        /\ IsRegister(w) /\ req[w].name \in Names /\ req[w].offer \in Offers
    BY <1>7 DEF Publish
  <2>2. zone' \in [Usernames -> SUBSET Offers]
    BY <1>7, <2>1 DEF Publish
  <2>3. Answer(w, "ok") \/ Goto(w, "record") \/ Goto(w, "retract")
    BY <1>7 DEF Publish, AfterPublishError
  <2>4. TypeOK'
    BY <2>1, <2>2, <2>3
  <2>5. NamedOffers'
    BY <2>1, <2>3
  <2>6. InFlight'
    BY <2>1, <2>3
  <2> QED
    BY <2>4, <2>5, <2>6
<1>8. ASSUME NEW w \in Workers, Record(w) PROVE Typed'
  <2>1. /\ pc[w] \in {"record", "retract", "forget"} /\ req[w].pubkey \in Pubkeys
        /\ StoredName(w) \in Names /\ StoredOffer(w) \in MaybeOffer
    BY <1>8 DEF Record, StoredName, StoredOffer
  <2>2. DetailsTyped'
    BY <1>8, <2>1, StoredTyped DEF Record, DetailsTyped
  <2>3. Answer(w, "ok") /\ UNCHANGED <<rows, zone>> /\ pc[w] # "idle"
    BY <1>8 DEF Record
  <2>4. TypeOK'
    BY <2>2, <2>3 DEF DetailsTyped
  <2>5. NamedOffers'
    BY <2>2, <2>3 DEF DetailsTyped
  <2>6. InFlight'
    BY <2>3
  <2> QED
    BY <2>4, <2>5, <2>6
<1>9. ASSUME NEW w \in Workers, Return(w) PROVE Typed'
  BY <1>9 DEF Return
<1>10. ASSUME NEW p \in Pubkeys, DeleteExpired(p) PROVE Typed'
  BY <1>10 DEF DeleteExpired
<1>11. ASSUME Crash PROVE Typed'
  BY <1>11 DEF Crash
<1>12. CASE UNCHANGED vars
  BY <1>12 DEF vars
<1> QED
  BY <1>1, <1>2, <1>3, <1>4, <1>5, <1>6, <1>7, <1>8, <1>9, <1>10, <1>11, <1>12 DEF Next

(* TypeCorrect: the tables, the zone and the handlers' locals keep their   *)
(* shape whatever fails, expires or interleaves; in particular the tables  *)
(* hold lower-cased usernames only, and a DNS update always has a name.    *)
THEOREM TypeCorrect == Spec => []TypeOK
<1>1. Typed => TypeOK
  BY DEF Typed
<1> QED
  BY InitTyped, StepTyped, <1>1, PTL DEF Spec

-----------------------------------------------------------------------------
(* The claimed username stays claimed *)

(* Requests in flight are of different clients.                            *)
Solo ==
  \A v, w \in Workers :
    v # w /\ pc[v] # "idle" /\ pc[w] # "idle" => req[v].pubkey # req[w].pubkey

(* From its claim to its answer a registration's pubkey holds the name;    *)
(* one that is Reverted loses it in its last step.                         *)
Claimed(w) ==
  /\ IsRegister(w) /\ req[w].name # None
  /\ \/ pc[w] \in {"insert", "unpublish", "publish", "record", "retract"}
     \/ pc[w] = "forget" /\ ~Reverted(w)
     \/ pc[w] = "done" /\ reply[w] = "ok" /\ ~Reverted(w)

(* Only a request without an offer forgets one, and a registration only    *)
(* one that it had found.                                                  *)
Forgets ==
  \A w \in Workers :
    /\ pc[w] = "forget" => req[w].offer = None
    /\ pc[w] \in {"unpublish", "forget"} /\ IsRegister(w) => HadOffer(w)

Claims ==
  /\ Typed
  /\ Solo
  /\ \A w \in Workers : Claimed(w) => Holds(w)
  /\ Forgets

LEMMA InitClaims == Init => Claims
  BY InitTyped DEF Init, Claims, Solo, Claimed, Forgets

(* A step of v leaves alone what the other handlers work on.               *)
LEMMA OthersKeep ==
  ASSUME Claims, NEW v \in Workers, NEW w \in Workers, v # w, Claimed(w),
         \A p \in Pubkeys \ {req[v].pubkey} : details'[p] = details[p],
         pc[v] # "idle" \/ UNCHANGED details, req'[w] = req[w]
  PROVE  Holds(w)'
<1>1. pc[w] # "idle" /\ req[w] \in Requests /\ Holds(w)
  BY DEF Claims, Claimed, Typed, InFlight
<1>2. req[w].pubkey \in Pubkeys
  BY <1>1, RequestFields
<1> QED
  BY <1>1, <1>2 DEF Claims, Solo, Holds

LEMMA StepClaims ==
  ASSUME OnePerPubkey, Claims, [Next]_vars
  PROVE  Claims'
<1>1. Typed'
  BY StepTyped DEF Claims
<1> TypeOK
  BY DEF Claims, Typed
<1> USE DEF Typed, TypeOK, stores, workers, Proceed, Goto, Answer
<1>2. ASSUME NEW w \in Workers, Start(w) PROVE Claims'
  <2>1. Solo'
    BY <1>2, OnePerPubkey DEF Start, Claims, Solo
  <2> QED
    BY <1>1, <1>2, <2>1 DEF Start, Claims, Claimed, Holds, IsRegister, Forgets, Reverted, HadOffer
<1>3. ASSUME NEW w \in Workers, pc[w] # "idle", pc'[w] # "idle", UNCHANGED req,
             \A v \in Workers \ {w} : pc'[v] = pc[v] /\ reply'[v] = reply[v] /\ last'[v] = last[v],
             \A p \in Pubkeys \ {req[w].pubkey} : details'[p] = details[p],
             Claimed(w)' => Holds(w)',
             pc'[w] = "forget" => req[w].offer = None,
             pc'[w] \in {"unpublish", "forget"} /\ IsRegister(w) => HadOffer(w)'
      PROVE  Claims'
  <2>1. Solo'
    BY <1>3 DEF Claims, Solo
  <2>2. ASSUME NEW v \in Workers, Claimed(v)' PROVE Holds(v)'
    <3>1. CASE v = w
      BY <1>3, <2>2, <3>1
    <3>2. CASE v # w
      <4>1. Claimed(v) /\ req'[v] = req[v]
        BY <1>3, <2>2, <3>2 DEF Claimed, IsRegister, Reverted, HadOffer
      <4> QED
        BY <1>3, <3>2, <4>1, OthersKeep
    <3> QED
      BY <3>1, <3>2
  <2>3. Forgets'
    <3>1. ASSUME NEW v \in Workers, v # w
          PROVE  HadOffer(v)' <=> HadOffer(v)
      BY <1>3, <3>1 DEF HadOffer
    <3> QED
      BY <1>3, <3>1 DEF Claims, Forgets, IsRegister
  <2> QED
    BY <1>1, <2>1, <2>2, <2>3 DEF Claims
<1> USE DEF Claimed, Holds, IsRegister, IsLnurl, Reverted, HadOffer
<1>4. ASSUME NEW w \in Workers, Read(w) PROVE Claims'
  <2>1. pc[w] = "read" /\ req[w] \in Requests
    BY <1>4 DEF Read, Claims, InFlight
  <2>2. /\ UNCHANGED <<req, details>> /\ pc'[w] # "idle" /\ pc'[w] # "forget"
        /\ pc'[w] = "unpublish" => ~IsRegister(w)
        /\ \A v \in Workers \ {w} : pc'[v] = pc[v] /\ reply'[v] = reply[v] /\ last'[v] = last[v]
    BY <1>4, <2>1, RequestFields DEF Read, AfterRead, FirstWrite, Operations
  <2>3. ~Claimed(w)'
    BY <1>4, <2>1, RequestFields DEF Read, AfterRead, FirstWrite, Operations
  <2> QED
    BY <1>3, <2>1, <2>2, <2>3
<1>5. ASSUME NEW w \in Workers, Claim(w) PROVE Claims'
  <2>1. pc[w] = "claim" /\ req[w] \in Requests /\ IsRegister(w) /\ req[w].pubkey \in Pubkeys
    BY <1>5, RequestFields DEF Claim, Claims, InFlight
  <2>2. /\ UNCHANGED req /\ pc'[w] # "idle" /\ pc'[w] # "forget"
        /\ pc'[w] = "unpublish" => HadOffer(w)'
        /\ \A v \in Workers \ {w} : pc'[v] = pc[v] /\ reply'[v] = reply[v] /\ last'[v] = last[v]
        /\ \A p \in Pubkeys \ {req[w].pubkey} : details'[p] = details[p]
    BY <1>5, <2>1 DEF Claim, AfterStore, SetPubkeyDetails
  <2>3. Claimed(w)' => Holds(w)'
    <3>1. \/ Answer(w, "conflict")
          \/ \E o : SetPubkeyDetails(req[w].pubkey, req[w].name, o)
      <4>1. CASE Conflict(req[w].pubkey, Lower[req[w].name])
        BY <1>5, <4>1 DEF Claim
      <4>2. CASE ~Conflict(req[w].pubkey, Lower[req[w].name])
        <5>1. PICK out \in Outcomes(StoreFaults) :
                /\ out.applied => \E o : SetPubkeyDetails(req[w].pubkey, req[w].name, o)
                /\ ~out.ok => Answer(w, "conflict")
          BY <1>5, <4>2 DEF Claim
        <5>2. out.ok => out.applied
          BY <5>1, OkIsApplied, RegistryAssumption
        <5> QED
          BY <5>1, <5>2
      <4> QED
        BY <4>1, <4>2
    <3>2. CASE Answer(w, "conflict")
      BY <2>1, <3>2
    <3>3. ASSUME NEW o, SetPubkeyDetails(req[w].pubkey, req[w].name, o) PROVE Holds(w)'
      BY <2>1, <2>2, <3>3 DEF SetPubkeyDetails
    <3> QED
      BY <3>1, <3>2, <3>3
  <2> QED
    BY <1>3, <2>1, <2>2, <2>3
<1>6. ASSUME NEW w \in Workers, Insert(w) PROVE Claims'
  <2>1. pc[w] = "insert" /\ req[w].op = "lnurlRegister" /\ UNCHANGED <<req, details>>
    BY <1>6 DEF Insert, Claims, InFlight
  <2>2. /\ pc'[w] \in {"publish", "unpublish", "done"}
        /\ pc'[w] = "unpublish" => HadOffer(w)'
        /\ \A v \in Workers \ {w} : pc'[v] = pc[v] /\ reply'[v] = reply[v] /\ last'[v] = last[v]
    BY <1>6 DEF Insert, AfterStore
  <2>3. Claimed(w)' => Holds(w)'
    BY <2>1, <2>2 DEF Claims
  <2> QED
    BY <1>3, <2>1, <2>2, <2>3
<1>7. ASSUME NEW w \in Workers, Delete(w) PROVE Claims'
  <2>1. pc[w] = "delete" /\ req[w].op = "lnurlUnregister" /\ UNCHANGED <<req, details>>
    BY <1>7 DEF Delete, Claims, InFlight
  <2>2. /\ pc'[w] \in {"unpublish", "done"}
        /\ \A v \in Workers \ {w} : pc'[v] = pc[v] /\ reply'[v] = reply[v] /\ last'[v] = last[v]
    BY <1>7 DEF Delete
  <2> QED
    BY <1>3, <2>1, <2>2
<1>8. ASSUME NEW w \in Workers, Unpublish(w) PROVE Claims'
  <2>1. pc[w] = "unpublish" /\ UNCHANGED <<req, reply, details, last>>
    BY <1>8 DEF Unpublish
  <2>2. /\ pc'[w] \in {"publish", "forget"} /\ (pc'[w] = "forget" => req[w].offer = None)
        /\ \A v \in Workers \ {w} : pc'[v] = pc[v] /\ reply'[v] = reply[v] /\ last'[v] = last[v]
    BY <1>8 DEF Unpublish
  <2> QED
    BY <1>3, <2>1, <2>2 DEF Claims, Forgets
<1>9. ASSUME NEW w \in Workers, Publish(w) PROVE Claims'
  <2>1. pc[w] = "publish" /\ UNCHANGED <<req, details>>
    BY <1>9 DEF Publish
  <2>2. /\ pc'[w] \in {"record", "retract", "done"}
        /\ \A v \in Workers \ {w} : pc'[v] = pc[v] /\ reply'[v] = reply[v] /\ last'[v] = last[v]
    BY <1>9 DEF Publish, AfterPublishError
  <2>3. Claimed(w)' => Holds(w)'
    BY <2>1, <2>2 DEF Claims
  <2> QED
    BY <1>3, <2>1, <2>2, <2>3
<1>10. ASSUME NEW w \in Workers, Record(w) PROVE Claims'
  <2>1. pc[w] \in {"record", "retract", "forget"} /\ req[w] \in Requests /\ req[w].pubkey \in Pubkeys
    BY <1>10, RequestFields DEF Record, Claims, InFlight
  <2>2. /\ UNCHANGED req /\ pc'[w] = "done"
        /\ \A v \in Workers \ {w} : pc'[v] = pc[v] /\ reply'[v] = reply[v] /\ last'[v] = last[v]
        /\ \A p \in Pubkeys \ {req[w].pubkey} : details'[p] = details[p]
    BY <1>10, <2>1 DEF Record, SetPubkeyDetails
  <2>3. ASSUME Claimed(w)'
        PROVE  Holds(w)'
    <3>1. IsRegister(w) /\ req[w].name # None /\ ~Reverted(w) /\ UNCHANGED last
      BY <1>10, <2>2, <2>3 DEF Record
    <3>2. Claimed(w) /\ Holds(w)
      BY <2>1, <3>1 DEF Claims
    <3>3. Lower[StoredName(w)] = Lower[req[w].name]
      <4>1. CASE pc[w] = "forget"
        <5>1. last[w].name = Lower[req[w].name] /\ req[w].name \in Names
          BY <2>1, <3>1, <4>1, RequestFields DEF Claims, Forgets, MaybeName
        <5> QED
          BY <4>1, <5>1, RegistryAssumption DEF StoredName
      <4>2. CASE pc[w] # "forget"
        BY <4>2 DEF StoredName
      <4> QED
        BY <4>1, <4>2
    <3> QED
      BY <1>10, <2>1, <2>2, <3>2, <3>3 DEF Record, SetPubkeyDetails
  <2> QED
    BY <1>3, <2>1, <2>2, <2>3
<1>11. ASSUME NEW w \in Workers, Return(w) PROVE Claims'
  BY <1>1, <1>11 DEF Return, Claims, Solo, Forgets
<1>12. ASSUME NEW p \in Pubkeys, DeleteExpired(p) PROVE Claims'
  BY <1>1, <1>12 DEF DeleteExpired, Claims, Solo, Forgets
<1>13. ASSUME Crash PROVE Claims'
  BY <1>1, <1>13 DEF Crash, Claims, Solo, Forgets
<1>14. CASE UNCHANGED vars
  BY <1>1, <1>14 DEF vars, Claims, Solo, Forgets
<1> QED
  BY <1>2, <1>4, <1>5, <1>6, <1>7, <1>8, <1>9, <1>10, <1>11, <1>12, <1>13, <1>14 DEF Next

(* Adding a record is the step of a handler that holds the username.       *)
LEMMA StepPublishes ==
  ASSUME Claims, [Next]_vars, NEW n \in Usernames, ~(zone'[n] \subseteq zone[n])
  PROVE  \E w \in Workers : pc[w] = "publish" /\ details[req[w].pubkey].name = n
<1>1. ASSUME NEW w \in Workers, Publish(w)
      PROVE  pc[w] = "publish" /\ details[req[w].pubkey].name = n
  <2>1. Lower[req[w].name] = n
    BY <1>1 DEF Publish, Claims, Typed, TypeOK
  <2> QED
    BY <1>1, <2>1 DEF Publish, Claims, Typed, InFlight, Claimed, Holds
<1>2. ASSUME NEW w \in Workers, Unpublish(w) PROVE FALSE
  BY <1>2 DEF Unpublish, Claims, Typed, TypeOK
<1>3. CASE UNCHANGED zone
  BY <1>3
<1> QED
  BY <1>1, <1>2, <1>3
  DEF Next, vars, stores, Start, Read, Claim, Insert, Delete, Record, Return, DeleteExpired, Crash

(* HolderPublishes: for any number of clients, workers and names, with     *)
(* every fault, crashes and expiry, a record is added to a username only while *)
(* the pubkey that adds it holds the username, provided that a client has  *)
(* one request in flight at a time (OnlyHolderPublishes).                  *)
THEOREM HolderPublishes ==
  ASSUME OnePerPubkey
  PROVE  Spec => OnlyHolderPublishes
<1>1. Claims /\ [Next]_vars => Claims'
  BY OnePerPubkey, StepClaims
<1>2. Claims /\ [Next]_vars
      => [\A n \in Usernames : ~(zone'[n] \subseteq zone[n]) =>
            \E w \in Workers : pc[w] = "publish" /\ details[req[w].pubkey].name = n]_vars
  BY StepPublishes
<1> QED
  BY InitClaims, <1>1, <1>2, PTL DEF Spec, OnlyHolderPublishes

(* NameKept: a confirmed registration of either router holds its username  *)
(* (ConfirmedNameHeld), for any number of clients with one request in      *)
(* flight each, whatever fails, expires or dies on the way; an lnurl       *)
(* registration that drops its offer and changes its name is the exception.*)
THEOREM NameKept ==
  ASSUME OnePerPubkey
  PROVE  Spec => []ConfirmedNameHeld
<1>1. Claims /\ [Next]_vars => Claims'
  BY OnePerPubkey, StepClaims
<1>2. Claims => ConfirmedNameHeld
  BY DEF Claims, Claimed, ConfirmedNameHeld, Confirmed
<1> QED
  BY InitClaims, <1>1, <1>2, PTL DEF Spec

=============================================================================
