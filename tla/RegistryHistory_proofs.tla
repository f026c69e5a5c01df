------------------------ MODULE RegistryHistory_proofs ------------------------
(***************************************************************************)
(* Proofs of PublishedUnlessSpoiled, ImplementsAddressBook and             *)
(* ClearUnlessLittered, for any clients, usernames, offers and workers,    *)
(* with every fault, crashes and expiry.  They rest on Claims of           *)
(* LnurlRegistry_proofs: the username that a handler publishes under is    *)
(* its pubkey's, so no other handler can add to it or take it away unseen. *)
(***************************************************************************)
EXTENDS RegistryHistory, LnurlRegistry_proofs

Published(p) ==
  details[p].offer # None => details[p].offer \in zone[details[p].name] \/ p \in spoiled

(* The record that a handler is about to store the offer for is there.     *)
Added(w) == req[w].offer \in zone[Lower[req[w].name]] \/ req[w].pubkey \in spoiled

Busy(p) == \E w \in Midway : req[w].pubkey = p

(* The offers of the pubkeys no handler is amidst of are published; a      *)
(* handler before its first DNS update has not unpublished one, unless it  *)
(* moved it; and until its claim what it has read is what is stored.       *)
History ==
  /\ \A p \in Pubkeys : ~Busy(p) => Published(p)
  /\ \A w \in Workers :
       /\ pc[w] = "insert" /\ ~MovedOffer(w) => Published(req[w].pubkey)
       /\ pc[w] = "record" => Added(w)
       /\ pc[w] = "claim" /\ last[w] # None => details[req[w].pubkey] = last[w]

HistoryInv == Claims /\ History

LEMMA InitHistory == HInit => HistoryInv
<1> SUFFICES ASSUME HInit PROVE HistoryInv
  OBVIOUS
<1>1. Claims
  BY InitClaims DEF HInit
<1>2. History
  BY DEF HInit, Init, NoDetails, History, Published
<1> QED
  BY <1>1, <1>2 DEF HistoryInv

(* A step of a handler leaves the history of the others' pubkeys alone,    *)
(* given what it does to their offers; what remains is its own pubkey.     *)
LEMMA OwnStep ==
  ASSUME HistoryInv, NEW w \in Workers, pc[w] # "idle", pc'[w] # "idle", UNCHANGED req,
         \A v \in Workers \ {w} : pc'[v] = pc[v] /\ last'[v] = last[v],
         \A p \in Pubkeys \ Own(w) :
           /\ details'[p] = details[p]
           /\ Published(p) => Published(p)',
         \A v \in Workers \ {w} : pc[v] = "record" /\ Added(v) => Added(v)',
         w \in Midway' \/ Published(req[w].pubkey)',
         pc'[w] = "insert" /\ ~MovedOffer(w)' => Published(req[w].pubkey)',
         pc'[w] = "record" => Added(w)',
         pc'[w] = "claim" /\ last'[w] # None => details'[req[w].pubkey] = last'[w]
  PROVE  History'
<1>1. \A v \in Workers \ {w} :
        pc[v] # "idle" => req[v].pubkey \in Pubkeys \ Own(w)
  BY RequestFields DEF HistoryInv, Claims, Typed, InFlight, Solo, Own
<1>2. ASSUME NEW p \in Pubkeys, ~Busy(p)' PROVE Published(p)'
  <2>1. CASE p \in Own(w)
    BY <1>2, <2>1 DEF Busy, Own
  <2>2. CASE p \notin Own(w)
    <3>1. ~Busy(p)
      BY <1>2, <2>2 DEF Busy, Midway, Own
    <3> QED
      BY <2>2, <3>1 DEF HistoryInv, History
  <2> QED
    BY <2>1, <2>2
<1>3. ASSUME NEW v \in Workers, v # w
      PROVE  /\ (pc[v] = "insert" /\ ~MovedOffer(v) => Published(req[v].pubkey))'
             /\ (pc[v] = "record" => Added(v))'
             /\ (pc[v] = "claim" /\ last[v] # None => details[req[v].pubkey] = last[v])'
  <2>1. UNCHANGED <<pc[v], last[v], req[v]>> /\ (MovedOffer(v)' <=> MovedOffer(v))
    BY <1>3 DEF MovedOffer, HadOffer
  <2>2. CASE pc[v] = "idle"
    BY <1>3, <2>1, <2>2
  <2>3. CASE pc[v] # "idle"
    <3>1. PICK p \in Pubkeys \ Own(w) : p = req[v].pubkey
      BY <1>1, <1>3, <2>3
    <3>2. details'[p] = details[p] /\ (Published(p) => Published(p)') /\ p = req'[v].pubkey
      BY <2>1, <3>1
    <3>3. Published(p)' <=> Published(req[v].pubkey)'
      BY <3>2 DEF Published
    <3> QED
      BY <1>3, <2>1, <3>1, <3>2, <3>3 DEF HistoryInv, History
  <2> QED
    BY <2>2, <2>3
<1> QED
  BY <1>2, <1>3 DEF History

(* The history variable only watches: its steps are steps of LnurlRegistry.*)
LEMMA HistorySteps == [HNext]_hvars => [Next]_vars
  BY DEF HNext, Next, hvars, vars

LEMMA LowerTwice == \A n \in Names : Lower[n] \in Usernames /\ Lower[Lower[n]] = Lower[n]
  BY RegistryAssumption, LowerType

LEMMA StepHistory ==
  ASSUME OnePerPubkey, HistoryInv, [HNext]_hvars
  PROVE  HistoryInv'
<1>1. Claims'
  BY HistorySteps, StepClaims, OnePerPubkey DEF HistoryInv
<1>2. TypeOK /\ TypeOK' /\ Typed /\ Claims
  BY <1>1 DEF HistoryInv, Claims, Typed
<1>3. ASSUME NEW w \in Workers, Start(w), UNCHANGED spoiled PROVE History'
  <2>1. /\ UNCHANGED <<details, zone, last>> /\ pc[w] = "idle" /\ pc'[w] = "read"
        /\ \A v \in Workers \ {w} : pc'[v] = pc[v] /\ req'[v] = req[v]
    BY <1>2, <1>3 DEF Start, stores, TypeOK
  <2>2. Midway' = Midway /\ w \notin Midway
    BY <2>1 DEF Midway
  <2>3. ASSUME NEW p \in Pubkeys PROVE (Busy(p)' <=> Busy(p)) /\ (Published(p)' <=> Published(p))
    <3>1. \A v \in Midway : v \in Workers \ {w} /\ req'[v] = req[v]
      BY <2>1, <2>2 DEF Midway
    <3>2. Busy(p)' <=> Busy(p)
      BY <2>2, <3>1 DEF Busy
    <3>3. Published(p)' <=> Published(p)
      BY <1>3, <2>1 DEF Published
    <3> QED
      BY <3>2, <3>3
  <2>4. ASSUME NEW v \in Workers, pc'[v] \in {"insert", "record", "claim"}
        PROVE  /\ pc'[v] = pc[v] /\ UNCHANGED <<req[v], last[v]>>
               /\ MovedOffer(v)' <=> MovedOffer(v)
               /\ Added(v)' <=> Added(v)
               /\ Published(req[v].pubkey)' <=> Published(req[v].pubkey)
    BY <1>3, <2>1, <2>4 DEF MovedOffer, HadOffer, Added, Published
  <2> QED
    BY <2>1, <2>3, <2>4 DEF HistoryInv, History
<1>4. ASSUME NEW w \in Workers, Read(w), UNCHANGED spoiled PROVE History'
  <2>1. /\ pc[w] = "read" /\ UNCHANGED <<details, zone, req>>
        /\ \A v \in Workers \ {w} : pc'[v] = pc[v] /\ last'[v] = last[v]
        /\ last'[w] \in {None, details[req[w].pubkey]}
    BY <1>2, <1>4 DEF Read, stores, TypeOK, Snapshot
  <2>2. pc'[w] \in {"insert", "claim", "done", "delete", "unpublish"}
        /\ (pc'[w] = "insert" => req[w].name = None)
    BY <1>2, <1>4, RequestFields DEF Read, AfterRead, FirstWrite, TypeOK, Typed, InFlight, IsRegister, Operations
  <2>3. Published(req[w].pubkey)
    BY <1>2, <2>1, RequestFields DEF Typed, InFlight, HistoryInv, Claims, Solo, History, Busy, Midway
  <2>4. \A p : Published(p)' <=> Published(p)
    BY <1>4, <2>1 DEF Published
  <2>5. \A v \in Workers : Added(v)' <=> Added(v)
    BY <1>4, <2>1 DEF Added
  <2>6. Published(req[w].pubkey)'
    BY <2>1, <2>3, <1>4 DEF Published
  <2> QED
    BY <2>1, <2>2, <2>4, <2>5, <2>6, OwnStep
<1>5. ASSUME NEW w \in Workers, Delete(w), UNCHANGED spoiled PROVE History'
  <2>1. /\ pc[w] = "delete" /\ UNCHANGED <<details, zone, req, last>> /\ pc'[w] \in {"done", "unpublish"}
        /\ \A v \in Workers \ {w} : pc'[v] = pc[v]
    BY <1>2, <1>5 DEF Delete, TypeOK, Proceed, Answer, Goto
  <2>2. Published(req[w].pubkey)
    BY <1>2, <2>1, RequestFields DEF Typed, InFlight, HistoryInv, Claims, Solo, History, Busy, Midway
  <2>3. \A p : Published(p)' <=> Published(p)
    BY <1>5, <2>1 DEF Published
  <2>4. \A v \in Workers : Added(v)' <=> Added(v)
    BY <1>5, <2>1 DEF Added
  <2>5. Published(req[w].pubkey)'
    BY <2>1, <2>2, <1>5 DEF Published
  <2> QED
    BY <2>1, <2>3, <2>4, <2>5, OwnStep
<1>6. ASSUME NEW w \in Workers, Claim(w), OwnIf(w, reply'[w] = "conflict" /\ details' # details)
      PROVE  History'
  <2>1. /\ pc[w] = "claim" /\ IsRegister(w) /\ req[w].pubkey \in Pubkeys /\ req[w].name \in Names
        /\ pc'[w] \in {"insert", "done", "publish", "unpublish"}
        /\ UNCHANGED <<zone, req, last>> /\ \A v \in Workers \ {w} : pc'[v] = pc[v]
    BY <1>2, <1>6, RequestFields
    DEF Claim, AfterStore, Proceed, Goto, Answer, Typed, InFlight, TypeOK, MaybeName
  <2>2. \A p \in Pubkeys \ Own(w) : details'[p] = details[p]
    BY <1>2, <1>6, <2>1 DEF Claim, SetPubkeyDetails, Own, TypeOK
  <2>3. spoiled \subseteq spoiled' /\ (reply'[w] = "conflict" /\ details' # details => req[w].pubkey \in spoiled')
    BY <1>6 DEF OwnIf, Spoil, Own
  <2>4. /\ Published(req[w].pubkey)
        /\ last[w] # None => details[req[w].pubkey] = last[w]
    BY <1>2, <2>1 DEF Claims, Solo, HistoryInv, History, Busy, Midway
  <2>5. \/ pc'[w] = "done" /\ reply'[w] = "conflict"
        \/ pc'[w] = "insert" /\ SetPubkeyDetails(req[w].pubkey, req[w].name, LastOffer(w))
        \/ pc'[w] = AfterStore(w) /\ SetPubkeyDetails(req[w].pubkey, req[w].name, req[w].offer) /\ ~IsLnurl(w)
    <3>1. CASE Answer(w, "conflict")
      BY <1>2, <3>1 DEF Answer, TypeOK
    <3>2. CASE ~Answer(w, "conflict")
      <4>1. PICK out \in Outcomes(StoreFaults) :
              /\ out.applied => SetPubkeyDetails(req[w].pubkey, req[w].name,
                                  IF IsLnurl(w) THEN LastOffer(w) ELSE req[w].offer)
              /\ ~out.ok => Answer(w, "conflict")
              /\ out.ok => Proceed(w, IF IsLnurl(w) THEN "insert" ELSE AfterStore(w))
        BY <1>6, <3>2 DEF Claim
      <4>2. out.ok /\ out.applied
        BY <3>2, <4>1, OkIsApplied, RegistryAssumption
      <4> QED
        BY <1>2, <4>1, <4>2 DEF Proceed, Answer, Goto, TypeOK
    <3> QED
      BY <3>1, <3>2
  <2>6. ASSUME details' = details PROVE Published(req[w].pubkey)'
    BY <2>1, <2>3, <2>4, <2>6 DEF Published
  <2>7. ASSUME NEW o, SetPubkeyDetails(req[w].pubkey, req[w].name, o), HadOffer(w),
               Lower[req[w].name] = last[w].name, o = last[w].offer
        PROVE  Published(req[w].pubkey)'
    <3>1. /\ details'[req[w].pubkey].name = details[req[w].pubkey].name
          /\ details'[req[w].pubkey].offer = details[req[w].pubkey].offer
      BY <1>2, <2>1, <2>4, <2>7 DEF SetPubkeyDetails, HadOffer, TypeOK
    <3> QED
      BY <2>1, <2>3, <2>4, <3>1 DEF Published
  <2>8. pc'[w] = "done" => Published(req[w].pubkey)'
    <3>1. CASE pc'[w] = "done" /\ reply'[w] = "conflict"
      BY <2>1, <2>3, <2>6, <3>1 DEF Published
    <3>2. CASE /\ pc'[w] = "done" /\ pc'[w] = AfterStore(w) /\ ~IsLnurl(w)
               /\ SetPubkeyDetails(req[w].pubkey, req[w].name, req[w].offer)
      <4>1. req[w].offer # None
        BY <1>2, <2>1, <3>2, RequestFields, RegistryAssumption
        DEF IsLnurl, IsRegister, Typed, InFlight
      <4>2. HadOffer(w) /\ Lower[req[w].name] = last[w].name /\ req[w].offer = last[w].offer
        BY <2>1, <3>2, <4>1, RegistryAssumption DEF AfterStore, NameChanges, OfferChanges, NewName
      <4> QED
        BY <2>7, <3>2, <4>2
    <3> QED
      BY <2>5, <3>1, <3>2
  <2>9. pc'[w] = "insert" /\ ~MovedOffer(w)' => Published(req[w].pubkey)'
    <3> SUFFICES ASSUME pc'[w] = "insert", ~MovedOffer(w)' PROVE Published(req[w].pubkey)'
      OBVIOUS
    <3>1. SetPubkeyDetails(req[w].pubkey, req[w].name, LastOffer(w))
      BY <2>5 DEF AfterStore
    <3>2. CASE HadOffer(w)
      <4>1. Lower[req[w].name] = last[w].name /\ LastOffer(w) = last[w].offer
        BY <2>1, <3>2, RegistryAssumption DEF MovedOffer, HadOffer, LastOffer
      <4> QED
        BY <2>7, <3>1, <3>2, <4>1
    <3>3. CASE ~HadOffer(w)
      <4>1. LastOffer(w) = None
        BY <3>3 DEF HadOffer, LastOffer
      <4>2. details'[req[w].pubkey].offer = None
        BY <1>2, <2>1, <3>1, <4>1 DEF SetPubkeyDetails, TypeOK
      <4> QED
        BY <2>1, <4>2 DEF Published
    <3> QED
      BY <3>2, <3>3
  <2>10. /\ \A p \in Pubkeys \ Own(w) : Published(p) => Published(p)'
         /\ \A v \in Workers \ {w} : Added(v) => Added(v)'
    BY <2>1, <2>2, <2>3 DEF Published, Added
  <2>11. pc'[w] # "done" => w \in Midway'
    BY <2>1 DEF Midway
  <2>12. pc'[w] # "record" /\ pc'[w] # "claim" /\ pc'[w] # "idle" /\ pc[w] # "idle"
    BY <2>1
  <2> QED
    BY <2>1, <2>2, <2>8, <2>9, <2>10, <2>11, <2>12, OwnStep
<1>7. ASSUME NEW w \in Workers, Insert(w), OwnIf(w, reply'[w] = "error" /\ MovedOffer(w))
      PROVE  History'
  <2>1. /\ pc[w] = "insert" /\ IsRegister(w) /\ IsLnurl(w)
        /\ pc'[w] \in {"done", "publish", "unpublish"}
        /\ UNCHANGED <<details, zone, req, last>> /\ \A v \in Workers \ {w} : pc'[v] = pc[v]
        /\ \/ reply'[w] = "error" /\ pc'[w] = "done"
           \/ pc'[w] = AfterStore(w)
    BY <1>2, <1>7
    DEF Insert, AfterStore, Proceed, Goto, Answer, Typed, InFlight, TypeOK, IsLnurl, IsRegister
  <2>2. spoiled \subseteq spoiled' /\ (reply'[w] = "error" /\ MovedOffer(w) => req[w].pubkey \in spoiled')
    BY <1>7 DEF OwnIf, Spoil, Own
  <2>3. pc'[w] = "done" => Published(req[w].pubkey)'
    <3> SUFFICES ASSUME pc'[w] = "done" PROVE Published(req[w].pubkey)'
      OBVIOUS
    <3>1. CASE ~MovedOffer(w)
      <4>1. Published(req[w].pubkey)
        BY <2>1, <3>1 DEF HistoryInv, History
      <4> QED
        BY <2>1, <2>2, <4>1 DEF Published
    <3>2. CASE MovedOffer(w) /\ reply'[w] = "error"
      BY <2>1, <2>2, <3>2 DEF Published
    <3>3. CASE MovedOffer(w) /\ AfterStore(w) = "done"
      <4>1. req[w].name = last[w].name /\ last[w] \in Details /\ last[w].name # None
        BY <1>2, <2>1, <3>3 DEF AfterStore, MovedOffer, HadOffer, NameChanges, NewName, TypeOK
      <4>2. Lower[req[w].name] = req[w].name
        BY <4>1, LowerTwice, RegistryAssumption DEF Details, Usernames
      <4> QED
        BY <3>3, <4>1, <4>2 DEF MovedOffer
    <3> QED
      BY <2>1, <3>1, <3>2, <3>3
  <2>4. /\ \A p \in Pubkeys \ Own(w) : details'[p] = details[p] /\ (Published(p) => Published(p)')
        /\ \A v \in Workers \ {w} : Added(v) => Added(v)'
    BY <2>1, <2>2 DEF Published, Added
  <2>5. pc'[w] # "done" => w \in Midway'
    BY <2>1 DEF Midway
  <2>6. pc'[w] \notin {"insert", "record", "claim", "idle"} /\ pc[w] # "idle"
    BY <2>1
  <2> QED
    BY <2>1, <2>3, <2>4, <2>5, <2>6, OwnStep
<1>8. ASSUME NEW w \in Workers, Unpublish(w), Spoil(Bereft(w)) PROVE History'
  <2>1. /\ pc[w] = "unpublish" /\ pc'[w] \in {"publish", "forget"}
        /\ UNCHANGED <<details, req, last>> /\ \A v \in Workers \ {w} : pc'[v] = pc[v]
    BY <1>2, <1>8 DEF Unpublish, Goto, TypeOK
  <2>2. \A n \in Usernames \ {last[w].name} : zone'[n] = zone[n]
    BY <1>2, <1>8 DEF Unpublish, TypeOK
  <2>3. ASSUME NEW p \in Pubkeys \ Own(w)
        PROVE  Published(p) => Published(p)'
    <3>1. details[p].name = last[w].name => p \in spoiled'
      BY <1>8, <2>3 DEF Spoil, Bereft
    <3>2. details[p].offer # None => details[p].name \in Usernames
      BY <1>2 DEF Typed, TypeOK, NamedOffers, Details
    <3> QED
      BY <1>8, <2>1, <2>2, <3>1, <3>2 DEF Published, Spoil
  <2>4. ASSUME NEW v \in Workers \ {w}, pc[v] = "record", Added(v)
        PROVE  Added(v)'
    <3>1. req[v].pubkey \in Pubkeys \ Own(w) /\ req[v].name \in Names
      BY <1>2, <2>1, <2>4, RequestFields DEF Claims, Solo, Typed, InFlight, Own, MaybeName
    <3>2. details[req[v].pubkey].name = Lower[req[v].name]
      BY <1>2, <2>4 DEF Claims, Claimed, Holds, Typed, InFlight
    <3>3. Lower[req[v].name] = last[w].name => req[v].pubkey \in spoiled'
      BY <1>8, <3>1, <3>2 DEF Spoil, Bereft
    <3> QED
      BY <1>8, <2>1, <2>2, <2>4, <3>1, <3>3, LowerTwice DEF Added, Spoil
  <2>5. w \in Midway' /\ pc[w] # "idle" /\ pc'[w] \notin {"insert", "record", "claim", "idle"}
    BY <2>1 DEF Midway
  <2> QED
    BY <2>1, <2>3, <2>4, <2>5, OwnStep
<1>9. ASSUME NEW w \in Workers, Publish(w),
             IF pc'[w] = "record" THEN spoiled' = spoiled \ Own(w) ELSE OwnIf(w, IsLnurl(w))
      PROVE  History'
  <2>1. /\ pc[w] = "publish" /\ req[w].name \in Names /\ req[w].pubkey \in Pubkeys
        /\ UNCHANGED <<details, req, last>> /\ \A v \in Workers \ {w} : pc'[v] = pc[v]
        /\ \/ pc'[w] = "record"
           \/ pc'[w] = "done" /\ IsLnurl(w)
           \/ pc'[w] = "retract"
    BY <1>2, <1>9, RequestFields
    DEF Publish, AfterPublishError, Proceed, Goto, Answer, TypeOK, Typed, InFlight, MaybeName
  <2>2. zone' = zone \/ zone' = [zone EXCEPT ![Lower[req[w].name]] = @ \cup {req[w].offer}]
    BY <1>9 DEF Publish
  <2>3. \A n \in Usernames : zone[n] \subseteq zone'[n]
    BY <1>2, <2>2 DEF TypeOK
  <2>4. spoiled \ Own(w) \subseteq spoiled'
    BY <1>9 DEF OwnIf, Spoil
  <2>5. ASSUME NEW p \in Pubkeys \ Own(w)
        PROVE  Published(p) => Published(p)'
    <3>1. details[p].offer # None => details[p].name \in Usernames
      BY <1>2 DEF Typed, TypeOK, NamedOffers, Details
    <3> QED
      BY <2>1, <2>3, <2>4, <3>1 DEF Published
  <2>6. ASSUME NEW v \in Workers \ {w}, pc[v] = "record", Added(v)
        PROVE  Added(v)'
    <3>1. req[v].pubkey \notin Own(w) /\ req[v].name \in Names
      BY <1>2, <2>1, <2>6, RequestFields DEF Claims, Solo, Typed, InFlight, Own, MaybeName
    <3> QED
      BY <2>1, <2>3, <2>4, <2>6, <3>1, LowerTwice DEF Added
  <2>7. ASSUME pc'[w] = "record" PROVE Added(w)'
    <3> DEFINE faulty == req[w].op \in DnsFaults
    <3>1. PICK out \in Outcomes(faulty) :
            /\ zone' = IF out.applied
                       THEN [zone EXCEPT ![Lower[req[w].name]] = @ \cup {req[w].offer}] ELSE zone
            /\ Proceed(w, IF out.ok THEN "record" ELSE AfterPublishError(w))
      BY <1>9 DEF Publish
    <3>2. out.ok
      BY <1>2, <2>7, <3>1 DEF Proceed, AfterPublishError, Goto, Answer, TypeOK
    <3>3. out.applied
      <4>1. faulty \in BOOLEAN
        OBVIOUS
      <4> HIDE DEF faulty
      <4> QED
        BY <3>2, <4>1, OkIsApplied
    <3> QED
      BY <1>2, <2>1, <3>1, <3>3, LowerTwice DEF Added, TypeOK
  <2>8. ASSUME pc'[w] = "done" PROVE Published(req[w].pubkey)'
    <3>1. req[w].pubkey \in spoiled'
      BY <1>9, <2>1, <2>8 DEF OwnIf, Spoil, Own
    <3> QED
      BY <2>1, <3>1 DEF Published
  <2>9. /\ pc'[w] # "done" => w \in Midway'
        /\ pc[w] # "idle" /\ pc'[w] \notin {"insert", "claim", "idle"}
    BY <2>1 DEF Midway
  <2> QED
    BY <2>1, <2>5, <2>6, <2>7, <2>8, <2>9, OwnStep
<1>10. ASSUME NEW w \in Workers, Record(w),
              OwnIf(w, details'[req[w].pubkey].offer # StoredOffer(w))
       PROVE  History'
  <2>1. /\ pc[w] \in {"record", "retract", "forget"} /\ pc'[w] = "done" /\ req[w].pubkey \in Pubkeys
        /\ UNCHANGED <<zone, req, last>> /\ \A v \in Workers \ {w} : pc'[v] = pc[v]
    BY <1>2, <1>10, RequestFields DEF Record, Answer, TypeOK, Typed, InFlight
  <2>2. \A p \in Pubkeys \ Own(w) : details'[p] = details[p]
    BY <1>2, <1>10, <2>1 DEF Record, SetPubkeyDetails, Own, TypeOK
  <2>3. /\ spoiled \subseteq spoiled'
        /\ details'[req[w].pubkey].offer # StoredOffer(w) => req[w].pubkey \in spoiled'
    BY <1>10 DEF OwnIf, Spoil, Own
  <2>4. ASSUME details'[req[w].pubkey].offer = StoredOffer(w) PROVE Published(req[w].pubkey)'
    <3>1. CASE pc[w] # "record"
      BY <2>1, <2>4, <3>1 DEF StoredOffer, Published
    <3>2. CASE pc[w] = "record"
      <4>1. details[req[w].pubkey].name = Lower[req[w].name] /\ req[w].name # None
        BY <1>2, <3>2 DEF Claims, Claimed, Holds, Typed, InFlight
      <4>2. details'[req[w].pubkey].name = Lower[req[w].name]
        BY <1>2, <1>10, <2>1, <3>2, <4>1 DEF Record, SetPubkeyDetails, StoredName, TypeOK
      <4>3. Added(w)
        BY <3>2 DEF HistoryInv, History
      <4> QED
        BY <2>1, <2>3, <2>4, <3>2, <4>2, <4>3 DEF StoredOffer, Added, Published
    <3> QED
      BY <3>1, <3>2
  <2>5. Published(req[w].pubkey)'
    BY <2>1, <2>3, <2>4 DEF Published
  <2>6. /\ \A p \in Pubkeys \ Own(w) : Published(p) => Published(p)'
        /\ \A v \in Workers \ {w} : Added(v) => Added(v)'
    BY <2>1, <2>2, <2>3 DEF Published, Added
  <2> QED
    BY <2>1, <2>2, <2>5, <2>6, OwnStep
<1>11. ASSUME NEW w \in Workers, Return(w), UNCHANGED spoiled PROVE History'
  <2>1. /\ UNCHANGED <<details, zone>> /\ pc[w] = "done" /\ pc'[w] = "idle"
        /\ \A v \in Workers \ {w} : pc'[v] = pc[v] /\ req'[v] = req[v] /\ last'[v] = last[v]
    BY <1>2, <1>11 DEF Return, stores, TypeOK
  <2>2. Midway' = Midway /\ w \notin Midway
    BY <2>1 DEF Midway
  <2>3. ASSUME NEW p \in Pubkeys PROVE (Busy(p)' <=> Busy(p)) /\ (Published(p)' <=> Published(p))
    <3>1. \A v \in Midway : v \in Workers \ {w} /\ req'[v] = req[v]
      BY <2>1, <2>2 DEF Midway
    <3>2. Busy(p)' <=> Busy(p)
      BY <2>2, <3>1 DEF Busy
    <3>3. Published(p)' <=> Published(p)
      BY <1>11, <2>1 DEF Published
    <3> QED
      BY <3>2, <3>3
  <2>4. ASSUME NEW v \in Workers, pc'[v] \in {"insert", "record", "claim"}
        PROVE  /\ pc'[v] = pc[v] /\ UNCHANGED <<req[v], last[v]>>
               /\ MovedOffer(v)' <=> MovedOffer(v)
               /\ Added(v)' <=> Added(v)
               /\ Published(req[v].pubkey)' <=> Published(req[v].pubkey)
    BY <1>11, <2>1, <2>4 DEF MovedOffer, HadOffer, Added, Published
  <2> QED
    BY <2>1, <2>3, <2>4 DEF HistoryInv, History
<1>12. ASSUME NEW p \in Pubkeys, DeleteExpired(p), UNCHANGED spoiled PROVE History'
  BY <1>12 DEF DeleteExpired, workers, HistoryInv, History, Busy, Midway, Published, MovedOffer,
               HadOffer, Added
<1>13. ASSUME Crash, Spoil({req[w].pubkey : w \in Midway}) PROVE History'
  <2>1. /\ UNCHANGED <<details, zone>> /\ \A w \in Workers : pc'[w] = "idle"
        /\ spoiled' = spoiled \cup {req[w].pubkey : w \in Midway}
    BY <1>13 DEF Crash, stores, Spoil
  <2>2. ASSUME NEW p \in Pubkeys PROVE Published(p)'
    <3>1. CASE Busy(p)
      BY <2>1, <3>1 DEF Busy, Published
    <3>2. CASE ~Busy(p)
      BY <2>1, <3>2 DEF HistoryInv, History, Published
    <3> QED
      BY <3>1, <3>2
  <2> QED
    BY <2>1, <2>2 DEF History
<1>14. ASSUME UNCHANGED hvars PROVE History'
  BY <1>14 DEF hvars, HistoryInv, History, Busy, Midway, Published, MovedOffer, HadOffer, Added
<1>15. History'
  BY <1>3, <1>4, <1>5, <1>6, <1>7, <1>8, <1>9, <1>10, <1>11, <1>12, <1>13, <1>14 DEF HNext
<1> QED
  BY <1>1, <1>15 DEF HistoryInv

(* PublishedOrSpoiled: between requests every recorded offer is published  *)
(* under its username unless one of the named events has befallen it since *)
(* it was published (PublishedUnlessSpoiled), for any number of clients    *)
(* with one request in flight each: nothing else that clients do, in any   *)
(* interleaving of the handlers' calls, takes the database and the zone    *)
(* apart.                                                                  *)
THEOREM PublishedOrSpoiled ==
  ASSUME OnePerPubkey
  PROVE  HSpec => []PublishedUnlessSpoiled
<1>1. HistoryInv /\ [HNext]_hvars => HistoryInv'
  BY OnePerPubkey, StepHistory
<1>2. HistoryInv => PublishedUnlessSpoiled
  BY DEF HistoryInv, History, PublishedUnlessSpoiled, Quiet, Busy, Midway, Published
<1> QED
  BY InitHistory, <1>1, <1>2, PTL DEF HSpec

-----------------------------------------------------------------------------
(* The address book *)

(* A client with a request under way has no promise.                       *)
Promises ==
  /\ promised \in [Pubkeys -> Usernames \cup {None}]
  /\ \A w \in Workers : pc[w] # "idle" => promised[req[w].pubkey] = None

LEMMA InitPromises == HInit => Promises
  BY DEF HInit, Init, Promises

LEMMA StepPromises ==
  ASSUME OnePerPubkey, Claims, Promises, [HNext]_hvars
  PROVE  Promises'
<1>1. Claims'
  BY HistorySteps, StepClaims, OnePerPubkey
<1>2. TypeOK /\ TypeOK' /\ Typed /\ Typed' /\ Solo /\ Solo'
  BY <1>1 DEF Claims, Typed
<1>3. ASSUME NEW w \in Workers, Start(w), Promise(req'[w].pubkey, None) PROVE Promises'
  <2>1. /\ pc' = [pc EXCEPT ![w] = "read"]
        /\ \A v \in Workers \ {w} : req'[v] = req[v]
    BY <1>2, <1>3 DEF Start, TypeOK
  <2>2. req'[w].pubkey \in Pubkeys
    BY <1>2, <2>1, RequestFields DEF Typed, InFlight, TypeOK
  <2>3. promised' \in [Pubkeys -> Usernames \cup {None}] /\ promised'[req'[w].pubkey] = None
    BY <1>3, <2>2 DEF Promise, Promises
  <2>4. ASSUME NEW v \in Workers \ {w}, pc'[v] # "idle" PROVE promised'[req'[v].pubkey] = None
    <3>1. promised[req[v].pubkey] = None /\ req[v].pubkey \in Pubkeys
      BY <1>2, <2>1, <2>4, RequestFields DEF Promises, Typed, InFlight, TypeOK
    <3> QED
      BY <1>3, <2>1, <2>2, <3>1 DEF Promise, Promises
  <2> QED
    BY <2>3, <2>4 DEF Promises
<1>4. ASSUME NEW w \in Workers, Return(w),
             \/ Promise(req[w].pubkey, Lower[req[w].name]) /\ Confirmed(w)
             \/ UNCHANGED promised
      PROVE  Promises'
  <2>1. /\ pc[w] = "done" /\ pc'[w] = "idle"
        /\ \A v \in Workers \ {w} : pc'[v] = pc[v] /\ req'[v] = req[v]
    BY <1>2, <1>4 DEF Return, TypeOK
  <2>2. req[w].pubkey \in Pubkeys /\ req[w] \in Requests
    BY <1>2, <2>1, RequestFields DEF Typed, InFlight
  <2>3. promised' \in [Pubkeys -> Usernames \cup {None}]
    <3>1. CASE Promise(req[w].pubkey, Lower[req[w].name]) /\ Confirmed(w)
      <4>1. Lower[req[w].name] \in Usernames
        BY <2>2, <3>1, RequestFields, LowerTwice DEF Confirmed, MaybeName
      <4> QED
        BY <3>1, <4>1 DEF Promise, Promises
    <3> QED
      BY <1>4, <3>1 DEF Promises
  <2>4. ASSUME NEW v \in Workers, pc'[v] # "idle" PROVE promised'[req'[v].pubkey] = None
    <3>1. v # w /\ req[v].pubkey # req[w].pubkey /\ req[v].pubkey \in Pubkeys
      BY <1>2, <2>1, <2>4, RequestFields DEF Solo, Typed, InFlight
    <3> QED
      BY <1>4, <2>1, <2>2, <2>4, <3>1 DEF Promise, Promises
  <2> QED
    BY <2>3, <2>4 DEF Promises
<1>5. ASSUME UNCHANGED <<promised, req>>, NEW w \in Workers, pc[w] # "idle",
             \A v \in Workers \ {w} : pc'[v] = pc[v]
      PROVE  Promises'
  BY <1>5 DEF Promises
<1>6. ASSUME NEW w \in Workers, Read(w) \/ Delete(w) \/ Claim(w) \/ Insert(w) \/ Unpublish(w)
                                \/ Publish(w) \/ Record(w)
      PROVE  UNCHANGED req /\ pc[w] # "idle" /\ \A v \in Workers \ {w} : pc'[v] = pc[v]
  BY <1>2, <1>6
  DEF Read, Delete, Claim, Insert, Unpublish, Publish, Record, Proceed, Goto, Answer, TypeOK
<1>7. ASSUME Crash, UNCHANGED promised PROVE Promises'
  BY <1>7 DEF Crash, Promises
<1>8. ASSUME UNCHANGED <<promised, pc, req>> PROVE Promises'
  BY <1>8 DEF Promises
<1> QED
  BY <1>3, <1>4, <1>5, <1>6, <1>7, <1>8 DEF HNext, hvars, DeleteExpired, workers

(* A row changes only while its client asks, and to a free username.       *)
LEMMA RowTaken ==
  ASSUME NEW p \in Pubkeys, NEW n \in Names, NEW o, Claims, promised[p] = None,
         ~Conflict(p, Lower[n]), SetPubkeyDetails(p, n, o), UNCHANGED <<zone, promised>>
  PROVE  [Book!Next]_(Book!vars)
<1> DEFINE names == [q \in Pubkeys |-> details[q].name]
<1>1. names' = [names EXCEPT ![p] = Lower[n]]
  BY DEF SetPubkeyDetails, Claims, Typed, TypeOK
<1>2. CASE names[p] = Lower[n]
  <2>1. names' = names
    BY <1>1, <1>2
  <2> QED
    BY <2>1 DEF Book!vars
<1>3. CASE names[p] # Lower[n]
  <2>1. \A q \in Pubkeys : names[q] # Lower[n]
    BY <1>3 DEF Conflict
  <2>2. Book!Take(p, Lower[n])
    BY <1>1, <2>1 DEF Book!Take
  <2> QED
    BY <2>2, LowerTwice DEF Book!Next
<1> QED
  BY <1>2, <1>3

LEMMA StepBook ==
  ASSUME OnePerPubkey, Claims, Promises, [HNext]_hvars
  PROVE  [Book!Next]_(Book!vars)
<1>1. TypeOK /\ Typed
  BY DEF Claims, Typed
<1>2. ASSUME NEW w \in Workers, pc[w] # "idle"
      PROVE  /\ req[w] \in Requests /\ req[w].pubkey \in Pubkeys
             /\ promised[req[w].pubkey] = None
  BY <1>1, <1>2, RequestFields DEF Typed, InFlight, Promises
<1>3. ASSUME NEW w \in Workers, Start(w), Promise(req'[w].pubkey, None)
      PROVE  [Book!Next]_(Book!vars)
  <2>1. UNCHANGED <<details, zone>> /\ req'[w].pubkey \in Pubkeys
    BY <1>1, <1>3, RequestFields DEF Start, stores, TypeOK
  <2>2. Book!Ask(req'[w].pubkey)
    BY <1>3, <2>1 DEF Promise, Book!Ask
  <2> QED
    BY <2>1, <2>2 DEF Book!Next
<1>4. ASSUME NEW w \in Workers, Return(w), Confirmed(w), ~Reverted(w),
             Promise(req[w].pubkey, Lower[req[w].name])
      PROVE  [Book!Next]_(Book!vars)
  <2>1. UNCHANGED <<details, zone>> /\ pc[w] # "idle"
    BY <1>4 DEF Return, stores
  <2>2. details[req[w].pubkey].name = Lower[req[w].name] /\ Lower[req[w].name] # None
    <3>1. req[w].name \in Names /\ Claimed(w)
      BY <1>2, <1>4, <2>1, RequestFields DEF Confirmed, Claimed, MaybeName
    <3> QED
      BY <3>1, LowerType DEF Claims, Holds
  <2>3. Book!Promise(req[w].pubkey)
    BY <1>2, <1>4, <2>1, <2>2 DEF Promise, Book!Promise
  <2> QED
    BY <1>2, <2>1, <2>3 DEF Book!Next
<1>5. ASSUME NEW w \in Workers, Claim(w), UNCHANGED promised PROVE [Book!Next]_(Book!vars)
  <2>1. pc[w] # "idle" /\ req[w].name \in Names /\ UNCHANGED zone
    BY <1>1, <1>2, <1>5, RequestFields DEF Claim, Typed, InFlight, MaybeName
  <2>2. \/ UNCHANGED details
        \/ /\ ~Conflict(req[w].pubkey, Lower[req[w].name])
           /\ \E o : SetPubkeyDetails(req[w].pubkey, req[w].name, o)
    BY <1>5 DEF Claim
  <2>3. CASE UNCHANGED details
    BY <1>5, <2>1, <2>3 DEF Book!vars
  <2> QED
    BY <1>2, <1>5, <2>1, <2>2, <2>3, RowTaken
<1>6. ASSUME NEW w \in Workers, Record(w), UNCHANGED promised PROVE [Book!Next]_(Book!vars)
  <2>1. pc[w] # "idle" /\ StoredName(w) \in Names /\ UNCHANGED zone
    BY <1>1, <1>2, <1>6, RequestFields, LowerType
    DEF Record, Typed, InFlight, TypeOK, Details, StoredName, MaybeName
  <2>2. \/ UNCHANGED details
        \/ /\ ~Conflict(req[w].pubkey, Lower[StoredName(w)])
           /\ SetPubkeyDetails(req[w].pubkey, StoredName(w), StoredOffer(w))
    BY <1>6 DEF Record
  <2>3. CASE UNCHANGED details
    BY <1>6, <2>1, <2>3 DEF Book!vars
  <2> QED
    BY <1>2, <1>6, <2>1, <2>2, <2>3, RowTaken
<1>7. ASSUME NEW w \in Workers, Unpublish(w), UNCHANGED promised PROVE [Book!Next]_(Book!vars)
  <2>1. last[w].name \in Usernames /\ UNCHANGED details
    BY <1>1, <1>7 DEF Unpublish, Typed, InFlight, TypeOK, Details
  <2>2. zone' = zone \/ zone' = [zone EXCEPT ![last[w].name] = {}]
    BY <1>7 DEF Unpublish
  <2>3. CASE zone' = zone
    BY <1>7, <2>1, <2>3 DEF Book!vars
  <2>4. CASE zone' = [zone EXCEPT ![last[w].name] = {}]
    <3>1. Book!Clear(last[w].name)
      BY <1>7, <2>1, <2>4 DEF Book!Clear
    <3> QED
      BY <2>1, <3>1 DEF Book!Next
  <2> QED
    BY <2>2, <2>3, <2>4
<1>8. ASSUME NEW w \in Workers, Publish(w), UNCHANGED promised PROVE [Book!Next]_(Book!vars)
  <2>1. /\ pc[w] # "idle" /\ req[w].name \in Names /\ req[w].offer \in Offers
        /\ UNCHANGED details /\ Claimed(w)
    BY <1>1, <1>2, <1>8, RequestFields
    DEF Publish, Typed, InFlight, MaybeName, MaybeOffer, Claimed
  <2>2. details[req[w].pubkey].name = Lower[req[w].name] /\ Lower[req[w].name] # None
    BY <2>1, LowerType DEF Claims, Holds
  <2>3. zone' = zone \/ zone' = [zone EXCEPT ![Lower[req[w].name]] = @ \cup {req[w].offer}]
    BY <1>8 DEF Publish
  <2>4. CASE zone' = zone
    BY <1>8, <2>1, <2>4 DEF Book!vars
  <2>5. CASE zone' = [zone EXCEPT ![Lower[req[w].name]] = @ \cup {req[w].offer}]
    <3>1. Book!Publish(req[w].pubkey)
      BY <1>2, <1>8, <2>1, <2>2, <2>5 DEF Book!Publish
    <3> QED
      BY <1>2, <2>1, <3>1 DEF Book!Next
  <2> QED
    BY <2>3, <2>4, <2>5
<1>9. ASSUME UNCHANGED <<details, zone, promised>> PROVE [Book!Next]_(Book!vars)
  BY <1>9 DEF Book!vars
<1> QED
  BY <1>3, <1>4, <1>5, <1>6, <1>7, <1>8, <1>9
  DEF HNext, hvars, Read, Delete, Insert, Return, DeleteExpired, Crash, stores, workers

(* ImplementsBook: the server keeps the promises of AddressBook, for any   *)
(* number of clients with one request in flight each, under every fault,   *)
(* crash and expiry (ImplementsAddressBook).                               *)
THEOREM ImplementsBook ==
  ASSUME OnePerPubkey
  PROVE  HSpec => ImplementsAddressBook
<1>1. Claims /\ Promises /\ [HNext]_hvars => Claims' /\ Promises'
  BY OnePerPubkey, HistorySteps, StepClaims, StepPromises
<1>2. Claims /\ Promises /\ [HNext]_hvars => [Book!Next]_(Book!vars)
  BY OnePerPubkey, StepBook
<1>3. HInit => Claims /\ Promises /\ Book!Init
  BY InitClaims, InitPromises DEF HInit, Init, Book!Init, NoDetails
<1> QED
  BY <1>1, <1>2, <1>3, PTL DEF HSpec, ImplementsAddressBook, Book!Spec

(* ConfirmedStays: what AddressBook guarantees holds of the server: no two *)
(* clients hold one username, and one that was confirmed to a client is    *)
(* still its own however long ago that was, if it has not asked since.     *)
THEOREM ConfirmedStays ==
  ASSUME OnePerPubkey
  PROVE  HSpec => []Book!PromiseKept
<1> DEFINE Kept == Book!TypeOK /\ Book!PromiseKept
           names == [p \in Pubkeys |-> details[p].name]
<1>1. Book!Init => Kept
  BY DEF Book!Init, Book!PromiseKept, Book!TypeOK
<1>2. ASSUME Kept, [Book!Next]_(Book!vars) PROVE Kept'
  <2>1. /\ {names, promised} \subseteq [Pubkeys -> Usernames \cup {None}]
        /\ zone \in [Usernames -> SUBSET Offers]
        /\ \A p, q \in Pubkeys : p # q /\ names[p] # None => names[p] # names[q]
        /\ \A p \in Pubkeys : promised[p] # None => names[p] = promised[p]
    BY <1>2 DEF Book!TypeOK, Book!PromiseKept
  <2>2. ASSUME NEW p \in Pubkeys, Book!Ask(p) PROVE Kept'
    BY <2>1, <2>2 DEF Book!Ask, Book!TypeOK, Book!PromiseKept
  <2>3. ASSUME NEW p \in Pubkeys, Book!Promise(p) PROVE Kept'
    <3>1. UNCHANGED <<names, zone>> /\ promised' = [promised EXCEPT ![p] = names[p]]
      BY <2>3 DEF Book!Promise
    <3> HIDE DEF names
    <3>2. /\ promised' \in [Pubkeys -> Usernames \cup {None}]
          /\ \A q \in Pubkeys : promised'[q] # None => names'[q] = promised'[q]
      BY <2>1, <3>1
    <3>3. Book!TypeOK'
      <4>1. {names', promised'} \subseteq [Pubkeys -> Usernames \cup {None}]
        BY <2>1, <3>1, <3>2
      <4> QED
        BY <2>1, <3>1, <4>1 DEF Book!TypeOK, names
    <3>4. Book!PromiseKept'
      <4>1. \A q, r \in Pubkeys : q # r /\ names'[q] # None => names'[q] # names'[r]
        BY <2>1, <3>1
      <4> QED
        BY <3>2, <4>1 DEF Book!PromiseKept, names
    <3> QED
      BY <3>3, <3>4
  <2>4. ASSUME NEW p \in Pubkeys, NEW n \in Usernames, Book!Take(p, n) PROVE Kept'
    <3>1. /\ names' = [names EXCEPT ![p] = n] /\ UNCHANGED <<promised, zone>>
          /\ promised[p] = None /\ \A q \in Pubkeys : names[q] # n
      BY <2>4 DEF Book!Take
    <3> HIDE DEF names
    <3>2. {names', promised'} \subseteq [Pubkeys -> Usernames \cup {None}]
      BY <2>1, <3>1
    <3>3. /\ \A q, r \in Pubkeys : q # r /\ names'[q] # None => names'[q] # names'[r]
          /\ \A q \in Pubkeys : promised'[q] # None => names'[q] = promised'[q]
      BY <2>1, <3>1
    <3> QED
      BY <2>1, <3>1, <3>2, <3>3 DEF Book!TypeOK, Book!PromiseKept, names
  <2>5. ASSUME NEW p \in Pubkeys, Book!Publish(p) PROVE Kept'
    BY <2>1, <2>5 DEF Book!Publish, Book!TypeOK, Book!PromiseKept
  <2>6. ASSUME NEW n \in Usernames, Book!Clear(n) PROVE Kept'
    BY <2>1, <2>6 DEF Book!Clear, Book!TypeOK, Book!PromiseKept
  <2>7. ASSUME UNCHANGED Book!vars PROVE Kept'
    BY <2>1, <2>7 DEF Book!vars, Book!TypeOK, Book!PromiseKept
  <2> QED
    BY <1>2, <2>2, <2>3, <2>4, <2>5, <2>6, <2>7 DEF Book!Next
<1>3. HSpec => Book!Spec
  BY OnePerPubkey, ImplementsBook DEF ImplementsAddressBook
<1> QED
  BY <1>1, <1>2, <1>3, PTL DEF Book!Spec

-----------------------------------------------------------------------------
(* Records without a holder *)

(* What the handler read is what is stored.                                *)
Same(w) ==
  /\ details[req[w].pubkey].name = last[w].name
  /\ details[req[w].pubkey].offer = last[w].offer

Known(w) ==
  /\ pc[w] \in {"claim", "delete"} /\ last[w] # None => Same(w)
  /\ pc[w] \in {"insert", "unpublish"} /\ HadOffer(w) /\ ~MovedOffer(w) => Same(w)
  /\ pc[w] = "insert" /\ ~HadOffer(w) /\ req[w].name # None
       => details[req[w].pubkey].offer = None

(* The recorded offer of the handler's pubkey is not, or not any more, the *)
(* one that the zone should show.                                          *)
Unsettled(w) ==
  \/ pc[w] \in {"unpublish", "record", "retract", "forget"}
  \/ pc[w] = "insert" /\ MovedOffer(w)
  \/ pc[w] = "publish" /\ details[req[w].pubkey].offer # req[w].offer

Recorded(p, n, o) == details[p].name = n /\ details[p].offer = o

(* The handler is about to store the record's offer, or to remove it.      *)
InHand(w, n, o) ==
  \/ pc[w] = "record" /\ Lower[req[w].name] = n /\ req[w].offer = o
  \/ /\ pc[w] = "unpublish" \/ (pc[w] = "insert" /\ MovedOffer(w))
     /\ last[w] # None /\ last[w].name = n /\ last[w].offer = o

Explained(n, o) ==
  \/ \E p \in Pubkeys : Recorded(p, n, o) /\ \A w \in Workers : Unsettled(w) => req[w].pubkey # p
  \/ \E w \in Workers : InHand(w, n, o)

LitterInv ==
  /\ Claims
  /\ \A w \in Workers : Known(w)
  /\ \A n \in Usernames \ littered : \A o \in zone[n] : Explained(n, o)

LEMMA InitLitter == HInit => LitterInv
<1> SUFFICES ASSUME HInit PROVE LitterInv
  OBVIOUS
<1>1. Claims
  BY InitClaims DEF HInit
<1>2. /\ \A w \in Workers : Known(w)
      /\ \A n \in Usernames : zone[n] = {}
  BY DEF HInit, Init, Known
<1> QED
  BY <1>1, <1>2 DEF LitterInv

OwnExplains(w, n, o) ==
  \/ Recorded(req[w].pubkey, n, o) /\ ~Unsettled(w)
  \/ InHand(w, n, o)

(* A step of a handler leaves the explanations by others alone; it has to  *)
(* keep its own, or litter the name.                                       *)
LEMMA ExplainStep ==
  ASSUME LitterInv, Claims', NEW w \in Workers, pc[w] # "idle", pc'[w] # "idle", UNCHANGED req,
         \A v \in Workers \ {w} : pc'[v] = pc[v] /\ last'[v] = last[v],
         \A p \in Pubkeys \ {req[w].pubkey} : details'[p] = details[p],
         Known(w)',
         \A n \in Usernames \ littered' : \A o \in zone'[n] :
           OwnExplains(w, n, o)' \/ (n \notin littered /\ o \in zone[n] /\ ~OwnExplains(w, n, o))
  PROVE  LitterInv'
<1> DEFINE own == req[w].pubkey
<1>1. \A v \in Workers \ {w} : pc[v] # "idle" => req[v].pubkey \in Pubkeys \ {own}
  BY RequestFields DEF LitterInv, Claims, Typed, InFlight, Solo
<1>2. own \in Pubkeys
  BY RequestFields DEF LitterInv, Claims, Typed, InFlight
<1>3. ASSUME NEW v \in Workers \ {w}, pc[v] # "idle"
      PROVE  /\ Unsettled(v)' <=> Unsettled(v)
             /\ Known(v)' <=> Known(v)
             /\ \A n, o : InHand(v, n, o)' <=> InHand(v, n, o)
  <2>1. UNCHANGED <<pc[v], last[v], req[v], details[req[v].pubkey]>>
    BY <1>1, <1>3
  <2>2. (MovedOffer(v)' <=> MovedOffer(v)) /\ (HadOffer(v)' <=> HadOffer(v)) /\ (Same(v)' <=> Same(v))
    BY <2>1 DEF MovedOffer, HadOffer, Same
  <2> QED
    BY <2>1, <2>2 DEF Unsettled, Known, InHand
<1>4. ASSUME NEW v \in Workers \ {w}, pc[v] = "idle"
      PROVE  ~Unsettled(v)' /\ ~Unsettled(v) /\ Known(v)' /\ \A n, o : ~InHand(v, n, o)
  BY <1>4 DEF Unsettled, Known, InHand
<1>5. ASSUME NEW n \in Usernames \ littered', NEW o \in zone'[n] PROVE Explained(n, o)'
  <2>1. CASE OwnExplains(w, n, o)'
    <3>1. CASE (Recorded(own, n, o) /\ ~Unsettled(w))'
      <4>1. \A v \in Workers : Unsettled(v)' => req'[v].pubkey # own
        BY <1>1, <1>3, <1>4, <3>1
      <4> QED
        BY <1>2, <3>1, <4>1 DEF Explained
    <3>2. CASE InHand(w, n, o)'
      BY <3>2 DEF Explained
    <3> QED
      BY <2>1, <3>1, <3>2 DEF OwnExplains
  <2>2. CASE n \notin littered /\ o \in zone[n] /\ ~OwnExplains(w, n, o)
    <3>1. Explained(n, o)
      BY <2>2 DEF LitterInv
    <3>2. ASSUME NEW p \in Pubkeys, Recorded(p, n, o), \A v \in Workers : Unsettled(v) => req[v].pubkey # p
          PROVE  Explained(n, o)'
      <4>1. p # own
        BY <2>2, <3>2 DEF OwnExplains
      <4>2. Recorded(p, n, o)'
        BY <3>2, <4>1 DEF Recorded
      <4>3. \A v \in Workers : Unsettled(v)' => req'[v].pubkey # p
        BY <1>3, <1>4, <3>2, <4>1
      <4> QED
        BY <4>2, <4>3 DEF Explained
    <3>3. ASSUME NEW v \in Workers, InHand(v, n, o) PROVE Explained(n, o)'
      <4>1. v # w
        BY <2>2, <3>3 DEF OwnExplains
      <4>2. InHand(v, n, o)'
        BY <1>3, <1>4, <3>3, <4>1
      <4> QED
        BY <4>2 DEF Explained
    <3> QED
      BY <3>1, <3>2, <3>3 DEF Explained
  <2> QED
    BY <2>1, <2>2
<1>6. \A v \in Workers : Known(v)'
  BY <1>3, <1>4 DEF LitterInv
<1> QED
  BY <1>5, <1>6 DEF LitterInv

LEMMA StepLitter ==
  ASSUME OnePerPubkey, LitterInv, [HNext]_hvars
  PROVE  LitterInv'
<1>1. Claims /\ Claims'
  BY HistorySteps, StepClaims, OnePerPubkey DEF LitterInv
<1>2. TypeOK /\ TypeOK' /\ Typed /\ None \notin Offers
  BY <1>1, RegistryAssumption DEF Claims, Typed
<1>3. ASSUME NEW w \in Workers, pc[w] # "idle"
      PROVE  /\ req[w] \in Requests /\ req[w].pubkey \in Pubkeys
             /\ req[w].name \in Names \cup {None} /\ req[w].offer \in Offers \cup {None}
             /\ req[w].op \in Operations
  BY <1>2, <1>3, RequestFields DEF Typed, InFlight, MaybeName, MaybeOffer
<1>4. \A n \in Usernames : \A o \in zone[n] : o # None
  BY <1>2 DEF TypeOK
<1>5. ASSUME UNCHANGED <<details, zone, littered>>, NEW w \in Workers,
             pc[w] \in {"idle", "done"}, pc'[w] \in {"idle", "read"},
             \A v \in Workers \ {w} : pc'[v] = pc[v] /\ req'[v] = req[v] /\ last'[v] = last[v]
      PROVE  LitterInv'
  <2>1. ASSUME NEW v \in Workers \ {w}
        PROVE  /\ Unsettled(v)' <=> Unsettled(v)
               /\ Known(v)' <=> Known(v)
               /\ \A n, o : InHand(v, n, o)' <=> InHand(v, n, o)
    <3>1. (MovedOffer(v)' <=> MovedOffer(v)) /\ (HadOffer(v)' <=> HadOffer(v)) /\ (Same(v)' <=> Same(v))
      BY <1>5, <2>1 DEF MovedOffer, HadOffer, Same
    <3> QED
      BY <1>5, <2>1, <3>1 DEF Unsettled, Known, InHand
  <2>2. Known(w)' /\ ~Unsettled(w) /\ ~Unsettled(w)' /\ \A n, o : ~InHand(w, n, o)
    BY <1>5 DEF Unsettled, Known, InHand
  <2>3. ASSUME NEW n, NEW o, Explained(n, o) PROVE Explained(n, o)'
    <3>1. ASSUME NEW p \in Pubkeys, Recorded(p, n, o), \A v \in Workers : Unsettled(v) => req[v].pubkey # p
          PROVE  Explained(n, o)'
      <4>1. Recorded(p, n, o)'
        BY <1>5, <3>1 DEF Recorded
      <4>2. \A v \in Workers : Unsettled(v)' => req'[v].pubkey # p
        BY <1>5, <2>1, <2>2, <3>1
      <4> QED
        BY <4>1, <4>2 DEF Explained
    <3>2. ASSUME NEW v \in Workers, InHand(v, n, o) PROVE Explained(n, o)'
      <4>1. InHand(v, n, o)'
        BY <2>1, <2>2, <3>2
      <4> QED
        BY <4>1 DEF Explained
    <3> QED
      BY <2>3, <3>1, <3>2 DEF Explained
  <2> QED
    BY <1>1, <1>5, <2>1, <2>2, <2>3 DEF LitterInv
<1>6. ASSUME NEW w \in Workers, Start(w), UNCHANGED littered PROVE LitterInv'
  BY <1>2, <1>5, <1>6 DEF Start, stores, TypeOK
<1>7. ASSUME NEW w \in Workers, Return(w), UNCHANGED littered PROVE LitterInv'
  BY <1>2, <1>5, <1>7 DEF Return, stores, TypeOK
<1>8. ASSUME NEW w \in Workers, Read(w), UNCHANGED littered PROVE LitterInv'
  <2>1. /\ pc[w] = "read" /\ UNCHANGED <<details, zone, req>>
        /\ \A v \in Workers \ {w} : pc'[v] = pc[v] /\ last'[v] = last[v]
        /\ last'[w] \in {None, details[req[w].pubkey]}
    BY <1>2, <1>8 DEF Read, stores, TypeOK, Snapshot
  <2>2. /\ pc'[w] \in {"insert", "claim", "done", "delete", "unpublish"}
        /\ pc'[w] = "insert" => req[w].name = None
        /\ pc'[w] = "unpublish" => last'[w] # None
    BY <1>2, <1>3, <1>8, <2>1 DEF Read, AfterRead, FirstWrite, TypeOK, IsRegister, Operations
  <2>3. Known(w)'
    BY <2>1, <2>2 DEF Known, Same, MovedOffer, HadOffer
  <2>4. ASSUME NEW n \in Usernames \ littered', NEW o \in zone'[n], OwnExplains(w, n, o)
        PROVE  OwnExplains(w, n, o)'
    <3>1. Recorded(req[w].pubkey, n, o)
      BY <2>1, <2>4 DEF OwnExplains, InHand
    <3>2. CASE pc'[w] = "unpublish"
      BY <2>1, <2>2, <3>1, <3>2 DEF OwnExplains, InHand, Recorded
    <3>3. CASE pc'[w] # "unpublish"
      <4>1. ~Unsettled(w)'
        BY <2>1, <2>2, <3>3 DEF Unsettled, MovedOffer
      <4> QED
        BY <2>1, <3>1, <4>1 DEF OwnExplains, Recorded
    <3> QED
      BY <3>2, <3>3
  <2> QED
    BY <1>1, <1>8, <2>1, <2>2, <2>3, <2>4, ExplainStep
<1>9. ASSUME NEW w \in Workers, Delete(w), UNCHANGED littered PROVE LitterInv'
  <2>1. /\ pc[w] = "delete" /\ UNCHANGED <<details, zone, req, last>> /\ pc'[w] \in {"done", "unpublish"}
        /\ last[w] # None /\ \A v \in Workers \ {w} : pc'[v] = pc[v]
    BY <1>2, <1>9 DEF Delete, TypeOK, Proceed, Answer, Goto, Typed, InFlight
  <2>2. Same(w) /\ Same(w)'
    BY <2>1 DEF LitterInv, Known, Same
  <2>3. Known(w)'
    BY <2>1, <2>2 DEF Known
  <2>4. ASSUME NEW n \in Usernames \ littered', NEW o \in zone'[n], OwnExplains(w, n, o)
        PROVE  OwnExplains(w, n, o)'
    <3>1. Recorded(req[w].pubkey, n, o)
      BY <2>1, <2>4 DEF OwnExplains, InHand
    <3> QED
      BY <2>1, <2>2, <3>1 DEF OwnExplains, InHand, Recorded, Unsettled, Same
  <2> QED
    BY <1>1, <1>9, <2>1, <2>3, <2>4, ExplainStep
<1>10. ASSUME NEW w \in Workers, Claim(w), LitterIf(Overwrites(w), details[req[w].pubkey].name)
       PROVE  LitterInv'
  <2>1. /\ pc[w] = "claim" /\ IsRegister(w) /\ req[w].pubkey \in Pubkeys /\ req[w].name \in Names
        /\ pc'[w] \in {"insert", "done", "publish", "unpublish"}
        /\ UNCHANGED <<zone, req, last>> /\ \A v \in Workers \ {w} : pc'[v] = pc[v]
    BY <1>2, <1>10, RequestFields
    DEF Claim, AfterStore, Proceed, Goto, Answer, Typed, InFlight, TypeOK, MaybeName
  <2>2. \A p \in Pubkeys \ {req[w].pubkey} : details'[p] = details[p]
    BY <1>2, <1>10, <2>1 DEF Claim, SetPubkeyDetails, TypeOK
  <2>3. last[w] # None => Same(w)
    BY <2>1 DEF LitterInv, Known
  <2>4. \/ pc'[w] = "done"
        \/ pc'[w] = "insert" /\ SetPubkeyDetails(req[w].pubkey, req[w].name, LastOffer(w))
        \/ pc'[w] = AfterStore(w) /\ SetPubkeyDetails(req[w].pubkey, req[w].name, req[w].offer) /\ ~IsLnurl(w)
    <3>1. CASE Answer(w, "conflict")
      BY <1>2, <3>1 DEF Answer, TypeOK
    <3>2. CASE ~Answer(w, "conflict")
      <4>1. PICK out \in Outcomes(StoreFaults) :
              /\ out.applied => SetPubkeyDetails(req[w].pubkey, req[w].name,
                                  IF IsLnurl(w) THEN LastOffer(w) ELSE req[w].offer)
              /\ ~out.ok => Answer(w, "conflict")
              /\ out.ok => Proceed(w, IF IsLnurl(w) THEN "insert" ELSE AfterStore(w))
        BY <1>10, <3>2 DEF Claim
      <4>2. out.ok /\ out.applied
        BY <3>2, <4>1, OkIsApplied, RegistryAssumption
      <4> QED
        BY <1>2, <4>1, <4>2 DEF Proceed, Answer, Goto, TypeOK
    <3> QED
      BY <3>1, <3>2
  <2>5. ASSUME NEW o, SetPubkeyDetails(req[w].pubkey, req[w].name, o)
        PROVE  /\ details'[req[w].pubkey].name = Lower[req[w].name]
               /\ details'[req[w].pubkey].offer = o
    BY <1>2, <2>1, <2>5 DEF SetPubkeyDetails, TypeOK
  <2>6. CASE pc'[w] = "done"
    <3>1. Known(w)' /\ ~Unsettled(w)'
      BY <2>6 DEF Known, Unsettled
    <3>2. ASSUME NEW n \in Usernames \ littered', NEW o \in zone'[n], OwnExplains(w, n, o)
          PROVE  OwnExplains(w, n, o)'
      <4>1. Recorded(req[w].pubkey, n, o) /\ o # None
        BY <1>4, <2>1, <3>2 DEF OwnExplains, InHand
      <4>2. ~Overwrites(w)
        BY <1>10, <3>2, <4>1 DEF LitterIf, Litter, Recorded
      <4>3. details' = details
        BY <2>6, <4>1, <4>2 DEF Overwrites, Recorded
      <4> QED
        BY <2>1, <3>1, <4>1, <4>3 DEF OwnExplains, Recorded
    <3>3. littered \subseteq littered'
      BY <1>10 DEF LitterIf, Litter
    <3> QED
      BY <1>1, <2>1, <2>2, <3>1, <3>2, <3>3, ExplainStep
  <2>7. CASE pc'[w] = "insert" /\ SetPubkeyDetails(req[w].pubkey, req[w].name, LastOffer(w))
    <3>1. /\ details'[req[w].pubkey].name = Lower[req[w].name]
          /\ details'[req[w].pubkey].offer = LastOffer(w)
      BY <2>5, <2>7
    <3>2. /\ (HadOffer(w)' <=> HadOffer(w)) /\ (MovedOffer(w)' <=> MovedOffer(w))
          /\ HadOffer(w) => LastOffer(w) = last[w].offer /\ LastOffer(w) # None
          /\ ~HadOffer(w) => LastOffer(w) = None
      BY <2>1 DEF HadOffer, MovedOffer, LastOffer
    <3>3. HadOffer(w) /\ ~MovedOffer(w) => last[w].name = Lower[req[w].name]
      BY <2>1, RegistryAssumption DEF MovedOffer
    <3>4. Known(w)'
      BY <2>1, <2>7, <3>1, <3>2, <3>3 DEF Known, Same
    <3>5. ASSUME NEW n \in Usernames \ littered', NEW o \in zone'[n], OwnExplains(w, n, o)
          PROVE  OwnExplains(w, n, o)'
      <4>1. Recorded(req[w].pubkey, n, o) /\ o # None
        BY <1>4, <2>1, <3>5 DEF OwnExplains, InHand
      <4>2. ~Overwrites(w)
        BY <1>10, <3>5, <4>1 DEF LitterIf, Litter, Recorded
      <4>3. CASE ~HadOffer(w)
        <5>1. details' = details
          BY <3>2, <4>1, <4>2, <4>3 DEF Overwrites, Recorded
        <5> QED
          BY <3>1, <3>2, <4>1, <4>3, <5>1 DEF Recorded
      <4>4. CASE HadOffer(w)
        <5>1. last[w] # None /\ last[w].name = n /\ last[w].offer = o
          BY <2>3, <4>1, <4>4 DEF HadOffer, Same, Recorded
        <5>2. CASE MovedOffer(w)
          BY <2>1, <2>7, <3>2, <5>1, <5>2 DEF OwnExplains, InHand
        <5>3. CASE ~MovedOffer(w)
          <6>1. Recorded(req[w].pubkey, n, o)'
            BY <2>1, <3>1, <3>2, <3>3, <4>4, <5>1, <5>3 DEF Recorded
          <6>2. ~Unsettled(w)'
            BY <2>7, <3>2, <5>3 DEF Unsettled
          <6> QED
            BY <6>1, <6>2 DEF OwnExplains
        <5> QED
          BY <5>2, <5>3
      <4> QED
        BY <4>3, <4>4
    <3>6. littered \subseteq littered'
      BY <1>10 DEF LitterIf, Litter
    <3>7. pc[w] # "idle" /\ pc'[w] # "idle"
      BY <2>1, <2>7
    <3> QED
      BY <1>1, <2>1, <2>2, <3>4, <3>5, <3>6, <3>7, ExplainStep
  <2>8. CASE /\ pc'[w] # "done" /\ pc'[w] = AfterStore(w) /\ ~IsLnurl(w)
             /\ SetPubkeyDetails(req[w].pubkey, req[w].name, req[w].offer)
    <3>1. /\ details'[req[w].pubkey].name = Lower[req[w].name]
          /\ details'[req[w].pubkey].offer = req[w].offer
      BY <2>5, <2>8
    <3>2. pc'[w] \in {"publish", "unpublish"}
          /\ (pc'[w] = "unpublish" => HadOffer(w) /\ MovedOffer(w) /\ LastOffer(w) # None)
      <4>1. req[w].offer # None /\ req[w].name # None
        BY <1>2, <2>1, <2>8, RequestFields, RegistryAssumption DEF IsLnurl, IsRegister, Typed, InFlight
      <4> QED
        BY <2>1, <2>8, <4>1 DEF AfterStore, MovedOffer, NameChanges, NewName, HadOffer, LastOffer
    <3>3. Known(w)'
      BY <2>1, <3>2 DEF Known, HadOffer, MovedOffer
    <3>4. ASSUME NEW n \in Usernames \ littered', NEW o \in zone'[n], OwnExplains(w, n, o)
          PROVE  OwnExplains(w, n, o)'
      <4>1. Recorded(req[w].pubkey, n, o) /\ o # None
        BY <1>4, <2>1, <3>4 DEF OwnExplains, InHand
      <4>2. ~Overwrites(w)
        BY <1>10, <3>4, <4>1 DEF LitterIf, Litter, Recorded
      <4>3. CASE pc'[w] = "unpublish"
        <5>1. last[w] # None /\ last[w].name = n /\ last[w].offer = o
          BY <2>3, <3>2, <4>1, <4>3 DEF HadOffer, Same, Recorded
        <5> QED
          BY <2>1, <4>3, <5>1 DEF OwnExplains, InHand
      <4>4. CASE pc'[w] = "publish"
        <5>1. details' = details
          BY <4>1, <4>2, <4>4 DEF Overwrites, Recorded
        <5>2. ~Unsettled(w)'
          BY <2>1, <3>1, <4>4 DEF Unsettled
        <5> QED
          BY <2>1, <4>1, <5>1, <5>2 DEF OwnExplains, Recorded
      <4> QED
        BY <3>2, <4>3, <4>4
    <3>5. littered \subseteq littered'
      BY <1>10 DEF LitterIf, Litter
    <3> QED
      BY <1>1, <2>1, <2>2, <3>2, <3>3, <3>4, <3>5, ExplainStep
  <2> QED
    BY <2>4, <2>6, <2>7, <2>8
<1>11. ASSUME NEW w \in Workers, Insert(w), LitterIf(reply'[w] = "error" /\ MovedOffer(w), last[w].name)
       PROVE  LitterInv'
  <2>1. /\ pc[w] = "insert" /\ IsRegister(w) /\ IsLnurl(w) /\ req[w].pubkey \in Pubkeys
        /\ pc'[w] \in {"done", "publish", "unpublish"}
        /\ UNCHANGED <<details, zone, req, last>> /\ \A v \in Workers \ {w} : pc'[v] = pc[v]
        /\ \/ reply'[w] = "error" /\ pc'[w] = "done"
           \/ pc'[w] = AfterStore(w)
    BY <1>2, <1>3, <1>11
    DEF Insert, AfterStore, Proceed, Goto, Answer, Typed, InFlight, TypeOK, IsLnurl, IsRegister
  <2>2. /\ (HadOffer(w)' <=> HadOffer(w)) /\ (MovedOffer(w)' <=> MovedOffer(w)) /\ (Same(w)' <=> Same(w))
        /\ Known(w)
    BY <2>1 DEF HadOffer, MovedOffer, Same, LitterInv
  <2>3. Known(w)'
    BY <2>1, <2>2 DEF Known
  <2>4. littered \subseteq littered'
        /\ (reply'[w] = "error" /\ MovedOffer(w) => last[w].name \in littered')
    BY <1>11 DEF LitterIf, Litter
  <2>5. ASSUME NEW n \in Usernames \ littered', NEW o \in zone'[n], OwnExplains(w, n, o)
        PROVE  OwnExplains(w, n, o)'
    <3>1. CASE MovedOffer(w)
      <4>1. last[w] # None /\ last[w].name = n /\ last[w].offer = o
        BY <2>1, <2>5, <3>1 DEF OwnExplains, InHand, Unsettled
      <4>2. pc'[w] = AfterStore(w)
        BY <2>1, <2>4, <2>5, <3>1, <4>1
      <4>3. AfterStore(w) # "done"
        <5>1. SUFFICES ASSUME AfterStore(w) = "done" PROVE FALSE
          OBVIOUS
        <5>2. req[w].name = last[w].name /\ n \in Usernames
          BY <2>1, <2>5, <3>1, <5>1 DEF AfterStore, MovedOffer, HadOffer, NameChanges, NewName
        <5> QED
          BY <3>1, <4>1, <5>2, LowerTwice, RegistryAssumption DEF MovedOffer, Usernames
      <4>4. AfterStore(w) # "publish"
        BY <2>1, <3>1 DEF AfterStore, MovedOffer
      <4> QED
        BY <2>1, <4>1, <4>2, <4>3, <4>4 DEF OwnExplains, InHand
    <3>2. CASE ~MovedOffer(w)
      <4>1. Recorded(req[w].pubkey, n, o) /\ o # None
        BY <1>4, <2>1, <2>5, <3>2 DEF OwnExplains, InHand
      <4>2. CASE pc'[w] = "done"
        BY <2>1, <4>1, <4>2 DEF OwnExplains, Recorded, Unsettled
      <4>3. CASE pc'[w] = "unpublish"
        <5>1. HadOffer(w)
          BY <1>1, <2>1, <2>2, <4>3 DEF Claims, Forgets, IsRegister
        <5>2. last[w] # None /\ last[w].name = n /\ last[w].offer = o
          BY <2>1, <2>2, <3>2, <4>1, <5>1 DEF Known, Same, HadOffer, Recorded
        <5> QED
          BY <2>1, <4>3, <5>2 DEF OwnExplains, InHand
      <4>4. CASE pc'[w] = "publish"
        <5>1. ~HadOffer(w) /\ req[w].name # None
          BY <2>1, <4>4 DEF AfterStore
        <5> QED
          BY <2>1, <2>2, <4>1, <5>1 DEF Known, Recorded
      <4> QED
        BY <2>1, <4>2, <4>3, <4>4
    <3> QED
      BY <3>1, <3>2
  <2>6. pc[w] # "idle" /\ pc'[w] # "idle"
    BY <2>1
  <2> QED
    BY <1>1, <2>1, <2>3, <2>4, <2>5, <2>6, ExplainStep
<1>12. ASSUME NEW w \in Workers, Unpublish(w),
              IF zone'[last[w].name] = {} THEN littered' = littered \ {last[w].name}
              ELSE Litter({last[w].name})
       PROVE  LitterInv'
  <2>1. /\ pc[w] = "unpublish" /\ pc'[w] \in {"publish", "forget"}
        /\ UNCHANGED <<details, req, last>> /\ \A v \in Workers \ {w} : pc'[v] = pc[v]
    BY <1>2, <1>12 DEF Unpublish, Goto, TypeOK
  <2>2. \A n \in Usernames \ {last[w].name} : zone'[n] = zone[n]
    BY <1>2, <1>12 DEF Unpublish, TypeOK
  <2>3. Known(w)'
    BY <2>1 DEF Known
  <2>4. ASSUME NEW n \in Usernames \ littered', NEW o \in zone'[n]
        PROVE  n \notin littered /\ o \in zone[n] /\ ~OwnExplains(w, n, o)
    <3>1. n # last[w].name
      BY <1>12, <2>4 DEF Litter
    <3>2. n \notin littered
      BY <1>12, <2>4, <3>1 DEF Litter
    <3> QED
      BY <2>1, <2>2, <2>4, <3>1, <3>2 DEF OwnExplains, InHand, Unsettled
  <2>5. pc[w] # "idle" /\ pc'[w] # "idle"
    BY <2>1
  <2> QED
    BY <1>1, <2>1, <2>3, <2>4, <2>5, ExplainStep
<1>13. ASSUME NEW w \in Workers, Publish(w), LitterIf(pc'[w] # "record", Lower[req[w].name])
       PROVE  LitterInv'
  <2>1. /\ pc[w] = "publish" /\ req[w].pubkey \in Pubkeys
        /\ UNCHANGED <<details, req, last>> /\ \A v \in Workers \ {w} : pc'[v] = pc[v]
        /\ pc'[w] \in {"record", "done", "retract"}
    BY <1>2, <1>3, <1>13 DEF Publish, AfterPublishError, Proceed, Goto, Answer, TypeOK
  <2>2. details[req[w].pubkey].name = Lower[req[w].name]
    BY <1>1, <2>1 DEF Claims, Claimed, Holds, Typed, InFlight
  <2>3. /\ \A n \in Usernames : \A o \in zone'[n] :
             o \in zone[n] \/ (n = Lower[req[w].name] /\ o = req[w].offer)
        /\ littered \subseteq littered'
        /\ pc'[w] # "record" => Lower[req[w].name] \in littered'
    BY <1>2, <1>13 DEF Publish, TypeOK, LitterIf, Litter
  <2>4. Known(w)'
    BY <2>1 DEF Known
  <2>5. ASSUME NEW n \in Usernames \ littered', NEW o \in zone'[n]
        PROVE  OwnExplains(w, n, o)' \/ (n \notin littered /\ o \in zone[n] /\ ~OwnExplains(w, n, o))
    <3>1. CASE n = Lower[req[w].name] /\ o = req[w].offer
      <4>1. pc'[w] = "record"
        BY <2>3, <2>5, <3>1
      <4> QED
        BY <2>1, <3>1, <4>1 DEF OwnExplains, InHand
    <3>2. CASE ~(n = Lower[req[w].name] /\ o = req[w].offer)
      <4>1. ~OwnExplains(w, n, o)
        BY <2>1, <2>2, <3>2 DEF OwnExplains, InHand, Recorded, Unsettled
      <4> QED
        BY <2>3, <2>5, <3>2, <4>1
    <3> QED
      BY <3>1, <3>2
  <2>6. pc[w] # "idle" /\ pc'[w] # "idle"
    BY <2>1
  <2> QED
    BY <1>1, <2>1, <2>4, <2>5, <2>6, ExplainStep
<1>14. ASSUME NEW w \in Workers, Record(w),
              LitterIf(pc[w] = "record" /\ details'[req[w].pubkey].offer # req[w].offer, Lower[req[w].name])
       PROVE  LitterInv'
  <2>1. /\ pc[w] \in {"record", "retract", "forget"} /\ pc'[w] = "done" /\ req[w].pubkey \in Pubkeys
        /\ UNCHANGED <<zone, req, last>> /\ \A v \in Workers \ {w} : pc'[v] = pc[v]
    BY <1>2, <1>3, <1>14 DEF Record, Answer, TypeOK
  <2>2. \A p \in Pubkeys \ {req[w].pubkey} : details'[p] = details[p]
    BY <1>2, <1>14, <2>1 DEF Record, SetPubkeyDetails, TypeOK
  <2>3. littered \subseteq littered' /\ Known(w)' /\ ~Unsettled(w)'
    BY <1>14, <2>1 DEF LitterIf, Litter, Known, Unsettled
  <2>4. ASSUME NEW n \in Usernames \ littered', NEW o \in zone'[n], OwnExplains(w, n, o)
        PROVE  OwnExplains(w, n, o)'
    <3>1. pc[w] = "record" /\ Lower[req[w].name] = n /\ req[w].offer = o
      BY <2>1, <2>4 DEF OwnExplains, InHand, Unsettled
    <3>2. details'[req[w].pubkey].offer = o
      BY <1>14, <2>4, <3>1 DEF LitterIf, Litter
    <3>3. details[req[w].pubkey].name = n
      BY <1>1, <3>1 DEF Claims, Claimed, Holds, Typed, InFlight
    <3>4. details'[req[w].pubkey].name = n
      BY <1>2, <1>14, <2>1, <3>1, <3>3 DEF Record, SetPubkeyDetails, StoredName, TypeOK
    <3> QED
      BY <2>1, <2>3, <3>2, <3>4 DEF OwnExplains, Recorded
  <2>5. pc[w] # "idle" /\ pc'[w] # "idle"
    BY <2>1
  <2> QED
    BY <1>1, <2>1, <2>2, <2>3, <2>4, <2>5, ExplainStep
<1>15. ASSUME UNCHANGED <<details, zone, workers, littered>> PROVE LitterInv'
  <2>1. \A w \in Workers : Known(w)'
    BY <1>15 DEF LitterInv, Known, Same, HadOffer, MovedOffer, workers
  <2>2. \A n, o : Explained(n, o)' <=> Explained(n, o)
    BY <1>15 DEF Explained, Recorded, Unsettled, InHand, MovedOffer, HadOffer, workers
  <2> QED
    BY <1>1, <1>15, <2>1, <2>2 DEF LitterInv
<1>16. ASSUME Crash, Litter({last[w].name : w \in Unremoved} \cup {Lower[req[w].name] : w \in Unrecorded})
       PROVE  LitterInv'
  <2>1. UNCHANGED <<details, zone>> /\ \A w \in Workers : pc'[w] = "idle"
    BY <1>16 DEF Crash, stores
  <2>2. \A w \in Workers : Known(w)' /\ ~Unsettled(w)'
    BY <2>1 DEF Known, Unsettled
  <2>3. ASSUME NEW n \in Usernames \ littered', NEW o \in zone'[n] PROVE Explained(n, o)'
    <3>1. n \notin littered /\ o \in zone[n] /\ o # None
      BY <1>4, <1>16, <2>1, <2>3 DEF Litter
    <3>2. SUFFICES \E p \in Pubkeys : Recorded(p, n, o)
      BY <2>1, <2>2 DEF Explained, Recorded
    <3>3. ASSUME NEW w \in Workers, InHand(w, n, o) PROVE Recorded(req[w].pubkey, n, o)
      <4>1. CASE pc[w] = "record"
        <5>1. Lower[req[w].name] = n /\ req[w].offer = o
          BY <3>3, <4>1 DEF InHand
        <5>2. details[req[w].pubkey].offer = o
          BY <1>16, <2>3, <4>1, <5>1 DEF Litter, Unrecorded
        <5>3. details[req[w].pubkey].name = n
          BY <1>1, <4>1, <5>1 DEF Claims, Claimed, Holds, Typed, InFlight
        <5> QED
          BY <5>2, <5>3 DEF Recorded
      <4>2. CASE pc[w] # "record"
        <5>1. last[w] # None /\ last[w].name = n /\ last[w].offer = o /\ pc[w] \in {"insert", "unpublish"}
          BY <3>3, <4>2 DEF InHand
        <5>2. HadOffer(w)
          BY <3>1, <5>1 DEF HadOffer
        <5>3. ~MovedOffer(w)
          BY <1>16, <2>3, <5>1 DEF Litter, Unremoved
        <5>4. Same(w)
          BY <5>1, <5>2, <5>3 DEF LitterInv, Known
        <5> QED
          BY <5>1, <5>4 DEF Same, Recorded
      <4> QED
        BY <4>1, <4>2
    <3>4. ASSUME NEW w \in Workers, InHand(w, n, o) PROVE req[w].pubkey \in Pubkeys
      BY <1>3, <3>4 DEF InHand
    <3> QED
      BY <3>1, <3>3, <3>4 DEF LitterInv, Explained
  <2> QED
    BY <1>1, <2>2, <2>3 DEF LitterInv
<1>17. ASSUME NEW p \in Pubkeys, DeleteExpired(p), UNCHANGED littered PROVE LitterInv'
  BY <1>15, <1>17 DEF DeleteExpired
<1>18. ASSUME UNCHANGED hvars PROVE LitterInv'
  BY <1>15, <1>18 DEF hvars, workers
<1> QED
  BY <1>6, <1>7, <1>8, <1>9, <1>10, <1>11, <1>12, <1>13, <1>14, <1>16, <1>17, <1>18 DEF HNext

(* ClearOrLittered: between requests whatever is published under a         *)
(* username is the offer that the database holds for it, unless one of the *)
(* named events has left a record there since the name was last cleared    *)
(* (ClearUnlessLittered), for any number of clients with one request in    *)
(* flight each: whatever the interleaving, a name that changes hands takes *)
(* no other client's offer with it.                                        *)
THEOREM ClearOrLittered ==
  ASSUME OnePerPubkey
  PROVE  HSpec => []ClearUnlessLittered
<1>1. LitterInv => ClearUnlessLittered
  <2> SUFFICES ASSUME LitterInv, Quiet, NEW n \in Usernames \ littered, NEW o \in zone[n]
               PROVE  \E p \in Pubkeys : details[p] = [name |-> n, offer |-> o]
    BY DEF ClearUnlessLittered
  <2>1. \A w \in Workers : ~InHand(w, n, o)
    BY DEF Quiet, InHand
  <2>2. PICK p \in Pubkeys : Recorded(p, n, o)
    BY <2>1 DEF LitterInv, Explained
  <2>3. details[p] \in Details
    BY DEF LitterInv, Claims, Typed, TypeOK
  <2> QED
    BY <2>2, <2>3 DEF Recorded, Details
<1>2. LitterInv /\ [HNext]_hvars => LitterInv'
  BY OnePerPubkey, StepLitter
<1> QED
  BY <1>1, <1>2, InitLitter, PTL DEF HSpec

=============================================================================
