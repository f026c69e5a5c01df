---------------------------- MODULE LnurlRegistry ----------------------------
(***************************************************************************)
(* Registration of lightning addresses and BOLT 12 offers: Register and    *)
(* Unregister of LnurlPayRouter (lnurl/pay.go) and of Bolt12OfferRouter    *)
(* (bolt12/offer.go) over the Postgres store (persist/lnurl/pg.go) and the *)
(* BIP 353 DNS zone (dns/dns.go), and the clean-up of old webhooks.        *)
(*                                                                         *)
(* A handler makes several calls to two stores and no transaction spans    *)
(* them: each call is a step, and handlers of other workers interleave.    *)
(* Signature checks, JSON and the contents of the replies are left out;    *)
(* which of a pubkey's rows is the newest is abstracted.                   *)
(***************************************************************************)

CONSTANTS Pubkeys, Urls,
          Names,         \* usernames as clients spell them
          Lower,         \* strings.ToLower on Names
          Offers,
          Workers,       \* HTTP handlers in flight
          Ops,           \* the operations clients use
          OnePerPubkey,  \* does a client wait for its answer?
          DnsFaults,     \* operations whose DNS updates may fail, or are off (NoDns)
          StoreFaults,   \* may a query fail, its context being done say?
          Expiry,        \* may webhooks grow 30 days old?
          Crashes,       \* may the process die and start again?
          None

Operations == {"lnurlRegister", "lnurlUnregister", "offerRegister", "offerUnregister"}

ASSUME RegistryAssumption ==
  /\ Lower \in [Names -> Names]
  /\ \A n \in Names : Lower[Lower[n]] = Lower[n]
  /\ Ops \subseteq Operations /\ DnsFaults \subseteq Operations
  /\ {OnePerPubkey, StoreFaults, Expiry, Crashes} \subseteq BOOLEAN
  /\ None \notin Pubkeys \cup Urls \cup Names \cup Offers

Usernames == {Lower[n] : n \in Names}

VARIABLES
  rows,     \* lnurl_webhooks: the urls stored for each pubkey
  details,  \* pubkey_details: username and offer of each pubkey
  zone,     \* the TXT records (offers) published under each username
  pc,       \* where each worker's handler is
  req,      \* the request it serves
  last,     \* what it read before it changed anything
  reply     \* "ok" (200), "conflict" (409) or "error" (500)

stores  == <<rows, details, zone>>
workers == <<pc, req, last, reply>>
vars    == <<rows, details, zone, pc, req, last, reply>>

MaybeName  == Names \cup {None}
MaybeOffer == Offers \cup {None}

(* A row of pubkey_details; a pubkey without one has no name and no offer. *)
Details   == [name : Usernames \cup {None}, offer : MaybeOffer]
NoDetails == [name |-> None, offer |-> None]

(* A handler that found no row can tell.                                   *)
ASSUME NoRowAssumption == None \notin Details

Requests ==
  [op : {"lnurlRegister"}, pubkey : Pubkeys, url : Urls, name : MaybeName, offer : MaybeOffer]
  \cup [op : {"lnurlUnregister"}, pubkey : Pubkeys, url : Urls, name : {None}, offer : {None}]
  \cup [op : {"offerRegister"}, pubkey : Pubkeys, url : {None}, name : Names, offer : Offers]
  \cup [op : {"offerUnregister"}, pubkey : Pubkeys, url : {None}, name : {None}, offer : {None}]

IsLnurl(w)    == req[w].op \in {"lnurlRegister", "lnurlUnregister"}
IsRegister(w) == req[w].op \in {"lnurlRegister", "offerRegister"}

Init ==
  /\ rows = [p \in Pubkeys |-> {}]
  /\ details = [p \in Pubkeys |-> NoDetails]
  /\ zone = [n \in Usernames |-> {}]
  /\ pc = [w \in Workers |-> "idle"]
  /\ req = [w \in Workers |-> None]
  /\ last = [w \in Workers |-> None]
  /\ reply = [w \in Workers |-> None]

(* How a call to a store may end: it succeeds, or it fails before or after *)
(* it took effect.                                                         *)
Outcomes(faulty) ==
  {[ok |-> TRUE, applied |-> TRUE]}
    \cup (IF faulty THEN [ok : {FALSE}, applied : BOOLEAN] ELSE {})

Goto(w, next) ==
  /\ pc' = [pc EXCEPT ![w] = next]
  /\ UNCHANGED <<req, last, reply>>

Answer(w, status) ==
  /\ pc' = [pc EXCEPT ![w] = "done"]
  /\ reply' = [reply EXCEPT ![w] = status]
  /\ UNCHANGED <<req, last>>

Proceed(w, next) == IF next = "done" THEN Answer(w, "ok") ELSE Goto(w, next)

-----------------------------------------------------------------------------
(* The store *)

(* Mutant: the index is not unique.                                        *)
NeverConflict(p, n) == FALSE

(* The unique index on pubkey_details.username.                            *)
Conflict(p, n) == \E q \in Pubkeys \ {p} : details[q].name = n

(* Mutant: the name is stored as the client spells it.                     *)
SetDetailsAsSpelled(p, n, o) ==
  details' = [details EXCEPT ![p] = [name |-> n, offer |-> o]]

(* SetPubkeyDetails stores the lower-cased name; it fails on a conflict.   *)
SetPubkeyDetails(p, n, o) ==
  details' = [details EXCEPT ![p] = [name |-> Lower[n], offer |-> o]]

(* What the first query of a handler finds: GetLastUpdated joins a webhook *)
(* row with the details, GetPubkeyDetails reads the details alone.         *)
Snapshot(w) ==
  LET p == req[w].pubkey
      found == IF IsLnurl(w) THEN rows[p] # {} ELSE details[p] # NoDetails
  IN  IF found THEN details[p] ELSE None

-----------------------------------------------------------------------------
(* The handlers' decisions *)

HadOffer(w) == last[w] # None /\ last[w].offer # None

LastOffer(w) == IF last[w] = None THEN None ELSE last[w].offer

(* The new username as the handler compares and publishes it: the lnurl    *)
(* handler has the client's spelling, the BOLT 12 one the stored spelling. *)
NewName(w) == IF IsLnurl(w) THEN req[w].name ELSE Lower[req[w].name]

(* Mutant: a new username is not noticed.                                  *)
SameName(w) == FALSE

NameChanges(w)  == NewName(w) # last[w].name
OfferChanges(w) == req[w].offer # last[w].offer

(* After the row or the details of a registration are stored, does the DNS *)
(* have to change?                                                         *)
AfterStore(w) ==
  IF req[w].name # None /\ req[w].offer # None
  THEN IF ~HadOffer(w) THEN "publish"
       ELSE IF NameChanges(w) THEN "unpublish"
       ELSE IF ~OfferChanges(w) THEN "done"
       ELSE IF IsLnurl(w) THEN "unpublish" ELSE "publish"
  ELSE IF req[w].offer = None /\ HadOffer(w) THEN "unpublish" ELSE "done"

(* Mutant: the webhook is stored before, and without, the claim.           *)
InsertFirst(w) == "insert"

FirstWrite(w) == IF req[w].name = None THEN "insert" ELSE "claim"

AfterRead(w, found) ==
  CASE IsRegister(w) -> FirstWrite(w)
    [] ~IsRegister(w) /\ found = None -> "done"
    [] req[w].op = "lnurlUnregister" /\ found # None -> "delete"
    [] req[w].op = "offerUnregister" /\ found # None ->
         IF found.offer # None THEN "unpublish" ELSE "done"

-----------------------------------------------------------------------------
(* The handlers' steps *)

Start(w) ==
  /\ pc[w] = "idle"
  /\ \E r \in Requests :
       /\ r.op \in Ops
       /\ OnePerPubkey => \A v \in Workers : pc[v] # "idle" => req[v].pubkey # r.pubkey
       /\ req' = [req EXCEPT ![w] = r]
  /\ pc' = [pc EXCEPT ![w] = "read"]
  /\ UNCHANGED <<last, reply, stores>>

(* An error of this query is treated as "nothing found".                   *)
Read(w) ==
  /\ pc[w] = "read"
  /\ \E found \in {Snapshot(w)} \cup (IF StoreFaults THEN {None} ELSE {}) :
       LET next == AfterRead(w, found) IN
       /\ last' = [last EXCEPT ![w] = found]
       /\ pc' = [pc EXCEPT ![w] = next]
       /\ reply' = [reply EXCEPT ![w] = IF next = "done" THEN "ok" ELSE None]
  /\ UNCHANGED <<req, stores>>

(* The SetPubkeyDetails that claims the username: the lnurl handler keeps  *)
(* the offer it read, the BOLT 12 handler stores the new one.  Any error   *)
(* is reported as a conflict.                                              *)
Claim(w) ==
  /\ pc[w] = "claim"
  /\ IF Conflict(req[w].pubkey, Lower[req[w].name])
     THEN Answer(w, "conflict") /\ UNCHANGED details
     ELSE \E out \in Outcomes(StoreFaults) :
            /\ IF out.applied
               THEN SetPubkeyDetails(req[w].pubkey, req[w].name,
                      IF IsLnurl(w) THEN LastOffer(w) ELSE req[w].offer)
               ELSE UNCHANGED details
            /\ IF ~out.ok THEN Answer(w, "conflict")
               ELSE Proceed(w, IF IsLnurl(w) THEN "insert" ELSE AfterStore(w))
  /\ UNCHANGED <<rows, zone>>

Insert(w) ==
  /\ pc[w] = "insert"
  /\ \E out \in Outcomes(StoreFaults) :
       /\ rows' = IF out.applied THEN [rows EXCEPT ![req[w].pubkey] = @ \cup {req[w].url}] ELSE rows
       /\ IF out.ok THEN Proceed(w, AfterStore(w)) ELSE Answer(w, "error")
  /\ UNCHANGED <<details, zone>>

Delete(w) ==
  /\ pc[w] = "delete"
  /\ \E out \in Outcomes(StoreFaults) :
       /\ rows' = IF out.applied THEN [rows EXCEPT ![req[w].pubkey] = @ \ {req[w].url}] ELSE rows
       /\ IF ~out.ok THEN Answer(w, "error")
          ELSE Proceed(w, IF last[w].name # None THEN "unpublish" ELSE "done")
  /\ UNCHANGED <<details, zone>>

(* dns.Remove of the username read at the start: RemoveName deletes every  *)
(* TXT record of the name.  Its error is only logged.                      *)
Unpublish(w) ==
  /\ pc[w] = "unpublish"
  /\ \E out \in Outcomes(req[w].op \in DnsFaults) :
       zone' = IF out.applied THEN [zone EXCEPT ![last[w].name] = {}] ELSE zone
  /\ Goto(w, IF req[w].offer # None THEN "publish" ELSE "forget")
  /\ UNCHANGED <<rows, details>>

(* Mutant: the offer stays recorded after a failed update.                 *)
ErrorIgnored(w) == "done"

AfterPublishError(w) == IF IsLnurl(w) THEN "done" ELSE "retract"

(* dns.Set: Insert adds a record and leaves those the name has.  DNS names *)
(* are case-insensitive.  A TTL of 0, on an error or from NoDns, makes the *)
(* BOLT 12 handler take the offer back; the lnurl handler leaves it.       *)
Publish(w) ==
  /\ pc[w] = "publish"
  /\ \E out \in Outcomes(req[w].op \in DnsFaults) :
       /\ zone' = IF out.applied THEN [zone EXCEPT ![Lower[req[w].name]] = @ \cup {req[w].offer}] ELSE zone
       /\ Proceed(w, IF out.ok THEN "record" ELSE AfterPublishError(w))
  /\ UNCHANGED <<rows, details>>

(* Mutant: the details get the name they had.                              *)
LastName(w) ==
  IF last[w] # None /\ last[w].name # None THEN last[w].name ELSE req[w].name

(* The last SetPubkeyDetails of a handler; its result is ignored.          *)
StoredName(w)  == IF pc[w] = "forget" THEN last[w].name ELSE req[w].name
StoredOffer(w) == IF pc[w] = "record" THEN req[w].offer ELSE None

Record(w) ==
  /\ pc[w] \in {"record", "retract", "forget"}
  /\ LET p == req[w].pubkey IN
     IF Conflict(p, Lower[StoredName(w)])
     THEN UNCHANGED details
     ELSE \E out \in Outcomes(StoreFaults) :
            IF out.applied THEN SetPubkeyDetails(p, StoredName(w), StoredOffer(w))
            ELSE UNCHANGED details
  /\ Answer(w, "ok")
  /\ UNCHANGED <<rows, zone>>

Return(w) ==
  /\ pc[w] = "done"
  /\ pc' = [pc EXCEPT ![w] = "idle"]
  /\ req' = [req EXCEPT ![w] = None]
  /\ last' = [last EXCEPT ![w] = None]
  /\ reply' = [reply EXCEPT ![w] = None]
  /\ UNCHANGED stores

(* CleanupService: rows not refreshed for 30 days go, the details stay.  A *)
(* row that a handler in flight has just refreshed is not old.             *)
JustRefreshed(p) ==
  {req[w].url : w \in {v \in Workers : pc[v] \in {"publish", "unpublish", "record", "forget", "done"}
                                        /\ req[v].pubkey = p /\ req[v].op = "lnurlRegister"}}

DeleteExpired(p) ==
  /\ Expiry
  /\ \E old \in SUBSET (rows[p] \ JustRefreshed(p)) :
       old # {} /\ rows' = [rows EXCEPT ![p] = @ \ old]
  /\ UNCHANGED <<details, zone, workers>>

(* The process dies between two calls: the handlers are gone, and nothing  *)
(* compares the database with the zone when the server starts again.       *)
Crash ==
  /\ Crashes
  /\ \E w \in Workers : pc[w] # "idle"
  /\ pc' = [w \in Workers |-> "idle"]
  /\ req' = [w \in Workers |-> None]
  /\ last' = [w \in Workers |-> None]
  /\ reply' = [w \in Workers |-> None]
  /\ UNCHANGED stores

Next ==
  \/ \E w \in Workers : \/ Start(w) \/ Read(w) \/ Claim(w) \/ Insert(w) \/ Delete(w)
                        \/ Unpublish(w) \/ Publish(w) \/ Record(w) \/ Return(w)
  \/ \E p \in Pubkeys : DeleteExpired(p)
  \/ Crash

Spec == Init /\ [][Next]_vars

-----------------------------------------------------------------------------
(* What RegistryHistory looks at *)

(* The handler has moved the recorded offer to another username.           *)
MovedOffer(w) == req[w].name # None /\ HadOffer(w) /\ Lower[req[w].name] # last[w].name

(* Between the claim and the last write of a handler.                      *)
Midway == {w \in Workers : pc[w] \in {"insert", "unpublish", "publish", "record", "retract", "forget"}}

-----------------------------------------------------------------------------
(* Properties *)

Pcs == {"idle", "read", "claim", "insert", "delete", "unpublish", "publish",
        "record", "retract", "forget", "done"}

(* TypeOK: the tables, the zone and every handler's locals keep their      *)
(* shape.                                                                  *)
TypeOK ==
  /\ rows \in [Pubkeys -> SUBSET Urls]
  /\ details \in [Pubkeys -> Details]
  /\ zone \in [Usernames -> SUBSET Offers]
  /\ pc \in [Workers -> Pcs]
  /\ req \in [Workers -> Requests \cup {None}]
  /\ last \in [Workers -> Details \cup {None}]
  /\ reply \in [Workers -> {None, "ok", "conflict", "error"}]

Quiet == \A w \in Workers : pc[w] \in {"idle", "done"}

(* OfferPublished: between requests, an offer that the database holds for  *)
(* a username is published under it ("Only set the offer if the DNS        *)
(* service returns a TTL").                                                *)
OfferPublished ==
  Quiet => \A p \in Pubkeys : details[p].offer # None => details[p].offer \in zone[details[p].name]

(* RegisteredNameHeld: when a registration is confirmed with a username,   *)
(* that username resolves to the pubkey: it is the one the database holds. *)
Confirmed(w) == pc[w] = "done" /\ reply[w] = "ok" /\ IsRegister(w) /\ req[w].name # None
Holds(w)     == details[req[w].pubkey].name = Lower[req[w].name]

RegisteredNameHeld == \A w \in Workers : Confirmed(w) => Holds(w)

(* Reverted: the one request for which that is wrong, a registration that  *)
(* drops the recorded offer and moves to another username.                 *)
Reverted(w) == req[w].offer = None /\ HadOffer(w) /\ Lower[req[w].name] # last[w].name

(* ConfirmedNameHeld: any other registration, of either router, holds its  *)
(* username when it is confirmed: whatever other clients claim, whatever   *)
(* fails, expires or dies on the way.                                      *)
ConfirmedNameHeld == \A w \in Workers : Confirmed(w) /\ ~Reverted(w) => Holds(w)

(* NoStrayRecord: between requests a username resolves to no offer but the *)
(* one of the pubkey that holds it, also when it changed hands while the   *)
(* handler of its former holder was under way.  Proved for lnurl requests  *)
(* without faults; RegistryHistory says what becomes of it otherwise.      *)
NoStrayRecord ==
  Quiet => \A n \in Usernames :
    \A o \in zone[n] : \E p \in Pubkeys : details[p] = [name |-> n, offer |-> o]

(* OnlyHolderPublishes: a record is added to a username only by a handler  *)
(* whose pubkey holds that username at that moment, whatever other clients *)
(* claim between its claim and its DNS update.                             *)
OnlyHolderPublishes ==
  [][\A n \in Usernames : ~(zone'[n] \subseteq zone[n]) =>
       \E w \in Workers : pc[w] = "publish" /\ details[req[w].pubkey].name = n]_vars

=============================================================================
