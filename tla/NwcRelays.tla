------------------------------ MODULE NwcRelays ------------------------------
(***************************************************************************)
(* The relays of NWC registrations: the ring of relay rows, the links      *)
(* between webhooks and relays (persist/nwc/pg.go), and the relays the     *)
(* subscriptions listen to (nwc/manager.go).  Set is a transaction of      *)
(* several statements at the isolation level read committed; NostrManager  *)
(* takes it as one step and leaves the relays out.                         *)
(***************************************************************************)
EXTENDS Naturals, Sequences, FiniteSets, SequencesExt

CONSTANTS
  Apps,        \* registered pairs of a wallet and an app
  Wallets,
  WalletOf,    \* the wallet of each app
  Relays,
  Lists,       \* the relay lists of requests
  MaxRelays,   \* NWC_MAX_RELAYS_LENGTH
  Handlers,
  Overlap,     \* BOOLEAN: two Sets may be open at once
  None

ASSUME RelaysAssumption ==
  /\ WalletOf \in [Apps -> Wallets]
  /\ Lists \subseteq Seq(Relays)
  /\ MaxRelays \in Nat \ {0}
  /\ Overlap \in BOOLEAN
  /\ None \notin Apps \cup Relays \cup Seq(Relays)

Ids == 0..(MaxRelays - 1)

NoSub == [apps |-> {}, relays |-> {}]
NoRows == [i \in Ids |-> None]
Idle == [at |-> "idle", app |-> None, list |-> <<>>, left |-> <<>>,
         byUrl |-> {}, rows |-> NoRows, links |-> {}]

VARIABLES
  hooks,   \* nwc_webhooks, as the apps it has a row for
  rows,    \* nwc_relays: the url of each id
  links,   \* nwc_webhooks_relays
  subs,    \* the manager's subscriptions, NoSub if there is none
  job,     \* each handler: its request, and its transaction's own writes
  latest,  \* history: the relays of the app's last registration
  asked,   \* history: those of all its registrations since its row was made
  wanted   \* history: the relays the app's subscription was last made for

vars == <<hooks, rows, links, subs, job, latest, asked, wanted>>

Init ==
  /\ hooks = {} /\ rows = NoRows /\ links = {}
  /\ subs = [w \in Wallets |-> NoSub]
  /\ job = [h \in Handlers |-> Idle]
  /\ latest = [a \in Apps |-> {}] /\ asked = latest /\ wanted = latest

Open == {h \in Handlers : job[h].at \in {"upserted", "linking"}}

-----------------------------------------------------------------------------
(* Register: Set, and AddSubscription *)

(* A registration begins its transaction and upserts the webhook; a second *)
(* upsert of the same row would wait for the first transaction.            *)
Register(h) ==
  /\ job[h].at = "idle"
  /\ Overlap \/ Open = {}
  /\ \E a \in Apps, l \in Lists :
       /\ \A g \in Open : job[g].app # a
       /\ job' = [job EXCEPT ![h] =
            [Idle EXCEPT !.at = "upserted", !.app = a, !.list = l, !.left = l]]
  /\ UNCHANGED <<hooks, rows, links, subs, latest, asked, wanted>>

(* getRelaysByUrl reads the committed rows into a map from url to id.      *)
ReadRelays(h) ==
  /\ job[h].at = "upserted"
  /\ job' = [job EXCEPT ![h].at = "linking",
                        ![h].byUrl = {<<rows[i], i>> : i \in {j \in Ids : rows[j] # None}}]
  /\ UNCHANGED <<hooks, rows, links, subs, latest, asked, wanted>>

(* The id of a relay the map does not have: its length, modulo the ring.   *)
(* The map keeps the url of a row that has been overwritten.               *)
NextId(byUrl) == Cardinality(byUrl) % MaxRelays

(* Mutant: an inserted relay is not put into the map. *)
Forgotten(byUrl, r, i) == byUrl

Remembered(byUrl, r, i) == byUrl \cup {<<r, i>>}

(* What another open transaction has written or refers to. *)
Wrote(g, i) == job[g].rows[i] # None
RefersTo(g, i) == \E a \in Apps : <<a, i>> \in job[g].links

(* The rows as the transaction of h sees them. *)
Seen(h) == [i \in Ids |-> IF Wrote(h, i) THEN job[h].rows[i] ELSE rows[i]]

(* The insert waits for other transactions that wrote the row, refer to it *)
(* or wrote the same url, and then overwrites a row that is there.         *)
CanInsert(h, i, r) ==
  /\ \A g \in Open \ {h} : /\ ~Wrote(g, i) /\ ~RefersTo(g, i)
                           /\ \A j \in Ids : job[g].rows[j] # r
  /\ \A j \in Ids \ {i} : Seen(h)[j] # r

(* One round of the loop: insert the first relay left unless the map has   *)
(* it, and link it.  A new link waits for a transaction that wrote the row *)
(* it refers to.                                                           *)
AddRelay(h) ==
  /\ job[h].at = "linking" /\ job[h].left # <<>>
  /\ LET r == Head(job[h].left)
         known == {i \in Ids : <<r, i>> \in job[h].byUrl}
         linked(i) == [job[h] EXCEPT !.left = Tail(@),
                                     !.links = @ \cup ({<<job[h].app, i>>} \ links)]
     IN
     \/ \E i \in known :
          /\ <<job[h].app, i>> \in links \/ \A g \in Open \ {h} : ~Wrote(g, i)
          /\ job' = [job EXCEPT ![h] = linked(i)]
     \/ LET i == NextId(job[h].byUrl) IN
          /\ known = {} /\ CanInsert(h, i, r)
          /\ job' = [job EXCEPT ![h] =
               [linked(i) EXCEPT !.rows = [@ EXCEPT ![i] = r],
                                 !.byUrl = Remembered(@, r, i)]]
  /\ UNCHANGED <<hooks, rows, links, subs, latest, asked, wanted>>

(* A statement fails, a url is in another row already, a deadlock is       *)
(* broken, the client leaves: the transaction is rolled back.              *)
Rollback(h) ==
  /\ h \in Open
  /\ job' = [job EXCEPT ![h] = Idle]
  /\ UNCHANGED <<hooks, rows, links, subs, latest, asked, wanted>>

Commit(h) ==
  /\ job[h].at = "linking" /\ job[h].left = <<>>
  /\ hooks' = hooks \cup {job[h].app}
  /\ rows' = Seen(h)
  /\ links' = links \cup job[h].links
  /\ latest' = [latest EXCEPT ![job[h].app] = ToSet(job[h].list)]
  /\ asked' = [asked EXCEPT ![job[h].app] = @ \cup ToSet(job[h].list)]
  /\ job' = [job EXCEPT ![h] = [Idle EXCEPT !.at = "stored", !.app = job[h].app,
                                            !.list = job[h].list]]
  /\ UNCHANGED <<subs, wanted>>

(* Mutant: the relays of the replaced subscription are dropped. *)
ReplacedRelays(w, new) == new

MergedRelays(w, new) == subs[w].relays \cup new

(* AddSubscription merges the apps and the relays of the subscription.     *)
AddSubscription(h) ==
  /\ job[h].at = "stored"
  /\ LET w == WalletOf[job[h].app] IN
     subs' = [subs EXCEPT ![w] =
       [apps |-> @.apps \cup {job[h].app},
        relays |-> MergedRelays(w, ToSet(job[h].list))]]
  /\ wanted' = [wanted EXCEPT ![job[h].app] = ToSet(job[h].list)]
  /\ job' = [job EXCEPT ![h] = Idle]
  /\ UNCHANGED <<hooks, rows, links, latest, asked>>

-----------------------------------------------------------------------------
(* The other operations *)

(* Unregister: Delete matches no row (see NostrManager), and               *)
(* RemoveSubscription keeps the relays for the apps that are left.         *)
Unregister(a) ==
  LET w == WalletOf[a]
      rest == subs[w].apps \ {a} IN
  /\ subs[w] # NoSub
  /\ subs' = [subs EXCEPT ![w] = IF rest = {} THEN NoSub ELSE [@ EXCEPT !.apps = rest]]
  /\ wanted' = [wanted EXCEPT ![a] = {}]
  /\ UNCHANGED <<hooks, rows, links, job, latest, asked>>

(* Mutant: the links of a deleted webhook are left. *)
LinksOfAll(a) == links

LinksOfOthers(a) == {l \in links : l[1] # a}

(* The clean-up deletes the row of an app that was used; the links go with *)
(* it.  It waits for a transaction that has the row.                       *)
DeleteExpired(a) ==
  /\ a \in hooks /\ \A h \in Open : job[h].app # a
  /\ hooks' = hooks \ {a}
  /\ links' = LinksOfOthers(a)
  /\ latest' = [latest EXCEPT ![a] = {}]
  /\ asked' = [asked EXCEPT ![a] = {}]
  /\ UNCHANGED <<rows, subs, job, wanted>>

StoredRelays(a) == {rows[i] : i \in {j \in Ids : <<a, j>> \in links}}

(* GetSubscriptionDetails. *)
Details(w) ==
  LET apps == {a \in hooks : WalletOf[a] = w}
  IN [apps |-> apps, relays |-> UNION {StoredRelays(a) : a \in apps}]

(* The process dies and starts again: open transactions are rolled back,   *)
(* and the subscriptions are those of the tables.                          *)
Restart ==
  /\ job' = [h \in Handlers |-> Idle]
  /\ subs' = [w \in Wallets |-> Details(w)]
  /\ wanted' = latest
  /\ UNCHANGED <<hooks, rows, links, latest, asked>>

Next ==
  \/ \E h \in Handlers : \/ Register(h) \/ ReadRelays(h) \/ AddRelay(h)
                         \/ Rollback(h) \/ Commit(h) \/ AddSubscription(h)
  \/ \E a \in Apps : Unregister(a) \/ DeleteExpired(a)
  \/ Restart

Spec == Init /\ [][Next]_vars

-----------------------------------------------------------------------------
(* Properties *)

(* TypeOK: the tables keep their keys and references: no url has two rows, *)
(* and a link joins a webhook and a relay that are there.                  *)
TypeOK ==
  /\ hooks \subseteq Apps
  /\ rows \in [Ids -> Relays \cup {None}]
  /\ \A i, j \in Ids : i # j /\ rows[i] # None => rows[i] # rows[j]
  /\ links \subseteq hooks \X {i \in Ids : rows[i] # None}
  /\ \A w \in Wallets : subs[w].apps \subseteq Apps /\ subs[w].relays \subseteq Relays
  /\ {latest, asked, wanted} \subseteq [Apps -> SUBSET Relays]

(* RelaysKept: an app keeps the relays of its last registration, and the   *)
(* tables give it no relay that it never asked for, although rows are      *)
(* shared and ids are computed from what was read (Set, lines 56 to 75).   *)
(* Relays of earlier registrations may stay: see Overwritten.              *)
RelaysKept ==
  \A a \in hooks : latest[a] \subseteq StoredRelays(a) /\ StoredRelays(a) \subseteq asked[a]

(* Overwritten: a registration overwrites the one that is present, so that *)
(* an app has the relays of its last registration only, as the comment on  *)
(* Register and TestNwcRegistrationOverwrite say (nwc/router.go, line 55). *)
Overwritten == \A a \in hooks : StoredRelays(a) = latest[a]

(* Listening: a wallet listens to every relay its apps were last           *)
(* registered with, across merged registrations, unregistered neighbours,  *)
(* clean-ups and restarts (AddSubscription, lines 46 to 71, and Start).    *)
Listening ==
  \A a \in Apps : a \in subs[WalletOf[a]].apps =>
    wanted[a] \subseteq subs[WalletOf[a]].relays

=============================================================================
