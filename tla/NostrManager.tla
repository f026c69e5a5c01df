---------------------------- MODULE NostrManager ----------------------------
(***************************************************************************)
(* Forwarding of Nostr Wallet Connect events: NostrManager (nwc/manager.go)*)
(* with the handlers that change its subscriptions (nwc/router.go) and the *)
(* tables it reads and writes (persist/nwc/pg.go).                         *)
(*                                                                         *)
(* The manager holds one relay subscription per wallet.  Every change of   *)
(* it cancels the subscription and opens a new one.  Each subscription has *)
(* its own forwarder goroutine, and each event that is forwarded its own   *)
(* sender goroutine, which outlives the subscription.                      *)
(* Relays keep events, so each new subscription is sent the old ones       *)
(* again.  Urls, relays and event contents are left out.                   *)
(***************************************************************************)
EXTENDS Naturals

CONSTANTS Wallets, Apps, Events,
          Author,         \* the app that signed each event
          Target,         \* the wallet service it is addressed to
          Handlers,       \* HTTP handlers in flight
          MaxOpens,       \* bound on the subscriptions opened for a wallet
          Crashes,        \* may the process die and start again?
          StoreFaults,    \* may a query fail?
          WebhookFaults,  \* may a webhook fail or not answer 2xx?
          Cleanup,        \* do records grow old enough to be deleted?
          None

(* What a handler has yet to do: its manager call after its query.         *)
Jobs == [op : {"add", "remove"}, wallet : Wallets, app : Apps]

ASSUME NostrAssumption ==
  /\ Author \in [Events -> Apps] /\ Target \in [Events -> Wallets]
  /\ MaxOpens \in Nat
  /\ {Crashes, StoreFaults, WebhookFaults, Cleanup} \subseteq BOOLEAN
  /\ None \notin Events \cup Handlers \cup (Wallets \X Nat)
  /\ None \notin Jobs

(* The n-th subscription opened for a wallet since the system exists.      *)
Subscriptions == Wallets \X (1..MaxOpens)
Wallet(s) == s[1]

VARIABLES
  hooks,      \* nwc_webhooks: pairs of wallet and app
  used,       \* those of them with a last_used_at
  forwarded,  \* nwc_forwarded_events
  up,         \* does the process run?
  opened,     \* subscriptions opened so far for each wallet
  subs,       \* nm.subs: the current subscription of each wallet
  details,    \* details object of each, named by the subscription it was made for
  apps,       \* AppPubkeys of each details object
  live,       \* subscriptions whose context is not canceled
  seen,       \* events the relay pool has handed to each subscription
  fwd,        \* each forwarder: how far it is and with which event
  sender,     \* sender of each subscription and event: "none", "sending", "posted"
  sent,       \* subscriptions through which each event reached the webhook
  job         \* each handler between its query and its subscription change

store    == <<hooks, used, forwarded>>
manager  == <<up, opened, subs, details, apps, live>>
routines == <<seen, fwd, sender, sent>>
vars == <<hooks, used, forwarded, up, opened, subs, details, apps, live,
          seen, fwd, sender, sent, job>>

State(at, e) == [at |-> at, event |-> e]
Off       == State("off", None)
Selecting == State("select", None)

Init ==
  /\ hooks = {} /\ used = {} /\ forwarded = {}
  /\ up = TRUE
  /\ opened = [w \in Wallets |-> 0]
  /\ subs = [w \in Wallets |-> None]
  /\ details = [s \in Subscriptions |-> s]
  /\ apps = [s \in Subscriptions |-> {}]
  /\ live = {}
  /\ seen = [s \in Subscriptions |-> {}]
  /\ fwd = [s \in Subscriptions |-> Off]
  /\ sender = [s \in Subscriptions |-> [e \in Events |-> "none"]]
  /\ sent = [e \in Events |-> {}]
  /\ job = [h \in Handlers |-> None]

-----------------------------------------------------------------------------
(* Subscriptions, changed under the manager's mutex *)

NextOf(w)  == <<w, opened[w] + 1>>
Current(w) == {subs[w]} \ {None}
AppsOf(w)  == UNION {apps[details[s]] : s \in Current(w)}

(* Mutants: the old subscription is not canceled; its apps are not merged. *)
NotCanceled(w) == {}
NotMerged(w) == {}

Canceled(w) == Current(w)
Merged(w)   == AppsOf(w)

(* Cancel the subscription of w and call addSubscriptionInner with the     *)
(* details object d.                                                       *)
Reopen(w, d) ==
  /\ opened[w] < MaxOpens
  /\ opened' = [opened EXCEPT ![w] = @ + 1]
  /\ subs' = [subs EXCEPT ![w] = NextOf(w)]
  /\ details' = [details EXCEPT ![NextOf(w)] = d]
  /\ live' = (live \ Canceled(w)) \cup {NextOf(w)}
  /\ fwd' = [fwd EXCEPT ![NextOf(w)] = Selecting]

Cancel(w) ==
  /\ subs' = [subs EXCEPT ![w] = None]
  /\ live' = live \ Current(w)
  /\ UNCHANGED <<opened, details, fwd>>

(* A handler goes on to the manager unless its query failed; it may have   *)
(* failed after the commit.                                                *)
Queried(h, op, w, a) ==
  job' \in {[job EXCEPT ![h] = [op |-> op, wallet |-> w, app |-> a]]}
             \cup (IF StoreFaults THEN {job} ELSE {})

(* Register: Set upserts the webhook; the row keeps its last_used_at.      *)
Register(h, w, a) ==
  /\ up /\ job[h] = None
  /\ hooks' = hooks \cup {<<w, a>>}
  /\ Queried(h, "add", w, a)
  /\ UNCHANGED <<used, forwarded, manager, routines>>

(* AddSubscription makes a new details object, with the apps of the        *)
(* current subscription, and cancels that one.                             *)
AddSubscription(h) ==
  /\ job[h] # None /\ job[h].op = "add"
  /\ LET w == job[h].wallet IN
     /\ Reopen(w, NextOf(w))
     /\ apps' = [apps EXCEPT ![NextOf(w)] = {job[h].app} \cup Merged(w)]
  /\ job' = [job EXCEPT ![h] = None]
  /\ UNCHANGED <<store, up, seen, sender, sent>>

(* Keys are compared as bytes.  Set stores the decoded keys; Delete passes *)
(* the hexadecimal text itself, which Postgres takes for the bytes.        *)
Decoded(k) == <<"decoded", k>>
AsText(k)  == <<"text", k>>

Matching(w, a) ==
  {k \in hooks : Decoded(k[1]) = AsText(w) /\ Decoded(k[2]) = AsText(a)}

Unregister(h, w, a) ==
  /\ up /\ job[h] = None
  /\ hooks' = hooks \ Matching(w, a)
  /\ used' = used \ Matching(w, a)
  /\ Queried(h, "remove", w, a)
  /\ UNCHANGED <<forwarded, manager, routines>>

(* Mutant: a details object is never found empty. *)
NeverEmpty(left) == FALSE

NoneLeft(left) == left = {}

(* RemoveSubscription takes the app out of the details object itself,      *)
(* which the running forwarder reads and the next subscription keeps.      *)
RemoveSubscription(h) ==
  /\ job[h] # None /\ job[h].op = "remove"
  /\ LET w == job[h].wallet
         d == details[subs[w]]
         left == apps[d] \ {job[h].app}
     IN  IF subs[w] = None
         THEN UNCHANGED <<opened, subs, details, apps, live, fwd>>
         ELSE /\ apps' = [apps EXCEPT ![d] = left]
              /\ IF NoneLeft(left) THEN Cancel(w) ELSE Reopen(w, d)
  /\ job' = [job EXCEPT ![h] = None]
  /\ UNCHANGED <<store, up, seen, sender, sent>>

-----------------------------------------------------------------------------
(* The forwarder of a subscription *)

(* The pool hands an event over, once per subscription; the select may     *)
(* still take it when the context is done.  An unknown author is skipped.  *)
Receive(s, e) ==
  /\ fwd[s].at = "select"
  /\ Target[e] = Wallet(s) /\ e \notin seen[s]
  /\ seen' = [seen EXCEPT ![s] = @ \cup {e}]
  /\ fwd' = IF Author[e] \in apps[details[s]]
            THEN [fwd EXCEPT ![s] = State("check", e)]
            ELSE fwd
  /\ UNCHANGED <<store, manager, sender, sent, job>>

(* Mutant: the record of forwarded events is not looked at.                *)
NeverForwarded(e) == FALSE

AlreadyForwarded(e) == e \in forwarded

(* IsEventForwarded: an error, always so under a canceled context, drops   *)
(* the event.                                                              *)
Check(s) ==
  /\ fwd[s].at = "check"
  /\ \/ /\ s \in live /\ ~AlreadyForwarded(fwd[s].event)
        /\ fwd' = [fwd EXCEPT ![s].at = "lookup"]
     \/ /\ s \notin live \/ AlreadyForwarded(fwd[s].event) \/ StoreFaults
        /\ fwd' = [fwd EXCEPT ![s] = Selecting]
  /\ UNCHANGED <<store, manager, seen, sender, sent, job>>

(* Mutant: the query does not run under the subscription's context. *)
FoundInTable(s) == <<Wallet(s), Author[fwd[s].event]>> \in hooks

(* Get the webhook and start the sender, or drop the event.                *)
Found(s) == s \in live /\ <<Wallet(s), Author[fwd[s].event]>> \in hooks

(* Mutant: the event is recorded before it is sent. *)
LookupAndRecord(s) ==
  /\ fwd[s].at = "lookup" /\ Found(s)
  /\ sender' = [sender EXCEPT ![s][fwd[s].event] = "sending"]
  /\ forwarded' = forwarded \cup {fwd[s].event}
  /\ fwd' = [fwd EXCEPT ![s] = Selecting]
  /\ UNCHANGED <<hooks, used, manager, seen, sent, job>>

Lookup(s) ==
  /\ fwd[s].at = "lookup"
  /\ \/ Found(s) /\ sender' = [sender EXCEPT ![s][fwd[s].event] = "sending"]
     \/ (~Found(s) \/ StoreFaults) /\ UNCHANGED sender
  /\ fwd' = [fwd EXCEPT ![s] = Selecting]
  /\ UNCHANGED <<store, manager, seen, sent, job>>

(* The forwarder of a canceled subscription returns.                       *)
Stop(s) ==
  /\ fwd[s].at = "select" /\ s \notin live
  /\ fwd' = [fwd EXCEPT ![s] = Off]
  /\ UNCHANGED <<store, manager, seen, sender, sent, job>>

-----------------------------------------------------------------------------
(* The sender of an event *)

(* SendRequest: the event reaches the webhook or not, and the answer is    *)
(* 2xx or not.                                                             *)
Post(s, e) ==
  /\ sender[s][e] = "sending"
  /\ \/ /\ sent' = [sent EXCEPT ![e] = @ \cup {s}]
        /\ sender' = [sender EXCEPT ![s][e] = "posted"]
     \/ /\ WebhookFaults \/ s \notin live
        /\ sent' \in {sent, [sent EXCEPT ![e] = @ \cup {s}]}
        /\ sender' = [sender EXCEPT ![s][e] = "none"]
  /\ UNCHANGED <<store, manager, seen, fwd, job>>

(* Mutant: the use is recorded also where the row is gone. *)
UpsertedRow(s, e) == {<<Wallet(s), Author[e]>>}

UsedRow(s, e) == {<<Wallet(s), Author[e]>>} \cap hooks

(* Update records the event and the use in one transaction, under the      *)
(* subscription's context: nothing when that was canceled meanwhile.       *)
Update(s, e) ==
  /\ sender[s][e] = "posted"
  /\ \/ /\ s \in live
        /\ forwarded' = forwarded \cup {e}
        /\ used' = used \cup UsedRow(s, e)
     \/ /\ s \notin live \/ StoreFaults
        /\ UNCHANGED <<forwarded, used>>
  /\ sender' = [sender EXCEPT ![s][e] = "none"]
  /\ UNCHANGED <<hooks, manager, seen, fwd, sent, job>>

-----------------------------------------------------------------------------
(* CleanupService, and the life of the process *)

(* Webhooks whose last use is 30 days old; one never used has no last use. *)
DeleteExpired ==
  /\ Cleanup
  /\ \E k \in used : hooks' = hooks \ {k} /\ used' = used \ {k}
  /\ UNCHANGED <<forwarded, manager, routines, job>>

(* Records older than seven days.                                          *)
DeleteOldForwardedEvents ==
  /\ Cleanup
  /\ \E e \in forwarded : forwarded' = forwarded \ {e}
  /\ UNCHANGED <<hooks, used, manager, routines, job>>

Crash ==
  /\ Crashes /\ up
  /\ up' = FALSE
  /\ subs' = [w \in Wallets |-> None]
  /\ live' = {}
  /\ fwd' = [s \in Subscriptions |-> Off]
  /\ sender' = [s \in Subscriptions |-> [e \in Events |-> "none"]]
  /\ job' = [h \in Handlers |-> None]
  /\ UNCHANGED <<store, opened, details, apps, seen, sent>>

(* Start: GetSubscriptionDetails and a subscription for every wallet it    *)
(* names; when the query fails the server runs on without any.             *)
Stored(w)   == {a \in Apps : <<w, a>> \in hooks}
StoredSubs  == {NextOf(w) : w \in {v \in Wallets : Stored(v) # {}}}

Start ==
  /\ ~up /\ up' = TRUE
  /\ \E new \in {StoredSubs} \cup (IF StoreFaults THEN {{}} ELSE {}) :
       /\ new \subseteq Subscriptions
       /\ opened' = [w \in Wallets |-> IF NextOf(w) \in new THEN opened[w] + 1 ELSE opened[w]]
       /\ subs' = [w \in Wallets |-> IF NextOf(w) \in new THEN NextOf(w) ELSE None]
       /\ live' = new
       /\ fwd' = [s \in Subscriptions |-> IF s \in new THEN Selecting ELSE Off]
       /\ details' = [s \in Subscriptions |-> IF s \in new THEN s ELSE details[s]]
       /\ apps' = [s \in Subscriptions |-> IF s \in new THEN Stored(Wallet(s)) ELSE apps[s]]
  /\ UNCHANGED <<store, seen, sender, sent, job>>

-----------------------------------------------------------------------------
Next ==
  \/ \E h \in Handlers :
       \/ \E w \in Wallets, a \in Apps : Register(h, w, a) \/ Unregister(h, w, a)
       \/ AddSubscription(h) \/ RemoveSubscription(h)
  \/ \E s \in Subscriptions :
       \/ Check(s) \/ Lookup(s) \/ Stop(s)
       \/ \E e \in Events : Receive(s, e) \/ Post(s, e) \/ Update(s, e)
  \/ DeleteExpired \/ DeleteOldForwardedEvents \/ Crash \/ Start

Spec == Init /\ [][Next]_vars

(* Goroutines run, the relays hand over what they hold, a process that     *)
(* died is started again.                                                  *)
Fairness ==
  /\ \A h \in Handlers : WF_vars(AddSubscription(h)) /\ WF_vars(RemoveSubscription(h))
  /\ \A s \in Subscriptions :
       /\ WF_vars(Check(s)) /\ WF_vars(Lookup(s))
       /\ \A e \in Events : WF_vars(Receive(s, e)) /\ WF_vars(Post(s, e)) /\ WF_vars(Update(s, e))
  /\ WF_vars(Start)

LiveSpec == Spec /\ Fairness

-----------------------------------------------------------------------------
(* Properties *)

(* TypeOK: tables, subscriptions and goroutines keep their shape; a        *)
(* details object is one of the same wallet.                               *)
TypeOK ==
  /\ hooks \subseteq Wallets \X Apps /\ used \subseteq hooks /\ forwarded \subseteq Events
  /\ up \in BOOLEAN
  /\ opened \in [Wallets -> 0..MaxOpens]
  /\ subs \in [Wallets -> Subscriptions \cup {None}]
  /\ details \in [Subscriptions -> Subscriptions]
  /\ apps \in [Subscriptions -> SUBSET Apps]
  /\ live \subseteq Subscriptions
  /\ seen \in [Subscriptions -> SUBSET Events]
  /\ fwd \in [Subscriptions -> [at : {"off", "select", "check", "lookup"}, event : Events \cup {None}]]
  /\ sender \in [Subscriptions -> [Events -> {"none", "sending", "posted"}]]
  /\ sent \in [Events -> SUBSET Subscriptions]
  /\ job \in [Handlers -> {None} \cup Jobs]

(* OneSubscription: a subscription that is not canceled is its wallet's    *)
(* entry in nm.subs: however registrations, removals and restarts          *)
(* interleave, none is left running that nothing can cancel any more.      *)
OneSubscription == \A s \in live : subs[Wallet(s)] = s

(* NoEmptySubscription: the current subscription of a wallet has an app to *)
(* listen for (line 104), although the details object is shared.           *)
NoEmptySubscription == \A w \in Wallets : subs[w] # None => AppsOf(w) # {}

(* Settled: recorded as forwarded, with nothing in flight for it.          *)
Settled(e) ==
  /\ e \in forwarded
  /\ \A s \in Subscriptions : sender[s][e] = "none" /\ fwd[s] # State("lookup", e)

(* SettledStays: an event that was recorded and is not in flight is not    *)
(* sent again, through no subscription and across no restart, until its    *)
(* record is deleted.                                                      *)
SettledStays ==
  [][\A e \in Events : Settled(e) /\ e \in forwarded' => Settled(e)' /\ sent'[e] = sent[e]]_vars

(* SentToSubscriber: an event starts on its way to a webhook only while    *)
(* its author is subscribed: not after an Unregister has returned.         *)
SentToSubscriber ==
  [][\A s \in Subscriptions, e \in Events :
       sender[s][e] = "none" /\ sender'[s][e] = "sending" => Author[e] \in AppsOf(Wallet(s))]_vars

(* KeepsOtherApps: opening a new subscription for one app never drops      *)
(* another: only an Unregister of that app, or a crash, does.              *)
KeepsOtherApps ==
  [][\A w \in Wallets, a \in Apps :
       a \in AppsOf(w) /\ up' /\ a \notin AppsOf(w)'
       => \E h \in Handlers : job[h] = [op |-> "remove", wallet |-> w, app |-> a]]_vars

(* OnceOnly: an event is forwarded once ("This ensures events are          *)
(* forwarded once and only once").                                         *)
OnceOnly == \A e \in Events : \A s, t \in sent[e] : s = t

(* Served: its author's webhook is stored and subscribed.                  *)
Served(e) ==
  <<Target[e], Author[e]>> \in hooks /\ Author[e] \in AppsOf(Target[e])

(* EventForwarded: an event whose author stays registered reaches the      *)
(* webhook, whatever subscriptions were canceled on the way and however    *)
(* often the process died, as long as queries and webhooks work.           *)
EventForwarded == \A e \in Events : <>[]Served(e) => <>(sent[e] # {})

(* Pending: the event has still to be taken up by the current subscription *)
(* of its wallet, or is on its way through it, or its author is about to   *)
(* be given a new subscription.                                            *)
Pending(e) ==
  LET w == Target[e]
      s == subs[w]
  IN  \/ \E h \in Handlers : job[h] = [op |-> "add", wallet |-> w, app |-> Author[e]]
      \/ e \notin seen[s]
      \/ fwd[s] \in {State("check", e), State("lookup", e)}
      \/ sender[s][e] = "sending"

(* NothingDropped: while queries and webhooks work, no event of a served   *)
(* author is lost by a subscription canceled, a row deleted or a process   *)
(* dead under it: it reached the webhook or is still pending, although an  *)
(* event dropped half-way is handed to that subscription no more.          *)
NothingDropped == \A e \in Events : Served(e) => sent[e] # {} \/ Pending(e)

(* UnregisterDeletes: Unregister removes the webhook ("Unregisters a   *)
(* webhook from the NWC service").                                         *)
UnregisterDeletes ==
  [][\A h \in Handlers :
       job[h] # None /\ job[h].op = "remove" /\ job'[h] = None /\ up'
       => <<job[h].wallet, job[h].app>> \notin hooks']_vars

=============================================================================
