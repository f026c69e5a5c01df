------------------------ MODULE NostrDelivery_proofs ------------------------
(***************************************************************************)
(* No event of a served author is lost (NostrManager's NothingDropped),    *)
(* for any wallets, apps, events and handlers: the safety half of          *)
(* EventForwarded, which says that the event does reach the webhook.       *)
(***************************************************************************)
EXTENDS NostrManager_proofs

USE DEF Wallet

(* A subscription that has not been opened has no forwarder and was handed *)
(* no event.                                                               *)
Fresh ==
  \A s \in Subscriptions : s[2] > opened[s[1]] => seen[s] = {} /\ fwd[s].at = "off"

(* What is recorded, or about to be, has reached the webhook.              *)
Delivered ==
  /\ \A e \in forwarded : sent[e] # {}
  /\ \A s \in Subscriptions, e \in Events : sender[s][e] = "posted" => sent[e] # {}

DeliveryInv == Fresh /\ Delivered /\ NothingDropped

LEMMA DeliveryInit == Init => DeliveryInv
<1> SUFFICES ASSUME Init
             PROVE  DeliveryInv
  OBVIOUS
<1>1. Fresh
  BY DEF Init, Fresh, Off, State
<1>2. Delivered
  BY DEF Init, Delivered
<1>3. NothingDropped
  BY DEF Init, NothingDropped, Served
<1> QED BY <1>1, <1>2, <1>3 DEF DeliveryInv

(* What the handlers do to a wallet they do not name: nothing.             *)
LEMMA ElsewhereSame ==
  ASSUME Inv, NEW h \in Handlers, AddSubscription(h) \/ RemoveSubscription(h),
         NEW v \in Wallets, v # job[h].wallet
  PROVE  /\ subs'[v] = subs[v] /\ AppsOf(v)' = AppsOf(v)
         /\ subs[v] # None => fwd'[subs[v]] = fwd[subs[v]]
<1> DEFINE w == job[h].wallet
           n == NextOf(w)
           d == details[subs[w]]
<1>1. w \in Wallets /\ v # w
  BY DEF AddSubscription, RemoveSubscription, Inv, TypeOK, Jobs
<1>2. AppsOf(v)' = IF subs'[v] = None THEN {} ELSE apps'[details'[subs'[v]]]
  BY DEF AppsOf, Current
<1>3. ASSUME subs[v] # None
      PROVE  /\ subs[v] \in Subscriptions /\ subs[v][1] = v /\ subs[v][2] <= opened[v]
             /\ details[subs[v]] \in Subscriptions /\ details[subs[v]][1] = v
  BY <1>3 DEF Inv, TypeOK, Entries, Objects
<1>4. CASE AddSubscription(h)
  <2>1. /\ opened[w] < MaxOpens
        /\ subs' = [subs EXCEPT ![w] = n] /\ details' = [details EXCEPT ![n] = n]
        /\ \E new : apps' = [apps EXCEPT ![n] = new]
        /\ fwd' = [fwd EXCEPT ![n] = Selecting]
    BY <1>4 DEF AddSubscription, Reopen
  <2>2. \A s \in Subscriptions : s[2] <= opened[s[1]] => s # n /\ details[s] # n
    BY <1>1, <2>1, NextIsNew
  <2> HIDE DEF w, n, d
  <2>3. subs'[v] = subs[v]
    BY <1>1, <2>1 DEF Inv, TypeOK
  <2>4. ASSUME subs[v] # None
        PROVE  apps'[details'[subs[v]]] = apps[details[subs[v]]] /\ fwd'[subs[v]] = fwd[subs[v]]
    <3>1. subs[v] # n /\ details[subs[v]] # n
      BY <1>3, <2>2, <2>4
    <3> QED BY <1>3, <2>1, <2>4, <3>1 DEF Inv, TypeOK
  <2> QED BY <1>2, <2>3, <2>4, AppsOfCurrent
<1>5. CASE RemoveSubscription(h)
  <2>1. CASE subs[w] = None
    BY <1>2, <1>5, <2>1, AppsOfCurrent DEF RemoveSubscription
  <2>2. CASE subs[w] # None
    <3>1. d \in Subscriptions /\ d[1] = w
      BY <1>1, <2>2 DEF Inv, TypeOK, Entries, Objects
    <3>2. /\ \E left : apps' = [apps EXCEPT ![d] = left]
          /\ \/ subs' = [subs EXCEPT ![w] = None] /\ UNCHANGED <<details, fwd>>
             \/ /\ opened[w] < MaxOpens
                /\ subs' = [subs EXCEPT ![w] = n] /\ details' = [details EXCEPT ![n] = d]
                /\ fwd' = [fwd EXCEPT ![n] = Selecting]
      BY <1>5, <2>2 DEF RemoveSubscription, Reopen, Cancel
    <3>3. opened[w] < MaxOpens => \A s \in Subscriptions : s[2] <= opened[s[1]] => s # n
      BY <1>1, NextIsNew
    <3> HIDE DEF w, n, d
    <3>4. subs'[v] = subs[v]
      BY <1>1, <3>2 DEF Inv, TypeOK
    <3>5. ASSUME subs[v] # None
          PROVE  apps'[details'[subs[v]]] = apps[details[subs[v]]] /\ fwd'[subs[v]] = fwd[subs[v]]
      <4>1. details[subs[v]] # d /\ (opened[w] < MaxOpens => subs[v] # n)
        BY <1>1, <1>3, <3>1, <3>3, <3>5
      <4>2. details'[subs[v]] = details[subs[v]] /\ fwd'[subs[v]] = fwd[subs[v]]
        BY <1>3, <3>2, <3>5, <4>1 DEF Inv, TypeOK
      <4> QED BY <1>3, <3>2, <3>5, <4>1, <4>2 DEF Inv, TypeOK
    <3> QED BY <1>2, <3>4, <3>5, AppsOfCurrent
  <2> QED BY <2>1, <2>2
<1> QED BY <1>4, <1>5

-----------------------------------------------------------------------------
(* Fresh and Delivered *)

LEMMA FreshNext ==
  ASSUME Inv, Fresh, Next
  PROVE  Fresh'
<1>1. CASE UNCHANGED <<opened, seen, fwd>>
  BY <1>1 DEF Fresh
<1>2. ASSUME NEW w \in Wallets, opened[w] < MaxOpens,
             opened' = [opened EXCEPT ![w] = @ + 1],
             fwd' = [fwd EXCEPT ![NextOf(w)] = Selecting], UNCHANGED seen
      PROVE  Fresh'
  <2>1. NextOf(w)[1] = w /\ NextOf(w)[2] = opened[w] + 1 /\ opened[w] \in Nat
    BY <1>2, NextIsNew, NostrAssumption DEF Inv, TypeOK, NostrAssumption
  <2>2. ASSUME NEW s \in Subscriptions, s[2] > opened'[s[1]]
        PROVE  seen'[s] = {} /\ fwd'[s].at = "off"
    <3>1. s[1] \in Wallets /\ s[2] \in Nat /\ opened[s[1]] \in Nat
      BY SubscriptionType, NostrAssumption DEF Inv, TypeOK, NostrAssumption
    <3>2. s # NextOf(w) /\ s[2] > opened[s[1]]
      BY <1>2, <2>1, <2>2, <3>1 DEF Inv, TypeOK
    <3> QED BY <1>2, <3>2 DEF Fresh, Inv, TypeOK
  <2> QED BY <2>2 DEF Fresh
<1>3. ASSUME NEW h \in Handlers, AddSubscription(h) \/ RemoveSubscription(h)
      PROVE  Fresh'
  <2>1. job[h].wallet \in Wallets /\ UNCHANGED seen
    BY <1>3 DEF AddSubscription, RemoveSubscription, Inv, TypeOK, Jobs
  <2>2. \/ UNCHANGED <<opened, fwd>>
        \/ /\ opened[job[h].wallet] < MaxOpens
           /\ opened' = [opened EXCEPT ![job[h].wallet] = @ + 1]
           /\ fwd' = [fwd EXCEPT ![NextOf(job[h].wallet)] = Selecting]
    BY <1>3 DEF AddSubscription, RemoveSubscription, Reopen, Cancel
  <2> QED BY <1>1, <1>2, <2>1, <2>2
<1>4. ASSUME NEW s \in Subscriptions,
             \/ Check(s) \/ Lookup(s) \/ Stop(s)
             \/ \E e \in Events : Receive(s, e)
      PROVE  Fresh'
  <2>1. fwd[s].at # "off" /\ UNCHANGED opened
    BY <1>4 DEF Check, Lookup, Stop, Receive, manager
  <2>2. \A t \in Subscriptions : t # s => fwd'[t] = fwd[t] /\ seen'[t] = seen[t]
    BY <1>4 DEF Check, Lookup, Stop, Receive, Inv, TypeOK
  <2> QED BY <2>1, <2>2 DEF Fresh
<1>5. CASE Crash
  BY <1>5 DEF Crash, Fresh, Off, State
<1>6. CASE Start
  <2>1. PICK new \in {StoredSubs, {}} :
          /\ new \subseteq Subscriptions
          /\ opened' = [w \in Wallets |-> IF NextOf(w) \in new THEN opened[w] + 1 ELSE opened[w]]
          /\ fwd' = [s \in Subscriptions |-> IF s \in new THEN Selecting ELSE Off]
    BY <1>6 DEF Start
  <2>2. UNCHANGED seen
    BY <1>6 DEF Start
  <2>3. ASSUME NEW s \in Subscriptions, s[2] > opened'[s[1]]
        PROVE  seen'[s] = {} /\ fwd'[s].at = "off"
    <3>1. s[1] \in Wallets /\ s[2] \in Nat /\ opened[s[1]] \in Nat
      BY SubscriptionType, NostrAssumption DEF Inv, TypeOK, NostrAssumption
    <3>2. s[2] > opened[s[1]]
      BY <2>1, <2>3, <3>1
    <3>3. s \notin new
      <4> SUFFICES ASSUME s \in new
                   PROVE  FALSE
        OBVIOUS
      <4>1. PICK w \in Wallets : s = NextOf(w)
        BY <2>1 DEF StoredSubs
      <4>2. s[1] = w /\ s[2] = opened[w] + 1
        BY <4>1 DEF NextOf
      <4>3. opened'[w] = opened[w] + 1
        BY <2>1, <4>1
      <4> QED BY <2>3, <3>1, <4>2, <4>3
    <3> QED BY <2>1, <2>2, <3>2, <3>3 DEF Fresh, Off, State
  <2> QED BY <2>3 DEF Fresh
<1>7. CASE \/ \E h \in Handlers, w \in Wallets, a \in Apps : Register(h, w, a) \/ Unregister(h, w, a)
           \/ \E s \in Subscriptions, e \in Events : Post(s, e) \/ Update(s, e)
           \/ DeleteExpired \/ DeleteOldForwardedEvents
  BY <1>1, <1>7 DEF Register, Unregister, Post, Update, DeleteExpired,
                    DeleteOldForwardedEvents, manager, routines
<1> QED BY <1>3, <1>4, <1>5, <1>6, <1>7 DEF Next

(* What has reached a webhook stays so. *)
LEMMA SentGrows ==
  ASSUME Inv, Next, NEW e \in Events
  PROVE  sent[e] \subseteq sent'[e]
<1>1. UNCHANGED sent \/ \E s \in Subscriptions, f \in Events : sent' = [sent EXCEPT ![f] = @ \cup {s}]
  BY DEF Next, Register, Unregister, AddSubscription, RemoveSubscription, Check, Lookup, Stop,
         Receive, Post, Update, DeleteExpired, DeleteOldForwardedEvents, Crash, Start, routines
<1> QED BY <1>1 DEF Inv, TypeOK

LEMMA DeliveredNext ==
  ASSUME Inv, Delivered, Next
  PROVE  Delivered'
<1>1. ASSUME NEW e \in Events, sent[e] # {}
      PROVE  sent'[e] # {}
  BY <1>1, SentGrows
<1>2. CASE forwarded' \subseteq forwarded /\ UNCHANGED sender
  BY <1>1, <1>2 DEF Delivered, Inv, TypeOK
<1>3. ASSUME NEW s \in Subscriptions, NEW e \in Events, Post(s, e) \/ Update(s, e)
      PROVE  Delivered'
  <2>1. forwarded' \subseteq forwarded \cup {e} /\ (e \in forwarded' => e \in forwarded \/ sent[e] # {})
    BY <1>3 DEF Post, Update, store, Delivered
  <2>2. PICK v \in {"none", "posted"} :
          /\ sender' = [sender EXCEPT ![s][e] = v]
          /\ v = "posted" => sent' = [sent EXCEPT ![e] = @ \cup {s}]
    BY <1>3 DEF Post, Update
  <2>3. ASSUME NEW t \in Subscriptions, NEW f \in Events, sender'[t][f] = "posted"
        PROVE  sent'[f] # {}
    <3> DEFINE row == [sender[s] EXCEPT ![e] = v]
    <3>1. sender' = [sender EXCEPT ![s] = row]
      BY <2>2
    <3>2. row[e] = v /\ \A g \in Events : g # e => row[g] = sender[s][g]
      BY DEF Inv, TypeOK
    <3> HIDE DEF row
    <3>3. CASE t = s /\ f = e
      <4>1. v = "posted"
        BY <2>3, <3>1, <3>2, <3>3 DEF Inv, TypeOK
      <4> QED BY <2>2, <3>3, <4>1 DEF Inv, TypeOK
    <3>4. CASE t # s \/ f # e
      <4>1. sender[t][f] = "posted"
        BY <2>3, <3>1, <3>2, <3>4 DEF Inv, TypeOK
      <4> QED BY <1>1, <4>1 DEF Delivered
    <3> QED BY <3>3, <3>4
  <2> QED BY <1>1, <2>1, <2>3 DEF Delivered, Inv, TypeOK
<1>4. ASSUME NEW s \in Subscriptions, Lookup(s)
      PROVE  Delivered'
  <2>1. /\ fwd[s].event \in Events /\ UNCHANGED <<forwarded, sent>>
        /\ UNCHANGED sender \/ sender' = [sender EXCEPT ![s][fwd[s].event] = "sending"]
    BY <1>4 DEF Lookup, store, Inv, Busy
  <2>2. CASE sender' = [sender EXCEPT ![s][fwd[s].event] = "sending"]
    <3> DEFINE row == [sender[s] EXCEPT ![fwd[s].event] = "sending"]
    <3>1. sender' = [sender EXCEPT ![s] = row]
      BY <2>2
    <3>2. \A g \in Events : row[g] \in {sender[s][g], "sending"}
      BY DEF Inv, TypeOK
    <3> HIDE DEF row
    <3>3. \A t \in Subscriptions, f \in Events : sender'[t][f] \in {sender[t][f], "sending"}
      BY <3>1, <3>2 DEF Inv, TypeOK
    <3> QED BY <2>1, <3>3 DEF Delivered
  <2> QED BY <1>2, <2>1, <2>2
<1>5. CASE Crash
  BY <1>5 DEF Crash, store, Delivered
<1>6. CASE \/ \E h \in Handlers, w \in Wallets, a \in Apps : Register(h, w, a) \/ Unregister(h, w, a)
           \/ \E h \in Handlers : AddSubscription(h) \/ RemoveSubscription(h)
           \/ \E s \in Subscriptions : Check(s) \/ Stop(s) \/ \E e \in Events : Receive(s, e)
           \/ DeleteExpired \/ DeleteOldForwardedEvents \/ Start
  BY <1>2, <1>6 DEF Register, Unregister, AddSubscription, RemoveSubscription, Check, Stop,
                    Receive, DeleteExpired, DeleteOldForwardedEvents, Start, routines, store
<1> QED BY <1>3, <1>4, <1>5, <1>6 DEF Next

-----------------------------------------------------------------------------
(* NothingDropped *)

(* A new subscription is handed every event. *)
LEMMA NewIsPending ==
  ASSUME Inv, Fresh, NEW e \in Events, NextOf(Target[e]) \in Subscriptions,
         subs'[Target[e]] = NextOf(Target[e]), UNCHANGED seen
  PROVE  Pending(e)'
<1> DEFINE w == Target[e]
           n == NextOf(w)
<1>1. n[1] = w /\ n[2] = opened[w] + 1
  BY DEF NextOf
<1>2. opened[w] \in Nat
  BY NostrAssumption DEF Inv, TypeOK, NostrAssumption
<1>3. seen[n] = {}
  BY <1>1, <1>2 DEF Fresh
<1> QED BY <1>3 DEF Pending

(* The current subscription of a served author. *)
LEMMA ServedBy ==
  ASSUME Inv, NEW e \in Events, Served(e)
  PROVE  LET s == subs[Target[e]]
         IN  /\ Target[e] \in Wallets /\ s \in Subscriptions /\ s \in live /\ s[1] = Target[e]
             /\ Author[e] \in apps[details[s]]
<1>1. Target[e] \in Wallets
  BY NostrAssumption DEF NostrAssumption
<1>2. subs[Target[e]] # None /\ Author[e] \in apps[details[subs[Target[e]]]]
  BY <1>1, AppsOfCurrent DEF Served
<1> QED BY <1>1, <1>2 DEF Inv, TypeOK, Entries

(* The handlers that change subscriptions: a replaced one leaves its       *)
(* events to its successor.                                                *)
LEMMA HandlersDropNothing ==
  ASSUME Inv, Fresh, NothingDropped, NEW h \in Handlers,
         AddSubscription(h) \/ RemoveSubscription(h)
  PROVE  NothingDropped'
<1> SUFFICES ASSUME NEW e \in Events, Served(e)', sent'[e] = {}
             PROVE  Pending(e)'
  BY DEF NothingDropped
<1> DEFINE v == Target[e]
           w == job[h].wallet
<1>1. v \in Wallets /\ w \in Wallets /\ UNCHANGED <<hooks, seen, sender, sent>>
  BY NostrAssumption DEF NostrAssumption, AddSubscription, RemoveSubscription, store, Inv, TypeOK, Jobs
<1>2. Author[e] \in AppsOf(v)' /\ <<v, Author[e]>> \in hooks
  BY <1>1 DEF Served
<1>3. AppsOf(v)' = IF subs'[v] = None THEN {} ELSE apps'[details'[subs'[v]]]
  BY DEF AppsOf, Current
<1>4. CASE v # w
  <2>1. /\ subs'[v] = subs[v] /\ AppsOf(v)' = AppsOf(v)
        /\ subs[v] # None => fwd'[subs[v]] = fwd[subs[v]]
    BY <1>1, <1>4, ElsewhereSame
  <2>2. Served(e) /\ subs[v] # None
    BY <1>2, <1>3, <2>1 DEF Served
  <2>3. Pending(e)
    BY <1>1, <2>2 DEF NothingDropped
  <2>4. job' = [job EXCEPT ![h] = None]
    BY DEF AddSubscription, RemoveSubscription
  <2>5. CASE \E g \in Handlers : job[g] = [op |-> "add", wallet |-> v, app |-> Author[e]]
    <3>1. PICK g \in Handlers : job[g] = [op |-> "add", wallet |-> v, app |-> Author[e]]
      BY <2>5
    <3>2. g # h
      BY <1>4, <3>1
    <3> QED BY <2>4, <3>1, <3>2 DEF Pending, Inv, TypeOK
  <2> QED BY <1>1, <2>1, <2>2, <2>3, <2>5 DEF Pending
<1>5. CASE v = w
  <2>1. subs'[v] # None
    BY <1>2, <1>3
  <2>2. opened[v] < MaxOpens /\ subs'[v] = NextOf(v)
    <3>1. CASE AddSubscription(h)
      BY <1>1, <1>5, <3>1 DEF AddSubscription, Reopen, Inv, TypeOK
    <3>2. CASE RemoveSubscription(h)
      <4>1. subs[v] # None
        BY <1>5, <2>1, <3>2 DEF RemoveSubscription
      <4>2. Cancel(v) \/ \E d : Reopen(v, d)
        BY <1>5, <3>2, <4>1 DEF RemoveSubscription
      <4> QED BY <1>1, <2>1, <4>2 DEF Cancel, Reopen, Inv, TypeOK
    <3> QED BY <3>1, <3>2
  <2>3. NextOf(v) \in Subscriptions
    BY <1>1, <2>2, NextIsNew
  <2> QED BY <1>1, <2>2, <2>3, NewIsPending
<1> QED BY <1>4, <1>5

(* A registration announces the subscription it will open.                 *)
LEMMA QueriesDropNothing ==
  ASSUME Inv, NothingDropped, ~StoreFaults,
         NEW h \in Handlers, NEW w \in Wallets, NEW a \in Apps,
         Register(h, w, a) \/ Unregister(h, w, a)
  PROVE  NothingDropped'
<1> SUFFICES ASSUME NEW e \in Events, Served(e)', sent'[e] = {}
             PROVE  Pending(e)'
  BY DEF NothingDropped
<1>1. UNCHANGED <<subs, details, apps, seen, fwd, sender, sent>> /\ job[h] = None
  BY DEF Register, Unregister, manager, routines
<1>2. AppsOf(Target[e])' = AppsOf(Target[e])
  BY <1>1 DEF AppsOf, Current
<1>3. CASE <<Target[e], Author[e]>> \in hooks
  <2>1. Pending(e)
    BY <1>1, <1>2, <1>3 DEF Served, NothingDropped
  <2>2. ASSUME NEW g \in Handlers, job[g] # None
        PROVE  job'[g] = job[g]
    <3>1. \E j : job' = [job EXCEPT ![h] = j]
      BY DEF Register, Unregister, Queried
    <3> QED BY <1>1, <2>2, <3>1 DEF Inv, TypeOK
  <2>3. CASE \E g \in Handlers : job[g] = [op |-> "add", wallet |-> Target[e], app |-> Author[e]]
    <3>1. PICK g \in Handlers : job[g] = [op |-> "add", wallet |-> Target[e], app |-> Author[e]]
      BY <2>3
    <3>2. job[g] # None
      BY <3>1, NostrAssumption DEF NostrAssumption, Jobs, Inv, TypeOK
    <3> QED BY <2>2, <3>1, <3>2 DEF Pending
  <2> QED BY <1>1, <2>1, <2>3 DEF Pending
<1>4. CASE <<Target[e], Author[e]>> \notin hooks
  <2>1. Register(h, w, a) /\ w = Target[e] /\ a = Author[e]
    BY <1>4 DEF Register, Unregister, Served
  <2>2. job' = [job EXCEPT ![h] = [op |-> "add", wallet |-> w, app |-> a]]
    BY <2>1 DEF Register, Queried
  <2> QED BY <2>1, <2>2 DEF Pending, Inv, TypeOK
<1> QED BY <1>3, <1>4

(* The forwarder takes an event from the pool to the sender; it drops one  *)
(* only under a canceled subscription, or one that is recorded.            *)
LEMMA ForwarderDropsNothing ==
  ASSUME Inv, Delivered, NothingDropped, ~StoreFaults, NEW s \in Subscriptions,
         (\E f \in Events : Receive(s, f)) \/ Check(s) \/ Lookup(s) \/ Stop(s)
  PROVE  NothingDropped'
<1> SUFFICES ASSUME NEW e \in Events, Served(e)', sent'[e] = {}
             PROVE  Pending(e)'
  BY DEF NothingDropped
<1> DEFINE c == subs[Target[e]]
<1>1. UNCHANGED <<hooks, forwarded, subs, details, apps, live, sent, job>>
  BY DEF Receive, Check, Lookup, Stop, store, manager
<1>2. Served(e) /\ sent[e] = {} /\ Pending(e)
  <2>1. AppsOf(Target[e])' = AppsOf(Target[e])
    BY <1>1 DEF AppsOf, Current
  <2> QED BY <1>1, <2>1 DEF Served, NothingDropped
<1>3. c \in Subscriptions /\ c \in live /\ c[1] = Target[e] /\ Author[e] \in apps[details[c]]
  BY <1>2, ServedBy
<1>4. SUFFICES ASSUME ~\E g \in Handlers : job[g] = [op |-> "add", wallet |-> Target[e],
                                                   app |-> Author[e]]
               PROVE  Pending(e)'
  BY <1>1 DEF Pending
<1>5. ASSUME s # c
      PROVE  Pending(e)'
  <2>1. fwd'[c] = fwd[c] /\ seen'[c] = seen[c]
    BY <1>3, <1>5 DEF Receive, Check, Lookup, Stop, Inv, TypeOK
  <2>2. sender'[c] = sender[c]
    BY <1>3, <1>5 DEF Receive, Check, Lookup, Stop, Inv, TypeOK
  <2> QED BY <1>1, <1>2, <1>4, <2>1, <2>2 DEF Pending
<1>6. ASSUME s = c, NEW f \in Events, Receive(s, f)
      PROVE  Pending(e)'
  <2>1. /\ fwd[c].at = "select" /\ UNCHANGED sender
        /\ seen' = [seen EXCEPT ![c] = @ \cup {f}]
    BY <1>6 DEF Receive
  <2>2. CASE f = e
    <3>1. fwd'[c] = State("check", e)
      BY <1>3, <1>6, <2>2 DEF Receive, Inv, TypeOK
    <3> QED BY <1>1, <3>1 DEF Pending
  <2>3. CASE f # e
    <3>1. e \in seen'[c] => e \in seen[c]
      BY <1>3, <2>1, <2>3 DEF Inv, TypeOK
    <3> QED BY <1>1, <1>2, <1>4, <2>1, <3>1 DEF Pending, State
  <2> QED BY <2>2, <2>3
<1>7. ASSUME s = c, Check(s)
      PROVE  Pending(e)'
  <2>1. fwd[c].at = "check" /\ UNCHANGED <<seen, sender>>
    BY <1>7 DEF Check
  <2>2. CASE fwd[c] = State("check", e)
    <3>1. ~AlreadyForwarded(e)
      BY <1>2 DEF AlreadyForwarded, Delivered
    <3>2. fwd' = [fwd EXCEPT ![c].at = "lookup"]
      BY <1>3, <1>7, <2>2, <3>1 DEF Check, State
    <3>3. fwd'[c] = State("lookup", e)
      BY <1>3, <2>2, <3>2 DEF Inv, TypeOK, State
    <3> QED BY <1>1, <3>3 DEF Pending
  <2>3. CASE fwd[c] # State("check", e)
    BY <1>1, <1>2, <1>4, <2>1, <2>3 DEF Pending, State
  <2> QED BY <2>2, <2>3
<1>8. ASSUME s = c, Lookup(s)
      PROVE  Pending(e)'
  <2>1. /\ fwd[c].at = "lookup" /\ UNCHANGED seen /\ fwd[c].event \in Events
        /\ UNCHANGED sender \/ sender' = [sender EXCEPT ![c][fwd[c].event] = "sending"]
    BY <1>8 DEF Lookup, Inv, Busy
  <2>2. \A g \in Events : sender'[c][g] = sender[c][g]
                            \/ (g = fwd[c].event /\ sender'[c][g] = "sending")
    <3> DEFINE row == [sender[c] EXCEPT ![fwd[c].event] = "sending"]
    <3>1. UNCHANGED sender \/ sender' = [sender EXCEPT ![c] = row]
      BY <2>1
    <3>2. \A g \in Events : row[g] = sender[c][g] \/ (g = fwd[c].event /\ row[g] = "sending")
      BY <1>3 DEF Inv, TypeOK
    <3> HIDE DEF row
    <3> QED BY <1>3, <3>1, <3>2 DEF Inv, TypeOK
  <2>3. CASE fwd[c] = State("lookup", e)
    <3>1. fwd[c].event = e /\ Found(c)
      BY <1>2, <1>3, <2>3 DEF State, Found, Served, Wallet
    <3>2. sender' = [sender EXCEPT ![c][e] = "sending"]
      BY <1>8, <3>1 DEF Lookup
    <3> DEFINE row == [sender[c] EXCEPT ![e] = "sending"]
    <3>3. sender' = [sender EXCEPT ![c] = row]
      BY <3>2
    <3>4. row[e] = "sending"
      BY <1>3 DEF Inv, TypeOK
    <3> HIDE DEF row
    <3>5. sender'[c][e] = "sending"
      BY <1>3, <3>3, <3>4 DEF Inv, TypeOK
    <3> QED BY <1>1, <3>5 DEF Pending
  <2>4. CASE fwd[c] # State("lookup", e)
    <3>1. fwd[c] # State("check", e)
      BY <2>1 DEF State
    <3>2. e \notin seen[c] \/ sender[c][e] = "sending"
      BY <1>2, <1>4, <2>4, <3>1 DEF Pending
    <3>3. sender[c][e] = "sending" => sender'[c][e] = "sending"
      BY <2>2
    <3> QED BY <1>1, <2>1, <3>2, <3>3 DEF Pending
  <2> QED BY <2>3, <2>4
<1>9. ASSUME s = c, Stop(s)
      PROVE  FALSE
  BY <1>3, <1>9 DEF Stop
<1> QED BY <1>5, <1>6, <1>7, <1>8, <1>9

(* A sender gives an event up only under a canceled subscription.          *)
LEMMA SenderDropsNothing ==
  ASSUME Inv, Delivered, NothingDropped, ~WebhookFaults,
         NEW s \in Subscriptions, NEW f \in Events, Post(s, f) \/ Update(s, f)
  PROVE  NothingDropped'
<1> SUFFICES ASSUME NEW e \in Events, Served(e)', sent'[e] = {}
             PROVE  Pending(e)'
  BY DEF NothingDropped
<1> DEFINE c == subs[Target[e]]
<1>1. UNCHANGED <<hooks, subs, details, apps, live, seen, fwd, job>>
  BY DEF Post, Update, store, manager
<1>2. sent[e] = {}
  <2>1. sent' = sent \/ sent' = [sent EXCEPT ![f] = @ \cup {s}]
    BY DEF Post, Update
  <2> QED BY <2>1 DEF Inv, TypeOK
<1>3. Served(e) /\ Pending(e)
  <2>1. AppsOf(Target[e])' = AppsOf(Target[e])
    BY <1>1 DEF AppsOf, Current
  <2> QED BY <1>1, <1>2, <2>1 DEF Served, NothingDropped
<1>4. c \in Subscriptions /\ c \in live
  BY <1>3, ServedBy
<1>5. ASSUME sender[c][e] = "sending"
      PROVE  sender'[c][e] = "sending"
  <2>1. s # c \/ f # e
    <3> SUFFICES ASSUME s = c, f = e
                 PROVE  FALSE
      OBVIOUS
    <3>1. sent' = [sent EXCEPT ![e] = @ \cup {c}]
      BY <1>4, <1>5 DEF Post, Update
    <3> QED BY <3>1 DEF Inv, TypeOK
  <2>2. PICK v \in {"none", "posted"} : sender' = [sender EXCEPT ![s][f] = v]
    BY DEF Post, Update
  <2> DEFINE row == [sender[s] EXCEPT ![f] = v]
  <2>3. sender' = [sender EXCEPT ![s] = row]
    BY <2>2
  <2>4. f # e => row[e] = sender[s][e]
    BY DEF Inv, TypeOK
  <2> HIDE DEF row
  <2> QED BY <1>4, <1>5, <2>1, <2>3, <2>4 DEF Inv, TypeOK
<1> QED BY <1>1, <1>3, <1>5 DEF Pending

(* A clean-up deletes rows, and a crash leaves nobody served; the next     *)
(* start opens new subscriptions.                                          *)
LEMMA RestDropsNothing ==
  ASSUME Inv, Fresh, NothingDropped, DeleteExpired \/ DeleteOldForwardedEvents \/ Crash \/ Start
  PROVE  NothingDropped'
<1> SUFFICES ASSUME NEW e \in Events, Served(e)', sent'[e] = {}
             PROVE  Pending(e)'
  BY DEF NothingDropped
<1>1. AppsOf(Target[e])' = IF subs'[Target[e]] = None THEN {} ELSE apps'[details'[subs'[Target[e]]]]
  BY DEF AppsOf, Current
<1>2. Target[e] \in Wallets /\ subs'[Target[e]] # None
  BY <1>1, NostrAssumption DEF Served, NostrAssumption
<1>3. CASE DeleteExpired \/ DeleteOldForwardedEvents
  <2>1. UNCHANGED <<subs, details, apps, seen, fwd, sender, sent, job>> /\ hooks' \subseteq hooks
    BY <1>3 DEF DeleteExpired, DeleteOldForwardedEvents, manager, routines
  <2>2. AppsOf(Target[e])' = AppsOf(Target[e])
    BY <2>1 DEF AppsOf, Current
  <2>3. Pending(e)
    BY <2>1, <2>2 DEF Served, NothingDropped
  <2> QED BY <2>1, <2>3 DEF Pending
<1>4. CASE Crash
  BY <1>2, <1>4 DEF Crash
<1>5. CASE Start
  <2>1. subs'[Target[e]] = NextOf(Target[e]) /\ NextOf(Target[e]) \in Subscriptions /\ UNCHANGED seen
    BY <1>2, <1>5 DEF Start
  <2> QED BY <2>1, NewIsPending
<1> QED BY <1>3, <1>4, <1>5

(* NoneDropped: as long as no query and no webhook fails, no event of a    *)
(* served author is ever lost: it has reached the webhook, or is pending,  *)
(* for any interleaving of registrations, removals, clean-ups, crashes and *)
(* restarts (NothingDropped).  EventForwarded adds only that pending ends. *)
THEOREM NoneDropped ==
  ASSUME ~StoreFaults, ~WebhookFaults
  PROVE  Spec => []NothingDropped
<1>1. Inv /\ DeliveryInv /\ [Next]_vars => DeliveryInv'
  <2> SUFFICES ASSUME Inv, DeliveryInv, [Next]_vars
               PROVE  DeliveryInv'
    OBVIOUS
  <2> USE DEF DeliveryInv
  <2>1. CASE UNCHANGED vars
    BY <2>1 DEF vars, Fresh, Delivered, NothingDropped, Served, Pending, AppsOf, Current
  <2>2. CASE Next
    <3>1. Fresh' /\ Delivered'
      BY <2>2, FreshNext, DeliveredNext
    <3>2. NothingDropped'
      BY <2>2, HandlersDropNothing, QueriesDropNothing, ForwarderDropsNothing,
         SenderDropsNothing, RestDropsNothing DEF Next
    <3> QED BY <3>1, <3>2
  <2> QED BY <2>1, <2>2
<1>2. DeliveryInv => NothingDropped
  BY DEF DeliveryInv
<1> QED BY <1>1, <1>2, Invariant, DeliveryInit, PTL DEF Spec

=============================================================================
