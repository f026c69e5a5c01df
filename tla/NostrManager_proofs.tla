------------------------- MODULE NostrManager_proofs -------------------------
(***************************************************************************)
(* Theorems about NostrManager, for any wallets, apps, events and handlers *)
(* and any bound on the subscriptions.                                     *)
(***************************************************************************)
EXTENDS NostrManager, TLAPS

(* The entry of a wallet in nm.subs is its own, is not canceled, and has   *)
(* an app to listen for; nothing else is live.                             *)
Entries ==
  /\ \A w \in Wallets : subs[w] # None =>
       /\ Wallet(subs[w]) = w /\ subs[w] \in live
       /\ apps[details[subs[w]]] # {}
  /\ \A s \in live : subs[Wallet(s)] = s /\ s[2] <= opened[Wallet(s)]

(* A details object belongs to the wallet of those who use it and is not   *)
(* newer than they are; a process that is down has no entries and no       *)
(* handlers.                                                               *)
Objects ==
  /\ \A s \in Subscriptions :
       /\ Wallet(details[s]) = Wallet(s)
       /\ s[2] <= opened[Wallet(s)] => details[s][2] <= opened[Wallet(s)]
  /\ ~up => /\ \A w \in Wallets : subs[w] = None
            /\ \A h \in Handlers : job[h] = None

(* A forwarder that is busy holds an event for its wallet, whose author is *)
(* still subscribed unless the subscription has been canceled.             *)
Busy ==
  \A s \in Subscriptions : fwd[s].at \in {"check", "lookup"} =>
    /\ fwd[s].event \in Events
    /\ s \in live => Author[fwd[s].event] \in apps[details[s]]

Inv == TypeOK /\ Entries /\ Objects /\ Busy

USE DEF Wallet

(* What a subscription is. *)
LEMMA SubscriptionType ==
  /\ \A s \in Subscriptions : s[1] \in Wallets /\ s[2] \in 1..MaxOpens /\ s # None
  /\ \A w \in Wallets, n \in 1..MaxOpens : /\ <<w, n>> \in Subscriptions
                                           /\ <<w, n>>[1] = w /\ <<w, n>>[2] = n
  BY NostrAssumption DEF NostrAssumption, Subscriptions

LEMMA InitInv == Init => Inv
  BY SubscriptionType, NostrAssumption
     DEF Init, Inv, TypeOK, Entries, Objects, Busy, Off, State, NostrAssumption

(* The subscription that Reopen opens is new. *)
LEMMA NextIsNew ==
  ASSUME Inv, NEW w \in Wallets, opened[w] < MaxOpens
  PROVE  /\ NextOf(w) \in Subscriptions /\ NextOf(w)[1] = w
         /\ NextOf(w)[2] = opened[w] + 1 /\ NextOf(w) # None
         /\ NextOf(w) \notin live
         /\ \A s \in Subscriptions : s[2] <= opened[s[1]] =>
              s # NextOf(w) /\ details[s] # NextOf(w)
<1>1. opened[w] \in Nat /\ opened[w] + 1 \in 1..MaxOpens /\ MaxOpens \in Nat
  BY NostrAssumption DEF Inv, TypeOK, NostrAssumption
<1>2. /\ NextOf(w) \in Subscriptions /\ NextOf(w)[1] = w
      /\ NextOf(w)[2] = opened[w] + 1 /\ NextOf(w) # None
  BY <1>1, SubscriptionType DEF NextOf
<1>3. ASSUME NEW s \in Subscriptions, s[2] <= opened[s[1]]
      PROVE  s # NextOf(w) /\ details[s] # NextOf(w)
  <2>1. details[s][1] = s[1] /\ details[s][2] <= opened[s[1]]
    BY <1>3 DEF Inv, Objects
  <2> QED BY <1>1, <1>2, <1>3, <2>1
<1> QED BY <1>2, <1>3 DEF Inv, Entries, TypeOK

-----------------------------------------------------------------------------
(* Every action preserves the invariant. *)

(* The handlers' queries touch the tables and their own jobs only. *)
LEMMA RegisterInv ==
  ASSUME Inv, NEW h \in Handlers, NEW w \in Wallets, NEW a \in Apps,
         Register(h, w, a) \/ Unregister(h, w, a)
  PROVE  Inv'
<1>1. /\ hooks' \subseteq Wallets \X Apps /\ used' \subseteq hooks'
  BY DEF Register, Unregister, Inv, TypeOK, Matching
<1>2. /\ job' \in [Handlers -> {None} \cup Jobs]
      /\ up
  <2>1. up /\ \E op \in {"add", "remove"} : Queried(h, op, w, a)
    BY DEF Register, Unregister
  <2>2. PICK op \in {"add", "remove"} :
          job' \in {[job EXCEPT ![h] = [op |-> op, wallet |-> w, app |-> a]], job}
    BY <2>1 DEF Queried
  <2>3. [op |-> op, wallet |-> w, app |-> a] \in Jobs
    BY DEF Jobs
  <2> QED BY <2>1, <2>2, <2>3 DEF Inv, TypeOK
<1>3. UNCHANGED <<forwarded, up, opened, subs, details, apps, live, seen, fwd, sender, sent>>
  BY DEF Register, Unregister, manager, routines
<1> QED BY <1>1, <1>2, <1>3 DEF Inv, TypeOK, Entries, Objects, Busy

LEMMA AddInv ==
  ASSUME Inv, NEW h \in Handlers, AddSubscription(h)
  PROVE  Inv'
<1> DEFINE w == job[h].wallet
           a == job[h].app
           n == NextOf(w)
<1>1. w \in Wallets /\ a \in Apps /\ up /\ opened[w] < MaxOpens
  BY DEF AddSubscription, Inv, TypeOK, Jobs, Reopen, Objects
<1>2. /\ n \in Subscriptions /\ n[1] = w /\ n[2] = opened[w] + 1 /\ n # None
      /\ n \notin live
      /\ \A s \in Subscriptions : s[2] <= opened[s[1]] => s # n /\ details[s] # n
  BY <1>1, NextIsNew
<1>3. /\ opened' = [opened EXCEPT ![w] = @ + 1]
      /\ subs' = [subs EXCEPT ![w] = n]
      /\ details' = [details EXCEPT ![n] = n]
      /\ live' = (live \ Current(w)) \cup {n}
      /\ fwd' = [fwd EXCEPT ![n] = Selecting]
      /\ apps' = [apps EXCEPT ![n] = {a} \cup AppsOf(w)]
      /\ job' = [job EXCEPT ![h] = None]
      /\ UNCHANGED <<hooks, used, forwarded, up, seen, sender, sent>>
  BY DEF AddSubscription, Reopen, Canceled, Merged, store
<1> HIDE DEF w, a, n
<1>4. opened[w] \in Nat /\ opened[w] + 1 \in 0..MaxOpens
  BY <1>1, NostrAssumption DEF Inv, TypeOK, NostrAssumption
<1>5. AppsOf(w) \subseteq Apps
  BY <1>1 DEF AppsOf, Current, Inv, TypeOK
<1>6. TypeOK'
  BY <1>1, <1>2, <1>3, <1>4, <1>5 DEF Inv, TypeOK, Selecting, State
<1>7. Entries'
  <2>1. ASSUME NEW v \in Wallets, subs'[v] # None
        PROVE  subs'[v][1] = v /\ subs'[v] \in live' /\ apps'[details'[subs'[v]]] # {}
    <3>1. CASE v = w
      BY <1>1, <1>2, <1>3, <3>1 DEF Inv, TypeOK
    <3>2. CASE v # w
      <4>1. /\ subs'[v] = subs[v] /\ subs[v] \in live /\ subs[v][1] = v
            /\ subs[v] \in Subscriptions /\ apps[details[subs[v]]] # {}
            /\ subs[v][2] <= opened[v]
        BY <1>3, <2>1, <3>2 DEF Inv, Entries, TypeOK
      <4>2. subs[v] # n /\ details[subs[v]] # n
        BY <1>2, <4>1
      <4>3. subs[v] \notin Current(w)
        BY <3>2, <4>1, <1>1 DEF Current, Inv, Entries
      <4> QED BY <1>2, <1>3, <4>1, <4>2, <4>3 DEF Inv, TypeOK
    <3> QED BY <3>1, <3>2
  <2>2. ASSUME NEW s \in live'
        PROVE  subs'[s[1]] = s /\ s[2] <= opened'[s[1]]
    <3>1. CASE s = n
      BY <1>1, <1>2, <1>3, <1>4, <3>1 DEF Inv, TypeOK
    <3>2. CASE s # n
      <4>1. s \in live /\ s \notin Current(w) /\ s \in Subscriptions /\ s # None
        BY <1>3, <2>2, <3>2, SubscriptionType DEF Inv, TypeOK
      <4>2. s[1] # w
        BY <4>1 DEF Current, Inv, Entries
      <4> QED BY <1>3, <4>1, <4>2, SubscriptionType DEF Inv, Entries, TypeOK
    <3> QED BY <3>1, <3>2
  <2> QED BY <2>1, <2>2 DEF Entries
<1>8. Objects'
  <2>1. ASSUME NEW s \in Subscriptions
        PROVE  /\ details'[s][1] = s[1]
               /\ s[2] <= opened'[s[1]] => details'[s][2] <= opened'[s[1]]
    <3>1. CASE s = n
      BY <1>3, <3>1 DEF Inv, TypeOK
    <3>2. CASE s # n
      <4>1. details'[s] = details[s] /\ details[s][1] = s[1]
        BY <1>3, <3>2 DEF Inv, Objects, TypeOK
      <4>2. CASE s[1] # w
        BY <1>3, <4>1, <4>2, SubscriptionType DEF Inv, Objects, TypeOK
      <4>3. CASE s[1] = w
        <5>1. s[2] # n[2]
          BY <3>2, <4>3, <1>2 DEF Subscriptions
        <5>2. opened'[w] = opened[w] + 1
          BY <1>1, <1>3 DEF Inv, TypeOK
        <5>3. details[s] \in Subscriptions /\ details[s][2] \in Nat /\ s[2] \in Nat
          BY SubscriptionType, NostrAssumption DEF Inv, TypeOK, NostrAssumption
        <5>4. s[2] <= opened[w] => details[s][2] <= opened[w]
          BY <4>3 DEF Inv, Objects
        <5> QED BY <1>2, <1>4, <4>1, <4>3, <5>1, <5>2, <5>3, <5>4
      <4> QED BY <4>2, <4>3
    <3> QED BY <3>1, <3>2
  <2> QED BY <1>1, <1>3, <2>1 DEF Objects
<1>9. Busy'
  <2>1. ASSUME NEW s \in Subscriptions, fwd'[s].at \in {"check", "lookup"}
        PROVE  fwd'[s].event \in Events /\ (s \in live' => Author[fwd'[s].event] \in apps'[details'[s]])
    <3>1. s # n
      BY <1>3, <2>1 DEF Inv, TypeOK, Selecting, State
    <3>2. fwd'[s] = fwd[s] /\ details'[s] = details[s] /\ (s \in live' => s \in live)
      BY <1>3, <3>1 DEF Inv, TypeOK
    <3>3. s \in live => details[s] # n
      BY <1>2 DEF Inv, Entries
    <3> QED BY <1>3, <2>1, <3>2, <3>3 DEF Inv, Busy, TypeOK
  <2> QED BY <2>1 DEF Busy
<1> QED BY <1>6, <1>7, <1>8, <1>9 DEF Inv

LEMMA RemoveInv ==
  ASSUME Inv, NEW h \in Handlers, RemoveSubscription(h)
  PROVE  Inv'
<1> DEFINE w == job[h].wallet
           c == subs[w]
           d == details[c]
           left == apps[d] \ {job[h].app}
           n == NextOf(w)
<1>1. w \in Wallets /\ up
  BY DEF RemoveSubscription, Inv, TypeOK, Jobs, Objects
<1>2. /\ job' = [job EXCEPT ![h] = None]
      /\ UNCHANGED <<hooks, used, forwarded, up, seen, sender, sent>>
  BY DEF RemoveSubscription, store
<1>3. CASE c = None
  <2>1. UNCHANGED <<opened, subs, details, apps, live, fwd>>
    BY <1>3 DEF RemoveSubscription
  <2> QED BY <1>1, <1>2, <2>1 DEF Inv, TypeOK, Entries, Objects, Busy
<1>4. ASSUME c # None
      PROVE  /\ c \in Subscriptions /\ c[1] = w /\ c \in live /\ c[2] <= opened[w]
             /\ d \in Subscriptions /\ d[1] = w
             /\ Current(w) = {c}
  BY <1>1, <1>4 DEF Inv, TypeOK, Entries, Objects, Current
<1>5. CASE c # None /\ left = {}
  <2>1. /\ apps' = [apps EXCEPT ![d] = left]
        /\ subs' = [subs EXCEPT ![w] = None]
        /\ live' = live \ {c}
        /\ UNCHANGED <<opened, details, fwd>>
    BY <1>4, <1>5 DEF RemoveSubscription, NoneLeft, Cancel
  <2> HIDE DEF w, c, d, left
  <2>2. TypeOK'
    BY <1>1, <1>2, <1>4, <1>5, <2>1 DEF Inv, TypeOK
  <2>3. ASSUME NEW s \in live'
        PROVE  s[1] # w /\ details[s] # d /\ s \in live /\ s \in Subscriptions
    <3>1. s \in live /\ s # c /\ s \in Subscriptions /\ subs[s[1]] = s
      BY <2>1, <2>3 DEF Inv, Entries, TypeOK
    <3>2. s[1] # w
      BY <3>1 DEF c
    <3> QED BY <1>4, <1>5, <3>1, <3>2 DEF Inv, Objects
  <2>4. Entries'
    <3>1. ASSUME NEW v \in Wallets, subs'[v] # None
          PROVE  subs'[v][1] = v /\ subs'[v] \in live' /\ apps'[details'[subs'[v]]] # {}
      <4>1. v # w /\ subs'[v] = subs[v]
        BY <1>1, <2>1, <3>1 DEF Inv, TypeOK
      <4>2. subs[v][1] = v /\ subs[v] \in live /\ apps[details[subs[v]]] # {}
        BY <3>1, <4>1 DEF Inv, Entries
      <4>3. subs[v] \in live'
        BY <1>4, <1>5, <2>1, <4>1, <4>2
      <4>4. apps'[details[subs[v]]] = apps[details[subs[v]]]
        BY <2>1, <2>3, <4>3 DEF Inv, TypeOK
      <4> QED BY <2>1, <4>1, <4>2, <4>3, <4>4
    <3>2. ASSUME NEW s \in live'
          PROVE  subs'[s[1]] = s /\ s[2] <= opened'[s[1]]
      BY <2>1, <2>3, <3>2 DEF Inv, Entries, TypeOK
    <3> QED BY <3>1, <3>2 DEF Entries
  <2>5. Objects'
    BY <1>1, <1>2, <2>1 DEF Inv, Objects
  <2>6. Busy'
    BY <2>1, <2>3 DEF Inv, Busy, TypeOK
  <2> QED BY <2>2, <2>4, <2>5, <2>6 DEF Inv
<1>6. CASE c # None /\ left # {}
  <2>1. opened[w] < MaxOpens
    BY <1>6 DEF RemoveSubscription, NoneLeft, Reopen
  <2>2. /\ apps' = [apps EXCEPT ![d] = left]
        /\ opened' = [opened EXCEPT ![w] = @ + 1]
        /\ subs' = [subs EXCEPT ![w] = n]
        /\ details' = [details EXCEPT ![n] = d]
        /\ live' = (live \ {c}) \cup {n}
        /\ fwd' = [fwd EXCEPT ![n] = Selecting]
    BY <1>4, <1>6 DEF RemoveSubscription, NoneLeft, Reopen, Canceled
  <2>3. /\ n \in Subscriptions /\ n[1] = w /\ n[2] = opened[w] + 1 /\ n # None
        /\ n \notin live
        /\ \A s \in Subscriptions : s[2] <= opened[s[1]] => s # n /\ details[s] # n
    BY <1>1, <2>1, NextIsNew
  <2> HIDE DEF w, c, d, left, n
  <2>4. opened[w] \in Nat /\ opened[w] + 1 \in 0..MaxOpens
    BY <1>1, <2>1, NostrAssumption DEF Inv, TypeOK, NostrAssumption
  <2>5. TypeOK'
    BY <1>1, <1>2, <1>4, <1>6, <2>2, <2>3, <2>4 DEF Inv, TypeOK, Selecting, State, left
  <2>6. ASSUME NEW s \in live', s # n
        PROVE  /\ s[1] # w /\ details[s] # d /\ s \in live /\ s \in Subscriptions
               /\ details'[s] = details[s] /\ fwd'[s] = fwd[s]
    <3>1. s \in live /\ s # c /\ s \in Subscriptions /\ subs[s[1]] = s
      BY <2>2, <2>6 DEF Inv, Entries, TypeOK
    <3>2. s[1] # w
      BY <3>1 DEF c
    <3> QED BY <1>4, <1>6, <2>2, <2>6, <3>1, <3>2 DEF Inv, Objects, TypeOK
  <2>7. Entries'
    <3>1. ASSUME NEW v \in Wallets, subs'[v] # None
          PROVE  subs'[v][1] = v /\ subs'[v] \in live' /\ apps'[details'[subs'[v]]] # {}
      <4>1. CASE v = w
        BY <1>1, <1>4, <1>6, <2>2, <2>3, <4>1 DEF Inv, TypeOK
      <4>2. CASE v # w
        <5>1. subs'[v] = subs[v]
          BY <2>2, <4>2 DEF Inv, TypeOK
        <5>2. subs[v][1] = v /\ subs[v] \in live /\ apps[details[subs[v]]] # {}
          BY <3>1, <5>1 DEF Inv, Entries
        <5>3. subs[v] \in live' /\ subs[v] # n
          BY <1>4, <1>6, <2>2, <2>3, <4>2, <5>2
        <5>4. apps'[details'[subs[v]]] = apps[details[subs[v]]]
          BY <2>2, <2>6, <5>3 DEF Inv, TypeOK
        <5> QED BY <5>1, <5>2, <5>3, <5>4
      <4> QED BY <4>1, <4>2
    <3>2. ASSUME NEW s \in live'
          PROVE  subs'[s[1]] = s /\ s[2] <= opened'[s[1]]
      <4>1. CASE s = n
        BY <1>1, <2>2, <2>3, <2>4, <4>1 DEF Inv, TypeOK
      <4>2. CASE s # n
        BY <2>2, <2>6, <4>2, SubscriptionType DEF Inv, Entries, TypeOK
      <4> QED BY <4>1, <4>2
    <3> QED BY <3>1, <3>2 DEF Entries
  <2>8. Objects'
    <3>1. ASSUME NEW s \in Subscriptions
          PROVE  /\ details'[s][1] = s[1]
                 /\ s[2] <= opened'[s[1]] => details'[s][2] <= opened'[s[1]]
      <4>1. opened'[w] = opened[w] + 1
        BY <1>1, <2>2 DEF Inv, TypeOK
      <4>2. d[2] <= opened[w] /\ d[2] \in Nat
        BY <1>4, <1>6, SubscriptionType, NostrAssumption DEF Inv, Objects, d, NostrAssumption
      <4>3. CASE s = n
        BY <1>4, <1>6, <2>2, <2>3, <2>4, <4>1, <4>2, <4>3 DEF Inv, TypeOK
      <4>4. CASE s # n /\ s[1] # w
        BY <2>2, <4>4, SubscriptionType DEF Inv, Objects, TypeOK
      <4>5. CASE s # n /\ s[1] = w
        <5>1. s[2] # n[2]
          BY <4>5, <2>3 DEF Subscriptions
        <5>2. /\ details[s] \in Subscriptions /\ details[s][2] \in Nat /\ s[2] \in Nat
              /\ details'[s] = details[s] /\ details[s][1] = s[1]
          BY <2>2, <4>5, SubscriptionType, NostrAssumption
             DEF Inv, TypeOK, Objects, NostrAssumption
        <5>3. s[2] <= opened[w] => details[s][2] <= opened[w]
          BY <4>5 DEF Inv, Objects
        <5> QED BY <2>3, <2>4, <4>1, <4>5, <5>1, <5>2, <5>3
      <4> QED BY <4>3, <4>4, <4>5
    <3> QED BY <1>1, <1>2, <3>1 DEF Objects
  <2>9. Busy'
    <3>1. ASSUME NEW s \in Subscriptions, fwd'[s].at \in {"check", "lookup"}
          PROVE  /\ fwd'[s].event \in Events
                 /\ s \in live' => Author[fwd'[s].event] \in apps'[details'[s]]
      <4>1. s # n
        BY <2>2, <2>3, <3>1 DEF Inv, TypeOK, Selecting, State
      <4>2. fwd'[s] = fwd[s]
        BY <2>2, <4>1 DEF Inv, TypeOK
      <4>3. fwd[s].event \in Events /\ (s \in live => Author[fwd[s].event] \in apps[details[s]])
        BY <3>1, <4>2 DEF Inv, Busy
      <4>4. ASSUME s \in live'
            PROVE  s \in live /\ apps'[details'[s]] = apps[details[s]]
        BY <2>2, <2>6, <4>1, <4>4 DEF Inv, TypeOK
      <4> QED BY <4>2, <4>3, <4>4
    <3> QED BY <3>1 DEF Busy
  <2> QED BY <2>5, <2>7, <2>8, <2>9 DEF Inv
<1> QED BY <1>3, <1>5, <1>6

LEMMA SenderChanged ==
  ASSUME TypeOK, NEW s \in Subscriptions, NEW e \in Events,
         NEW v \in {"none", "sending", "posted"}
  PROVE  [sender EXCEPT ![s][e] = v]
           \in [Subscriptions -> [Events -> {"none", "sending", "posted"}]]
<1> DEFINE row == [sender[s] EXCEPT ![e] = v]
<1>1. row \in [Events -> {"none", "sending", "posted"}]
  BY DEF TypeOK
<1>2. [sender EXCEPT ![s] = row] \in [Subscriptions -> [Events -> {"none", "sending", "posted"}]]
  BY <1>1 DEF TypeOK
<1> QED BY <1>2

(* A forwarder changes its own place and, in Lookup, a sender. *)
LEMMA ForwarderInv ==
  ASSUME Inv, NEW s \in Subscriptions,
         (\E e \in Events : Receive(s, e)) \/ Check(s) \/ Lookup(s) \/ Stop(s)
  PROVE  Inv'
<1>1. UNCHANGED <<hooks, used, forwarded, up, opened, subs, details, apps, live, sent, job>>
  BY DEF Receive, Check, Lookup, Stop, store, manager
<1>2. /\ fwd[s].at \in {"check", "lookup"} => fwd[s].event \in Events
      /\ fwd[s] \in [at : {"off", "select", "check", "lookup"}, event : Events \cup {None}]
  BY DEF Inv, TypeOK, Busy
<1>3. seen' \in [Subscriptions -> SUBSET Events]
  <2>1. UNCHANGED seen \/ \E e \in Events : seen' = [seen EXCEPT ![s] = @ \cup {e}]
    BY DEF Receive, Check, Lookup, Stop
  <2> QED BY <2>1 DEF Inv, TypeOK
<1>4. sender' \in [Subscriptions -> [Events -> {"none", "sending", "posted"}]]
  <2>1. \/ UNCHANGED sender
        \/ fwd[s].at = "lookup" /\ sender' = [sender EXCEPT ![s][fwd[s].event] = "sending"]
    BY DEF Receive, Check, Lookup, Stop
  <2>2. CASE UNCHANGED sender
    BY <2>2 DEF Inv, TypeOK
  <2>3. CASE fwd[s].at = "lookup" /\ sender' = [sender EXCEPT ![s][fwd[s].event] = "sending"]
    <3>1. fwd[s].event \in Events
      BY <1>2, <2>3
    <3>2. TypeOK
      BY DEF Inv
    <3> QED BY <2>3, <3>1, <3>2, SenderChanged
  <2> QED BY <2>1, <2>2, <2>3
<1>5. \/ UNCHANGED fwd
      \/ \E place \in {Selecting, Off} : fwd' = [fwd EXCEPT ![s] = place]
      \/ fwd[s].at = "check" /\ fwd' = [fwd EXCEPT ![s].at = "lookup"]
      \/ \E e \in Events : /\ Author[e] \in apps[details[s]]
                           /\ fwd' = [fwd EXCEPT ![s] = State("check", e)]
  BY DEF Receive, Check, Lookup, Stop
<1>6. fwd' \in [Subscriptions -> [at : {"off", "select", "check", "lookup"},
                                  event : Events \cup {None}]]
  <2>1. \/ UNCHANGED fwd
        \/ \E place \in [at : {"off", "select", "check", "lookup"}, event : Events \cup {None}] :
             fwd' = [fwd EXCEPT ![s] = place]
    <3>1. [fwd[s] EXCEPT !.at = "lookup"]
            \in [at : {"off", "select", "check", "lookup"}, event : Events \cup {None}]
      BY <1>2
    <3> QED BY <1>5, <3>1 DEF Selecting, Off, State
  <2> QED BY <2>1 DEF Inv, TypeOK
<1>7. ASSUME NEW t \in Subscriptions, fwd'[t].at \in {"check", "lookup"}
      PROVE  /\ fwd'[t].event \in Events
             /\ t \in live => Author[fwd'[t].event] \in apps[details[t]]
  <2>1. CASE t # s
    BY <1>5, <1>7, <2>1 DEF Inv, TypeOK, Busy
  <2>2. CASE t = s
    <3>1. CASE UNCHANGED fwd
      BY <1>7, <2>2, <3>1 DEF Inv, Busy
    <3>2. ASSUME NEW place \in {Selecting, Off}, fwd' = [fwd EXCEPT ![s] = place]
          PROVE  FALSE
      BY <1>7, <2>2, <3>2 DEF Inv, TypeOK, Selecting, Off, State
    <3>3. CASE fwd[s].at = "check" /\ fwd' = [fwd EXCEPT ![s].at = "lookup"]
      <4>1. fwd'[s].event = fwd[s].event
        BY <3>3 DEF Inv, TypeOK
      <4> QED BY <2>2, <3>3, <4>1 DEF Inv, Busy
    <3>4. ASSUME NEW e \in Events, Author[e] \in apps[details[s]],
                 fwd' = [fwd EXCEPT ![s] = State("check", e)]
          PROVE  fwd'[t].event \in Events /\ Author[fwd'[t].event] \in apps[details[t]]
      <4>1. fwd'[s] = State("check", e)
        BY <3>4 DEF Inv, TypeOK
      <4> QED BY <2>2, <3>4, <4>1 DEF State
    <3> QED BY <1>5, <3>1, <3>2, <3>3, <3>4
  <2> QED BY <2>1, <2>2
<1> QED
  BY <1>1, <1>3, <1>4, <1>6, <1>7 DEF Inv, TypeOK, Entries, Objects, Busy

LEMMA SenderInv ==
  ASSUME Inv, NEW s \in Subscriptions, NEW e \in Events, Post(s, e) \/ Update(s, e)
  PROVE  Inv'
<1>1. UNCHANGED <<hooks, up, opened, subs, details, apps, live, seen, fwd, job>>
  BY DEF Post, Update, store, manager
<1>2. used' \subseteq hooks /\ forwarded' \subseteq Events
  BY DEF Inv, TypeOK, Post, Update, UsedRow, store
<1>3. /\ sender' \in [Subscriptions -> [Events -> {"none", "sending", "posted"}]]
      /\ sent' \in [Events -> SUBSET Subscriptions]
  <2>1. /\ \E v \in {"none", "posted"} : sender' = [sender EXCEPT ![s][e] = v]
        /\ sent' \in {sent, [sent EXCEPT ![e] = @ \cup {s}]}
    BY DEF Post, Update
  <2>2. sent' \in [Events -> SUBSET Subscriptions]
    BY <2>1 DEF Inv, TypeOK
  <2> QED BY <2>1, <2>2, SenderChanged DEF Inv
<1> QED
  BY <1>1, <1>2, <1>3 DEF Inv, TypeOK, Entries, Objects, Busy

LEMMA CleanupInv ==
  ASSUME Inv, DeleteExpired \/ DeleteOldForwardedEvents
  PROVE  Inv'
<1>1. UNCHANGED <<up, opened, subs, details, apps, live, seen, fwd, sender, sent, job>>
  BY DEF DeleteExpired, DeleteOldForwardedEvents, manager, routines
<1>2. hooks' \subseteq Wallets \X Apps /\ used' \subseteq hooks' /\ forwarded' \subseteq Events
  BY DEF Inv, TypeOK, DeleteExpired, DeleteOldForwardedEvents
<1> QED
  BY <1>1, <1>2 DEF Inv, TypeOK, Entries, Objects, Busy

LEMMA CrashInv ==
  ASSUME Inv, Crash
  PROVE  Inv'
<1>1. TypeOK'
  BY DEF Inv, TypeOK, Crash, store, Off, State
<1>2. Entries' /\ Objects' /\ Busy'
  BY DEF Inv, TypeOK, Entries, Objects, Busy, Crash, Off, State
<1> QED
  BY <1>1, <1>2 DEF Inv

(* The subscriptions opened at a start are the next ones of their wallets. *)
LEMMA StartInv ==
  ASSUME Inv, Start
  PROVE  Inv'
<1>1. PICK new \in {StoredSubs, {}} :
        /\ new \subseteq Subscriptions
        /\ opened' = [w \in Wallets |-> IF NextOf(w) \in new THEN opened[w] + 1 ELSE opened[w]]
        /\ subs' = [w \in Wallets |-> IF NextOf(w) \in new THEN NextOf(w) ELSE None]
        /\ live' = new
        /\ fwd' = [s \in Subscriptions |-> IF s \in new THEN Selecting ELSE Off]
        /\ details' = [s \in Subscriptions |-> IF s \in new THEN s ELSE details[s]]
        /\ apps' = [s \in Subscriptions |-> IF s \in new THEN Stored(Wallet(s)) ELSE apps[s]]
  BY DEF Start
<1>2. up' /\ UNCHANGED <<hooks, used, forwarded, seen, sender, sent, job>>
  BY DEF Start, store
<1>3. ASSUME NEW s \in new
      PROVE  /\ s \in Subscriptions /\ s[1] \in Wallets /\ s # None
             /\ s = NextOf(s[1]) /\ s[2] = opened[s[1]] + 1 /\ Stored(s[1]) # {}
  <2>1. PICK w \in Wallets : Stored(w) # {} /\ s = NextOf(w)
    BY <1>1, <1>3 DEF StoredSubs
  <2>2. s[1] = w /\ s[2] = opened[w] + 1
    BY <2>1 DEF NextOf
  <2> QED BY <1>1, <1>3, <2>1, <2>2, SubscriptionType
<1>4. \A w \in Wallets : NextOf(w)[1] = w /\ NextOf(w)[2] = opened[w] + 1
  BY DEF NextOf
<1>5. \A w \in Wallets : opened[w] \in 0..MaxOpens /\ opened'[w] \in Nat
  BY <1>1, NostrAssumption DEF Inv, TypeOK, NostrAssumption
<1>6. \A w \in Wallets : Stored(w) \subseteq Apps
  BY DEF Stored
<1>7. TypeOK'
  <2>1. opened' \in [Wallets -> 0..MaxOpens]
    <3>1. ASSUME NEW w \in Wallets, NextOf(w) \in new
          PROVE  opened[w] + 1 \in 0..MaxOpens
      BY <1>1, <1>4, <3>1, SubscriptionType, NostrAssumption DEF NostrAssumption
    <3> QED BY <1>1, <1>5, <3>1
  <2>2. subs' \in [Wallets -> Subscriptions \cup {None}]
    BY <1>1
  <2>3. details' \in [Subscriptions -> Subscriptions] /\ apps' \in [Subscriptions -> SUBSET Apps]
    BY <1>1, <1>6, SubscriptionType DEF Inv, TypeOK
  <2>4. fwd' \in [Subscriptions -> [at : {"off", "select", "check", "lookup"},
                                    event : Events \cup {None}]]
    BY <1>1 DEF Selecting, Off, State
  <2> QED BY <1>1, <1>2, <2>1, <2>2, <2>3, <2>4 DEF Inv, TypeOK
<1>8. Entries'
  <2>1. ASSUME NEW w \in Wallets, subs'[w] # None
        PROVE  subs'[w][1] = w /\ subs'[w] \in live' /\ apps'[details'[subs'[w]]] # {}
    BY <1>1, <1>3, <1>4, <2>1
  <2>2. ASSUME NEW s \in live'
        PROVE  subs'[s[1]] = s /\ s[2] <= opened'[s[1]]
    BY <1>1, <1>3, <1>5, <2>2
  <2> QED BY <2>1, <2>2 DEF Entries
<1>9. Objects'
  <2>1. ASSUME NEW s \in Subscriptions
        PROVE  /\ details'[s][1] = s[1]
               /\ s[2] <= opened'[s[1]] => details'[s][2] <= opened'[s[1]]
    <3>1. CASE s \in new
      BY <1>1, <3>1
    <3>2. CASE s \notin new
      <4>1. /\ details'[s] = details[s] /\ details[s][1] = s[1]
            /\ s[2] <= opened[s[1]] => details[s][2] <= opened[s[1]]
            /\ s[1] \in Wallets /\ s[2] \in Nat /\ details[s][2] \in Nat
        <5>1. details[s] \in Subscriptions /\ details'[s] = details[s]
          BY <1>1, <3>2 DEF Inv, TypeOK
        <5> QED BY <5>1, SubscriptionType, NostrAssumption DEF Inv, Objects, NostrAssumption
      <4>2. CASE NextOf(s[1]) \in new
        <5>1. s # NextOf(s[1]) /\ opened'[s[1]] = opened[s[1]] + 1
          BY <1>1, <3>2, <4>1, <4>2
        <5>2. s[2] # opened[s[1]] + 1
          BY <4>1, <5>1 DEF NextOf, Subscriptions
        <5> QED BY <1>5, <4>1, <5>1, <5>2
      <4>3. CASE NextOf(s[1]) \notin new
        BY <1>1, <4>1, <4>3
      <4> QED BY <4>2, <4>3
    <3> QED BY <3>1, <3>2
  <2> QED BY <1>2, <2>1 DEF Objects
<1>10. Busy'
  BY <1>1 DEF Busy, Selecting, Off, State
<1> QED BY <1>7, <1>8, <1>9, <1>10 DEF Inv

LEMMA NextInv == Inv /\ [Next]_vars => Inv'
<1> SUFFICES ASSUME Inv, [Next]_vars
             PROVE  Inv'
  OBVIOUS
<1>1. CASE UNCHANGED vars
  BY <1>1 DEF vars, Inv, TypeOK, Entries, Objects, Busy
<1>2. ASSUME NEW h \in Handlers,
             \/ \E w \in Wallets, a \in Apps : Register(h, w, a) \/ Unregister(h, w, a)
             \/ AddSubscription(h) \/ RemoveSubscription(h)
      PROVE  Inv'
  BY <1>2, RegisterInv, AddInv, RemoveInv
<1>3. ASSUME NEW s \in Subscriptions,
             \/ Check(s) \/ Lookup(s) \/ Stop(s)
             \/ \E e \in Events : Receive(s, e) \/ Post(s, e) \/ Update(s, e)
      PROVE  Inv'
  BY <1>3, ForwarderInv, SenderInv
<1>4. CASE DeleteExpired \/ DeleteOldForwardedEvents \/ Crash \/ Start
  BY <1>4, CleanupInv, CrashInv, StartInv
<1> QED BY <1>1, <1>2, <1>3, <1>4 DEF Next

LEMMA Invariant == Spec => []Inv
  BY InitInv, NextInv, PTL DEF Spec

-----------------------------------------------------------------------------
(* The invariants of the runs *)

LEMMA AppsOfCurrent ==
  ASSUME NEW w \in Wallets
  PROVE  AppsOf(w) = IF subs[w] = None THEN {} ELSE apps[details[subs[w]]]
  BY DEF AppsOf, Current

(* TypeCorrect: the tables, the subscriptions and the goroutines keep      *)
(* their shape; a recorded use is that of a stored webhook.                *)
THEOREM TypeCorrect == Spec => []TypeOK
  BY Invariant, PTL DEF Inv

(* OneIsLive: no subscription is left running that is not its wallet's     *)
(* entry in nm.subs (OneSubscription).                                     *)
THEOREM OneIsLive == Spec => []OneSubscription
<1>1. Inv => OneSubscription
  BY DEF Inv, Entries, OneSubscription
<1> QED BY <1>1, Invariant, PTL

(* HasSubscriber: a wallet's current subscription has an app to listen for    *)
(* (NoEmptySubscription).                                                  *)
THEOREM HasSubscriber == Spec => []NoEmptySubscription
<1>1. Inv => NoEmptySubscription
  BY AppsOfCurrent DEF Inv, Entries, NoEmptySubscription
<1> QED BY <1>1, Invariant, PTL

-----------------------------------------------------------------------------
(* The action properties of the runs *)

(* A forwarder comes to the lookup only with an event that is not recorded.*)
LEMMA LookupIsNew ==
  ASSUME Inv, Next, NEW e \in Events, Settled(e), NEW s \in Subscriptions
  PROVE  fwd'[s] # State("lookup", e)
<1> SUFFICES ASSUME fwd'[s] = State("lookup", e)
             PROVE  FALSE
  OBVIOUS
<1>1. fwd'[s].at = "lookup" /\ fwd'[s].event = e
  BY DEF State
<1>2. fwd[s] # State("lookup", e)
  BY DEF Settled
<1>3. fwd[s] \in [at : {"off", "select", "check", "lookup"}, event : Events \cup {None}]
  BY DEF Inv, TypeOK
<1>4. CASE UNCHANGED fwd
  BY <1>2, <1>4
<1>5. ASSUME NEW t, NEW place \in {Selecting, Off}, fwd' = [fwd EXCEPT ![t] = place]
      PROVE  FALSE
  BY <1>1, <1>2, <1>5 DEF Inv, TypeOK, Selecting, Off, State
<1>6. ASSUME NEW h \in Handlers, AddSubscription(h) \/ RemoveSubscription(h)
      PROVE  FALSE
  <2>1. UNCHANGED fwd \/ \E t : fwd' = [fwd EXCEPT ![t] = Selecting]
    BY <1>6 DEF AddSubscription, RemoveSubscription, Reopen, Cancel
  <2> QED BY <1>4, <1>5, <2>1
<1>7. ASSUME NEW t \in Subscriptions, NEW f \in Events, Receive(t, f)
      PROVE  FALSE
  BY <1>1, <1>2, <1>7 DEF Receive, State, Inv, TypeOK
<1>8. ASSUME NEW t \in Subscriptions, Check(t)
      PROVE  FALSE
  <2>1. CASE ~AlreadyForwarded(fwd[t].event) /\ fwd' = [fwd EXCEPT ![t].at = "lookup"]
    <3>1. s = t
      BY <1>2, <2>1 DEF Inv, TypeOK
    <3>2. fwd'[t].event = fwd[t].event
      BY <2>1 DEF Inv, TypeOK
    <3> QED BY <1>1, <2>1, <3>1, <3>2 DEF AlreadyForwarded, Settled
  <2> QED BY <1>5, <1>8, <2>1 DEF Check
<1>9. ASSUME NEW t \in Subscriptions, Lookup(t) \/ Stop(t)
      PROVE  FALSE
  BY <1>5, <1>9 DEF Lookup, Stop
<1>10. CASE Crash \/ Start
  BY <1>1, <1>10 DEF Crash, Start, Off, Selecting, State
<1>11. CASE \/ \E h \in Handlers, w \in Wallets, a \in Apps : Register(h, w, a) \/ Unregister(h, w, a)
            \/ \E t \in Subscriptions, f \in Events : Post(t, f) \/ Update(t, f)
            \/ DeleteExpired \/ DeleteOldForwardedEvents
  BY <1>4, <1>11 DEF Register, Unregister, Post, Update, DeleteExpired,
                     DeleteOldForwardedEvents, routines
<1> QED BY <1>6, <1>7, <1>8, <1>9, <1>10, <1>11 DEF Next

(* No sender of a settled event starts. *)
LEMMA NoNewSender ==
  ASSUME Inv, Next, NEW e \in Events, Settled(e)
  PROVE  sent'[e] = sent[e] /\ \A s \in Subscriptions : sender'[s][e] = "none"
<1>1. \A s \in Subscriptions : sender[s][e] = "none" /\ fwd[s] # State("lookup", e)
  BY DEF Settled
<1>2. CASE UNCHANGED <<sender, sent>>
  BY <1>1, <1>2
<1>3. ASSUME NEW s \in Subscriptions, Lookup(s)
      PROVE  sent'[e] = sent[e] /\ \A t \in Subscriptions : sender'[t][e] = "none"
  <2>1. fwd[s].at = "lookup" /\ UNCHANGED sent
    BY <1>3 DEF Lookup
  <2>2. fwd[s].event # e
    <3>1. fwd[s] \in [at : {"off", "select", "check", "lookup"}, event : Events \cup {None}]
      BY DEF Inv, TypeOK
    <3> QED BY <1>1, <2>1, <3>1 DEF State
  <2>3. UNCHANGED sender \/ sender' = [sender EXCEPT ![s][fwd[s].event] = "sending"]
    BY <1>3 DEF Lookup
  <2>4. CASE sender' = [sender EXCEPT ![s][fwd[s].event] = "sending"]
    <3> DEFINE row == [sender[s] EXCEPT ![fwd[s].event] = "sending"]
    <3>1. row[e] = sender[s][e]
      BY <2>2 DEF Inv, TypeOK
    <3>2. sender' = [sender EXCEPT ![s] = row]
      BY <2>4
    <3> HIDE DEF row
    <3> QED BY <1>1, <2>1, <3>1, <3>2 DEF Inv, TypeOK
  <2> QED BY <1>1, <2>1, <2>3, <2>4
<1>4. ASSUME NEW s \in Subscriptions, NEW f \in Events, Post(s, f) \/ Update(s, f)
      PROVE  sent'[e] = sent[e] /\ \A t \in Subscriptions : sender'[t][e] = "none"
  <2>1. f # e
    BY <1>1, <1>4 DEF Post, Update
  <2>2. /\ \E v \in {"none", "posted"} : sender' = [sender EXCEPT ![s][f] = v]
        /\ sent' \in {sent, [sent EXCEPT ![f] = @ \cup {s}]}
    BY <1>4 DEF Post, Update
  <2> QED BY <1>1, <2>1, <2>2 DEF Inv, TypeOK
<1>5. CASE Crash
  BY <1>5 DEF Crash
<1>6. CASE \/ \E h \in Handlers, w \in Wallets, a \in Apps : Register(h, w, a) \/ Unregister(h, w, a)
           \/ \E h \in Handlers : AddSubscription(h) \/ RemoveSubscription(h)
           \/ \E s \in Subscriptions : Check(s) \/ Stop(s) \/ \E f \in Events : Receive(s, f)
           \/ DeleteExpired \/ DeleteOldForwardedEvents \/ Start
  BY <1>2, <1>6 DEF Register, Unregister, AddSubscription, RemoveSubscription, Check, Stop,
                    Receive, DeleteExpired, DeleteOldForwardedEvents, Start, routines
<1> QED BY <1>3, <1>4, <1>5, <1>6 DEF Next

(* StaysSettled: an event that is recorded, with nothing in flight, is not *)
(* sent again while its record stays, through no later subscription and    *)
(* across no restart (SettledStays).                                       *)
THEOREM StaysSettled == Spec => SettledStays
<1>1. Inv /\ [Next]_vars
        => [\A e \in Events : Settled(e) /\ e \in forwarded'
                                => Settled(e)' /\ sent'[e] = sent[e]]_vars
  <2> SUFFICES ASSUME Inv, Next, NEW e \in Events, Settled(e), e \in forwarded'
               PROVE  Settled(e)' /\ sent'[e] = sent[e]
    OBVIOUS
  <2> QED BY LookupIsNew, NoNewSender DEF Settled, State
<1> QED BY <1>1, Invariant, PTL DEF Spec, SettledStays

(* OnlySubscribers: an event starts on its way to a webhook only while its *)
(* author is an app of the wallet's current subscription                   *)
(* (SentToSubscriber).                                                     *)
THEOREM OnlySubscribers == Spec => SentToSubscriber
<1>1. Inv /\ [Next]_vars
        => [\A s \in Subscriptions, e \in Events :
              sender[s][e] = "none" /\ sender'[s][e] = "sending"
                => Author[e] \in AppsOf(Wallet(s))]_vars
  <2> SUFFICES ASSUME Inv, Next, NEW s \in Subscriptions, NEW e \in Events,
                      sender[s][e] = "none", sender'[s][e] = "sending"
               PROVE  Author[e] \in AppsOf(Wallet(s))
    OBVIOUS
  <2>1. ~UNCHANGED sender
    OBVIOUS
  <2>2. \/ \E t \in Subscriptions : Lookup(t)
        \/ \E t \in Subscriptions, f \in Events : Post(t, f) \/ Update(t, f)
        \/ Crash
    BY <2>1 DEF Next, Register, Unregister, AddSubscription, RemoveSubscription, Check, Stop,
                Receive, DeleteExpired, DeleteOldForwardedEvents, Start, routines
  <2>3. ASSUME NEW t \in Subscriptions, NEW f \in Events, Post(t, f) \/ Update(t, f)
        PROVE  FALSE
    <3>1. \E v \in {"none", "posted"} : sender' = [sender EXCEPT ![t][f] = v]
      BY <2>3 DEF Post, Update
    <3> QED BY <3>1 DEF Inv, TypeOK
  <2>4. CASE Crash
    BY <2>4 DEF Crash
  <2>5. ASSUME NEW t \in Subscriptions, Lookup(t)
        PROVE  Author[e] \in AppsOf(Wallet(s))
    <3>1. /\ fwd[t].at = "lookup" /\ t \in live
          /\ sender' = [sender EXCEPT ![t][fwd[t].event] = "sending"]
      BY <2>1, <2>5 DEF Lookup, Found
    <3>2. s = t /\ fwd[t].event = e
      BY <3>1 DEF Inv, TypeOK
    <3>3. Author[e] \in apps[details[s]] /\ subs[s[1]] = s
      BY <3>1, <3>2 DEF Inv, Busy, Entries
    <3> QED BY <3>3, AppsOfCurrent, SubscriptionType
  <2> QED BY <2>2, <2>3, <2>4, <2>5
<1> QED BY <1>1, Invariant, PTL DEF Spec, SentToSubscriber

(* What AddSubscription leaves of the apps of every wallet. *)
LEMMA AddKeeps ==
  ASSUME Inv, NEW h \in Handlers, AddSubscription(h), NEW v \in Wallets
  PROVE  AppsOf(v) \subseteq AppsOf(v)'
<1> DEFINE w == job[h].wallet
           n == NextOf(w)
<1>1. w \in Wallets /\ opened[w] < MaxOpens
  BY DEF AddSubscription, Inv, TypeOK, Jobs, Reopen
<1>2. /\ n \in Subscriptions /\ n # None
      /\ \A s \in Subscriptions : s[2] <= opened[s[1]] => s # n /\ details[s] # n
  BY <1>1, NextIsNew
<1>3. /\ subs' = [subs EXCEPT ![w] = n] /\ details' = [details EXCEPT ![n] = n]
      /\ apps' = [apps EXCEPT ![n] = {job[h].app} \cup AppsOf(w)]
  BY DEF AddSubscription, Reopen, Merged
<1> HIDE DEF w, n
<1>4. AppsOf(v)' = IF subs'[v] = None THEN {} ELSE apps'[details'[subs'[v]]]
  BY DEF AppsOf, Current
<1>5. CASE v = w
  BY <1>1, <1>2, <1>3, <1>4, <1>5 DEF Inv, TypeOK
<1>6. CASE v # w
  <2>1. subs'[v] = subs[v]
    BY <1>3, <1>6 DEF Inv, TypeOK
  <2>2. ASSUME subs[v] # None
        PROVE  apps'[details'[subs[v]]] = apps[details[subs[v]]]
    <3>1. subs[v] \in Subscriptions /\ subs[v][1] = v /\ subs[v][2] <= opened[v]
      BY <2>2 DEF Inv, TypeOK, Entries
    <3>2. subs[v] # n /\ details[subs[v]] # n
      BY <1>2, <3>1
    <3> QED BY <1>3, <3>1, <3>2 DEF Inv, TypeOK
  <2> QED BY <1>4, <2>1, <2>2, AppsOfCurrent
<1> QED BY <1>5, <1>6

(* RemoveSubscription drops the handler's app only. *)
LEMMA RemoveKeeps ==
  ASSUME Inv, NEW h \in Handlers, RemoveSubscription(h),
         NEW v \in Wallets, NEW a \in AppsOf(v), a \notin AppsOf(v)'
  PROVE  v = job[h].wallet /\ a = job[h].app
<1> DEFINE w == job[h].wallet
           c == subs[w]
           d == details[c]
           left == apps[d] \ {job[h].app}
           n == NextOf(w)
<1>1. AppsOf(v)' = IF subs'[v] = None THEN {} ELSE apps'[details'[subs'[v]]]
  BY DEF AppsOf, Current
<1>2. subs[v] # None /\ a \in apps[details[subs[v]]]
  BY AppsOfCurrent
<1>3. /\ w \in Wallets /\ subs[v] \in Subscriptions /\ subs[v][1] = v
      /\ details[subs[v]] \in Subscriptions /\ details[subs[v]][1] = v
      /\ subs[v][2] <= opened[v]
  BY <1>2 DEF RemoveSubscription, Inv, TypeOK, Jobs, Entries, Objects
<1>4. c # None
  BY <1>1, <1>2 DEF RemoveSubscription
<1>5. /\ c \in Subscriptions /\ c[1] = w /\ d \in Subscriptions /\ d[1] = w
  BY <1>3, <1>4 DEF Inv, TypeOK, Entries, Objects
<1>6. apps' = [apps EXCEPT ![d] = left]
  BY <1>4 DEF RemoveSubscription
<1>7. CASE left = {}
  <2>1. subs' = [subs EXCEPT ![w] = None] /\ UNCHANGED details
    BY <1>4, <1>7 DEF RemoveSubscription, NoneLeft, Cancel
  <2>2. v = w
    BY <1>1, <1>2, <1>3, <1>5, <1>6, <2>1 DEF Inv, TypeOK
  <2> QED BY <1>2, <1>7, <2>2
<1>8. CASE left # {}
  <2>1. /\ opened[w] < MaxOpens
        /\ subs' = [subs EXCEPT ![w] = n] /\ details' = [details EXCEPT ![n] = d]
    BY <1>4, <1>8 DEF RemoveSubscription, NoneLeft, Reopen
  <2>2. /\ n \in Subscriptions /\ n # None
        /\ \A s \in Subscriptions : s[2] <= opened[s[1]] => s # n
    BY <1>3, <2>1, NextIsNew
  <2> HIDE DEF w, c, d, left, n
  <2>3. v = w
    <3> SUFFICES ASSUME v # w
                 PROVE  FALSE
      OBVIOUS
    <3>1. subs'[v] = subs[v] /\ subs[v] # n
      BY <1>3, <2>1, <2>2 DEF Inv, TypeOK
    <3>2. details'[subs[v]] = details[subs[v]] /\ details[subs[v]] # d
      BY <1>3, <1>5, <2>1, <3>1 DEF Inv, TypeOK
    <3>3. apps'[details[subs[v]]] = apps[details[subs[v]]]
      BY <1>3, <1>6, <3>2 DEF Inv, TypeOK
    <3> QED BY <1>1, <1>2, <3>1, <3>2, <3>3
  <2>4. AppsOf(v)' = left
    BY <1>1, <1>3, <1>5, <1>6, <2>1, <2>2, <2>3 DEF Inv, TypeOK
  <2> QED BY <1>2, <2>3, <2>4 DEF left, d, c, w
<1> QED BY <1>7, <1>8

(* OthersKept: a registered app stops being listened for only by its own   *)
(* Unregister, or because the process dies (KeepsOtherApps): opening a     *)
(* subscription for another app keeps it, although details are shared.     *)
THEOREM OthersKept == Spec => KeepsOtherApps
<1>1. Inv /\ [Next]_vars
        => [\A w \in Wallets, a \in Apps :
              a \in AppsOf(w) /\ up' /\ a \notin AppsOf(w)'
              => \E h \in Handlers : job[h] = [op |-> "remove", wallet |-> w, app |-> a]]_vars
  <2> SUFFICES ASSUME Inv, Next, NEW w \in Wallets, NEW a \in AppsOf(w),
                      up', a \notin AppsOf(w)'
               PROVE  \E h \in Handlers : job[h] = [op |-> "remove", wallet |-> w, app |-> a]
    OBVIOUS
  <2>1. ~UNCHANGED <<subs, details, apps>>
    BY DEF AppsOf, Current
  <2>2. up
    BY AppsOfCurrent DEF Inv, Objects
  <2>3. \E h \in Handlers : AddSubscription(h) \/ RemoveSubscription(h)
    BY <2>1, <2>2 DEF Next, Register, Unregister, Check, Lookup, Stop, Receive, Post, Update,
                      DeleteExpired, DeleteOldForwardedEvents, Crash, Start, manager
  <2>4. PICK h \in Handlers : RemoveSubscription(h)
    BY <2>3, AddKeeps
  <2>5. w = job[h].wallet /\ a = job[h].app
    BY <2>4, RemoveKeeps
  <2>6. job[h].op = "remove" /\ job[h] \in Jobs
    BY <2>4 DEF RemoveSubscription, Inv, TypeOK
  <2> QED BY <2>5, <2>6 DEF Jobs
<1> QED BY <1>1, Invariant, PTL DEF Spec, KeepsOtherApps

=============================================================================
