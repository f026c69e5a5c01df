------------------------- MODULE PayerRequests_proofs -------------------------
(***************************************************************************)
(* Theorems about PayerRequests, for any payers, urls and max-ages.        *)
(***************************************************************************)
EXTENDS PayerRequests, TLAPS

(* The channel's calls: only a call that was sent is open, a call that is  *)
(* over has an outcome, and one that is not an error is the node's reply.  *)
Calls ==
  \A p \in Payers :
    /\ pc[p] \in {"idle", "handler"} => phase[p] = "new"
    /\ phase[p] = "closed" <=> outcome[p] # None
    /\ outcome[p] \notin {None, Error} => outcome[p] = reply[p]

(* What a payer was sent was the answer to a payer of the same url who was *)
(* sent it as its own; an invoice is nobody else's.                        *)
Answered ==
  \A p \in Payers :
    /\ pc[p] # "idle" => url[p] \in Urls
    /\ got[p] # None => pc[p] = "done"
    /\ got[p] \in Payers =>
         LET q == got[p] IN
           /\ url[p] = url[q] /\ got[q] = q
           /\ url[p] \in Invoices => q = p

(* A cached answer is the latest, was delivered to the payer it is named   *)
(* after, may be cached, and lives as long as its max-age says.            *)
Cached ==
  \A u \in Urls : cache[u] # None =>
    LET q == cache[u].by IN
      /\ u \notin Invoices /\ last[u] = q
      /\ pc[q] = "done" /\ got[q] = q /\ url[q] = u
      /\ phase[q] = "closed"
      /\ outcome[q] \in MaxAges /\ reply[q] = outcome[q] /\ outcome[q] > 0
      /\ cache[u].ttl = Ttl(outcome[q])

Inv == TypeOK /\ Calls /\ Answered /\ Cached

(* Conversely, the latest answer is cached unless it must not be; its call *)
(* is over, so that it does not change any more.                           *)
Filled ==
  \A u \in Urls : last[u] # None =>
    /\ pc[last[u]] = "done" /\ phase[last[u]] = "closed"
    /\ Cacheable(u) /\ MayCache(outcome[last[u]]) => cache[u] # None

USE DEF channelVars

(* A lifetime is an integer other than zero. *)
LEMMA TtlType ==
  ASSUME PayerAssumption, NEW age \in MaxAges
  PROVE  Ttl(age) \in Int \ {0}
<1> DEFINE n == Second * age
           k == 2 * HalfRange
<1>1. n \in Int /\ k \in Nat /\ k > 0 /\ HalfRange \in Int
  BY DEF PayerAssumption
<1>2. n % k \in Int
  <2> HIDE DEF n, k
  <2> QED BY <1>1
<1>3. Wrap(n) \in Int
  <2> HIDE DEF n
  <2> QED BY <1>1, <1>2 DEF Wrap
<1> QED BY <1>3 DEF Ttl, PayerAssumption

LEMMA InitInv == PayerAssumption /\ Init => Inv
  BY DEF PayerAssumption, Init, Inv, TypeOK, Calls, Answered, Cached,
         Channel!Init, Answers

(* Every action preserves the invariant. *)
LEMMA NextInv == PayerAssumption /\ Inv /\ [Next]_vars => Inv'
<1> SUFFICES ASSUME PayerAssumption, Inv, [Next]_vars
             PROVE  Inv'
  OBVIOUS
<1> USE DEF Inv, TypeOK
<1>1. ASSUME NEW p \in Payers, Ask(p)
      PROVE  Inv'
  BY <1>1 DEF Ask, Reply, Cacheable, Fresh, Calls, Answered, Cached,
              PayerAssumption, Answers, Entries
<1>2. ASSUME NEW p \in Payers, Refuse(p)
      PROVE  Inv'
  BY <1>2 DEF Refuse, Reply, Calls, Answered, Cached, PayerAssumption, Answers
<1>3. ASSUME NEW p \in Payers, Send(p)
      PROVE  Inv'
  BY <1>3 DEF Send, Channel!Open, Calls, Answered, Cached, PayerAssumption, Answers
<1>4. ASSUME NEW p \in Payers, NodeAnswers(p)
      PROVE  Inv'
  BY <1>4 DEF NodeAnswers, Channel!Accept, Calls, Answered, Cached,
              PayerAssumption, Answers
<1>5. ASSUME NEW p \in Payers, SendReturns(p)
      PROVE  Inv'
  <2>1. phase[p] = "open" /\ outcome[p] = None
    BY <1>5 DEF SendReturns, Channel!Return, Calls
  <2>2. PICK o \in Answers \cup {Error} :
          /\ outcome' = [outcome EXCEPT ![p] = o] /\ o \in {reply[p], Error}
          /\ phase' = [phase EXCEPT ![p] = "closed"]
    BY <1>5 DEF SendReturns, Channel!Return
  <2>3. UNCHANGED <<reply, pc, url, gone, got, cache, last, clock>>
    BY <1>5 DEF SendReturns, Channel!Return
  <2>4. TypeOK' /\ Calls'
    BY <2>1, <2>2, <2>3 DEF Calls, PayerAssumption
  <2>5. Answered' /\ Cached'
    BY <2>1, <2>2, <2>3 DEF Answered, Cached, Entries
  <2> QED BY <2>4, <2>5
<1>6. ASSUME NEW p \in Payers, Finish(p)
      PROVE  Inv'
  <2>1. CASE p \in gone
    <3>1. /\ pc' = [pc EXCEPT ![p] = "done"]
          /\ UNCHANGED <<phase, reply, outcome, url, gone, got, cache, last, clock>>
      BY <1>6, <2>1 DEF Finish
    <3>2. pc[p] = "sent"
      BY <1>6 DEF Finish
    <3>3. TypeOK' /\ Calls' /\ Answered'
      BY <3>1, <3>2 DEF Calls, Answered
    <3>4. Cached'
      BY <3>1 DEF Cached, Entries
    <3> QED BY <3>3, <3>4
  <2>2. CASE p \notin gone /\ outcome[p] = Error
    <3>1. /\ pc' = [pc EXCEPT ![p] = "done"] /\ got' = [got EXCEPT ![p] = Error]
          /\ UNCHANGED <<phase, reply, outcome, url, gone, cache, last, clock>>
      BY <1>6, <2>2 DEF Finish, Reply
    <3>2. pc[p] = "sent" /\ got[p] = None
      BY <1>6 DEF Finish, Answered
    <3>3. TypeOK' /\ Calls'
      BY <3>1, <3>2 DEF Calls
    <3>4. Answered'
      BY <3>1, <3>2 DEF Answered, PayerAssumption
    <3>5. Cached'
      BY <3>1, <3>2, PayerAssumption DEF Cached, Entries, PayerAssumption
    <3> QED BY <3>3, <3>4, <3>5
  <2>3. CASE p \notin gone /\ outcome[p] # Error
    <3>1. /\ pc' = [pc EXCEPT ![p] = "done"] /\ got' = [got EXCEPT ![p] = p]
          /\ last' = [last EXCEPT ![url[p]] = p]
          /\ UNCHANGED <<phase, reply, outcome, url, gone, clock>>
      BY <1>6, <2>3 DEF Finish, Reply
    <3>2. /\ url[p] \in Urls /\ outcome[p] \in Answers /\ reply[p] = outcome[p]
          /\ pc[p] = "sent" /\ phase[p] = "closed"
      BY <1>6, <2>3 DEF Finish, Calls, Answered, PayerAssumption
    <3>3. CASE Cacheable(url[p]) /\ MayCache(outcome[p])
      <4> DEFINE item == [by |-> p, at |-> clock, ttl |-> Ttl(outcome[p])]
      <4>1. outcome[p] \in MaxAges /\ outcome[p] > 0
        BY <3>2, <3>3 DEF MayCache, Answers
      <4>2. item \in Entries
        BY <4>1, TtlType DEF Entries
      <4>3. cache' = [cache EXCEPT ![url[p]] = item]
        BY <1>6, <2>3, <3>3 DEF Finish, UpdateCache
      <4>4. item.by = p /\ item.ttl = Ttl(outcome[p])
        OBVIOUS
      <4> HIDE DEF item
      <4>5. TypeOK' /\ Calls' /\ Answered'
        BY <3>1, <3>2, <4>2, <4>3 DEF Calls, Answered, PayerAssumption
      <4>6. Cached'
        BY <3>1, <3>2, <3>3, <4>1, <4>3, <4>4 DEF Cached, Cacheable, Answered, Ttl, Wrap
      <4> QED BY <4>5, <4>6
    <3>4. CASE Cacheable(url[p]) /\ ~MayCache(outcome[p])
      <4>1. cache' = [cache EXCEPT ![url[p]] = None]
        BY <1>6, <2>3, <3>4 DEF Finish, UpdateCache
      <4> QED BY <3>1, <3>2, <4>1 DEF Calls, Answered, Cached, PayerAssumption
    <3>5. CASE ~Cacheable(url[p])
      <4>1. UNCHANGED cache
        BY <1>6, <2>3, <3>5 DEF Finish
      <4> QED BY <3>1, <3>2, <3>5, <4>1 DEF Calls, Answered, Cached, Cacheable, PayerAssumption
    <3> QED BY <3>3, <3>4, <3>5
  <2> QED BY <2>1, <2>2, <2>3
<1>7. ASSUME NEW p \in Payers, PayerLeaves(p)
      PROVE  Inv'
  BY <1>7 DEF PayerLeaves, Calls, Answered, Cached
<1>8. CASE Tick
  BY <1>8 DEF Tick, Calls, Answered, Cached, PayerAssumption
<1>9. CASE UNCHANGED vars
  BY <1>9 DEF vars, Calls, Answered, Cached
<1> QED BY <1>1, <1>2, <1>3, <1>4, <1>5, <1>6, <1>7, <1>8, <1>9 DEF Next

LEMMA Invariant == Spec => []Inv
  BY InitInv, NextInv, PayerAssumption, PTL DEF Spec

(* Only Finish changes what is cached and who was last. *)
LEMMA NextFilled == PayerAssumption /\ Inv /\ Filled /\ [Next]_vars => Filled'
<1> SUFFICES ASSUME PayerAssumption, Inv, Filled, [Next]_vars
             PROVE  Filled'
  OBVIOUS
<1> USE DEF Inv, TypeOK, Filled
<1>1. ASSUME NEW p \in Payers, Ask(p) \/ Refuse(p)
      PROVE  Filled'
  BY <1>1 DEF Ask, Refuse, Reply, PayerAssumption
<1>2. ASSUME NEW p \in Payers, Send(p)
      PROVE  Filled'
  BY <1>2 DEF Send, Channel!Open, PayerAssumption
<1>3. ASSUME NEW p \in Payers, NodeAnswers(p) \/ SendReturns(p)
      PROVE  Filled'
  <2>1. /\ \A q \in Payers : phase[q] = "closed" => phase'[q] = "closed" /\ outcome'[q] = outcome[q]
        /\ UNCHANGED <<pc, cache, last>>
    BY <1>3 DEF NodeAnswers, SendReturns, Channel!Accept, Channel!Return, Calls
  <2> QED BY <2>1
<1>4. ASSUME NEW p \in Payers, Finish(p)
      PROVE  Filled'
  <2>1. CASE p \in gone \/ outcome[p] = Error
    BY <1>4, <2>1 DEF Finish, Reply, PayerAssumption
  <2>2. CASE p \notin gone /\ outcome[p] # Error
    <3>1. /\ pc[p] = "sent" /\ phase[p] = "closed" /\ pc' = [pc EXCEPT ![p] = "done"]
          /\ last' = [last EXCEPT ![url[p]] = p]
          /\ UNCHANGED <<phase, outcome>>
          /\ IF Cacheable(url[p]) THEN UpdateCache(p, outcome[p]) ELSE UNCHANGED cache
      BY <1>4, <2>2 DEF Finish, Reply
    <3>2. url[p] \in Urls
      BY <3>1 DEF Answered
    <3>3. ASSUME NEW u \in Urls, last'[u] # None
          PROVE  /\ pc'[last'[u]] = "done" /\ phase'[last'[u]] = "closed"
                 /\ Cacheable(u) /\ MayCache(outcome'[last'[u]]) => cache'[u] # None
      <4>1. CASE u = url[p]
        <5>1. last'[u] = p
          BY <3>1, <3>2, <4>1
        <5>2. ASSUME Cacheable(u), MayCache(outcome[p])
              PROVE  cache'[u] # None
          <6> DEFINE item == [by |-> p, at |-> clock, ttl |-> Ttl(outcome[p])]
          <6>1. cache'[u] = item
            BY <3>1, <3>2, <4>1, <5>2 DEF UpdateCache
          <6>2. outcome[p] \in MaxAges
            BY <2>2, <3>1, <5>2 DEF MayCache, Answers, Calls
          <6>3. item \in Entries
            BY <6>2, TtlType DEF Entries
          <6> HIDE DEF item
          <6> QED BY <6>1, <6>3 DEF PayerAssumption
        <5> QED BY <3>1, <5>1, <5>2
      <4>2. CASE u # url[p]
        <5>1. last'[u] = last[u] /\ cache'[u] = cache[u]
          BY <3>1, <4>2 DEF UpdateCache
        <5>2. last[u] \in Payers
          BY <3>3, <5>1
        <5> QED BY <3>1, <3>3, <5>1, <5>2
      <4> QED BY <4>1, <4>2
    <3> QED BY <3>3 DEF Cacheable, MayCache
  <2> QED BY <2>1, <2>2
<1>5. CASE Tick \/ UNCHANGED vars \/ \E p \in Payers : PayerLeaves(p)
  BY <1>5 DEF Tick, vars, PayerLeaves, Cacheable, MayCache
<1> QED BY <1>1, <1>2, <1>3, <1>4, <1>5 DEF Next

LEMMA AlwaysFilled == Spec => []Filled
<1>1. Init => Filled
  BY DEF Init, Filled
<1> QED BY Invariant, <1>1, NextFilled, PayerAssumption, PTL DEF Spec

-----------------------------------------------------------------------------
(* TypeCorrect: TypeOK holds, whatever the nodes answer. *)
THEOREM TypeCorrect == Spec => []TypeOK
  BY Invariant, PTL DEF Inv

(* InvoiceOwned: no two payers are handed the same invoice, and cached     *)
(* answers are never served for another url than they were given for.      *)
THEOREM InvoiceOwned == Spec => []OwnInvoice
<1>1. Inv => OwnInvoice
  BY DEF Inv, Answered, OwnInvoice
<1> QED BY Invariant, <1>1, PTL

(* LatestKept: the cache holds the answer of the request that finished     *)
(* last or, if that must not be cached, nothing, however requests for one  *)
(* url overlap.                                                            *)
THEOREM LatestKept == Spec => []LatestCached
<1>1. Inv /\ Filled => LatestCached
  <2> SUFFICES ASSUME Inv, Filled, NEW u \in Urls
               PROVE  /\ cache[u] # None <=>
                           last[u] # None /\ Cacheable(u) /\ MayCache(outcome[last[u]])
                      /\ cache[u] # None => cache[u].by = last[u]
    BY DEF LatestCached
  <2>1. ASSUME cache[u] # None
        PROVE  /\ last[u] # None /\ Cacheable(u) /\ MayCache(outcome[last[u]])
               /\ cache[u].by = last[u]
    <3>1. /\ cache[u].by = last[u] /\ cache[u] \in Entries /\ Cacheable(u)
          /\ outcome[last[u]] \in MaxAges /\ outcome[last[u]] > 0
      BY <2>1 DEF Inv, TypeOK, Cached, Cacheable
    <3>2. last[u] # None /\ outcome[last[u]] # NoAge
      BY <3>1, PayerAssumption DEF PayerAssumption, Entries
    <3> QED BY <3>1, <3>2 DEF MayCache
  <2> QED BY <2>1 DEF Filled
<1> QED BY Invariant, AlwaysFilled, <1>1, PTL

(* HitsFresh: what is served from the cache is no older than its node      *)
(* allowed, for every max-age whose overflow DurationAssumption covers.    *)
THEOREM HitsFresh == Spec => FreshHit
<1>1. ASSUME Inv, [Next]_vars, NEW p \in Payers,
             got[p] = None, got'[p] \in Payers \ {p}
      PROVE  /\ reply[got'[p]] # NoAge
             /\ clock - cache[url[got'[p]]].at <= Second * reply[got'[p]]
  <2>1. Ask(p)
    BY <1>1, PayerAssumption DEF Next, vars, Ask, Refuse, Send, NodeAnswers,
         SendReturns, Finish, PayerLeaves, Tick, Reply, Inv, TypeOK, PayerAssumption
  <2>2. PICK u \in Urls : Fresh(cache[u]) /\ got'[p] = cache[u].by
    BY <1>1, <2>1, PayerAssumption DEF Ask, Reply, Inv, TypeOK, PayerAssumption
  <2> DEFINE q == got'[p]
             age == reply[q]
  <2>3. /\ url[q] = u /\ age \in MaxAges /\ age > 0 /\ cache[u].ttl = Ttl(age)
        /\ cache[u] \in Entries
    BY <1>1, <2>2 DEF Fresh, Inv, TypeOK, Cached
  <2>4. /\ Ttl(age) < 0 => MaxClock <= Second * age
        /\ Ttl(age) >= 0 => Ttl(age) <= Second * age
    BY <2>3, DurationAssumption DEF DurationAssumption
  <2>5. age # NoAge
    BY <2>3, PayerAssumption DEF PayerAssumption
  <2>6. clock - cache[u].at <= Second * age
    <3> DEFINE life == Second * age
    <3>1. /\ cache[u].at \in 0..MaxClock /\ cache[u].ttl \in Int
          /\ clock \in 0..MaxClock /\ MaxClock \in Nat
      <4> HIDE DEF q
      <4> QED BY <1>1, <2>3, PayerAssumption DEF Entries, Inv, TypeOK, PayerAssumption
    <3>3. life \in Int
      <4> HIDE DEF age
      <4> QED BY <2>3, PayerAssumption DEF PayerAssumption
    <3>2. cache[u].ttl < 0 \/ clock <= cache[u].at + cache[u].ttl
      BY <2>2 DEF Fresh
    <3> HIDE DEF life
    <3> QED BY <2>3, <2>4, <3>1, <3>2, <3>3 DEF life
  <2> QED BY <2>3, <2>5, <2>6
<1>2. Inv /\ [Next]_vars => [\A p \in Payers : LET q == got'[p] IN
        got[p] = None /\ q \in Payers \ {p} =>
          /\ reply[q] # NoAge
          /\ clock - cache[url[q]].at <= Second * reply[q]]_vars
  BY <1>1
<1> QED BY Invariant, <1>2, PTL DEF Spec, FreshHit

=============================================================================
