---------------------------- MODULE PayerRequests ----------------------------
(***************************************************************************)
(* Requests of payers (lnurl/pay.go) and the cache of their responses      *)
(* (cache/cache.go): HandleLnurlPay, HandleVerify and HandleInvoice call a *)
(* node through the callback channel, taken at its word (RequestReply).    *)
(* The node's answer to a payer is the max-age it came with; its body is   *)
(* named after the payer it was given to.                                  *)
(***************************************************************************)
EXTENDS Integers

CONSTANTS
  Payers,        \* HTTP requests; each is made once
  Urls,          \* what they ask for; the key of the cache
  Invoices,      \* the urls of HandleInvoice
  MaxAges,       \* the max-ages nodes send, in seconds
  Second,        \* time.Second, in ticks of the clock
  HalfRange,     \* 2^63: a time.Duration is from -HalfRange to HalfRange - 1
  DefaultTtl,    \* the cache's own ttl, in ticks
  MaxClock,      \* bound on the clock
  NoAge,         \* an answer without a max-age
  None, Error

Answers == MaxAges \cup {NoAge}

VARIABLES
  phase, reply, outcome,  \* the channel's calls, one per payer
  pc,      \* where a payer's handler is
  url,     \* what the payer asks for
  gone,    \* the payers who went away: their contexts are canceled
  got,     \* what a payer was sent: whose answer, or Error
  cache,   \* the cached answer of each url
  last,    \* history: the payer whose answer passed through updateCache last
  clock

channelVars == <<phase, reply, outcome>>
vars == <<phase, reply, outcome, pc, url, gone, got, cache, last, clock>>

Channel == INSTANCE RequestReply WITH Requests <- Payers, Responses <- Answers

(* What is cached; a ttl of zero is never stored. *)
Entries == [by : Payers, at : 0..MaxClock, ttl : Int \ {0}]

(* A signed integer of the width of a time.Duration. *)
Wrap(n) ==
  LET m == n % (2 * HalfRange) IN IF m < HalfRange THEN m ELSE m - 2 * HalfRange

(* Mutant: the ttl of zero is stored as it is. *)
RawTtl(age) == Wrap(Second * age)

(* time.Second * time.Duration(maxAge), and what ttlcache makes of it: a   *)
(* ttl of zero stands for the cache's own (ttlcache.DefaultTTL).           *)
Ttl(age) ==
  LET t == Wrap(Second * age) IN IF t = 0 THEN DefaultTtl ELSE t

PayerAssumption ==
  /\ Invoices \subseteq Urls
  /\ Second \in Nat \ {0} /\ HalfRange \in Nat \ {0}
  /\ MaxClock \in Nat /\ DefaultTtl \in Nat \ {0}
  /\ MaxAges \subseteq Int /\ NoAge \notin Int
  /\ None \notin Answers \cup Payers \cup Urls \cup {Error} \cup Entries
  /\ Error \notin Answers \cup Payers
ASSUME PayerAssumption

(* The durations that overflow are longer than the clock runs and than the *)
(* cache's own ttl: with 64 bits that takes a max-age of 292 years.        *)
DurationAssumption ==
  \A age \in MaxAges : age > 0 =>
    /\ Ttl(age) < 0 => MaxClock <= Second * age
    /\ Ttl(age) >= 0 => Ttl(age) <= Second * age
ASSUME DurationAssumption

Init ==
  /\ Channel!Init
  /\ pc = [p \in Payers |-> "idle"]
  /\ url = [p \in Payers |-> None]
  /\ gone = {}
  /\ got = [p \in Payers |-> None]
  /\ cache = [u \in Urls |-> None]
  /\ last = [u \in Urls |-> None]
  /\ clock = 0

-----------------------------------------------------------------------------
(* Mutant: invoices are cached, too. *)
EverythingCached(u) == TRUE

(* HandleInvoice has neither the middleware nor an updateCache. *)
Cacheable(u) == u \notin Invoices

(* An item without an end (a negative ttl) or whose end has not passed.    *)
Fresh(item) == item # None /\ (item.ttl < 0 \/ clock <= item.at + item.ttl)

Reply(p, what) ==
  /\ pc' = [pc EXCEPT ![p] = "done"]
  /\ got' = [got EXCEPT ![p] = what]

(* cacheMiddleware: a payer asks and is served from the cache, or goes on  *)
(* to the handler.                                                         *)
Ask(p) ==
  /\ pc[p] = "idle"
  /\ \E u \in Urls :
       /\ url' = [url EXCEPT ![p] = u]
       /\ IF Cacheable(u) /\ Fresh(cache[u])
          THEN Reply(p, cache[u].by)
          ELSE pc' = [pc EXCEPT ![p] = "handler"] /\ UNCHANGED got
  /\ UNCHANGED <<phase, reply, outcome, gone, cache, last, clock>>

(* An amount that does not parse; GetLastUpdated fails, also when the      *)
(* payer has left, or finds no webhook.                                    *)
Refuse(p) ==
  /\ pc[p] = "handler"
  /\ Reply(p, Error)
  /\ UNCHANGED <<phase, reply, outcome, url, gone, cache, last, clock>>

(* GetLastUpdated finds a webhook; SendRequest opens a call.               *)
Send(p) ==
  /\ pc[p] = "handler"
  /\ Channel!Open(p)
  /\ pc' = [pc EXCEPT ![p] = "sent"]
  /\ UNCHANGED <<url, gone, got, cache, last, clock>>

(* The node answers; SendRequest returns, with the answer or without.      *)
NodeAnswers(p) ==
  Channel!Accept(p) /\ UNCHANGED <<pc, url, gone, got, cache, last, clock>>

SendReturns(p) ==
  Channel!Return(p) /\ UNCHANGED <<pc, url, gone, got, cache, last, clock>>

(* Mutants: a node's wish not to cache is not looked at; what is cached    *)
(* stays although the node's newer answer must not be cached.              *)
AnyAge(age) == age # NoAge

MayCache(age) == age # NoAge /\ age > 0

SetOnly(p, age) ==
  cache' = IF MayCache(age)
           THEN [cache EXCEPT ![url[p]] = [by |-> p, at |-> clock, ttl |-> Ttl(age)]]
           ELSE cache

UpdateCache(p, age) ==
  cache' = [cache EXCEPT ![url[p]] =
    IF MayCache(age) THEN [by |-> p, at |-> clock, ttl |-> Ttl(age)] ELSE None]

(* The rest of the handler, after SendRequest. *)
Finish(p) ==
  /\ pc[p] = "sent" /\ phase[p] = "closed"
  /\ IF p \in gone
     THEN pc' = [pc EXCEPT ![p] = "done"] /\ UNCHANGED <<got, cache, last>>
     ELSE IF outcome[p] = Error
     THEN Reply(p, Error) /\ UNCHANGED <<cache, last>>
     ELSE /\ Reply(p, p)
          /\ last' = [last EXCEPT ![url[p]] = p]
          /\ IF Cacheable(url[p]) THEN UpdateCache(p, outcome[p])
                                  ELSE UNCHANGED cache
  /\ UNCHANGED <<phase, reply, outcome, url, gone, clock>>

PayerLeaves(p) ==
  /\ pc[p] \in {"handler", "sent"} /\ p \notin gone
  /\ gone' = gone \cup {p}
  /\ UNCHANGED <<phase, reply, outcome, pc, url, got, cache, last, clock>>

Tick ==
  /\ clock < MaxClock
  /\ clock' = clock + 1
  /\ UNCHANGED <<phase, reply, outcome, pc, url, gone, got, cache, last>>

Next ==
  \/ \E p \in Payers : \/ Ask(p) \/ Refuse(p) \/ Send(p) \/ NodeAnswers(p)
                       \/ SendReturns(p) \/ Finish(p) \/ PayerLeaves(p)
  \/ Tick

Spec == Init /\ [][Next]_vars

-----------------------------------------------------------------------------
(* Properties *)

(* TypeOK: the state has the shape of the Go data structures, and the      *)
(* cache never holds an invoice.                                           *)
TypeOK ==
  /\ phase \in [Payers -> {"new", "open", "closed"}]
  /\ reply \in [Payers -> Answers \cup {None}]
  /\ outcome \in [Payers -> Answers \cup {None, Error}]
  /\ pc \in [Payers -> {"idle", "handler", "sent", "done"}]
  /\ url \in [Payers -> Urls \cup {None}]
  /\ gone \subseteq Payers
  /\ got \in [Payers -> Payers \cup {None, Error}]
  /\ cache \in [Urls -> Entries \cup {None}]
  /\ last \in [Urls -> Payers \cup {None}]
  /\ clock \in 0..MaxClock

(* FreshHit: a payer is served from the cache only what a node allowed to  *)
(* be cached, and for no longer than it allowed, although the lifetime     *)
(* overflows for large max-ages and zero and negative lifetimes mean       *)
(* something else to the cache library (updateCache, line 551).            *)
FreshHit ==
  [][\A p \in Payers : LET q == got'[p] IN
       got[p] = None /\ q \in Payers \ {p} =>
         /\ reply[q] # NoAge
         /\ clock - cache[url[q]].at <= Second * reply[q]]_vars

(* OwnInvoice: no two payers are handed the same invoice, although the     *)
(* routes share the handlers' code and a url, and what a payer is served   *)
(* from the cache was given to a request for the very same url.  That the  *)
(* answers to overlapping calls do not cross is the channel's promise.     *)
OwnInvoice ==
  \A p, q \in Payers :
    /\ got[p] = q => url[p] = url[q] /\ got[q] = q
    /\ p # q /\ url[p] \in Invoices /\ got[p] \in Payers => got[p] # got[q]

(* LatestCached: of overlapping requests for one url the one that finished *)
(* last decides what later payers see: its answer is in the cache or, if   *)
(* it must not be cached, nothing is; an earlier answer never survives it. *)
(* Whether what is in the cache is still served is FreshHit's subject.     *)
LatestCached ==
  \A u \in Urls : LET q == last[u] IN
    /\ cache[u] # None <=> q # None /\ Cacheable(u) /\ MayCache(outcome[q])
    /\ cache[u] # None => cache[u].by = q

=============================================================================
