# Verification of breez-lnurl

TLA+ models of the breez-lnurl server, the TLC runs that check them on small
instances, and TLAPS proofs of their main properties for every instance.
Paths are relative to `src/`.

## The system

The server makes a mobile wallet reachable. A wallet registers a webhook; the
server turns requests of payers and events of Nostr relays into calls of that
webhook. Four parts carry the logic:

| part | state | operations |
|---|---|---|
| callback channel, `channel/` | `pendingRequests`, a mutex, one channel of capacity one per request, a shared generator of ids | `SendRequest` posts to the webhook and waits; `HandleResponse`/`OnResponse` deliver the node's answer |
| registration, `lnurl/pay.go`, `bolt12/offer.go` over `persist/lnurl/` and `dns/` | tables `lnurl_webhooks` and `pubkey_details`; the TXT records of the BIP 353 zone | `Register`, `Unregister` of each router; `CleanupService` |
| NWC forwarding, `nwc/` over `persist/nwc/` | tables `nwc_webhooks`, `nwc_relays`, `nwc_webhooks_relays`, `nwc_forwarded_events`; a subscription per wallet with its forwarder and sender goroutines | `Register`, `Unregister`, `Start`, `forwardToNotify`, `CleanupService` |
| payer requests, `lnurl/pay.go`, and the response cache, `cache/` | cached responses with their lifetimes | `HandleLnurlPay`, `HandleInvoice`, `HandleVerify`, `cacheMiddleware`, `updateCache` |

They interact as follows. Payer requests look a webhook up in the registration
tables and call it through the callback channel. Both registration routers
share `pubkey_details` and the zone; no transaction spans the database and
DNS. NWC handlers write their tables first and change the subscription
afterwards; the forwarders read the tables on their own. The clean-up services
delete rows behind everybody's back.

What is hard, and what correctness means for each part:

* *callback channel*: concurrent handlers, late, early and duplicated posts,
  timeouts and cancellations, an unlocked `rand.Rand`. An answer goes to its
  own request or is refused; nothing panics, leaks or waits for ever.
* *registration*: several calls to two stores that fail separately, and other
  clients in between. The zone publishes the recorded offers, and only under
  names their owners hold.
* *NWC forwarding*: subscriptions are replaced while events are on their way,
  under contexts that get canceled; the process restarts. A wallet has one
  live subscription, a recorded event is not sent again, an event of a
  registered app arrives.
* *payer requests and cache*: overlapping requests for one url, payers who
  leave, lifetimes that overflow. A cached answer is no older than its node
  allowed and gives way to a later one; an invoice is handed to one payer.
* *relays of NWC wallets*: transactions that number shared rows from what they
  have read, in a ring of ten. An app keeps the relays it was last registered with,
  also when the subscriptions are rebuilt from the tables.

## Modules

| module | models |
|---|---|
| `RequestReply` | abstract: what the channel promises its callers |
| `CallbackChannel` | `channel/http_callback_channel.go` |
| `CallbackChannel_proofs` | theorems about it, and that it implements `RequestReply` |
| `LnurlRegistry` | both registration routers, `persist/lnurl/pg.go`, `dns/dns.go`, the LNURL clean-up |
| `LnurlRegistry_proofs` | theorems about names: who holds one, who publishes under it |
| `RegistryZone_proofs` | theorems about offers: what the database and the zone say of each other |
| `AddressBook` | abstract: what registration promises to clients and to those who pay them |
| `RegistryHistory` | `LnurlRegistry` with what clients were told, whose offer was lost and where a record was left behind; implements `AddressBook` |
| `RegistryHistory_proofs` | theorems about it |
| `NostrManager` | `nwc/manager.go`, `nwc/router.go`, `persist/nwc/pg.go`, the NWC clean-up |
| `NostrManager_proofs` | theorems about it |
| `NostrDelivery_proofs` | the theorem that it loses no event |
| `PayerRequests` | `HandleLnurlPay`, `HandleVerify`, `HandleInvoice`, `cacheMiddleware`, `updateCache` of `lnurl/pay.go`, and `cache/cache.go`, over `RequestReply` |
| `PayerRequests_proofs` | theorems about it |
| `NwcRelays` | the relay tables of `persist/nwc/pg.go`, and the relays the subscriptions of `nwc/manager.go` listen to |
| `NwcRelays_proofs` | theorems about it |
| `MC*` | constants and symmetry of the TLC runs |

`PROJECT.json` maps every definition to its lines.

**CallbackChannel.** A member of `Requests` is one call of `SendRequest`, a
member of `Posts` one call of `HandleResponse`. `pc` follows the code: drawing
the id, registering under the mutex, `Do`, the select, the deferred function.
Critical sections that only touch the map are one step; `OnResponse` is two
(`Lookup`, `Deliver`), because its send could block while it holds the mutex.
The context may be canceled at any moment, the webhook may fail at any moment,
also after the node has posted, and `select` chooses freely among ready arms.
Ids come from a shared `rand.Rand` without a lock (line 67): with `RacyDraws`
two overlapping draws may return one number or panic; without it every draw is
a number not seen before, which stands for a 64-bit random number.

**LnurlRegistry.** Each worker is an HTTP handler; each call to the database or
to DNS is a step. `last` is the copy of the row that the handler read first and
keeps deciding on. The names are spelled as the client spells them, `Lower` is
`strings.ToLower`. A DNS update or a query may fail before or after it took
effect. `AfterStore` and `AfterPublishError` hold the differences between the
two routers. `Crash` ends every handler between two calls and leaves the
stores as they are. `OnePerPubkey` says that a client sends a request only after it
has the answer to the previous one. Signature checks, replies, and which of a
pubkey's rows is the newest are left out.

**RegistryHistory.** What the registry promises under faults and crashes is
weaker than "the zone shows the recorded offers", and it speaks of many
requests. This module adds variables that only watch: each of its steps is a
step of `LnurlRegistry` with an update of the history conjoined
(`HistorySteps`), so that what is proved of the one holds of the other.
`promised` is the username last confirmed to a client that has not asked since;
with it the registry can be compared with `AddressBook`, in which a username
changes hands in one step. `spoiled` and `littered` remember, for a pubkey and
for a username, that one of a few named events has happened since the last
successful publication or removal:

| event | `spoiled`: recorded, not published | `littered`: published, not recorded |
|---|---|---|
| a crash midway | the handler's pubkey | the name whose moved offer was not removed yet, and the name of an offer that was not recorded yet |
| a claim that took effect and is reported as failed, or a failed insert after a move | the handler's pubkey | the name of the offer that it overwrote or moved |
| a claim by a handler that did not find the recorded offer, or that replaces the offer of a name it keeps | | that name |
| `dns.Remove` of a name that another client has taken up | the other client | (it clears the name) |
| `dns.Remove` that fails | | the name, if records are left |
| `dns.Set` that fails | the pubkey, for LNURL | the name |
| the last write refused or failed | the pubkey, if its offer is not as intended | the name, if its offer is not recorded |

The properties say that this list is complete.

**NostrManager.** A subscription is named by its wallet and a number; `details`
says whose `SubscriptionDetails` object it uses, since `RemoveSubscription`
passes the old object on to the next subscription and the old forwarder still
reads it. The forwarder's two queries and the sender's post and record are
separate steps, all under the subscription's context. `Delete` compares the
text of the keys with the stored bytes and so deletes nothing; the model keeps
both encodings apart. A relay resends what it stores to each new subscription
and the pool hands an event to a subscription once (external). `Stop` has no
caller in the program and is left out; which relays a subscription listens to
is the subject of `NwcRelays`.

**PayerRequests.** A member of `Payers` is one GET request. The channel is
taken at its word: `PayerRequests` instantiates `RequestReply`, which
`CallbackChannel` is proved to implement, and its steps `Open`, `Accept` and
`Return` are the payer's call. A node's answer is the max-age it came with;
its body is named after the payer it was given to, so `got[p] = q` says whose
answer `p` was sent. `Ttl` multiplies as Go does on 64 bits (`HalfRange`) and
replaces zero by the cache's own ttl; a negative ttl never ends. These are the
cache library's rules (external). `Cacheable` is the difference between the
routes. `Reply` is also the reply of every error path, `Finish` what comes after
`SendRequest`: nothing for a payer who left, `unavailable` for an error, else
`updateCache` and the body. Which webhook `GetLastUpdated` finds is left out.

**NwcRelays.** `Set` is an open transaction at read committed: `job[h]` holds
what it has written, `Seen` what it sees, and the guards of `AddRelay` are
PostgreSQL's row and key share locks and its wait on an equal url. A statement
that waits may also fail (`Rollback`): that stands for the unique index on
`url`, for a deadlock that is broken, for any other error and for a client who
leaves. `byUrl` is the map of `getRelaysByUrl`, which keeps the url of a row
that has been overwritten. `Unregister` leaves the tables alone, as `Delete`
does. `Restart` loses memory and open transactions and rebuilds the
subscriptions from the tables. Three history variables watch: `latest`, the
relays of an app's last registration; `asked`, those of all its registrations;
`wanted`, those its subscription was last made for. `Set` deletes no links, so
the relays that are stored for an app are `asked`, although the repository
says that a registration overwrites the one before (`relays_overwritten`).
What is required of the code is therefore stated with `latest`; `asked` only
bounds what may be there.

## Runs

| run | asks | bounds | states |
|---|---|---|---|
| `channel` | one reply per request, its own, kept until it gives up; implements `RequestReply` | 3 requests, 2 posts, 3 ids, 2 bodies | 33 k |
| `channel_racy` | no double close, no leak, whoever holds the mutex can send, every wait and every post ends, also when ids collide | 2 of each | 163 k |
| `registry_sequential` | recorded offers are published, and unlittered names show nothing else, with all four operations, expiry, and DNS faults of BOLT 12 requests | 1 handler, 2 pubkeys, names `A`, `a`, `b`, 2 urls, 2 offers | 444 k |
| `registry_concurrent` | implements `AddressBook`; a confirmed registration holds its name; only the holder adds a record; an offer is published unless spoiled, a record is an offer's unless littered: with every fault and crashes | 2 handlers, 1 offer | 7.6 M |
| `name_reverted` | *violated*, see below | 1 handler | |
| `nwc` | one live subscription, settled events stay settled, unregistered apps get nothing new | 1 wallet, 2 apps, 1 event, 2 handlers, 3 subscriptions opened | 2.4 M |
| `nwc_live` | an event of a registered app is never lost, and arrives | 1 handler, crashes | 234 k |
| `nwc_twice`, `nwc_undeleted` | *violated*, see below | 1 handler | |
| `payers` | cached answers are fresh, and the cache holds what the last finished request left; an invoice is nobody else's | 3 payers, 1 cached url, 1 invoice url, max-ages none, -1, 0, 1, 4, 8, clock to 6 | 4.0 M |
| `relays` | an app keeps the relays of its last registration, in the tables and in its subscription, and gets none it never asked for | 3 apps of 2 wallets, 3 relays, ring of 3, 2 handlers, one `Set` at a time | 1.6 M |
| `relays_overwritten` | *violated*, see below | 1 handler | |

Why these bounds are enough to be interesting: three requests over three ids
make reuse, an unknown id and a shared id happen; two posts make duplicates
and races with the deferred function. Two pubkeys compete for a username and
two spellings of one name meet; two offers make replacement differ from
removal; two handlers interleave at every call. `MaxOpens = 3` lets an event
be on its way in one subscription while a second replaces it and a restart
opens a third; it is a cap on a counter, not on the code, and the reason why
the NWC runs do not check deadlock (a run that has used its subscriptions up
stops). In the channel's runs each call happens once, so they stop too. The
registry's handlers run for ever and their runs check deadlock; so does
`relays`. In `payers` a payer asks once. A second has 4 ticks and a duration 5
bits there, so that of the max-ages 4 wraps to a negative and 8 to a zero
duration; in 64 bits that takes a max-age of 292 years, and
`DurationAssumption` states what the scaling preserves: such an answer does
not outlive its max-age within the clock's bound `MaxClock`. Three payers let
one cache, one overwrite or withdraw, and one be served in between. In
`relays` the two lists share a relay, and the relays just fill the ring.

Symmetry is used in safety runs only.

### Fairness

`CallbackChannel!Fairness`: a goroutine that can run does, the 30 s timer
fires, `Do` returns once its context is canceled, and the mutex is obtained
once it stays free. Nothing makes `Do` return otherwise: `http.DefaultClient`
has no timeout, so `WaitEnds` speaks of calls in the select and of calls whose
payer has left. No poster and no draw is obliged to do anything.

`NostrManager!Fairness`: goroutines run, relays deliver what they hold to a
subscription that listens, a process that died is started again. Handlers are
not obliged to start. `EventForwarded`, like `NothingDropped`, is checked with queries and webhooks
that work, since the code retries nothing.

### What the violated runs show

Each is a disagreement between the code and something the repository says;
`PROJECT.json` quotes both.

1. `name_reverted`: dropping the offer while changing the username stores the
   old username again (`lnurl/pay.go:290`).
2. `nwc_twice`: the record of a forwarded event is written under a context
   that a registration may have canceled (`nwc/manager.go:174`).
3. `nwc_undeleted`: `Delete` compares text with bytes (`persist/nwc/pg.go:213`).
4. `relays_overwritten`: a registration with other relays adds links and deletes
   none (`persist/nwc/pg.go:78`), where `nwc/router.go:55` speaks of overwriting
   and `nwc_test.go` expects the one new relay. The test passes because it runs
   on the in-memory store.

### Where the passing runs need their constants

Some properties hold only because of a constant that the code does not
enforce. Changing it in the named configuration gives a counterexample:

* `RacyDraws = TRUE` in `channel`: two requests draw one id, the second
  replaces the first in the map, and the first node's reply is returned to the
  second payer (`MatchedResponse`; `channel/http_callback_channel.go:67`).
* `DnsFaults <- Operations` in `registry_sequential`: after a failed `dns.Set` the
  LNURL router leaves an offer recorded that nothing publishes
  (`OfferPublished`; `lnurl/pay.go:278`). The BOLT 12 router takes it back.
* `Crashes = TRUE` in `registry_sequential`: a process that dies between the
  claim and the DNS update leaves an offer recorded and unpublished, and a
  client that repeats its request is told `ok`, because no change is detected
  (`OfferPublished`; `bolt12/offer.go:190`).
* `OnePerPubkey = FALSE` in `registry_concurrent`: a client's second request
  undoes what the first goes on to rely on. It moves the client to another
  name, someone else claims the old one, and the first handler publishes under
  it (`OnlyHolderPublishes`, `ConfirmedNameHeld`; `lnurl/pay.go:274`). Or it
  unregisters between the first one's `dns.Set` and its last write, or the
  first publishes between the second's `dns.Remove` and its last write
  (`PublishedUnlessSpoiled`, `ClearUnlessLittered`). In the same way an offer
  read at `lnurl/pay.go:224` may be stale when it is written back.
  No run and no theorem speaks of such clients. What the runs show of
  interleavings is that no *other* client can take a name in between.
* The stray records of `RegistryHistory`'s table are real: an LNURL registration
  looks the last offer up through the webhooks, forgets a BOLT 12 offer and
  leaves its record (`lnurl/pay.go:224`, `:285`); a BOLT 12 registration that
  replaces an offer calls `dns.Set` without `dns.Remove`
  (`bolt12/offer.go:193`). With LNURL requests alone and without faults
  nothing is ever littered; for that case `NoStrayRecord` is proved.
* `MaxRelays = 2` in `relays`: a relay more than the ring has rows takes the
  row of another, whose apps are then linked to the wrong relay
  (`RelaysKept`, `Listening`; `persist/nwc/pg.go:64`).
* `Overlap = TRUE` in `relays`: two registrations that have both read the
  tables give two new relays the same id, and the later one overwrites the
  row of the first (`RelaysKept`, `Listening`; `persist/nwc/pg.go:56`). So the run says
  nothing of these two hazards; it shows that the numbering works where they
  do not bite, with mixed lists, rollbacks, clean-ups and restarts.
* `SettledStays` holds as long as the record of an event does. The clean-up
  deletes records after seven days, and a relay that keeps the event for longer
  has it forwarded again (`persist/nwc/cleanup.go:41`).

`ClearUnlessLittered` and `PublishedUnlessSpoiled` need none of them but
`OnePerPubkey`: they are proved under every fault. With
`Expiry = TRUE`, `registry_concurrent` passes as well (10.4 M states), but takes
close to five minutes; expiry is in `registry_sequential`.

This is why the registry has several passing runs: each property is checked
with all the operations, faults and interleavings it withstands.

## Proofs

`CallbackChannel_proofs`, from the assumptions that the sentinels are distinct
from the data, for any sets of requests, posts, ids and responses:

* `Typed` makes `TypeOK` inductive: past its draw a request has an id, and a
  post between `Lookup` and `Deliver` holds the mutex and has found a request.
* `Safe` adds `Owned` (a registered id belongs to a live request that drew it,
  whose channel is open and empty) and `Fresh`. `NoPanic` needs exactly that:
  whoever deletes and closes finds an open channel, because closing and
  deleting are one critical section. It gives `PanicFree` and `LeakFree`,
  also when draws race.
* `Keeper` says that the mutex, held across steps, is held by a post whose send
  is next. With `Safe` that send finds an open channel with room (`NoDeadlock`), so
  that no post is parked with the mutex in hand, also when draws race.
* `Exact` adds what needs ids that never repeat: `Distinct`, `Unfinished`,
  `Spent`, `Backed`, `Served`, `Returned`. From it follow `Matched`,
  `AnsweredOnce`, `AcceptedKept`, `Refused`, and `Implements`: every step is a
  step of `RequestReply` or leaves its variables alone.

`LnurlRegistry_proofs`, for any clients, names, offers and workers, with every
fault, expiry and crashes, from `RegistryAssumption` (`Lower` is idempotent, the
sentinel is no datum):

* `Typed` adds to `TypeOK` that an offer never stands without a username and
  what a handler knows at each step (`InFlight`): a name to publish, a
  username to remove. It gives `TypeCorrect`.
* `Claims` adds that from its claim on a handler's pubkey holds the claimed
  name: nobody else can take it (the unique index), and its own client has no
  second request in flight (`OnePerPubkey`, which the theorems assume). It holds
  up to the answer, but for a registration that is `Reverted` (`name_reverted`).
  It gives `HolderPublishes` and `NameKept`.

`RegistryZone_proofs`, in two parts, each from the assumptions under which it
holds (see the constants above):

* `OneAtATime`: one handler, no failing queries or crashes; DNS may fail for the
  BOLT 12 router and webhooks expire. `Zone` says that usernames are unique,
  that every client's offer is published but for the one whose handler is
  between its first and its last write, and what that handler may rely on:
  nobody else holds the name it removes, and the offer it carries over or
  records is in the zone. It gives `DatabaseIsPublished`.
* `LnurlAlone`: any number of LNURL handlers, one for each client, without
  faults or expiry. `Current` says that what a handler read is still so when it
  first writes, `NoHookNoOffer` that a client without webhooks has no offer (so
  that reading through the webhooks misses none), and `Explained` gives each
  record its reason: it is recorded, about to be recorded, or its name is about
  to be removed. A step disturbs only its own client's reasons (`OwnStep`). It
  gives `NothingStray`, the only property that is proved and has no run:
  in `registry_concurrent` it is `ClearUnlessLittered` with nothing littered.
  `NoRowAssumption` is needed because
  a handler decides on whether it found a row.

`RegistryHistory_proofs`, for any clients, names, offers and workers, with every
fault, expiry and crashes, one request in flight for each client. All three
parts rest on `Claims`.

* `History`: a client that no handler is amidst of has its offer published or
  is spoiled (`Published`). A handler before its first DNS update has not lost
  it unless it moved it, what it read is what is stored until its claim, and
  what it is about to record has been added. `OwnStep` confines a step to its
  own client's part; that `Unpublish` may take another's record is why the
  history names the clients it bereaves. It gives `PublishedOrSpoiled`.
* `Promises`: nothing is promised to a client with a request in flight. So a
  row changes only for a client that asked (`RowTaken`), and every step is a
  step of `AddressBook` or leaves its variables alone (`StepBook`): `Start` is
  `Ask`, `Return` of a confirmed registration `Promise`, `Claim` and the last
  write `Take`, the DNS updates `Publish` and `Clear`. It gives `ImplementsBook`,
  and through the abstract specification's own invariant `ConfirmedStays`.
* `LitterInv`: each record under an unlittered name is `Explained`. Its client
  has it recorded and no handler is about to change that (`Unsettled`), or a
  handler is about to record or to remove it (`InHand`). `Known` says what a
  handler knows of the recorded offer when it decides. `ExplainStep` shows
  that the step of a handler has only its own explanations to keep. It gives
  `ClearOrLittered`.

`PayerRequests_proofs`, for any payers, urls and max-ages, from
`PayerAssumption` and `DurationAssumption`:

* `Calls` says what a payer's step tells about its call, `Answered` that what
  a payer was sent was the answer to a payer of the same url who got it as its
  own, `Cached` that a cached answer is the last one delivered for its url, is
  allowed to be cached and has the lifetime `Ttl` computes. They are inductive
  together with `TypeOK`. `Cached` is needed because a hit reads only the
  cache: everything the properties say of the call behind it must survive
  there. `Filled` is the converse: the last answer is in the cache
  unless it must not be. They give `InvoiceOwned`, `LatestKept` and, with the
  assumption on durations, `HitsFresh`. That the answers of overlapping calls
  do not cross is not proved here: it is `RequestReply`'s promise, which
  `CallbackChannel` keeps (`Implements`).

`NostrManager_proofs`, for any wallets, apps, events and handlers, any bound on
the subscriptions and every fault, crash and clean-up, from `NostrAssumption`:

* `Entries` makes `OneSubscription` inductive: an entry of `nm.subs` is live, is
  its own wallet's, and was opened already, so that the next one is new.
* `Objects` is needed because details objects are shared: one belongs to the
  wallet of all who use it and is no newer than they are. So removing an app
  from it cannot empty another wallet's, nor a new one be a used one.
* `Busy` says that the author of the event a forwarder holds is subscribed
  unless the subscription was canceled: while it is live, its apps only grow.

They give `OneIsLive`, `HasSubscriber`, `OnlySubscribers` and `OthersKept`.
`StaysSettled` follows step by step: only `Check` leads to `Lookup`, and it has
seen that there is no record.

`NostrDelivery_proofs`, on top of those invariants: `Fresh` says that a
subscription which was not opened yet was handed nothing, and `Delivered` that
what is recorded, or about to be, has reached the webhook. With them
`NothingDropped` is inductive: an event of a served author that was not sent is
with a goroutine of the current subscription, or still to be handed to it, and
a new subscription starts with all events before it. It gives `NoneDropped`,
from the same constants as the run (queries and webhooks work).

`NwcRelays_proofs`, for any apps, wallets, relay lists and handlers, from
`RelaysAssumption` and `RingSuffices`: there are finitely many relays, no more
than the ring has rows, and one `Set` is open at a time. Without either
`RelaysKept` and `Listening` are false (see the constants above), so the
theorems say nothing of those hazards.

* `Ring` is the key: the used rows are the first n, and no url is in two. Then
  the size of the map read by `getRelaysByUrl` is n, and a relay that is not in
  it leaves, by counting, a row beyond them free (`RingGrows`).
* `Transaction` carries that through a `Set`: it has overwritten no row, its map
  is what it sees, and what it has linked with what is left of its list is what
  was asked for. `Tables` says so of the committed rows, and that an app
  asked for its last relays.
* `Subscribed` says that an app that is not subscribed wants nothing.

They give `TypeCorrect`, `KeepsItsRelays` and `AllHeard`.

Every safety property that a passing run checks is proved. Only model-checked
are the liveness properties `WaitEnds`, `PosterAnswered` and `EventForwarded`,
which are out of the prover's reach; `HolderCanSend` and `NothingDropped` are
the safety they rest on. The theorems' hypotheses are needed: the constants
listed above give counterexamples to the properties without them. The one
exception is `TypeCorrect` of `NwcRelays_proofs`: TLC finds the tables' keys and
references kept with `Overlap` and with `MaxRelays = 2` as well.

## Not modelled

The in-memory stores, which are test doubles; signatures, JSON, LNURL
encoding; wiring and configuration; `Recover` and `GetRelays`, which change
nothing. Timers are abstracted to "at any time". The memory of the cache,
whose expired items nothing removes, and the age of webhooks are left out.

Six hazards of `PROJECT.json` have no property, each with its reason. Three are
outside the model: the memory of the cache, the unguarded read of the map of
apps, a subscription whose channel the pool closes. Three are in it, and the
code does nothing about them, so that no property holds: the relay ring that
wraps around, two `Set`s that pick the same row, a `Start` whose query fails.

## Plan

Done, in this order:

1. `CallbackChannel` with `RequestReply`, its runs and proofs.
2. `LnurlRegistry`, its runs and proofs, with crashes of the server; names
   first, then the zone.
3. `NostrManager`, its runs and proofs.
4. `PayerRequests` over `RequestReply`, its run and proofs.
5. `NwcRelays`, its run and proofs.

6. `AddressBook` and `RegistryHistory`: what registration
   promises over many requests, with its runs and proofs.

Left:

7. What a repeated registration mends: which of the named events the client's
   next request undoes, for each router.
8. An abstract specification of event forwarding that `NostrManager`
   implements, as `RequestReply` is for the channel.
