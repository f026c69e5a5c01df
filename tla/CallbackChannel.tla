--------------------------- MODULE CallbackChannel ---------------------------
(***************************************************************************)
(* HttpCallbackChannel (channel/http_callback_channel.go): every request   *)
(* the server has for a mobile node is posted to the node's webhook with a *)
(* reply URL that holds a random id; the node answers by a second POST to  *)
(* that URL.  SendRequest parks the caller on a channel of capacity one,   *)
(* OnResponse looks the id up under the mutex and fills that channel.      *)
(*                                                                         *)
(* A member of Requests is one call of SendRequest, a member of Posts one  *)
(* call of HandleResponse.  The random ids come from an unlocked rand.Rand *)
(* (line 67), a data race: RacyDraws says whether two overlapping draws    *)
(* may return the same number or panic, which they may in the real build.  *)
(***************************************************************************)
CONSTANTS Requests,   \* calls of SendRequest
          Posts,      \* calls of HandleResponse
          Ids,        \* values of random.Uint64()
          Responses,  \* values of CallbackResponse a node may send
          RacyDraws,  \* do overlapping draws of an id race?
          None,       \* no value
          Zero,       \* the zero CallbackResponse, read from a closed channel
          Error       \* SendRequest returned an error

ASSUME RacyDrawsAssumption == RacyDraws \in BOOLEAN

ASSUME SentinelsAssumption ==
  /\ None \notin Requests \cup Posts \cup Ids \cup Responses \cup {Zero, Error}
  /\ Zero \notin Responses /\ Error \notin Responses /\ Zero # Error
  /\ Requests \cap Posts = {}

VARIABLES
  pc,        \* where each SendRequest is
  reqId,     \* the id it drew
  canceled,  \* requests whose context is done
  result,    \* what it returns
  pending,   \* pendingRequests: the request each id stands for
  inbox,     \* buffer of each request's response channel
  closed,    \* requests whose response channel is closed
  lock,      \* holder of the mutex
  postPc,    \* where each HandleResponse is
  postId,    \* the id in its URL
  postBody   \* the response it carries

reqVars  == <<pc, reqId, canceled, result>>
chanVars == <<pending, inbox, closed, lock>>
postVars == <<postPc, postId, postBody>>
vars     == <<pc, reqId, canceled, result, pending, inbox, closed, lock,
              postPc, postId, postBody>>

(* "doing" is inside httpClient.Do, "waiting" in the select, "leaving" in  *)
(* the deferred function.                                                  *)
RequestPcs == {"idle", "drawn", "doing", "waiting", "leaving", "done", "panic"}
PostPcs    == {"idle", "parsed", "sending", "ok", "refused", "panic"}

Init ==
  /\ pc       = [r \in Requests |-> "idle"]
  /\ reqId    = [r \in Requests |-> None]
  /\ canceled = {}
  /\ result   = [r \in Requests |-> None]
  /\ pending  = [i \in Ids |-> None]
  /\ inbox    = [r \in Requests |-> None]
  /\ closed   = {}
  /\ lock     = None
  /\ postPc   = [p \in Posts |-> "idle"]
  /\ postId   = [p \in Posts |-> None]
  /\ postBody = [p \in Posts |-> None]

Live(r) == pc[r] \in {"doing", "waiting", "leaving"}

-----------------------------------------------------------------------------
(* SendRequest *)

(* The ids a draw of r may return: a number never drawn before or, when    *)
(* draws race, the number of a request that has drawn and not yet          *)
(* registered.                                                             *)
Overlaps(r) == {q \in Requests \ {r} : pc[q] = "drawn"}

(* Mutant: the generator is seeded anew for each call. *)
SeededDraws(r) == Ids

Draws(r) ==
  (Ids \ {reqId[q] : q \in Requests})
    \cup (IF RacyDraws THEN {reqId[q] : q \in Overlaps(r)} ELSE {})

DrawId(r) ==
  /\ pc[r] = "idle"
  /\ \E i \in Draws(r) : reqId' = [reqId EXCEPT ![r] = i]
  /\ pc' = [pc EXCEPT ![r] = "drawn"]
  /\ UNCHANGED <<canceled, result, chanVars, postVars>>

(* A race on the generator's indices: net/http recovers the panic, nothing *)
(* has been registered yet.                                                *)
DrawPanics(r) ==
  /\ pc[r] = "idle"
  /\ RacyDraws /\ Overlaps(r) # {}
  /\ pc' = [pc EXCEPT ![r] = "done"]
  /\ result' = [result EXCEPT ![r] = Error]
  /\ UNCHANGED <<reqId, canceled, chanVars, postVars>>

(* Mutant: the request is not registered before the webhook is called. *)
AddNothing(r) ==
  /\ pc[r] = "drawn" /\ lock = None
  /\ pc' = [pc EXCEPT ![r] = "doing"]
  /\ UNCHANGED <<reqId, canceled, result, chanVars, postVars>>

AddPending(r) ==
  /\ pc[r] = "drawn"
  /\ lock = None
  /\ pending' = [pending EXCEPT ![reqId[r]] = r]
  /\ pc' = [pc EXCEPT ![r] = "doing"]
  /\ UNCHANGED <<reqId, canceled, result, inbox, closed, lock, postVars>>

WebhookAccepts(r) ==
  /\ pc[r] = "doing"
  /\ pc' = [pc EXCEPT ![r] = "waiting"]
  /\ UNCHANGED <<reqId, canceled, result, chanVars, postVars>>

Finish(r, value) ==
  /\ pc' = [pc EXCEPT ![r] = "leaving"]
  /\ result' = [result EXCEPT ![r] = value]

(* NewRequest or Do fails, a done context included, or the status is not   *)
(* 200.  The node may have posted its reply by then.                       *)
WebhookFails(r) ==
  /\ pc[r] = "doing"
  /\ Finish(r, Error)
  /\ UNCHANGED <<reqId, canceled, chanVars, postVars>>

(* The receive arm of the select: the buffered response or, once the       *)
(* channel is closed and empty, the zero value.                            *)
ReceiveResponse(r) ==
  /\ pc[r] = "waiting"
  /\ inbox[r] # None \/ r \in closed
  /\ Finish(r, IF inbox[r] # None THEN inbox[r] ELSE Zero)
  /\ inbox' = [inbox EXCEPT ![r] = None]
  /\ UNCHANGED <<reqId, canceled, pending, closed, lock, postVars>>

(* select picks any ready arm, so a response that is there may be lost.    *)
SelectCanceled(r) ==
  /\ pc[r] = "waiting"
  /\ r \in canceled
  /\ Finish(r, Error)
  /\ UNCHANGED <<reqId, canceled, chanVars, postVars>>

SelectTimeout(r) ==
  /\ pc[r] = "waiting"
  /\ Finish(r, Error)
  /\ UNCHANGED <<reqId, canceled, chanVars, postVars>>

(* The payer goes away: net/http cancels the request's context.            *)
ClientCancels(r) ==
  /\ pc[r] \in {"drawn", "doing", "waiting"}
  /\ canceled' = canceled \cup {r}
  /\ UNCHANGED <<pc, reqId, result, chanVars, postVars>>

(* Mutants: close what the map holds after the delete; close without the   *)
(* delete; neither of the two.                                             *)
DeleteThenClose(i) ==
  pending' = [pending EXCEPT ![i] = None] /\ closed' = closed \cup {pending'[i]}
CloseOnly(i) == closed' = closed \cup {pending[i]} /\ UNCHANGED pending
KeepOpen(i)  == UNCHANGED <<pending, closed>>

(* deleteRequestAndClose on the request registered under id i.             *)
DeleteAndClose(i) ==
  /\ pending' = [pending EXCEPT ![i] = None]
  /\ closed' = closed \cup {pending[i]}

(* Mutant: no entry is ever found. *)
NoCleanup(i) == FALSE

Registered(i) == pending[i] # None

(* The deferred function removes whatever is registered under the id.  A   *)
(* second close panics, and this function has no deferred unlock.          *)
Leave(r) ==
  /\ pc[r] = "leaving"
  /\ lock = None
  /\ IF ~Registered(reqId[r])
     THEN pc' = [pc EXCEPT ![r] = "done"] /\ UNCHANGED chanVars
     ELSE IF pending[reqId[r]] \in closed
     THEN /\ pc' = [pc EXCEPT ![r] = "panic"]
          /\ lock' = r
          /\ pending' = [pending EXCEPT ![reqId[r]] = None]
          /\ UNCHANGED <<inbox, closed>>
     ELSE /\ pc' = [pc EXCEPT ![r] = "done"]
          /\ DeleteAndClose(reqId[r])
          /\ UNCHANGED <<inbox, lock>>
  /\ UNCHANGED <<reqId, canceled, result, postVars>>

-----------------------------------------------------------------------------
(* HandleResponse and OnResponse *)

(* Any client may post any id and any body; an unparsable one is refused.  *)
HandleResponse(p) ==
  /\ postPc[p] = "idle"
  /\ \/ \E i \in Ids, b \in Responses :
          /\ postPc' = [postPc EXCEPT ![p] = "parsed"]
          /\ postId' = [postId EXCEPT ![p] = i]
          /\ postBody' = [postBody EXCEPT ![p] = b]
     \/ /\ postPc' = [postPc EXCEPT ![p] = "refused"]
        /\ UNCHANGED <<postId, postBody>>
  /\ UNCHANGED <<reqVars, chanVars>>

(* Take the mutex and look the id up; "unknown request id" releases it.    *)
Lookup(p) ==
  /\ postPc[p] = "parsed"
  /\ lock = None
  /\ IF ~Registered(postId[p])
     THEN /\ postPc' = [postPc EXCEPT ![p] = "refused"]
          /\ UNCHANGED lock
     ELSE /\ postPc' = [postPc EXCEPT ![p] = "sending"]
          /\ lock' = p
  /\ UNCHANGED <<reqVars, pending, inbox, closed, postId, postBody>>

(* Mutant: the response channel has no buffer. *)
Unbuffered(r) == inbox[r] = None /\ pc[r] = "waiting"

(* A send on a channel of capacity one waits until the buffer is empty.    *)
CanSend(r) == inbox[r] = None

(* Mutant: the response is dropped unless the request is in its select. *)
SentIfWaiting(r, b) == IF pc[r] = "waiting" THEN [inbox EXCEPT ![r] = b] ELSE inbox

Sent(r, b) == [inbox EXCEPT ![r] = b]

(* Send, delete, close and the deferred unlock.  A send on a closed        *)
(* channel panics; the deferred unlock still runs.                         *)
Deliver(p) ==
  /\ postPc[p] = "sending"
  /\ LET r == pending[postId[p]] IN
     IF r \in closed
     THEN /\ postPc' = [postPc EXCEPT ![p] = "panic"]
          /\ UNCHANGED <<pending, inbox, closed>>
     ELSE /\ CanSend(r)
          /\ inbox' = Sent(r, postBody[p])
          /\ DeleteAndClose(postId[p])
          /\ postPc' = [postPc EXCEPT ![p] = "ok"]
  /\ lock' = None
  /\ UNCHANGED <<reqVars, postId, postBody>>

-----------------------------------------------------------------------------
Next ==
  \/ \E r \in Requests : \/ DrawId(r) \/ DrawPanics(r) \/ AddPending(r)
                         \/ WebhookAccepts(r) \/ WebhookFails(r)
                         \/ ReceiveResponse(r) \/ SelectCanceled(r)
                         \/ SelectTimeout(r) \/ ClientCancels(r) \/ Leave(r)
  \/ \E p \in Posts : HandleResponse(p) \/ Lookup(p) \/ Deliver(p)

Spec == Init /\ [][Next]_vars

(* Go's scheduler and the 30 s timer: a runnable goroutine runs, the timer *)
(* fires, Do returns once its context is done, and a waiter gets the mutex *)
(* once it stays free.  http.DefaultClient has no timeout of its own, so   *)
(* nothing else makes Do return.                                           *)
Fairness ==
  /\ \A r \in Requests :
       /\ WF_vars(AddPending(r)) /\ WF_vars(Leave(r))
       /\ WF_vars(SelectTimeout(r))
       /\ WF_vars(r \in canceled /\ WebhookFails(r))
  /\ \A p \in Posts : WF_vars(Lookup(p)) /\ WF_vars(Deliver(p))

LiveSpec == Spec /\ Fairness

-----------------------------------------------------------------------------
(* Properties *)

(* TypeOK: the state has the shape of the Go data structures.              *)
TypeOK ==
  /\ pc \in [Requests -> RequestPcs]
  /\ reqId \in [Requests -> Ids \cup {None}]
  /\ canceled \subseteq Requests
  /\ result \in [Requests -> Responses \cup {None, Zero, Error}]
  /\ pending \in [Ids -> Requests \cup {None}]
  /\ inbox \in [Requests -> Responses \cup {None}]
  /\ closed \subseteq Requests
  /\ lock \in Requests \cup Posts \cup {None}
  /\ postPc \in [Posts -> PostPcs]
  /\ postId \in [Posts -> Ids \cup {None}]
  /\ postBody \in [Posts -> Responses \cup {None}]

(* NoPanic: no response channel is closed twice or sent to after its       *)
(* close, although SendRequest's deferred function and OnResponse both     *)
(* delete and close (lines 82-90 and 116-127) and an id may be shared.     *)
NoPanic ==
  /\ \A r \in Requests : pc[r] # "panic"
  /\ \A p \in Posts : postPc[p] # "panic"

Answered(p, r) ==
  postPc[p] = "ok" /\ reqId[r] # None /\ postId[p] = reqId[r]

(* MatchedResponse: what SendRequest returns as a response was posted to   *)
(* this very request's reply URL and that post was acknowledged; the zero  *)
(* value of a closed channel is never returned as a success (line 107).    *)
MatchedResponse ==
  /\ \A r \in Requests : result[r] \notin {None, Error} =>
       \E p \in Posts : Answered(p, r) /\ postBody[p] = result[r]
  /\ \A q, r \in Requests :
       q # r /\ result[q] \notin {None, Error} /\ result[r] \notin {None, Error}
         => reqId[q] # reqId[r]

(* OneAnswerPerRequest: of the posts to one reply URL at most one is       *)
(* acknowledged with 200, whatever the order of posts, timeouts and        *)
(* cancellations.                                                          *)
OneAnswerPerRequest ==
  \A o, p \in Posts :
    o # p /\ postPc[o] = "ok" /\ postPc[p] = "ok" => postId[o] # postId[p]

(* AcceptedIsKept: an acknowledged response is there for its request to    *)
(* read for as long as that request has not given up, also when it came    *)
(* before Do returned.                                                     *)
AcceptedIsKept ==
  \A p \in Posts, r \in Requests :
    Answered(p, r) /\ pc[r] \in {"doing", "waiting"} => inbox[r] = postBody[p]

(* NoLeak: a registered id belongs to a call that will still run its       *)
(* deferred function: finished requests leave nothing in the map.          *)
NoLeak ==
  \A i \in Ids : pending[i] # None => Live(pending[i]) /\ reqId[pending[i]] = i

(* HolderCanSend: whoever keeps the mutex over a step is a post whose send *)
(* finds an open channel with room, so the mutex is never held for good:   *)
(* not by a second answer to one request, by a request that has gone, nor  *)
(* by a panic in the deferred function, which has no deferred unlock.      *)
HolderCanSend ==
  lock # None =>
    \E p \in Posts :
      /\ lock = p /\ postPc[p] = "sending"
      /\ Registered(postId[p])
      /\ LET r == pending[postId[p]] IN r \notin closed /\ CanSend(r)

(* LiveNotRefused: a post is turned away as unknown only if its id has no  *)
(* request that could still use an answer.                                 *)
LiveNotRefused ==
  [][\A p \in Posts, r \in Requests :
       Lookup(p) /\ postPc'[p] = "refused" /\ reqId[r] = postId[p]
         /\ pc[r] \in {"doing", "waiting"}
       => \E o \in Posts : Answered(o, r)]_vars

(* WaitEnds: a call in the select returns, and so does every call whose    *)
(* payer went away: nobody is parked for ever behind the mutex.            *)
WaitEnds ==
  \A r \in Requests :
    /\ pc[r] = "waiting" ~> pc[r] = "done"
    /\ r \in canceled ~> pc[r] = "done"

(* PosterAnswered: every node that posts a response gets a status back:    *)
(* the send under the mutex never blocks.                                  *)
PosterAnswered ==
  \A p \in Posts : postPc[p] # "idle" ~> postPc[p] \in {"ok", "refused"}

(* The abstract view: a request is open from its registration until its    *)
(* deferred function is over; its reply is the response put in its buffer. *)
Abstract == INSTANCE RequestReply WITH
  phase <- [r \in Requests |->
              IF pc[r] \in {"idle", "drawn"} THEN "new"
              ELSE IF Live(r) THEN "open" ELSE "closed"],
  reply <- [r \in Requests |->
              IF inbox[r] # None THEN inbox[r]
              ELSE IF result[r] \in Responses THEN result[r] ELSE None],
  outcome <- [r \in Requests |-> IF Live(r) THEN None ELSE result[r]]

(* ImplementsRequestReply: with ids that never repeat the channel is a     *)
(* request-reply service: per request at most one reply is taken, only     *)
(* while the request is open, and the request ends with that reply or      *)
(* with an error.                                                          *)
ImplementsRequestReply == Abstract!Spec

=============================================================================
