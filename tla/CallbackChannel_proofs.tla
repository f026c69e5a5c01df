------------------------ MODULE CallbackChannel_proofs ------------------------
(***************************************************************************)
(* Proofs about CallbackChannel for any number of requests, posts, ids and *)
(* responses.  Typed is the type invariant with what makes it inductive,   *)
(* Safe adds what holds also when draws of ids race, Exact what needs ids  *)
(* that never repeat.                                                      *)
(***************************************************************************)
EXTENDS CallbackChannel, TLAPS

(* Past its draw a request has an id, past its parsing a post has one; a   *)
(* post between Lookup and Deliver holds the mutex and found a request.    *)
HasId  == \A r \in Requests :
            pc[r] \in {"drawn", "doing", "waiting", "leaving"} => reqId[r] \in Ids
Parsed == \A p \in Posts :
            postPc[p] \in {"parsed", "sending", "ok"} => postId[p] \in Ids /\ postBody[p] \in Responses
Held   == \A p \in Posts :
            postPc[p] = "sending" => lock = p /\ pending[postId[p]] # None

Typed == TypeOK /\ HasId /\ Parsed /\ Held

LEMMA InitTyped == Init => Typed
  BY SentinelsAssumption DEF Init, Typed, TypeOK, HasId, Parsed, Held, RequestPcs, PostPcs

LEMMA StepTyped == Typed /\ [Next]_vars => Typed'
<1> SUFFICES ASSUME Typed, [Next]_vars PROVE Typed'
  OBVIOUS
<1> USE SentinelsAssumption
    DEF Typed, TypeOK, HasId, Parsed, Held, RequestPcs, PostPcs, reqVars, chanVars, postVars
<1>1. ASSUME NEW r \in Requests, DrawId(r) PROVE Typed'
  BY <1>1 DEF DrawId, Draws, Overlaps
<1>2. ASSUME NEW r \in Requests, DrawPanics(r) PROVE Typed'
  BY <1>2 DEF DrawPanics
<1>3. ASSUME NEW r \in Requests, AddPending(r) PROVE Typed'
  BY <1>3 DEF AddPending
<1>4. ASSUME NEW r \in Requests, WebhookAccepts(r) PROVE Typed'
  BY <1>4 DEF WebhookAccepts
<1>5. ASSUME NEW r \in Requests, WebhookFails(r) PROVE Typed'
  BY <1>5 DEF WebhookFails, Finish
<1>6. ASSUME NEW r \in Requests, ReceiveResponse(r) PROVE Typed'
  BY <1>6 DEF ReceiveResponse, Finish
<1>7. ASSUME NEW r \in Requests, SelectCanceled(r) PROVE Typed'
  BY <1>7 DEF SelectCanceled, Finish
<1>8. ASSUME NEW r \in Requests, SelectTimeout(r) PROVE Typed'
  BY <1>8 DEF SelectTimeout, Finish
<1>9. ASSUME NEW r \in Requests, ClientCancels(r) PROVE Typed'
  BY <1>9 DEF ClientCancels
<1>10. ASSUME NEW r \in Requests, Leave(r) PROVE Typed'
  <2>1. reqId[r] \in Ids
    BY <1>10 DEF Leave
  <2>2. CASE ~Registered(reqId[r])
    BY <1>10, <2>2 DEF Leave
  <2>3. CASE Registered(reqId[r])
    <3>1. pending[reqId[r]] \in Requests
      BY <2>1, <2>3 DEF Registered
    <3> QED
      BY <1>10, <2>1, <2>3, <3>1 DEF Leave, DeleteAndClose
  <2> QED
    BY <2>2, <2>3
<1>11. ASSUME NEW p \in Posts, HandleResponse(p) PROVE Typed'
  BY <1>11 DEF HandleResponse
<1>12. ASSUME NEW p \in Posts, Lookup(p) PROVE Typed'
  BY <1>12 DEF Lookup, Registered
<1>13. ASSUME NEW p \in Posts, Deliver(p) PROVE Typed'
  <2>1. /\ postPc[p] = "sending" /\ postId[p] \in Ids /\ postBody[p] \in Responses
        /\ lock = p /\ pending[postId[p]] \in Requests
    BY <1>13 DEF Deliver
  <2>2. CASE pending[postId[p]] \in closed
    BY <1>13, <2>1, <2>2 DEF Deliver
  <2>3. CASE pending[postId[p]] \notin closed
    BY <1>13, <2>1, <2>3 DEF Deliver, DeleteAndClose, Sent
  <2> QED
    BY <2>2, <2>3
<1>14. CASE UNCHANGED vars
  BY <1>14 DEF vars
<1> QED
  BY <1>1, <1>2, <1>3, <1>4, <1>5, <1>6, <1>7, <1>8, <1>9, <1>10, <1>11, <1>12, <1>13, <1>14 DEF Next

(* TypeCorrect: in every reachable state the tables, channels and          *)
(* goroutines have the shape TypeOK gives them.                            *)
THEOREM TypeCorrect == Spec => []TypeOK
<1>1. Typed => TypeOK
  BY DEF Typed
<1> QED
  BY InitTyped, StepTyped, <1>1, PTL DEF Spec
-----------------------------------------------------------------------------
(* Safe: a registered request is one whose deferred function is still to   *)
(* run, registered under its own id, with an open and empty channel.       *)
Owned == \A i \in Ids : pending[i] # None =>
           /\ Live(pending[i]) /\ reqId[pending[i]] = i
           /\ pending[i] \notin closed /\ inbox[pending[i]] = None
Fresh == \A r \in Requests : pc[r] \in {"idle", "drawn"} => r \notin closed /\ inbox[r] = None

Safe == Typed /\ Owned /\ Fresh /\ NoPanic

LEMMA InitSafe == Init => Safe
  BY InitTyped, SentinelsAssumption DEF Init, Safe, Owned, Fresh, NoPanic

LEMMA StepSafe == Safe /\ [Next]_vars => Safe'
<1> SUFFICES ASSUME Safe, [Next]_vars PROVE Safe'
  OBVIOUS
<1> Typed'
  BY StepTyped DEF Safe
<1> USE SentinelsAssumption
    DEF Safe, Typed, TypeOK, HasId, Parsed, Held, RequestPcs, PostPcs, reqVars, chanVars,
        postVars, Owned, Fresh, NoPanic, Live
<1>1. ASSUME NEW r \in Requests, DrawId(r) PROVE (Owned /\ Fresh /\ NoPanic)'
  BY <1>1 DEF DrawId, Draws, Overlaps
<1>2. ASSUME NEW r \in Requests, DrawPanics(r) PROVE (Owned /\ Fresh /\ NoPanic)'
  BY <1>2 DEF DrawPanics
<1>3. ASSUME NEW r \in Requests, AddPending(r) PROVE (Owned /\ Fresh /\ NoPanic)'
  <2>1. reqId[r] \in Ids /\ r \notin closed /\ inbox[r] = None
    BY <1>3 DEF AddPending
  <2> QED
    BY <1>3, <2>1 DEF AddPending
<1>4. ASSUME NEW r \in Requests, WebhookAccepts(r) PROVE (Owned /\ Fresh /\ NoPanic)'
  BY <1>4 DEF WebhookAccepts
<1>5. ASSUME NEW r \in Requests, WebhookFails(r) PROVE (Owned /\ Fresh /\ NoPanic)'
  BY <1>5 DEF WebhookFails, Finish
<1>6. ASSUME NEW r \in Requests, ReceiveResponse(r) PROVE (Owned /\ Fresh /\ NoPanic)'
  BY <1>6 DEF ReceiveResponse, Finish
<1>7. ASSUME NEW r \in Requests, SelectCanceled(r) PROVE (Owned /\ Fresh /\ NoPanic)'
  BY <1>7 DEF SelectCanceled, Finish
<1>8. ASSUME NEW r \in Requests, SelectTimeout(r) PROVE (Owned /\ Fresh /\ NoPanic)'
  BY <1>8 DEF SelectTimeout, Finish
<1>9. ASSUME NEW r \in Requests, ClientCancels(r) PROVE (Owned /\ Fresh /\ NoPanic)'
  BY <1>9 DEF ClientCancels
<1>10. ASSUME NEW r \in Requests, Leave(r) PROVE (Owned /\ Fresh /\ NoPanic)'
  <2>1. pc[r] = "leaving" /\ lock = None /\ reqId[r] \in Ids
    BY <1>10 DEF Leave
  <2>2. CASE ~Registered(reqId[r])
    BY <1>10, <2>1, <2>2 DEF Leave, Registered
  <2>3. CASE Registered(reqId[r])
    <3>1. pending[reqId[r]] \in Requests \ closed
      BY <2>1, <2>3 DEF Registered
    <3> QED
      BY <1>10, <2>1, <2>3, <3>1 DEF Leave, DeleteAndClose
  <2> QED
    BY <2>2, <2>3
<1>11. ASSUME NEW p \in Posts, HandleResponse(p) PROVE (Owned /\ Fresh /\ NoPanic)'
  BY <1>11 DEF HandleResponse
<1>12. ASSUME NEW p \in Posts, Lookup(p) PROVE (Owned /\ Fresh /\ NoPanic)'
  BY <1>12 DEF Lookup, Registered
<1>13. ASSUME NEW p \in Posts, Deliver(p) PROVE (Owned /\ Fresh /\ NoPanic)'
  <2>1. /\ postPc[p] = "sending" /\ postId[p] \in Ids /\ postBody[p] \in Responses
        /\ pending[postId[p]] \in Requests \ closed
    BY <1>13 DEF Deliver
  <2> QED
    BY <1>13, <2>1 DEF Deliver, DeleteAndClose, Sent
<1>14. CASE UNCHANGED vars
  BY <1>14 DEF vars
<1> QED
  BY <1>1, <1>2, <1>3, <1>4, <1>5, <1>6, <1>7, <1>8, <1>9, <1>10, <1>11, <1>12, <1>13, <1>14 DEF Next

(* PanicFree: with any draws of ids, SendRequest's deferred function and   *)
(* OnResponse never close a channel twice or send to it after its close.   *)
THEOREM PanicFree == Spec => []NoPanic
<1>1. Safe => NoPanic
  BY DEF Safe
<1> QED
  BY InitSafe, StepSafe, <1>1, PTL DEF Spec

(* LeakFree: with any draws of ids, a request that is over has left        *)
(* nothing in pendingRequests.                                             *)
THEOREM LeakFree == Spec => []NoLeak
<1>1. Safe => NoLeak
  BY DEF Safe, Owned, NoLeak
<1> QED
  BY InitSafe, StepSafe, <1>1, PTL DEF Spec

(* Only a post holds the mutex over a step.                                *)
Keeper == lock # None => \E p \in Posts : lock = p /\ postPc[p] = "sending"

LEMMA StepKeeper == Safe /\ Keeper /\ [Next]_vars => Keeper'
<1> SUFFICES ASSUME Safe, Keeper, [Next]_vars
             PROVE  Keeper'
  OBVIOUS
<1>1. CASE UNCHANGED <<lock, postPc>>
  BY <1>1 DEF Keeper
<1>2. ASSUME NEW r \in Requests, Leave(r)
      PROVE  UNCHANGED <<lock, postPc>>
  <2>1. reqId[r] \in Ids
    BY <1>2 DEF Leave, Safe, Typed, HasId
  <2>2. Registered(reqId[r]) => pending[reqId[r]] \notin closed
    BY <2>1 DEF Registered, Safe, Owned
  <2> QED BY <1>2, <2>2 DEF Leave, chanVars, postVars
<1>3. ASSUME NEW p \in Posts, HandleResponse(p)
      PROVE  Keeper'
  <2>1. postPc[p] = "idle" /\ UNCHANGED lock
    BY <1>3 DEF HandleResponse, chanVars
  <2>2. \A o \in Posts : o # p => postPc'[o] = postPc[o]
    BY <1>3 DEF HandleResponse, Safe, Typed, TypeOK
  <2> QED BY <2>1, <2>2 DEF Keeper
<1>4. ASSUME NEW p \in Posts, Lookup(p)
      PROVE  Keeper'
  BY <1>4 DEF Lookup, Keeper, Safe, Typed, TypeOK
<1>5. ASSUME NEW p \in Posts, Deliver(p)
      PROVE  Keeper'
  BY <1>5 DEF Deliver, Keeper
<1>6. ASSUME NEW r \in Requests,
             \/ DrawId(r) \/ DrawPanics(r) \/ AddPending(r) \/ WebhookAccepts(r) \/ WebhookFails(r)
             \/ ReceiveResponse(r) \/ SelectCanceled(r) \/ SelectTimeout(r) \/ ClientCancels(r)
      PROVE  UNCHANGED <<lock, postPc>>
  BY <1>6 DEF DrawId, DrawPanics, AddPending, WebhookAccepts, WebhookFails, ReceiveResponse,
              SelectCanceled, SelectTimeout, ClientCancels, chanVars, postVars
<1>7. CASE UNCHANGED vars
  BY <1>1, <1>7 DEF vars
<1> QED BY <1>1, <1>2, <1>3, <1>4, <1>5, <1>6, <1>7 DEF Next

(* NoDeadlock: with any draws of ids, the mutex is only ever held by a     *)
(* post whose send can go on (HolderCanSend): nobody waits for it for ever *)
(* because of a full or a closed channel.                                  *)
THEOREM NoDeadlock == Spec => []HolderCanSend
<1>1. Init => Keeper
  BY DEF Init, Keeper
<1>2. Safe /\ Keeper => HolderCanSend
  <2> SUFFICES ASSUME Safe, NEW p \in Posts, lock = p, postPc[p] = "sending"
               PROVE  /\ pending[postId[p]] # None
                      /\ pending[postId[p]] \notin closed /\ inbox[pending[postId[p]]] = None
    BY DEF Keeper, HolderCanSend, Registered, CanSend
  <2> QED BY DEF Safe, Typed, Held, Parsed, Owned
<1> QED BY InitSafe, StepSafe, StepKeeper, <1>1, <1>2, PTL DEF Spec
-----------------------------------------------------------------------------
(* Exact, for ids that never repeat: an acknowledged response lies in the  *)
(* buffer of the one request of its id or has been returned by it, and the *)
(* id is never registered again.                                           *)
Distinct   == \A q, r \in Requests : q # r /\ reqId[q] # None => reqId[q] # reqId[r]
Unfinished == \A r \in Requests :
                /\ pc[r] = "idle" => reqId[r] = None
                /\ pc[r] \in {"idle", "drawn", "doing", "waiting"} <=> result[r] = None
Spent      == \A p \in Posts : postPc[p] = "ok" =>
                /\ pending[postId[p]] = None
                /\ \E r \in Requests : reqId[r] = postId[p] /\ pc[r] \notin {"idle", "drawn"}
Backed     == \A r \in Requests : inbox[r] # None =>
                \E p \in Posts : Answered(p, r) /\ postBody[p] = inbox[r]
Served     == \A r \in Requests :
                pc[r] \in {"doing", "waiting"} /\ pending[reqId[r]] = None
                  => \E p \in Posts : Answered(p, r)
Returned   == \A r \in Requests : result[r] \notin {None, Error} =>
                inbox[r] = None /\ \E p \in Posts : Answered(p, r) /\ postBody[p] = result[r]

Exact == Safe /\ Distinct /\ Unfinished /\ Spent /\ Backed /\ Served /\ Returned
           /\ AcceptedIsKept /\ OneAnswerPerRequest

LEMMA InitExact == Init => Exact
  BY InitSafe, SentinelsAssumption
  DEF Init, Exact, Distinct, Unfinished, Spent, Backed, Served, Returned, AcceptedIsKept,
      OneAnswerPerRequest, Answered

LEMMA StepExact ==
  ASSUME ~RacyDraws
  PROVE  Exact /\ [Next]_vars => Exact'
<1> SUFFICES ASSUME Exact, [Next]_vars PROVE Exact'
  OBVIOUS
<1> Safe'
  BY StepSafe DEF Exact
<1> DEFINE Rest == Distinct /\ Unfinished /\ Spent /\ Backed /\ Served /\ Returned
                     /\ AcceptedIsKept /\ OneAnswerPerRequest
<1> USE SentinelsAssumption
    DEF Exact, Safe, Typed, TypeOK, HasId, Parsed, Held, RequestPcs, PostPcs, Owned, Fresh, NoPanic, Live, reqVars, chanVars,
        postVars, Answered, Distinct, Unfinished, Spent, Backed, Served, Returned, AcceptedIsKept, OneAnswerPerRequest
<1>1. ASSUME NEW r \in Requests, DrawId(r) PROVE Rest'
  BY <1>1 DEF DrawId, Draws, Overlaps
<1>2. ASSUME NEW r \in Requests, DrawPanics(r) PROVE Rest'
  BY <1>2 DEF DrawPanics
<1>3. ASSUME NEW r \in Requests, AddPending(r) PROVE Rest'
  BY <1>3 DEF AddPending
<1>4. ASSUME NEW r \in Requests, WebhookAccepts(r) PROVE Rest'
  BY <1>4 DEF WebhookAccepts
<1>5. ASSUME NEW r \in Requests, WebhookFails(r) PROVE Rest'
  BY <1>5 DEF WebhookFails, Finish
<1>6. ASSUME NEW r \in Requests, ReceiveResponse(r) PROVE Rest'
  BY <1>6 DEF ReceiveResponse, Finish
<1>7. ASSUME NEW r \in Requests, SelectCanceled(r) PROVE Rest'
  BY <1>7 DEF SelectCanceled, Finish
<1>8. ASSUME NEW r \in Requests, SelectTimeout(r) PROVE Rest'
  BY <1>8 DEF SelectTimeout, Finish
<1>9. ASSUME NEW r \in Requests, ClientCancels(r) PROVE Rest'
  BY <1>9 DEF ClientCancels
<1>10. ASSUME NEW r \in Requests, Leave(r) PROVE Rest'
  BY <1>10 DEF Leave, Registered, DeleteAndClose
<1>11. ASSUME NEW p \in Posts, HandleResponse(p) PROVE Rest'
  BY <1>11 DEF HandleResponse
<1>12. ASSUME NEW p \in Posts, Lookup(p) PROVE Rest'
  BY <1>12 DEF Lookup, Registered
<1>13. ASSUME NEW p \in Posts, Deliver(p) PROVE Rest'
  BY <1>13 DEF Deliver, DeleteAndClose, Sent, CanSend
<1>14. CASE UNCHANGED vars
  BY <1>14 DEF vars
<1> QED
  BY <1>1, <1>2, <1>3, <1>4, <1>5, <1>6, <1>7, <1>8, <1>9, <1>10, <1>11, <1>12, <1>13, <1>14 DEF Next

(* Matched: when draws of ids do not race, what SendRequest returns as a   *)
(* response was posted to its own reply URL and acknowledged, and it is    *)
(* never the zero value of a closed channel.                               *)
THEOREM Matched ==
  ASSUME ~RacyDraws
  PROVE  Spec => []MatchedResponse
<1>1. Exact => MatchedResponse
  BY SentinelsAssumption DEF Exact, Distinct, Returned, MatchedResponse, Answered
<1> QED
  BY InitExact, StepExact, <1>1, PTL DEF Spec

(* AnsweredOnce: when draws of ids do not race, at most one of the posts   *)
(* to one reply URL is acknowledged.                                       *)
THEOREM AnsweredOnce ==
  ASSUME ~RacyDraws
  PROVE  Spec => []OneAnswerPerRequest
<1>1. Exact => OneAnswerPerRequest
  BY DEF Exact
<1> QED
  BY InitExact, StepExact, <1>1, PTL DEF Spec

(* AcceptedKept: when draws of ids do not race, an acknowledged response   *)
(* stays in the channel until its request has stopped waiting for it.      *)
THEOREM AcceptedKept ==
  ASSUME ~RacyDraws
  PROVE  Spec => []AcceptedIsKept
<1>1. Exact => AcceptedIsKept
  BY DEF Exact
<1> QED
  BY InitExact, StepExact, <1>1, PTL DEF Spec

(* Refused: when draws of ids do not race, a post is turned away as        *)
(* unknown only if no request could still use it.                          *)
THEOREM Refused ==
  ASSUME ~RacyDraws
  PROVE  Spec => LiveNotRefused
<1>1. Exact /\ [Next]_vars =>
        [\A p \in Posts, r \in Requests :
           Lookup(p) /\ postPc'[p] = "refused" /\ reqId[r] = postId[p]
             /\ pc[r] \in {"doing", "waiting"}
           => \E o \in Posts : Answered(o, r)]_vars
  BY DEF Exact, Safe, Typed, TypeOK, Served, Lookup, Registered, PostPcs
<1> QED
  BY InitExact, StepExact, <1>1, PTL DEF Spec, LiveNotRefused

-----------------------------------------------------------------------------
(* Initial states map to initial states, and every step to a step of       *)
(* RequestReply or to a stutter.                                           *)
LEMMA InitImplements == Init => Abstract!Init
  BY SentinelsAssumption DEF Init, Abstract!Init, Live

LEMMA StepImplements ==
  ASSUME ~RacyDraws
  PROVE  Exact /\ Exact' /\ [Next]_vars => [Abstract!Next]_(Abstract!vars)
<1> SUFFICES ASSUME Exact, Exact', [Next]_vars
             PROVE  [Abstract!Next]_(Abstract!vars)
  OBVIOUS
<1>1. /\ pc \in [Requests -> RequestPcs] /\ inbox \in [Requests -> Responses \cup {None}]
      /\ result \in [Requests -> Responses \cup {None, Zero, Error}]
  BY DEF Exact, Safe, Typed, TypeOK
<1> USE <1>1, SentinelsAssumption DEF Live, RequestPcs
<1>2. ASSUME NEW r \in Requests, DrawId(r) PROVE [Abstract!Next]_(Abstract!vars)
  BY <1>2 DEF DrawId, chanVars, Abstract!vars, Exact, Unfinished
<1>3. ASSUME NEW r \in Requests, DrawPanics(r) PROVE [Abstract!Next]_(Abstract!vars)
  BY <1>3 DEF DrawPanics, chanVars, Abstract!vars, Exact, Unfinished
<1>4. ASSUME NEW r \in Requests, AddPending(r) PROVE [Abstract!Next]_(Abstract!vars)
  <2>1. Abstract!Open(r)
    BY <1>4 DEF AddPending, Abstract!Open, Exact, Unfinished
  <2> QED
    BY <2>1 DEF Abstract!Next
<1>5. ASSUME NEW r \in Requests, WebhookAccepts(r) PROVE [Abstract!Next]_(Abstract!vars)
  BY <1>5 DEF WebhookAccepts, chanVars, Abstract!vars, Exact, Unfinished
<1>6. ASSUME NEW r \in Requests, WebhookFails(r) PROVE [Abstract!Next]_(Abstract!vars)
  BY <1>6 DEF WebhookFails, Finish, chanVars, Abstract!vars, Exact, Unfinished
<1>7. ASSUME NEW r \in Requests, ReceiveResponse(r) PROVE [Abstract!Next]_(Abstract!vars)
  <2>1. inbox[r] # None
    BY <1>7 DEF ReceiveResponse, Exact, Served, AcceptedIsKept, Answered, Safe, Typed, TypeOK, Parsed,
              Owned, Distinct, HasId
  <2> QED
    BY <1>7, <2>1 DEF ReceiveResponse, Finish, Abstract!vars, Exact, Unfinished
<1>8. ASSUME NEW r \in Requests, SelectCanceled(r) PROVE [Abstract!Next]_(Abstract!vars)
  BY <1>8 DEF SelectCanceled, Finish, chanVars, Abstract!vars, Exact, Unfinished
<1>9. ASSUME NEW r \in Requests, SelectTimeout(r) PROVE [Abstract!Next]_(Abstract!vars)
  BY <1>9 DEF SelectTimeout, Finish, chanVars, Abstract!vars, Exact, Unfinished
<1>10. ASSUME NEW r \in Requests, ClientCancels(r) PROVE [Abstract!Next]_(Abstract!vars)
  BY <1>10 DEF ClientCancels, chanVars, Abstract!vars, Exact, Unfinished
<1>11. ASSUME NEW r \in Requests, Leave(r) PROVE [Abstract!Next]_(Abstract!vars)
  <2>1. /\ pc[r] = "leaving" /\ pc' \in {[pc EXCEPT ![r] = "done"], [pc EXCEPT ![r] = "panic"]}
        /\ UNCHANGED <<inbox, result>>
    BY <1>11 DEF Leave, chanVars
  <2>2. result[r] = Error \/ (result[r] \in Responses /\ inbox[r] = None)
    BY <2>1 DEF Exact, Unfinished, Returned, Answered, Safe, Typed, TypeOK, Parsed
  <2>3. Abstract!Return(r)
    BY <2>1, <2>2 DEF Abstract!Return
  <2> QED
    BY <2>3 DEF Abstract!Next
<1>12. ASSUME NEW p \in Posts, HandleResponse(p) PROVE [Abstract!Next]_(Abstract!vars)
  BY <1>12 DEF HandleResponse, reqVars, chanVars, Abstract!vars, Exact, Unfinished
<1>13. ASSUME NEW p \in Posts, Lookup(p) PROVE [Abstract!Next]_(Abstract!vars)
  BY <1>13 DEF Lookup, reqVars, chanVars, Abstract!vars, Exact, Unfinished
<1>14. ASSUME NEW p \in Posts, Deliver(p) PROVE [Abstract!Next]_(Abstract!vars)
  <2>0. PICK q \in Requests : q = pending[postId[p]]
    BY <1>14, <1>1 DEF Deliver, Exact, Safe, Typed, TypeOK, Parsed, Held
  <2>1. /\ postPc[p] = "sending" /\ postId[p] \in Ids /\ postBody[p] \in Responses
        /\ q \notin closed /\ Live(q) /\ inbox[q] = None /\ reqId[q] = postId[p]
    BY <1>14, <2>0 DEF Deliver, Exact, Safe, Typed, Parsed, Held, Owned
  <2>2. result[q] \notin Responses
    BY <2>0, <2>1 DEF Exact, Returned, Spent, Answered
  <2>3. inbox' = [inbox EXCEPT ![q] = postBody[p]] /\ UNCHANGED <<pc, result>>
    BY <1>14, <2>0, <2>1 DEF Deliver, Sent, reqVars
  <2>4. Abstract!Accept(q)
    BY <2>1, <2>2, <2>3 DEF Abstract!Accept
  <2> QED
    BY <2>4 DEF Abstract!Next
<1>15. CASE UNCHANGED vars
  BY <1>15 DEF vars, Abstract!vars
<1> QED
  BY <1>2, <1>3, <1>4, <1>5, <1>6, <1>7, <1>8, <1>9, <1>10, <1>11, <1>12, <1>13, <1>14, <1>15 DEF Next

(* Implements: when draws of ids do not race, the channel implements the   *)
(* request-reply service of RequestReply.                                  *)
THEOREM Implements ==
  ASSUME ~RacyDraws
  PROVE  Spec => ImplementsRequestReply
<1> QED
  BY InitExact, StepExact, InitImplements, StepImplements, PTL
  DEF Spec, ImplementsRequestReply, Abstract!Spec

=============================================================================
