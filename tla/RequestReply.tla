----------------------------- MODULE RequestReply -----------------------------
(***************************************************************************)
(* What the callback channel promises to its callers, the LNURL, BOLT 12   *)
(* and NWC handlers: a request is answered with the one reply its own node *)
(* gave to it, or it fails.  A reply taken may still be lost to a timeout. *)
(***************************************************************************)
CONSTANTS Requests, Responses, None, Error

VARIABLES phase,    \* "new", "open" or "closed"
          reply,    \* the reply taken for each request, None before
          outcome   \* what the caller got: a reply, Error, None before

vars == <<phase, reply, outcome>>

Init ==
  /\ phase = [r \in Requests |-> "new"]
  /\ reply = [r \in Requests |-> None]
  /\ outcome = [r \in Requests |-> None]

Open(r) ==
  /\ phase[r] = "new"
  /\ phase' = [phase EXCEPT ![r] = "open"]
  /\ UNCHANGED <<reply, outcome>>

Accept(r) ==
  /\ phase[r] = "open" /\ reply[r] = None
  /\ \E b \in Responses : reply' = [reply EXCEPT ![r] = b]
  /\ UNCHANGED <<phase, outcome>>

Return(r) ==
  /\ phase[r] = "open"
  /\ phase' = [phase EXCEPT ![r] = "closed"]
  /\ \/ reply[r] # None /\ outcome' = [outcome EXCEPT ![r] = reply[r]]
     \/ outcome' = [outcome EXCEPT ![r] = Error]
  /\ UNCHANGED reply

Next == \E r \in Requests : Open(r) \/ Accept(r) \/ Return(r)

Spec == Init /\ [][Next]_vars

=============================================================================
