----------------------------- MODULE AddressBook -----------------------------
(***************************************************************************)
(* What registration promises to clients and to those who pay them: a      *)
(* username is held by one client at a time and changes hands only by that *)
(* client's own requests; once confirmed it stays the client's until it    *)
(* asks again; and offers appear only under a username of the client that  *)
(* offers them.  How many calls that takes, who else calls in between and  *)
(* what fails on the way is not to be seen.                                *)
(***************************************************************************)
CONSTANTS Clients, Usernames, Offers, None

VARIABLES username,   \* the username each client holds
          promised,   \* the one confirmed to it since it last asked
          published   \* the offers to be found under each username

vars == <<username, promised, published>>

Init ==
  /\ username = [c \in Clients |-> None]
  /\ promised = [c \in Clients |-> None]
  /\ published = [n \in Usernames |-> {}]

Ask(c) ==
  /\ promised' = [promised EXCEPT ![c] = None]
  /\ UNCHANGED <<username, published>>

Take(c, n) ==
  /\ promised[c] = None
  /\ \A d \in Clients : username[d] # n
  /\ username' = [username EXCEPT ![c] = n]
  /\ UNCHANGED <<promised, published>>

Promise(c) ==
  /\ promised[c] = None /\ username[c] # None
  /\ promised' = [promised EXCEPT ![c] = username[c]]
  /\ UNCHANGED <<username, published>>

Publish(c) ==
  /\ promised[c] = None /\ username[c] # None
  /\ \E o \in Offers : published' = [published EXCEPT ![username[c]] = @ \cup {o}]
  /\ UNCHANGED <<username, promised>>

Clear(n) ==
  /\ published' = [published EXCEPT ![n] = {}]
  /\ UNCHANGED <<username, promised>>

Next ==
  \/ \E c \in Clients : Ask(c) \/ Promise(c) \/ Publish(c) \/ \E n \in Usernames : Take(c, n)
  \/ \E n \in Usernames : Clear(n)

Spec == Init /\ [][Next]_vars

TypeOK ==
  /\ {username, promised} \subseteq [Clients -> Usernames \cup {None}]
  /\ published \in [Usernames -> SUBSET Offers]

(* PromiseKept: no two clients hold one username, and a confirmed username *)
(* is its client's, whatever others have asked for since.                  *)
PromiseKept ==
  /\ \A c, d \in Clients : c # d /\ username[c] # None => username[c] # username[d]
  /\ \A c \in Clients : promised[c] # None => username[c] = promised[c]

=============================================================================
