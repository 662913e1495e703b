---------------------------- MODULE ChannelGrant ----------------------------
(***************************************************************************)
(* What the control channel promises, without its messages: an interface   *)
(* of the server is granted to one client at a time, a client uses it only *)
(* after the grant, and nobody else gets it before the server has taken it *)
(* back.                                                                   *)
(***************************************************************************)
CONSTANTS Clients, Ids, IdOf(_), None, Gone

VARIABLES
  holder,   \* the client an interface is granted to, Gone once it has left
  using     \* clients that use their interface

grantVars == <<holder, using>>

Init ==
  /\ holder = [id \in Ids |-> None]
  /\ using = {}

Grant(c) ==
  /\ holder[IdOf(c)] = None
  /\ holder' = [holder EXCEPT ![IdOf(c)] = c]
  /\ UNCHANGED using

\* The grant finds that its client has left already.
GrantLate(id) ==
  /\ holder[id] = None
  /\ holder' = [holder EXCEPT ![id] = Gone]
  /\ UNCHANGED using

Use(c) ==
  /\ holder[IdOf(c)] = c /\ c \notin using
  /\ using' = using \union {c}
  /\ UNCHANGED holder

\* Clients leave their interfaces, which stay granted: one client, or all
\* those of a process that dies.
Leave(S) ==
  /\ S # {} /\ \A c \in S : holder[IdOf(c)] = c
  /\ holder' = [id \in Ids |-> IF holder[id] \in S THEN Gone ELSE holder[id]]
  /\ using' = using \ S

\* The server takes back an interface whose client has left.
TakeBack(id) ==
  /\ holder[id] = Gone
  /\ holder' = [holder EXCEPT ![id] = None]
  /\ UNCHANGED using

\* The server goes, and all grants with it.
ServerLeaves ==
  /\ holder' = [id \in Ids |-> None]
  /\ using' = {}

Next ==
  \/ \E c \in Clients : Grant(c) \/ Use(c)
  \/ \E S \in SUBSET Clients : Leave(S)
  \/ \E id \in Ids : GrantLate(id) \/ TakeBack(id)
  \/ ServerLeaves

GrantSpec == Init /\ [][Next]_grantVars
=============================================================================
