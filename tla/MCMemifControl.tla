--------------------------- MODULE MCMemifControl ---------------------------
(***************************************************************************)
(* Two client processes of one server: p1 with the connections c1 and c2,  *)
(* p2 with c3 and c4.  c4 wants the interface of c1, the others have       *)
(* interfaces of their own.  Two groups of behaviours:                     *)
(*  - the rivals c1 and c4: one client leaves or dies, the server dies;    *)
(*  - the crowd c1, c2 and c3 at a full listen queue: c1 and c2 wait for   *)
(*    the server, c3 comes while the timer of p1 requests both.            *)
(***************************************************************************)
EXTENDS MemifControl

CONSTANTS c1, c2, c3, c4, i1, i2, i3, p1, p2

MCId(c) == CASE c \in {c1, c4} -> i1 [] c = c2 -> i2 [] c = c3 -> i3

MCProc(c) == IF c \in {c1, c2} THEN p1 ELSE p2

\* Sockets are alike: a new one is always the same of those that are free.
OneOf(S) == IF S = {} THEN {} ELSE {CHOOSE k \in S : TRUE}

Crowded == created \cap {c2, c3} # {}

\* The steps that nothing forces a process to take, fewer than Next has.
RivalComes(c) ==
  /\ c = c4 => ~Crowded
  /\ ifaces \in {{}, Served}
  /\ CreateSlave(c)

CrowdComes ==
  \/ departures = 0 /\ created = {c1} /\ ifaces = {} /\ CreateSlave(c2)
  \/ /\ ticking[p1] # {} /\ reading # None
     /\ c2 \in created /\ ifaces = Served
     /\ CreateSlave(c3)

Departure ==
  /\ ~Crowded
  /\ \/ departures = 0 /\ \E c \in Clients : DeleteSlave(c)
     \/ departures = 0 /\ \E p \in Procs : ClientCrash(p)
     \/ ServerCrash

MCNext ==
  \/ \E id \in Ids : CreateMaster(id) \/ MasterStep(id)
  \/ \E k \in Socks : PendingStep(k)
  \/ \E c \in Clients : TimerRequest(c) \/ SlaveStep(c)
  \/ \E p \in Procs : Timer(p)
  \/ \E c \in {c1, c4} : RivalComes(c)
  \/ CrowdComes
  \/ Departure

MCSpec == Init /\ [][MCNext]_vars /\ Fairness
=============================================================================
