----------------------------- MODULE JobChannel -----------------------------
(***************************************************************************)
(* What one queue of a connection promises, without rings or indices: jobs *)
(* are numbered in the order they are sent, wait in order, are taken by    *)
(* the server in batches, and those of a batch that get a response buffer  *)
(* (always the first ones) are answered in order.  A batch is cut short    *)
(* only when the response buffers run out.  What the client received stays *)
(* what it was until the client gives it back.                             *)
(***************************************************************************)
EXTENDS Integers, Sequences

CONSTANTS
  Capacity,  \* buffers in each direction
  Batch      \* largest batch one side takes at a time

VARIABLES
  sent,      \* number of jobs sent
  requests,  \* sent and not yet taken by the server
  work,      \* taken by the server and not yet answered
  stage,     \* "taken", "kept" (response buffers are assigned) or "none"
  responses, \* answered and not yet received by the client
  held       \* received by the client and not yet given back

vars == <<sent, requests, work, stage, responses, held>>

Prefix(s, n) == SubSeq(s, 1, n)
Rest(s, n) == SubSeq(s, n + 1, Len(s))

Init ==
  /\ sent = 0
  /\ requests = <<>> /\ responses = <<>> /\ held = <<>>
  /\ work = <<>> /\ stage = "none"

Send(n) ==
  /\ Len(requests) + n <= Capacity
  /\ sent' = sent + n
  /\ requests' = requests \o [i \in 1 .. n |-> sent + i - 1]
  /\ UNCHANGED <<work, stage, responses, held>>

Take(n) ==
  /\ stage = "none"
  /\ n <= Len(requests)
  /\ work' = Prefix(requests, n)
  /\ requests' = Rest(requests, n)
  /\ stage' = "taken"
  /\ UNCHANGED <<sent, responses, held>>

\* The batch is cut to the response buffers that are free.
Keep ==
  LET free == Capacity - (Len(responses) + Len(held))
      n == IF Len(work) < free THEN Len(work) ELSE free
  IN  /\ stage = "taken"
      /\ work' = Prefix(work, n)
      /\ stage' = "kept"
      /\ UNCHANGED <<sent, requests, responses, held>>

Answer ==
  /\ stage = "kept"
  /\ responses' = responses \o work
  /\ work' = <<>>
  /\ stage' = "none"
  /\ UNCHANGED <<sent, requests, held>>

Receive(n) ==
  /\ held = <<>>
  /\ n <= Len(responses)
  /\ held' = Prefix(responses, n)
  /\ responses' = Rest(responses, n)
  /\ UNCHANGED <<sent, requests, work, stage>>

Release ==
  /\ held' = <<>>
  /\ UNCHANGED <<sent, requests, work, stage, responses>>

Next ==
  \/ \E n \in 1 .. Batch : Send(n) \/ Take(n) \/ Receive(n)
  \/ Keep \/ Answer \/ Release

Spec == Init /\ [][Next]_vars
=============================================================================
