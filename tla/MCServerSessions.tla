-------------------------- MODULE MCServerSessions --------------------------
(***************************************************************************)
(* Two channels, two devices and a pool of two sessions, so that the pool  *)
(* and the registry of a channel can be exhausted by either channel.       *)
(***************************************************************************)
EXTENDS ServerSessions, TLC

\* Sessions are interchangeable: mempools hand them out in any order.
Symmetry == Permutations(Sessions)

\* Both slots of device 0, one of device 1, and an id outside every range.
MCSessIds == {0, 1, 4, 15}
=============================================================================
