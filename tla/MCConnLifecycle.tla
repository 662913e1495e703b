-------------------------- MODULE MCConnLifecycle ---------------------------
(***************************************************************************)
(* Instances of ConnLifecycle for TLC.                                     *)
(***************************************************************************)
EXTENDS ConnLifecycle, TLC

CONSTANTS c1, c2, t1, t2

\* Two threads on one connection, or one thread on each of two.
OneConn(t) == c1
OwnConn(t) == IF t = t1 THEN c1 ELSE c2
=============================================================================
