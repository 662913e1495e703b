--------------------------- MODULE MCJobDataPath ---------------------------
(* Instances of JobDataPath for TLC; the constants are in the configs. *)
EXTENDS JobDataPath
=============================================================================
