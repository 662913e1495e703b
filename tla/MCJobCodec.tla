----------------------------- MODULE MCJobCodec -----------------------------
(***************************************************************************)
(* JobCodec for TLC: jobs with no data, data in one or more pieces, data   *)
(* that just fit and data that do not, NULL buffers, keys and vectors of   *)
(* two lengths, with every status an application may leave in a job.       *)
(***************************************************************************)
EXTENDS JobCodec

Null(n) == [i \in 1 .. n |-> Skip]

Lists == {<<>>, <<<<1>>>>, <<<<1>>, <<>>, <<2, 3>>>>, <<Null(1), <<2>>>>, <<<<1, 2>>, <<3, 4>>>>}

Contexts ==
  [type : {"CIPHERING", "CREATE", "CLOSE"}, status : {"NOT_PROCESSED", "SUCC", "FAILED"},
   tag : {1, 2}, sess : {0}, outptr : BOOLEAN, outlen : {0, 2, 3}]

AllJobs == [ctx : Contexts, bufs : Lists, key : {<<>>, <<6, 5>>, Null(1)}, iv : {<<>>, <<7, 8>>}]

\* Jobs of different type, tag, status and outbuff need not be combined with
\* all data, keys and vectors.
SomeJobs ==
  {j \in AllJobs :
     /\ j.ctx.tag = IF j.ctx.type = "CIPHERING" THEN 1 ELSE 2
     /\ j.ctx.outptr = (j.ctx.outlen > 0 \/ j.key = <<>>)
     /\ j.ctx.status # "NOT_PROCESSED" => j.key # <<>> /\ j.iv = <<>>}
=============================================================================
