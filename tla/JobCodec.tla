------------------------------ MODULE JobCodec ------------------------------
(***************************************************************************)
(* How a job travels: the client writes it into a request buffer of the    *)
(* shared memory, the server copies that buffer into a response buffer,    *)
(* decodes it, processes it in place and writes the context back, and the  *)
(* client decodes the response and copies the result to the job's outbuff. *)
(*                                                                         *)
(* A buffer has a context, three lengths and a payload: a head room, a     *)
(* data area of BUFF_SIZE, then key and initialisation vector.  Buffers    *)
(* are used again without being cleared, so each job finds what the one    *)
(* before left in them.  The same decoder runs on both sides.              *)
(***************************************************************************)
EXTENDS Integers, Sequences, SequencesExt

CONSTANTS
  BuffHeadroom, BuffSize,  \* BUFF_HEADROOM, BUFF_SIZE
  Room,                    \* length of the payload, at most the memif buffer's
  Jobs,                    \* Crypto_operations a client sends
  OutSize,                 \* length of the application's output memory
  MaxJobs                  \* bound on the jobs sent

\* A job has a context ctx = [type, status, tag, sess, outptr, outlen], a list
\* of data buffers, a key and an initialisation vector.  tag stands for the
\* fields that nobody changes (op_ctx_ptr, seq, algorithm and operation).  A
\* buffer whose data pointer is NULL is a sequence of Skip.  The status is
\* whatever the application left in the job.
ASSUME CodecAssumption ==
  /\ BuffHeadroom \in Nat /\ BuffSize \in Nat /\ Room \in Nat
  /\ \A j \in Jobs :
       /\ BuffHeadroom + BuffSize + Len(j.key) + Len(j.iv) <= Room
       /\ j.ctx.outptr => j.ctx.outlen <= OutSize

VARIABLES
  pc,       \* the step the job at hand has reached
  job,      \* the job as the client has it
  request,  \* buffer of the request ring
  response, \* buffer of the response ring
  vec,      \* the entry of _pool_vecs it was decoded to
  out,      \* the client's memory at outbuff_ptr
  outcome,  \* what the server made of the job
  count     \* jobs sent

vars == <<pc, job, request, response, vec, out, outcome, count>>

Payload == 0 .. (Room - 1)
Empty == [at |-> 0, len |-> 0]

Skip == -1

\* clib_memcpy_fast to and from the payload; a NULL buffer is passed over.
Write(mem, at, bytes) ==
  [i \in Payload |-> IF i \in at .. (at + Len(bytes) - 1) /\ bytes[i - at + 1] # Skip
                     THEN bytes[i - at + 1] ELSE mem[i]]

Read(mem, at, n) == [i \in 1 .. n |-> mem[at + i - 1]]

DataAt == BuffHeadroom
KeyAt == DataAt + BuffSize

Data(j) == FlattenSeq(j.bufs)

TooLong(j) == Len(Data(j)) > BuffSize

\* crypto_job_to_buffer
ToBuffer(buf, j) ==
  IF TooLong(j)
  THEN [ctx |-> [j.ctx EXCEPT !.status = "FAILED"],
        lens |-> [data |-> 0, key |-> 0, iv |-> 0],
        mem |-> buf.mem]
  ELSE [ctx |-> j.ctx,
        lens |-> [data |-> Len(Data(j)), key |-> Len(j.key), iv |-> Len(j.iv)],
        mem |-> Write(Write(Write(buf.mem, DataAt, Data(j)),
                            KeyAt, j.key), KeyAt + Len(j.key), j.iv)]

\* Mutant: key and vector are copied as one piece of the key's length.
CopyKeyOnly(in, buf) ==
  [ctx |-> in.ctx, lens |-> in.lens,
   mem |-> Write(Write(buf.mem, DataAt, Read(in.mem, DataAt, in.lens.data)),
                 KeyAt, Read(in.mem, KeyAt, in.lens.key))]

\* copy_buffer_to_buffer
CopyBuffer(in, buf) ==
  LET data == Read(in.mem, DataAt, in.lens.data)
      key == Read(in.mem, KeyAt, in.lens.key)
      iv == Read(in.mem, KeyAt + in.lens.key, in.lens.iv)
  IN [ctx |-> in.ctx, lens |-> in.lens,
      mem |-> Write(Write(Write(buf.mem, DataAt, data), KeyAt, key),
                    KeyAt + in.lens.key, iv)]

\* crypto_job_from_buffer copies the result of a ciphering that succeeded.
CopiesOut(buf) ==
  /\ buf.ctx.type = "CIPHERING" /\ buf.ctx.status = "SUCC"
  /\ buf.ctx.outptr
  /\ buf.lens.data <= buf.ctx.outlen

DecodedStatus(buf) ==
  IF buf.ctx.type = "CIPHERING" /\ buf.ctx.status = "SUCC" /\ ~CopiesOut(buf)
  THEN "FAILED" ELSE buf.ctx.status

\* crypto_job_from_buffer: data, key and vector stay where they are.
FromBuffer(buf) ==
  [ctx |-> [buf.ctx EXCEPT !.status = DecodedStatus(buf),
                           !.outlen = IF CopiesOut(buf) THEN buf.lens.data ELSE @],
   data |-> [at |-> DataAt, len |-> buf.lens.data],
   key |-> [at |-> KeyAt, len |-> buf.lens.key],
   iv |-> [at |-> KeyAt + buf.lens.key, len |-> buf.lens.iv]]

In(mem, part) == Read(mem, part.at, part.len)

Blank == [ctx |-> [type |-> "CIPHERING", status |-> "NOT_PROCESSED", tag |-> 0,
                   sess |-> 0, outptr |-> FALSE, outlen |-> 0],
          lens |-> [data |-> 0, key |-> 0, iv |-> 0],
          mem |-> [i \in Payload |-> 0]]

Init ==
  /\ pc = "idle"
  /\ job = [ctx |-> Blank.ctx, bufs |-> <<>>, key |-> <<>>, iv |-> <<>>]
  /\ request = Blank /\ response = Blank
  /\ vec = [ctx |-> Blank.ctx, data |-> Empty, key |-> Empty, iv |-> Empty]
  /\ out = [i \in 1 .. OutSize |-> 0]
  /\ outcome = Blank.ctx
  /\ count = 0
-----------------------------------------------------------------------------
\* The client's serialize, called by Memif_client::send.
Serialize ==
  /\ pc = "idle" /\ count < MaxJobs
  /\ \E j \in Jobs : job' = j /\ request' = ToBuffer(request, j)
  /\ pc' = "sent"
  /\ count' = count + 1
  /\ out' = [i \in 1 .. OutSize |-> 0]
  /\ UNCHANGED <<response, vec, outcome>>

\* The server's copy into a response buffer.
ServerCopy ==
  /\ pc = "sent"
  /\ response' = CopyBuffer(request, response)
  /\ pc' = "copied"
  /\ UNCHANGED <<job, request, vec, out, outcome, count>>

\* The server's on_recv_cb decodes the copy.  A ciphering that still says SUCC
\* makes the decoder follow outbuff_ptr, an address of the client: the server
\* dies, or goes on with memory of its own overwritten.
ServerDecode ==
  /\ pc = "copied"
  /\ vec' = FromBuffer(response)
  /\ pc' \in IF CopiesOut(response) THEN {"decoded", "dead"} ELSE {"decoded"}
  /\ UNCHANGED <<job, request, response, out, outcome, count>>

\* What run_jobs makes of a job: failed ones are left alone, except that a
\* session is closed all the same.
Answers(ctx) ==
  IF ctx.type # "CLOSE" /\ ctx.status = "FAILED" THEN {ctx}
  ELSE IF ctx.type = "CREATE"
       THEN {[ctx EXCEPT !.status = "SUCC", !.sess = 1],
             [ctx EXCEPT !.status = "FAILED", !.sess = -1]}
       ELSE {[ctx EXCEPT !.status = s] : s \in {"SUCC", "FAILED"}}

\* The result of ciphering a byte.
Cipher(b) == b + 10

\* run_jobs: a ciphering that succeeds replaces the data.
ServerRun ==
  /\ pc = "decoded"
  /\ \E ctx \in Answers(vec.ctx) :
       /\ vec' = [vec EXCEPT !.ctx = ctx]
       /\ outcome' = ctx
       /\ response' =
            IF ctx.type = "CIPHERING" /\ ctx.status = "SUCC"
            THEN [response EXCEPT !.mem =
                    [i \in Payload |-> IF i \in vec.data.at .. (vec.data.at + vec.data.len - 1)
                                       THEN Cipher(@[i]) ELSE @[i]]]
            ELSE response
  /\ pc' = "processed"
  /\ UNCHANGED <<job, request, out, count>>

\* Mutant: the context is not written back.
CtxForgotten == UNCHANGED response

\* ctx_to_buffer
CtxToBuffer == response' = [response EXCEPT !.ctx = vec.ctx]

ServerAnswer ==
  /\ pc = "processed"
  /\ CtxToBuffer
  /\ pc' = "answered"
  /\ UNCHANGED <<job, request, vec, out, outcome, count>>

\* The client's on_recv_cb decodes the response.
ClientDecode ==
  /\ pc = "answered"
  /\ vec' = FromBuffer(response)
  /\ out' = IF CopiesOut(response)
            THEN [i \in 1 .. OutSize |-> IF i <= response.lens.data
                                         THEN response.mem[DataAt + i - 1] ELSE out[i]]
            ELSE out
  /\ pc' = "received"
  /\ UNCHANGED <<job, request, response, outcome, count>>

\* The completion callback returns and the buffers go back to the rings.
Completed ==
  /\ pc = "received"
  /\ pc' = "idle"
  /\ UNCHANGED <<job, request, response, vec, out, outcome, count>>

Next ==
  \/ Serialize \/ ServerCopy \/ ServerDecode \/ ServerRun \/ ServerAnswer
  \/ ClientDecode \/ Completed

Spec == Init /\ [][Next]_vars
-----------------------------------------------------------------------------
\* The bytes are those of the job, where the job has any.
Carries(bytes, given) ==
  Len(bytes) = Len(given) /\ \A i \in 1 .. Len(given) : given[i] \in {Skip, bytes[i]}

\* The server works on the job the client sent: data in one piece, key and
\* vector, whatever earlier jobs left in the two buffers.  Data that do not
\* fit make a failed job of length zero.  Status and length of the outbuff
\* arrive unchanged too, unless a ciphering comes with the status SUCC.
ServerSeesJob ==
  pc = "decoded" =>
    LET long == Len(Data(job)) > BuffSize
        stale == job.ctx.type = "CIPHERING" /\ job.ctx.status = "SUCC" /\ ~long
    IN /\ \A f \in {"type", "tag", "sess", "outptr"} : vec.ctx[f] = job.ctx[f]
       /\ stale \/ /\ vec.ctx.status = IF long THEN "FAILED" ELSE job.ctx.status
                   /\ vec.ctx.outlen = job.ctx.outlen
       /\ Carries(In(response.mem, vec.data), IF long THEN <<>> ELSE Data(job))
       /\ Carries(In(response.mem, vec.key), IF long THEN <<>> ELSE job.key)
       /\ Carries(In(response.mem, vec.iv), IF long THEN <<>> ELSE job.iv)

\* What the client is told is true, whatever status the job was sent with: it
\* gets the context the server left, and a ciphering is reported as successful
\* exactly when the server succeeded this time and the result is in the job's
\* outbuff, in full, with its length.  Nothing is written behind it, and
\* otherwise the outbuff is untouched.
ReportedAsDelivered ==
  pc = "received" =>
    LET n == Len(Data(job))
        ciphering == job.ctx.type = "CIPHERING"
        ok == ciphering /\ outcome.status = "SUCC" /\ job.ctx.outptr /\ n <= job.ctx.outlen
    IN /\ vec.ctx = [outcome EXCEPT
                       !.status = IF ciphering /\ ~ok THEN "FAILED" ELSE @,
                       !.outlen = IF ok THEN n ELSE @]
       /\ outcome.tag = job.ctx.tag /\ outcome.type = job.ctx.type
       /\ \A i \in 1 .. OutSize :
            IF ok /\ i <= n THEN Data(job)[i] = Skip \/ out[i] = Cipher(Data(job)[i])
                            ELSE out[i] = 0
=============================================================================
