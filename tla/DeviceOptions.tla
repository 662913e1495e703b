---------------------------- MODULE DeviceOptions ----------------------------
(***************************************************************************)
(* The options of the crypto client, given after "--" in the configured    *)
(* start-up line: cperf_options_default, cperf_options_parse with one      *)
(* parser per option, and cperf_options_check.                             *)
(*                                                                         *)
(* An argument is a sequence of groups separated by ',', each a sequence   *)
(* of numbers separated by ':'.  strtok splits it at one separator, and    *)
(* strtoul reads a token up to the other one, so "2:3,4" is the tokens 2   *)
(* and 3 for ':' and the tokens 2 and 4 for ','.  Text that is not a       *)
(* number reads as 0, and parse_uint32_t refuses it like a second number.  *)
(* A range is written min:increment:max.  ServerStart goes on from there.   *)
(***************************************************************************)
EXTENDS Integers, Sequences, SequencesExt

CONSTANTS
  Args,      \* arguments
  Uint,      \* 2^32: numbers a uint32_t holds
  Ulong,     \* 2^64: numbers strtoul reads
  MaxList,   \* MAX_LIST
  Digest,    \* digest_sz
  Defaults,  \* cperf_options_default
  MaxOptions \* options in the start-up line

ASSUME OptionsAssumption ==
  /\ Uint \in Nat /\ Ulong \in Nat /\ Uint < Ulong
  /\ MaxList \in Nat \ {0} /\ MaxOptions \in Nat
  /\ Digest \in 0 .. (Uint - 1)

VARIABLES
  opts,    \* the fields of Dpdk_cryptodev_options that options change
  res,     \* "parse", then "ok", "error" or "help"
  count,   \* options parsed
  given    \* which of them

optionVars == <<opts, res, count, given>>

Sized == {"burst", "buffer"}
Scalars == {"pool", "segment", "desc"}

OptionsInit ==
  /\ opts = Defaults
  /\ res = "parse" /\ count = 0
  /\ given = {}

ColonTokens(arg) ==
  IF arg = <<>> THEN <<>>
  ELSE FlattenSeq([i \in DOMAIN arg |-> IF i = 1 THEN arg[i] ELSE Tail(arg[i])])

CommaTokens(arg) == [i \in DOMAIN arg |-> Head(arg[i])]

\* strtoul, stored in a uint32_t.
Number(token) == token % Uint

\* Mutant: the number is tested before it is stored.
UsableUntruncated(token) == token < Ulong /\ token # 0

\* Neither errno nor a zero.
Usable(token) == token < Ulong /\ Number(token) # 0

(***************************************************************************)
(* parse_range stores each number as soon as it is read, also when a later *)
(* one makes it fail.                                                      *)
(***************************************************************************)
ParseRange(b, arg) ==
  LET t == ColonTokens(arg)
      read(i) == Len(t) >= i /\ \A j \in 1 .. i : Usable(t[j])
      ordered == read(3) /\ Number(t[3]) >= Number(t[1])
  IN  [ok |-> ordered /\ Len(t) = 3,
       to |-> [b EXCEPT !.min = IF read(1) THEN Number(t[1]) ELSE @,
                        !.inc = IF read(2) THEN Number(t[2]) ELSE @,
                        !.max = IF ordered THEN Number(t[3]) ELSE @]]

\* Numbers parse_list looks at.
Taken(arg) == SubSeq(CommaTokens(arg), 1, IF Len(arg) <= MaxList THEN Len(arg) ELSE MaxList)

\* The entries stored before a failure are never read: the program ends.
ParseList(b, arg) ==
  LET t == Taken(arg)
      list == [i \in DOMAIN t |-> Number(t[i])]
      seen == {list[i] : i \in DOMAIN list}
  IN  IF t # <<>> /\ \A i \in DOMAIN t : Usable(t[i])
      THEN [ok |-> TRUE,
            to |-> [b EXCEPT !.list = list,
                             !.min = CHOOSE x \in seen : \A y \in seen : x <= y,
                             !.max = CHOOSE x \in seen : \A y \in seen : y <= x]]
      ELSE [ok |-> FALSE, to |-> b]

\* parse_uint32_t accepts one number and nothing after it.
ParseUint32(arg) == Len(arg) = 1 /\ Len(arg[1]) = 1 /\ arg[1][1] < Uint
-----------------------------------------------------------------------------
Another == res = "parse" /\ count < MaxOptions /\ count' = count + 1

\* parse_burst_sz, parse_buffer_sz: a range, and otherwise a list.
ParseSized(o, arg) ==
  LET range == ParseRange(opts[o], arg)
      list == ParseList(range.to, arg)
  IN  /\ Another
      /\ given' = given \cup {o}
      /\ opts' = [opts EXCEPT ![o] = IF range.ok THEN range.to ELSE list.to]
      /\ res' = IF range.ok \/ list.ok THEN "parse" ELSE "error"

\* parse_pool_sz, parse_segment_sz, parse_desc_nb; only the pool may be 0.
ParseScalar(o, arg) ==
  LET ok == ParseUint32(arg)
      n == Number(arg[1][1])
  IN  /\ Another
      /\ given' = given \cup {o}
      /\ opts' = IF ok THEN [opts EXCEPT ![o] = n] ELSE opts
      /\ res' = IF ok /\ (o = "pool" \/ n # 0) THEN "parse" ELSE "error"

\* parse_device_type: a name that fits.
ParseDeviceType(fits) ==
  /\ Another
  /\ res' = IF fits THEN "parse" ELSE "error"
  /\ UNCHANGED <<opts, given>>

\* A listed option without a parser, or an unknown one; -h ends the program.
ParseOther ==
  /\ Another
  /\ res' \in {"error", "help"}
  /\ UNCHANGED <<opts, given>>

\* Mutant: the size of the digest is not compared.
OptionsCheckLax ==
  LET segment == IF opts.segment = 0 THEN (opts.buffer.max + Digest) % Uint ELSE opts.segment
  IN  /\ res = "parse"
      /\ opts' = [opts EXCEPT !.segment = segment]
      /\ res' = "ok"
      /\ UNCHANGED <<count, given>>

\* cperf_options_check; nothing sets out_of_place.
OptionsCheck ==
  LET segment == IF opts.segment = 0 THEN (opts.buffer.max + Digest) % Uint ELSE opts.segment
  IN  /\ res = "parse"
      /\ opts' = [opts EXCEPT !.segment = segment]
      /\ res' = IF segment < Digest THEN "error" ELSE "ok"
      /\ UNCHANGED <<count, given>>

OptionsNext ==
  \/ \E arg \in Args :
       \/ \E o \in Sized : ParseSized(o, arg)
       \/ \E o \in Scalars : ParseScalar(o, arg)
  \/ \E fits \in BOOLEAN : ParseDeviceType(fits)
  \/ ParseOther
  \/ OptionsCheck
-----------------------------------------------------------------------------
\* No accepted start-up line leaves a burst or buffer size of 0, although
\* numbers are cut to 32 bits after strtoul: run_jobs_inner would loop for
\* ever with bursts of 0.
NonZeroSizes ==
  res = "ok" => \A o \in Sized : /\ opts[o].min # 0 /\ opts[o].max # 0
                                 /\ \A i \in DOMAIN opts[o].list : opts[o].list[i] # 0

\* A segment size that was not given holds the largest buffer and the digest:
\* when their sum does not fit into 32 bits the line is refused.
SegmentHoldsBuffer ==
  res = "ok" /\ "segment" \notin given => opts.segment = opts.buffer.max + Digest
=============================================================================
