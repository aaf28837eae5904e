------------------------------- MODULE Judger -------------------------------
(***************************************************************************)
(* The judger of kernel/duck/kern/judger.cpp: one byte buffer that clients *)
(* fill, two content caches, and judge(), which runs the program found in  *)
(* the buffer and keeps its last result under the sequence number of the   *)
(* request, so that a request sent again is answered without running it    *)
(* again.                                                                  *)
(*                                                                         *)
(* ELF::load and ELF::run (lib/elf.cpp) are seen from here: load may       *)
(* refuse any program and refuses a memory limit that does not fit, run    *)
(* ends with any trap.  The performance counters are not read in this      *)
(* build, so the clk_thread that run converts into time_ns is an           *)
(* uninitialised word.  Refused buffer operations change nothing and are   *)
(* stuttering steps.  Unsigned 64-bit words are numbers below Word.        *)
(***************************************************************************)
EXTENDS Integers, FiniteSets, Sequences

CONSTANTS Word,          \* 2^64
          Kilo,          \* 1024
          PageSize,
          LoadStart,     \* load_vaddr_start
          VaddrBreak,    \* Memory::get_vaddr_break()
          BufferSize,    \* buffer_size
          MaxTimeLimit,  \* MAX_TIME_LIMIT_NS
          Values,        \* what a byte may hold, 0 included
          Requests,      \* the requests clients send
          Ranges,        \* the ranges of the buffer they use
          CacheNames, Digests,
          MaxJudges      \* bound: the judges of a behaviour

TRAP_SYSCALL == 255  \* the program called exit
TRAP_TIMER == 32     \* TRAP_IRQ + IRQ_TIMER
TRAP_FAULT == 14     \* stands for every other trap
Traps == {TRAP_SYSCALL, TRAP_TIMER, TRAP_FAULT}

Descs == [off : 0..(Word - 1), len : 0..(Word - 1)]
BufferNames == {"ELF", "stdin", "stdout", "stderr", "IB", "OB"}
Outputs == {"stdout", "stderr", "OB"}

ASSUME WordAssumption ==
    /\ Kilo \in Nat \ {0} /\ PageSize \in Nat \ {0}
    /\ LoadStart \in Nat /\ VaddrBreak \in Nat
    /\ Word \in Nat /\ VaddrBreak * Kilo < Word /\ PageSize < Word
    /\ BufferSize \in 1..(Word - 1)
    /\ MaxTimeLimit \in 1..(Word - 1)
    /\ MaxJudges \in Nat
    /\ 0 \in Values

ASSUME RequestsAssumption ==
    Requests \subseteq [seq_num : 0..(Word - 1), time_limit_ns : 0..(Word - 1),
                        memory_hard_limit_kb : 0..(Word - 1),
                        bufs : [BufferNames -> Descs]]

ASSUME RangesAssumption == Ranges \subseteq Descs

VARIABLES buffer,
          cache,          \* the contents each cache holds, by digest
          n_judges, total_time_ns,
          judge_seq_num, judge_result, judge_result_cleared,
          answer,         \* the last answer of judge and the seq_num it was for
          judged,         \* history: the request of the last judge that ran
          dirty           \* history: a client changed the buffer since then

vars == <<buffer, cache, n_judges, total_time_ns, judge_seq_num, judge_result,
          judge_result_cleared, answer, judged, dirty>>
stats == <<n_judges, total_time_ns>>
results == <<judge_seq_num, judge_result, judge_result_cleared>>

NoSeq == Word - 1   \* -1ul
None == << >>
Bytes == 0..(BufferSize - 1)
Span(off, len) == off..(off + len - 1)

ClearedResult == [error |-> "Not Judged", time_ns |-> 0, time_ns_real |-> 0,
                  trap_num |-> 0, is_RE |-> FALSE, is_TLE |-> FALSE]

Init ==
    /\ buffer = [i \in Bytes |-> 0]
    /\ cache = [name \in CacheNames |-> << >>]
    /\ n_judges = 0 /\ total_time_ns = 0
    /\ judge_seq_num = NoSeq
    /\ judge_result = ClearedResult
    /\ judge_result_cleared = TRUE
    /\ answer = None /\ judged = None
    /\ dirty = FALSE

(* Mutant: the sequence number of the cleared result is kept.                *)
clear_judge_result_partly ==
    /\ judge_result_cleared' = TRUE
    /\ judge_result' = IF judge_result_cleared THEN judge_result ELSE ClearedResult
    /\ UNCHANGED judge_seq_num

(* Mutant: the result is cleared when it was cleared already.                *)
clear_judge_result_inverted ==
    /\ judge_result_cleared' = TRUE
    /\ IF ~ judge_result_cleared
         THEN UNCHANGED <<judge_seq_num, judge_result>>
         ELSE judge_seq_num' = NoSeq /\ judge_result' = ClearedResult

clear_judge_result ==
    /\ judge_result_cleared' = TRUE
    /\ IF judge_result_cleared
         THEN UNCHANGED <<judge_seq_num, judge_result>>
         ELSE judge_seq_num' = NoSeq /\ judge_result' = ClearedResult

(* A client's successful change of the buffer.                               *)
ChangeBuffer(new) ==
    /\ buffer' = new
    /\ clear_judge_result
    /\ dirty' = TRUE
    /\ UNCHANGED <<stats, answer, judged>>
-----------------------------------------------------------------------------
InRange(off, len) == off < BufferSize /\ len <= BufferSize - off

clear_buffer(off, len) ==
    /\ InRange(off, len)
    /\ ChangeBuffer([i \in Bytes |-> IF i \in Span(off, len) THEN 0 ELSE buffer[i]])
    /\ UNCHANGED cache

write_buffer(off, len, v) ==
    /\ InRange(off, len)
    /\ ChangeBuffer([i \in Bytes |-> IF i \in Span(off, len) THEN v ELSE buffer[i]])
    /\ UNCHANGED cache

no_overlap(off1, off2, len) ==
    (off1 + len) % Word <= off2 \/ (off2 + len) % Word <= off1

copy_buffer(dst, src, len) ==
    /\ InRange(dst, len) /\ InRange(src, len) /\ no_overlap(dst, src, len)
    /\ ChangeBuffer([i \in Bytes |->
           IF i \in Span(dst, len) THEN buffer[src + (i - dst)] ELSE buffer[i]])
    /\ UNCHANGED cache

(* The caches check no range themselves: their callers pass ranges of the    *)
(* buffer.  A cache is the map that DuckCache implements; storing may evict. *)
load_cache(name, off, len, digest) ==
    /\ InRange(off, len)
    /\ digest \in DOMAIN cache[name]
    /\ Len(cache[name][digest]) = len
    /\ ChangeBuffer([i \in Bytes |->
           IF i \in Span(off, len) THEN cache[name][digest][i - off + 1] ELSE buffer[i]])
    /\ UNCHANGED cache

store_cache(name, off, len, digest) ==
    /\ InRange(off, len)
    /\ digest \notin DOMAIN cache[name]
    /\ \E kept \in SUBSET DOMAIN cache[name] :
          cache' = [cache EXCEPT ![name] = [d \in kept \cup {digest} |->
                      IF d = digest THEN [k \in 1..len |-> buffer[off + k - 1]]
                      ELSE cache[name][d]]]
    /\ UNCHANGED <<buffer, stats, results, answer, judged, dirty>>
-----------------------------------------------------------------------------
is_valid_buffer(b) == InRange(b.off, b.len)

(* Mutant: the last byte of each buffer is forgotten.                        *)
check_overlap_short(b1, b2) ==
    ~ ((b1.off + b1.len) % Word <= b2.off + 1 \/ (b2.off + b2.len) % Word <= b1.off + 1)

check_overlap(b1, b2) ==
    ~ ((b1.off + b1.len) % Word <= b2.off \/ (b2.off + b2.len) % Word <= b1.off)

check_buffers(bufs) ==
    /\ \A x \in BufferNames : is_valid_buffer(bufs[x])
    /\ \A x, y \in BufferNames : x # y => ~ check_overlap(bufs[x], bufs[y])

memory_hard_limit(req) == (req.memory_hard_limit_kb * Kilo) % Word
LimitOverflows(req) == memory_hard_limit(req) < req.memory_hard_limit_kb

ValidRequest(req) == ~ LimitOverflows(req) /\ check_buffers(req.bufs)
(* Mutant: the largest limit is not checked.                                 *)
NonzeroTimeLimit(req) == req.time_limit_ns > 0

ValidTimeLimit(req) == req.time_limit_ns \in 1..MaxTimeLimit

(* Lines 107-121 of lib/elf.cpp: the limit rounded up to pages, in one word, *)
(* must leave room for a program and lie below the end of memory.            *)
memory_limit(req) ==
    (((memory_hard_limit(req) + PageSize - 1) % Word) \div PageSize) * PageSize
(* Mutant: the limit is not compared with the end of memory.                 *)
LimitNotZero(req) == memory_limit(req) > 0
LimitFits(req) ==
    /\ memory_limit(req) > 0
    /\ LoadStart + memory_limit(req) <= VaddrBreak

(* A request that carries the number of the last one is answered from memory.*)
JudgeAgain(req) ==
    /\ req.seq_num = judge_seq_num
    /\ answer' = [seq_num |-> req.seq_num, result |-> judge_result]
    /\ UNCHANGED <<buffer, cache, stats, results, judged, dirty>>

BeginJudge(req) ==
    /\ req.seq_num # judge_seq_num
    /\ n_judges < MaxJudges
    /\ n_judges' = n_judges + 1
    /\ judge_result_cleared' = FALSE
    /\ judge_seq_num' = req.seq_num
    /\ answer' = [seq_num |-> req.seq_num, result |-> judge_result']
    /\ judged' = req
    /\ dirty' = FALSE
    /\ UNCHANGED cache

(* The early returns: only the error of the stored result is overwritten.    *)
JudgeFails(req) ==
    /\ \/ /\ ~ ValidRequest(req) \/ ValidTimeLimit(req)
          /\ judge_result' = [judge_result EXCEPT !.error = "Can't load ELF"]
       \/ /\ ValidRequest(req) /\ ~ ValidTimeLimit(req)
          /\ judge_result' = [judge_result EXCEPT !.error = "Invalid time limit"]
    /\ BeginJudge(req)
    /\ UNCHANGED <<buffer, total_time_ns>>

(* Mutant: the time of a program that exceeds its limit is kept.             *)
VerdictUncapped(req, trap, time_ns, time_ns_real) ==
    LET tle == time_ns > req.time_limit_ns \/ trap = TRAP_TIMER
    IN  [error |-> "NULL",
         time_ns_real |-> time_ns_real,
         trap_num |-> trap,
         is_RE |-> trap # TRAP_SYSCALL /\ ~ tle,
         is_TLE |-> tle,
         time_ns |-> time_ns]

(* Mutant: a program stopped by the timer is a runtime error too.            *)
VerdictBoth(req, trap, time_ns, time_ns_real) ==
    LET tle == time_ns > req.time_limit_ns \/ trap = TRAP_TIMER
    IN  [error |-> "NULL",
         time_ns_real |-> time_ns_real,
         trap_num |-> trap,
         is_RE |-> trap # TRAP_SYSCALL,
         is_TLE |-> tle,
         time_ns |-> IF tle THEN req.time_limit_ns ELSE time_ns]

(* The verdict of lines 295-320.  ELF::run converts two clocks: time_ns_real *)
(* comes from the time stamp counter of the run, time_ns from clk_thread,    *)
(* which nothing assigns because the call that read it is commented out.     *)
Verdict(req, trap, time_ns, time_ns_real) ==
    LET tle == time_ns > req.time_limit_ns \/ trap = TRAP_TIMER
    IN  [error |-> "NULL",
         time_ns_real |-> time_ns_real,
         trap_num |-> trap,
         is_RE |-> trap # TRAP_SYSCALL /\ ~ tle,
         is_TLE |-> tle,
         time_ns |-> IF tle THEN req.time_limit_ns ELSE time_ns]

(* stdout and stderr are copied back as far as they were written, OB whole.  *)
CopyBack(req, out, err, v) ==
    [i \in Bytes |->
        IF \/ i \in Span(req.bufs["stdout"].off, out)
           \/ i \in Span(req.bufs["stderr"].off, err)
           \/ i \in Span(req.bufs["OB"].off, req.bufs["OB"].len)
        THEN v ELSE buffer[i]]

(* Durations: up to the largest limit, and one beyond every limit.           *)
Durations == 0..(MaxTimeLimit + 1)

JudgeRuns(req) ==
    /\ req.seq_num # judge_seq_num
    /\ ValidRequest(req) /\ ValidTimeLimit(req) /\ LimitFits(req)
    /\ \E trap \in Traps, time_ns, time_ns_real \in Durations :
          judge_result' = Verdict(req, trap, time_ns, time_ns_real)
    /\ \E out \in 0..req.bufs["stdout"].len, err \in 0..req.bufs["stderr"].len, v \in Values :
          buffer' = CopyBack(req, out, err, v)
    /\ total_time_ns' = (total_time_ns + judge_result'.time_ns) % Word
    /\ BeginJudge(req)

Next ==
    \/ \E r \in Ranges, s \in Ranges, v \in Values :
          \/ clear_buffer(r.off, r.len) \/ write_buffer(r.off, r.len, v)
          \/ copy_buffer(r.off, s.off, r.len)
    \/ \E name \in CacheNames, d \in Digests, r \in Ranges :
          load_cache(name, r.off, r.len, d) \/ store_cache(name, r.off, r.len, d)
    \/ \E req \in Requests : JudgeAgain(req) \/ JudgeFails(req) \/ JudgeRuns(req)

Spec == Init /\ [][Next]_vars
-----------------------------------------------------------------------------
Results == [error : {"NULL", "Not Judged", "Can't load ELF", "Invalid time limit"},
            time_ns : 0..MaxTimeLimit, time_ns_real : Durations,
            trap_num : Traps \cup {0}, is_RE : BOOLEAN, is_TLE : BOOLEAN]

TypeOK ==
    /\ buffer \in [Bytes -> Values]
    /\ DOMAIN cache = CacheNames
    /\ \A name \in CacheNames : \A d \in DOMAIN cache[name] : cache[name][d] \in Seq(Values)
    /\ n_judges \in 0..MaxJudges
    /\ total_time_ns \in 0..(Word - 1)
    /\ judge_seq_num \in 0..(Word - 1)
    /\ judge_result \in Results
    /\ {judge_result_cleared, dirty} \subseteq BOOLEAN
    /\ answer = None \/ answer \in [seq_num : 0..(Word - 1), result : Results]
    /\ judged = None \/ judged \in Requests

(* A result kept for a request sent again is never stale: once a client has  *)
(* changed the buffer, no sequence number but -1 is answered from memory.    *)
KeptResultIsCurrent == judge_seq_num # NoSeq => ~ dirty

(* judge says "Not Judged" to nobody but a client that numbers its request   *)
(* with the value -1 that marks a cleared result.                            *)
NotJudgedOnlyForSentinel ==
    answer # None => (answer.result.error = "Not Judged" => answer.seq_num = NoSeq)

(* A result without error names one verdict at most, never reports more time *)
(* than the limit of the request it is for, and reports every trap but exit  *)
(* as a failure.                                                             *)
VerdictConsistent ==
    judge_result.error = "NULL" =>
        /\ ~ (judge_result.is_RE /\ judge_result.is_TLE)
        /\ judge_result.time_ns <= judged.time_limit_ns
        /\ judge_result.trap_num # TRAP_SYSCALL => judge_result.is_RE \/ judge_result.is_TLE

(* The inductive invariant behind the three above: the cleared flag agrees   *)
(* with the sequence number, and the stored result with both histories.      *)
ResultInv ==
    /\ judge_result_cleared => judge_seq_num = NoSeq
    /\ judge_result.error = "Not Judged" => judge_seq_num = NoSeq
    /\ judge_result.error = "NULL" => judged \in Requests
    /\ KeptResultIsCurrent
    /\ NotJudgedOnlyForSentinel
    /\ VerdictConsistent

(* The statistics agree: the time accounted for fits in the judges counted.  *)
TotalTimeBounded == total_time_ns <= n_judges * MaxTimeLimit

(* A program is run only with the memory limit its request asked for, never  *)
(* with the remainder of an overflowing multiplication by 1024: the check    *)
(* after "overflow?" misses some of these but ELF::load refuses them.        *)
RunsWithRequestedLimit ==
    judge_result.error = "NULL" => judged.memory_hard_limit_kb * Kilo < Word

(* Judging writes to stdout, stderr and OB only: the program and the inputs  *)
(* are there, unchanged, for the next request.                               *)
JudgeKeepsInputs ==
    [][n_judges' # n_judges =>
         \A x \in BufferNames \ Outputs :
            \A i \in Bytes \cap Span(judged'.bufs[x].off, judged'.bufs[x].len) :
                buffer'[i] = buffer[i]]_vars

(* "use clk_thread for time measurement" (lib/elf.cpp line 403): a program   *)
(* that exits within its limit is not reported as exceeding it.              *)
NoTLEWithinLimit ==
    (/\ judge_result.error = "NULL"
     /\ judge_result.trap_num = TRAP_SYSCALL
     /\ judge_result.time_ns_real <= judged.time_limit_ns) => ~ judge_result.is_TLE
=============================================================================
