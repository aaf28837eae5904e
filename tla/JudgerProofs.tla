---------------------------- MODULE JudgerProofs ----------------------------
(***************************************************************************)
(* Proofs, for words, buffers and requests of any size, of what judge()    *)
(* keeps, answers and overwrites (kernel/duck/kern/judger.cpp).            *)
(***************************************************************************)
EXTENDS Judger, TLAPS

(* Arithmetic on machine words is exact below the word size.                 *)
LEMMA NoWrap ==
    ASSUME NEW x \in Nat, x < Word
    PROVE  x % Word = x
BY WordAssumption

(* Two buffers that is_valid_buffer and check_overlap accept have no byte in *)
(* common, although the ends are computed modulo the word size.              *)
LEMMA CheckedBuffersDisjoint ==
    ASSUME NEW b1 \in Descs, NEW b2 \in Descs,
           is_valid_buffer(b1), is_valid_buffer(b2), ~ check_overlap(b1, b2)
    PROVE  Span(b1.off, b1.len) \cap Span(b2.off, b2.len) = {}
<1>1. /\ b1.off \in Nat /\ b1.len \in Nat /\ b1.off + b1.len < Word
      /\ b2.off \in Nat /\ b2.len \in Nat /\ b2.off + b2.len < Word
  BY WordAssumption DEF Descs, is_valid_buffer, InRange
<1>2. /\ (b1.off + b1.len) % Word = b1.off + b1.len
      /\ (b2.off + b2.len) % Word = b2.off + b2.len
  BY <1>1, NoWrap
<1>3. b1.off + b1.len <= b2.off \/ b2.off + b2.len <= b1.off
  BY <1>2 DEF check_overlap
<1> QED BY <1>1, <1>3 DEF Span

(* A limit that passes both the check of judge() and those of ELF::load was  *)
(* multiplied by 1024 without overflow.                                      *)
LEMMA AcceptedLimitIsExact ==
    ASSUME NEW req \in Requests, ~ LimitOverflows(req), LimitFits(req)
    PROVE  req.memory_hard_limit_kb * Kilo < Word
<1> DEFINE kb == req.memory_hard_limit_kb
           m == memory_hard_limit(req)
<1>1. kb \in Nat /\ kb < Word
  BY RequestsAssumption, WordAssumption
<1>2. kb * Kilo \in Nat
  BY <1>1, WordAssumption
<1>3. m \in Nat /\ m < Word
  BY <1>2, WordAssumption DEF memory_hard_limit
<1>4. kb <= m
  BY <1>1, <1>3 DEF LimitOverflows
<1>5. m <= VaddrBreak
  <2> DEFINE s == m + PageSize - 1
  <2>1. CASE s < Word
    <3>1. s % Word = s
      BY <1>3, <2>1, NoWrap, WordAssumption
    <3>2. (s \div PageSize) * PageSize >= m
      BY <1>3, WordAssumption
    <3>3. LoadStart + ((s % Word) \div PageSize) * PageSize <= VaddrBreak
      BY DEF LimitFits, memory_limit
    <3>4. (s \div PageSize) * PageSize \in Nat
      BY <1>3, WordAssumption
    <3> HIDE DEF s, m
    <3> QED BY <1>3, <3>1, <3>2, <3>3, <3>4, WordAssumption
  <2>2. CASE s >= Word
    <3>1. s - Word \in Nat /\ s - Word < PageSize /\ s - Word < Word
      BY <1>3, <2>2, WordAssumption
    <3>2. s % Word = s - Word
      BY <1>3, <2>2, <3>1, WordAssumption
    <3>3. (s % Word) \div PageSize = 0
      BY <3>1, <3>2, WordAssumption
    <3>4. ((s % Word) \div PageSize) * PageSize > 0
      BY DEF LimitFits, memory_limit
    <3> HIDE DEF s, m
    <3> QED BY <3>3, <3>4, WordAssumption
  <2>3. s \in Int /\ Word \in Int
    BY <1>3, WordAssumption
  <2> HIDE DEF s
  <2> QED BY <2>1, <2>2, <2>3
<1>6. kb <= VaddrBreak
  BY <1>1, <1>3, <1>4, <1>5, WordAssumption
<1>7. kb * Kilo <= VaddrBreak * Kilo
  BY <1>1, <1>6, WordAssumption
<1> QED BY <1>2, <1>7, WordAssumption

(* What clear_judge_result stores.                                           *)
LEMMA ClearedResultType ==
    ClearedResult \in Results /\ ClearedResult.error = "Not Judged" /\ NoSeq \in 0..(Word - 1)
BY WordAssumption DEF ClearedResult, Results, Durations, NoSeq

(* The inductive invariant.  ResultInv ties the cleared flag, the sequence   *)
(* number and the stored result together, without which none of its last     *)
(* three conjuncts is preserved by clear_judge_result and JudgeAgain.        *)
JudgerInv == TypeOK /\ ResultInv /\ TotalTimeBounded /\ RunsWithRequestedLimit

(* The initial state is well typed and nothing is kept in it.                *)
LEMMA InitResult == Init => JudgerInv
<1> SUFFICES ASSUME Init PROVE JudgerInv
  OBVIOUS
<1>1. judge_result \in Results /\ judge_result.error = "Not Judged"
  BY ClearedResultType DEF Init
<1>2. TypeOK
  <2>1. DOMAIN cache = CacheNames /\ \A name \in CacheNames : DOMAIN cache[name] = {}
    BY DEF Init
  <2>2. buffer \in [Bytes -> Values]
    BY WordAssumption DEF Init
  <2>3. {n_judges, total_time_ns} = {0} /\ 0 \in 0..MaxJudges /\ 0 \in 0..(Word - 1)
    BY WordAssumption DEF Init
  <2>4. judge_seq_num \in 0..(Word - 1)
    BY WordAssumption DEF Init, NoSeq
  <2>5. {judge_result_cleared, dirty} \subseteq BOOLEAN
    BY DEF Init
  <2> QED BY <1>1, <2>1, <2>2, <2>3, <2>4, <2>5 DEF Init, TypeOK
<1>3. ResultInv
  BY <1>1 DEF Init, ResultInv, KeptResultIsCurrent, NotJudgedOnlyForSentinel,
              VerdictConsistent
<1>4. TotalTimeBounded
  BY WordAssumption DEF Init, TotalTimeBounded
<1>5. RunsWithRequestedLimit
  BY <1>1 DEF RunsWithRequestedLimit
<1> QED BY <1>2, <1>3, <1>4, <1>5 DEF JudgerInv

(* A successful buffer operation or cache load drops the kept result.        *)
LEMMA ChangeBufferKeeps ==
    ASSUME JudgerInv, NEW new \in [Bytes -> Values], ChangeBuffer(new), UNCHANGED cache
    PROVE  JudgerInv'
<1> USE DEF JudgerInv
<1>1. ClearedResult \in Results /\ ClearedResult.error = "Not Judged" /\ NoSeq \in 0..(Word - 1)
  BY ClearedResultType
<1>2. judge_seq_num' = NoSeq
  BY DEF ChangeBuffer, clear_judge_result, ResultInv
<1>3. \/ judge_result' \in {judge_result, ClearedResult} /\ judge_result'.error # "NULL"
      \/ judge_result' = judge_result
  BY <1>1 DEF ChangeBuffer, clear_judge_result
<1>4. TypeOK'
  BY <1>1, <1>2, <1>3 DEF TypeOK, ChangeBuffer, clear_judge_result, stats
<1>5. ResultInv'
  BY <1>2, <1>3 DEF ResultInv, ChangeBuffer, clear_judge_result, stats,
       KeptResultIsCurrent, NotJudgedOnlyForSentinel, VerdictConsistent
<1>6. TotalTimeBounded' /\ RunsWithRequestedLimit'
  BY <1>3 DEF TotalTimeBounded, RunsWithRequestedLimit, ChangeBuffer, stats
<1> QED BY <1>4, <1>5, <1>6

(* clear_buffer, write_buffer and copy_buffer write bytes of Values into the *)
(* range they checked, and nothing outside it.                               *)
LEMMA BufferOperationsKeep ==
    ASSUME JudgerInv, NEW r \in Ranges, NEW s \in Ranges, NEW v \in Values,
           \/ clear_buffer(r.off, r.len) \/ write_buffer(r.off, r.len, v)
           \/ copy_buffer(r.off, s.off, r.len)
    PROVE  JudgerInv'
<1>1. /\ r.off \in Nat /\ r.len \in Nat /\ s.off \in Nat
      /\ BufferSize \in Nat /\ 0 \in Values
  BY RangesAssumption, WordAssumption DEF Descs
<1>2. buffer \in [Bytes -> Values]
  BY DEF JudgerInv, TypeOK
<1>3. CASE clear_buffer(r.off, r.len)
  <2>1. [i \in Bytes |-> IF i \in Span(r.off, r.len) THEN 0 ELSE buffer[i]] \in [Bytes -> Values]
    BY <1>1, <1>2
  <2> QED BY <1>3, <2>1, ChangeBufferKeeps DEF clear_buffer
<1>4. CASE write_buffer(r.off, r.len, v)
  <2>1. [i \in Bytes |-> IF i \in Span(r.off, r.len) THEN v ELSE buffer[i]] \in [Bytes -> Values]
    BY <1>2
  <2> QED BY <1>4, <2>1, ChangeBufferKeeps DEF write_buffer
<1>5. CASE copy_buffer(r.off, s.off, r.len)
  <2> DEFINE new == [i \in Bytes |-> IF i \in Span(r.off, r.len)
                                       THEN buffer[s.off + (i - r.off)] ELSE buffer[i]]
  <2>1. \A i \in Span(r.off, r.len) : s.off + (i - r.off) \in Bytes
    BY <1>1, <1>5, SMTT(30) DEF copy_buffer, InRange, Span, Bytes
  <2>2. new \in [Bytes -> Values]
    BY <1>2, <2>1
  <2>3. ChangeBuffer(new) /\ UNCHANGED cache
    BY <1>5 DEF copy_buffer
  <2> HIDE DEF new
  <2> QED BY <2>2, <2>3, ChangeBufferKeeps
<1> QED BY <1>3, <1>4, <1>5

(* load_cache copies what it finds into the range, which is as long.         *)
LEMMA LoadKeeps ==
    ASSUME JudgerInv, NEW name \in CacheNames, NEW d \in Digests, NEW r \in Ranges,
           load_cache(name, r.off, r.len, d)
    PROVE  JudgerInv'
<1> DEFINE new == [i \in Bytes |-> IF i \in Span(r.off, r.len)
                                     THEN cache[name][d][i - r.off + 1] ELSE buffer[i]]
<1>1. cache[name][d] \in Seq(Values) /\ Len(cache[name][d]) = r.len
  BY DEF load_cache, JudgerInv, TypeOK
<1>2. \A i \in Span(r.off, r.len) : i - r.off + 1 \in 1..r.len
  BY RangesAssumption DEF Descs, Span
<1>3. \A i \in Span(r.off, r.len) : cache[name][d][i - r.off + 1] \in Values
  BY <1>1, <1>2
<1>4. new \in [Bytes -> Values]
  BY <1>3 DEF JudgerInv, TypeOK
<1>5. ChangeBuffer(new) /\ UNCHANGED cache
  BY DEF load_cache
<1> HIDE DEF new
<1> QED BY <1>4, <1>5, ChangeBufferKeeps

(* store_cache copies bytes of the buffer into a cache and may drop others.  *)
LEMMA StoreKeeps ==
    ASSUME JudgerInv, NEW r \in Ranges, NEW name \in CacheNames, NEW d \in Digests,
           store_cache(name, r.off, r.len, d)
    PROVE  JudgerInv'
<1>1. UNCHANGED <<buffer, n_judges, total_time_ns, judge_seq_num, judge_result,
                  judge_result_cleared, answer, judged, dirty>>
  BY DEF store_cache, stats, results
<1>2. PICK kept \in SUBSET DOMAIN cache[name] :
          cache' = [cache EXCEPT ![name] = [e \in kept \cup {d} |->
                      IF e = d THEN [k \in 1..r.len |-> buffer[r.off + k - 1]]
                      ELSE cache[name][e]]]
  BY DEF store_cache
<1>3. [k \in 1..r.len |-> buffer[r.off + k - 1]] \in Seq(Values)
  <2>1. r.off \in Nat /\ r.len \in Nat /\ BufferSize \in Nat
    BY RangesAssumption, WordAssumption DEF Descs
  <2>2. \A k \in 1..r.len : r.off + k - 1 \in Bytes
    BY <2>1 DEF store_cache, InRange, Bytes
  <2>3. \A k \in 1..r.len : buffer[r.off + k - 1] \in Values
    BY <2>2 DEF JudgerInv, TypeOK
  <2> QED BY <2>1, <2>3
<1>4. /\ DOMAIN cache' = CacheNames
      /\ \A n \in CacheNames : \A e \in DOMAIN cache'[n] : cache'[n][e] \in Seq(Values)
  <2>1. /\ DOMAIN cache = CacheNames
        /\ \A n \in CacheNames : \A e \in DOMAIN cache[n] : cache[n][e] \in Seq(Values)
    BY DEF JudgerInv, TypeOK
  <2>2. ASSUME NEW n \in CacheNames, NEW e \in DOMAIN cache'[n]
        PROVE  cache'[n][e] \in Seq(Values)
    <3>1. CASE n # name
      BY <1>2, <2>1, <2>2, <3>1
    <3>2. CASE n = name /\ e = d
      BY <1>2, <1>3, <2>1, <3>2
    <3>3. CASE n = name /\ e # d
      BY <1>2, <2>1, <2>2, <3>3
    <3> QED BY <3>1, <3>2, <3>3
  <2> QED BY <1>2, <2>1, <2>2
<1> QED BY <1>1, <1>4 DEF JudgerInv, TypeOK, ResultInv, KeptResultIsCurrent,
          NotJudgedOnlyForSentinel, VerdictConsistent, TotalTimeBounded,
          RunsWithRequestedLimit

(* What a request that clients may send looks like.                          *)
LEMMA RequestType ==
    ASSUME NEW req \in Requests
    PROVE  /\ req.seq_num \in 0..(Word - 1)
           /\ req.time_limit_ns \in 0..(Word - 1)
           /\ \A x \in BufferNames : req.bufs[x] \in Descs
BY RequestsAssumption

(* A request sent again repeats the stored answer.                           *)
LEMMA JudgeAgainKeeps ==
    ASSUME JudgerInv, NEW req \in Requests, JudgeAgain(req)
    PROVE  JudgerInv'
<1>1. /\ answer' = [seq_num |-> judge_seq_num, result |-> judge_result]
      /\ UNCHANGED <<buffer, cache, n_judges, total_time_ns, judge_seq_num, judge_result,
                     judge_result_cleared, judged, dirty>>
  BY DEF JudgeAgain, stats, results
<1>2. TypeOK'
  BY <1>1 DEF JudgerInv, TypeOK
<1>3. ResultInv'
  BY <1>1 DEF JudgerInv, ResultInv, KeptResultIsCurrent, NotJudgedOnlyForSentinel,
              VerdictConsistent
<1> QED BY <1>1, <1>2, <1>3 DEF JudgerInv, TotalTimeBounded, RunsWithRequestedLimit

(* An early return answers with its error and accounts for no time.          *)
LEMMA JudgeFailsKeeps ==
    ASSUME JudgerInv, NEW req \in Requests, JudgeFails(req)
    PROVE  JudgerInv'
<1>1. /\ n_judges \in Nat /\ n_judges < MaxJudges /\ n_judges' = n_judges + 1
      /\ judge_result_cleared' = FALSE /\ judge_seq_num' = req.seq_num
      /\ answer' = [seq_num |-> req.seq_num, result |-> judge_result']
      /\ judged' = req /\ dirty' = FALSE
      /\ UNCHANGED <<buffer, cache, total_time_ns>>
  <2>1. n_judges \in Nat
    BY WordAssumption DEF JudgerInv, TypeOK
  <2> QED BY <2>1 DEF JudgeFails, BeginJudge
<1>2. /\ judge_result' \in Results
      /\ judge_result'.error # "NULL" /\ judge_result'.error # "Not Judged"
  BY DEF JudgeFails, JudgerInv, TypeOK, Results
<1>3. TypeOK'
  <2>1. /\ judge_seq_num' \in 0..(Word - 1) /\ judged' \in Requests
        /\ answer' \in [seq_num : 0..(Word - 1), result : Results]
    BY <1>1, <1>2, RequestType
  <2>2. n_judges' \in 0..MaxJudges
    BY <1>1, WordAssumption
  <2> QED BY <1>1, <1>2, <2>1, <2>2 DEF JudgerInv, TypeOK
<1>4. ResultInv'
  BY <1>1, <1>2 DEF ResultInv, KeptResultIsCurrent, NotJudgedOnlyForSentinel,
                    VerdictConsistent
<1>5. TotalTimeBounded'
  <2>1. n_judges * MaxTimeLimit <= (n_judges + 1) * MaxTimeLimit
    BY <1>1, WordAssumption
  <2>2. total_time_ns \in Nat /\ n_judges * MaxTimeLimit \in Nat
        /\ (n_judges + 1) * MaxTimeLimit \in Nat
    BY <1>1, WordAssumption DEF JudgerInv, TypeOK
  <2>3. total_time_ns <= (n_judges + 1) * MaxTimeLimit
    BY <2>1, <2>2 DEF JudgerInv, TotalTimeBounded
  <2> QED BY <1>1, <2>3 DEF TotalTimeBounded
<1>6. RunsWithRequestedLimit'
  BY <1>2 DEF RunsWithRequestedLimit
<1> QED BY <1>3, <1>4, <1>5, <1>6 DEF JudgerInv

(* A program that runs gets its verdict, and the limit it asked for.         *)
LEMMA JudgeRunsKeeps ==
    ASSUME JudgerInv, NEW req \in Requests, JudgeRuns(req)
    PROVE  JudgerInv'
<1>1. /\ n_judges \in Nat /\ n_judges < MaxJudges /\ n_judges' = n_judges + 1
      /\ judge_result_cleared' = FALSE /\ judge_seq_num' = req.seq_num
      /\ answer' = [seq_num |-> req.seq_num, result |-> judge_result']
      /\ judged' = req /\ dirty' = FALSE /\ UNCHANGED cache
      /\ total_time_ns' = (total_time_ns + judge_result'.time_ns) % Word
  BY WordAssumption DEF JudgeRuns, BeginJudge, JudgerInv, TypeOK
<1>2. PICK trap \in Traps, t \in Durations, real \in Durations :
          judge_result' = Verdict(req, trap, t, real)
  BY DEF JudgeRuns
<1>3. req.time_limit_ns \in 1..MaxTimeLimit
  BY DEF JudgeRuns, ValidTimeLimit
<1>4. t \in Nat /\ MaxTimeLimit \in Nat
  BY WordAssumption DEF Durations
<1>5. judge_result'.time_ns \in 0..req.time_limit_ns
  BY <1>2, <1>3, <1>4 DEF Verdict
<1>6. judge_result' \in Results /\ judge_result'.error = "NULL"
  <2>1. judge_result'.time_ns \in 0..MaxTimeLimit
    BY <1>3, <1>4, <1>5
  <2> QED BY <1>2, <2>1 DEF Verdict, Results
<1>7. /\ ~ (judge_result'.is_RE /\ judge_result'.is_TLE)
      /\ judge_result'.trap_num # TRAP_SYSCALL => judge_result'.is_RE \/ judge_result'.is_TLE
  BY <1>2 DEF Verdict
<1>8. buffer' \in [Bytes -> Values]
  <2>1. PICK out \in 0..req.bufs["stdout"].len, err \in 0..req.bufs["stderr"].len, v \in Values :
            buffer' = CopyBack(req, out, err, v)
    BY DEF JudgeRuns
  <2> QED BY <2>1 DEF CopyBack, JudgerInv, TypeOK
<1>9. total_time_ns \in Nat /\ judge_result'.time_ns \in Nat
  BY <1>3, <1>5 DEF JudgerInv, TypeOK
<1>10. TypeOK'
  <2>1. total_time_ns' \in 0..(Word - 1)
    BY <1>1, <1>9, WordAssumption
  <2>2. /\ judge_seq_num' \in 0..(Word - 1) /\ judged' \in Requests
        /\ answer' \in [seq_num : 0..(Word - 1), result : Results]
    BY <1>1, <1>6, RequestType
  <2>3. n_judges' \in 0..MaxJudges
    BY <1>1, WordAssumption
  <2> QED BY <1>1, <1>6, <1>8, <2>1, <2>2, <2>3 DEF JudgerInv, TypeOK
<1>11. ResultInv'
  <2>1. judge_result'.time_ns <= judged'.time_limit_ns
    BY <1>1, <1>3, <1>5
  <2> QED BY <1>1, <1>6, <1>7, <2>1 DEF ResultInv, KeptResultIsCurrent,
             NotJudgedOnlyForSentinel, VerdictConsistent
<1>12. TotalTimeBounded'
  <2>1. (n_judges + 1) * MaxTimeLimit = n_judges * MaxTimeLimit + MaxTimeLimit
        /\ n_judges * MaxTimeLimit \in Nat
    BY <1>1, <1>4
  <2>2. total_time_ns + judge_result'.time_ns <= n_judges * MaxTimeLimit + MaxTimeLimit
    BY <1>3, <1>4, <1>5, <1>9, <2>1 DEF JudgerInv, TotalTimeBounded
  <2>3. total_time_ns' <= total_time_ns + judge_result'.time_ns
    BY <1>1, <1>9, WordAssumption
  <2>4. total_time_ns' \in Nat
    BY <1>1, <1>9, WordAssumption
  <2> QED BY <1>1, <1>4, <1>9, <2>1, <2>2, <2>3, <2>4 DEF TotalTimeBounded
<1>13. RunsWithRequestedLimit'
  <2>1. req.memory_hard_limit_kb * Kilo < Word
    BY AcceptedLimitIsExact DEF JudgeRuns, ValidRequest
  <2> QED BY <1>1, <2>1 DEF RunsWithRequestedLimit
<1> QED BY <1>10, <1>11, <1>12, <1>13 DEF JudgerInv

(* Every step of a client preserves the invariant.                           *)
LEMMA NextResult == JudgerInv /\ [Next]_vars => JudgerInv'
<1> SUFFICES ASSUME JudgerInv, [Next]_vars PROVE JudgerInv'
  OBVIOUS
<1>1. CASE UNCHANGED vars
  BY <1>1 DEF vars, JudgerInv, TypeOK, ResultInv, KeptResultIsCurrent,
       NotJudgedOnlyForSentinel, VerdictConsistent, TotalTimeBounded, RunsWithRequestedLimit
<1>2. ASSUME NEW r \in Ranges, NEW s \in Ranges, NEW v \in Values,
             \/ clear_buffer(r.off, r.len) \/ write_buffer(r.off, r.len, v)
             \/ copy_buffer(r.off, s.off, r.len)
      PROVE  JudgerInv'
  BY <1>2, BufferOperationsKeep
<1>3. ASSUME NEW name \in CacheNames, NEW d \in Digests, NEW r \in Ranges,
             load_cache(name, r.off, r.len, d) \/ store_cache(name, r.off, r.len, d)
      PROVE  JudgerInv'
  BY <1>3, LoadKeeps, StoreKeeps
<1>4. ASSUME NEW req \in Requests, JudgeAgain(req) \/ JudgeFails(req) \/ JudgeRuns(req)
      PROVE  JudgerInv'
  BY <1>4, JudgeAgainKeeps, JudgeFailsKeeps, JudgeRunsKeeps
<1> QED BY <1>1, <1>2, <1>3, <1>4 DEF Next

(* The invariant holds of every execution.                                   *)
THEOREM JudgerCorrect == Spec => []JudgerInv
<1>1. Init => JudgerInv
  BY InitResult
<1>2. JudgerInv /\ [Next]_vars => JudgerInv'
  BY NextResult
<1> QED BY <1>1, <1>2, PTL DEF Spec

(* The judger's state stays well typed for words and buffers of any size.    *)
THEOREM JudgerTypes == Spec => []TypeOK
<1>1. JudgerInv => TypeOK
  BY DEF JudgerInv
<1> QED BY <1>1, JudgerCorrect, PTL

(* judge() never answers a request from a result the buffer has outgrown.    *)
THEOREM NoStaleAnswer == Spec => []KeptResultIsCurrent
<1>1. JudgerInv => KeptResultIsCurrent
  BY DEF JudgerInv, ResultInv
<1> QED BY <1>1, JudgerCorrect, PTL

(* "Not Judged" is the answer to nobody but a client that uses -1.           *)
THEOREM OnlySentinelNotJudged == Spec => []NotJudgedOnlyForSentinel
<1>1. JudgerInv => NotJudgedOnlyForSentinel
  BY DEF JudgerInv, ResultInv
<1> QED BY <1>1, JudgerCorrect, PTL

(* Every verdict is consistent and within its limit.                         *)
THEOREM VerdictsAreConsistent == Spec => []VerdictConsistent
<1>1. JudgerInv => VerdictConsistent
  BY DEF JudgerInv, ResultInv
<1> QED BY <1>1, JudgerCorrect, PTL

(* The total time of the statistics fits in the judges counted.              *)
THEOREM TotalTimeIsBounded == Spec => []TotalTimeBounded
<1>1. JudgerInv => TotalTimeBounded
  BY DEF JudgerInv
<1> QED BY <1>1, JudgerCorrect, PTL

(* No program runs with a memory limit other than the one asked for.         *)
THEOREM LimitsAreExact == Spec => []RunsWithRequestedLimit
<1>1. JudgerInv => RunsWithRequestedLimit
  BY DEF JudgerInv
<1> QED BY <1>1, JudgerCorrect, PTL

(* What a judge copies back lies in its three output buffers, which          *)
(* check_buffers has found disjoint from the program and the inputs.         *)
THEOREM InputsAreKept == Spec => JudgeKeepsInputs
<1> DEFINE Kept == n_judges' # n_judges =>
              \A x \in BufferNames \ Outputs :
                 \A i \in Bytes \cap Span(judged'.bufs[x].off, judged'.bufs[x].len) :
                     buffer'[i] = buffer[i]
<1>1. JudgerInv /\ [Next]_vars => [Kept]_vars
  <2> SUFFICES ASSUME JudgerInv, [Next]_vars, n_judges' # n_judges,
                      NEW x \in BufferNames \ Outputs,
                      NEW i \in Bytes \cap Span(judged'.bufs[x].off, judged'.bufs[x].len)
               PROVE  buffer'[i] = buffer[i]
    OBVIOUS
  <2>1. PICK req \in Requests : JudgeFails(req) \/ JudgeRuns(req)
    BY DEF Next, vars, clear_buffer, write_buffer, copy_buffer, load_cache, store_cache,
           JudgeAgain, ChangeBuffer, stats
  <2>2. judged' = req
    BY <2>1 DEF JudgeFails, JudgeRuns, BeginJudge
  <2>3. CASE JudgeFails(req)
    BY <2>3 DEF JudgeFails
  <2>4. CASE JudgeRuns(req)
    <3>1. PICK out \in 0..req.bufs["stdout"].len, err \in 0..req.bufs["stderr"].len, v \in Values :
              buffer' = CopyBack(req, out, err, v)
      BY <2>4 DEF JudgeRuns
    <3>2. ASSUME NEW y \in Outputs
          PROVE  i \notin Span(req.bufs[y].off, req.bufs[y].len)
      <4>1. x \in BufferNames /\ y \in BufferNames /\ x # y
        BY <3>2 DEF Outputs, BufferNames
      <4>2. /\ is_valid_buffer(req.bufs[x]) /\ is_valid_buffer(req.bufs[y])
            /\ ~ check_overlap(req.bufs[x], req.bufs[y])
        BY <2>4, <4>1 DEF JudgeRuns, ValidRequest, check_buffers
      <4>3. Span(req.bufs[x].off, req.bufs[x].len) \cap Span(req.bufs[y].off, req.bufs[y].len) = {}
        BY <4>1, <4>2, RequestType, CheckedBuffersDisjoint
      <4> QED BY <2>2, <4>3
    <3>3. /\ req.bufs["stdout"].off \in Nat /\ req.bufs["stdout"].len \in Nat
          /\ req.bufs["stderr"].off \in Nat /\ req.bufs["stderr"].len \in Nat
      BY RequestType, WordAssumption DEF BufferNames, Descs
    <3>4. /\ Span(req.bufs["stdout"].off, out) \subseteq Span(req.bufs["stdout"].off, req.bufs["stdout"].len)
          /\ Span(req.bufs["stderr"].off, err) \subseteq Span(req.bufs["stderr"].off, req.bufs["stderr"].len)
      BY <3>1, <3>3 DEF Span
    <3>5. /\ i \notin Span(req.bufs["stdout"].off, out)
          /\ i \notin Span(req.bufs["stderr"].off, err)
          /\ i \notin Span(req.bufs["OB"].off, req.bufs["OB"].len)
      BY <3>2, <3>4 DEF Outputs
    <3> QED BY <3>1, <3>5 DEF CopyBack
  <2> QED BY <2>1, <2>3, <2>4
<1> QED BY <1>1, JudgerCorrect, PTL DEF Spec, JudgeKeepsInputs
=============================================================================
