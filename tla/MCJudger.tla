----------------------------- MODULE MCJudger -------------------------------
(***************************************************************************)
(* Words of 6 bits, "kilo" 4, pages of 2 bytes.  The requests have one     *)
(* thing wrong each: overlapping buffers, a buffer that ends outside, one  *)
(* whose end wraps, a limit whose product by "kilo" overflows and is       *)
(* caught by the check, one that overflows and is not, a time limit of     *)
(* zero, one too large; two are right, one of them with the number -1.     *)
(***************************************************************************)
EXTENDS Judger

Desc(off, len) == [off |-> off, len |-> len]

Layout == [x \in BufferNames |->
    CASE x = "ELF" -> Desc(0, 1) [] x = "stdin" -> Desc(1, 1)
      [] x = "stdout" -> Desc(2, 1) [] x = "stderr" -> Desc(3, 0)
      [] x = "IB" -> Desc(3, 0) [] x = "OB" -> Desc(3, 1)]

Good == [seq_num |-> 1, time_limit_ns |-> 2, memory_hard_limit_kb |-> 2, bufs |-> Layout]

RequestsValue == {
    Good,
    [Good EXCEPT !.seq_num = NoSeq, !.time_limit_ns = 1],
    [Good EXCEPT !.seq_num = 2, !.bufs["OB"] = Desc(1, 2)],
    [Good EXCEPT !.seq_num = 2, !.bufs["OB"] = Desc(3, 2)],
    [Good EXCEPT !.seq_num = 2, !.bufs["OB"] = Desc(3, 62)],
    [Good EXCEPT !.seq_num = 2, !.memory_hard_limit_kb = 16],
    [Good EXCEPT !.seq_num = 2, !.memory_hard_limit_kb = 24],
    [Good EXCEPT !.seq_num = 2, !.time_limit_ns = 0],
    [Good EXCEPT !.seq_num = 2, !.time_limit_ns = MaxTimeLimit + 1]}

RangesValue == {Desc(0, 1), Desc(2, 2), Desc(3, 2)}
=============================================================================
