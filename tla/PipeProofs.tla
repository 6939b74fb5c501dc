----------------------------- MODULE PipeProofs -----------------------------
(***************************************************************************)
(* Proofs about Pipe for every number of processes, size of the buffer and *)
(* width of the counters.                                                  *)
(*                                                                         *)
(* IInv is inductive.  Its parts say who has p->lock, which ends the       *)
(* processes in the pipe code still hold, how the counters are related,    *)
(* and, for every place where a process is about to sleep or asleep, who   *)
(* still has to wake it.                                                   *)
(***************************************************************************)
EXTENDS Pipe, Sequences, SequenceTheorems, TLAPS

(* The time a prover is given for a step. *)
USE SMTT(60), ZenonT(30)

(* The bytes in the pipe, as piperead() and pipewrite() count them. *)
Fill == (nwrite - nread) % Word

Bounded == Fill <= PIPESIZE

(* Who is between acquire() and release() has the lock, and nobody else. *)
LockHeld == \A p \in Proc : pc[p] \in LockPcs <=> lock = p

(* A call goes on only while its process holds the end, and the last close *)
(* of an end comes after every use of it and once.                         *)
EndsHeld ==
  \A p \in Proc :
    /\ pc[p] \in WritePcs => "w" \in ends[p]
    /\ pc[p] \in ReadPcs => "r" \in ends[p]
    /\ "w" \in ends[p] \/ pc[p] = "closew" => writeopen
    /\ "r" \in ends[p] \/ pc[p] = "closer" => readopen
    /\ pc[p] = "closew" =>
         \A q \in Proc : "w" \notin ends[q] /\ (pc[q] = "closew" => q = p)
    /\ pc[p] = "closer" =>
         \A q \in Proc : "r" \notin ends[q] /\ (pc[q] = "closer" => q = p)

FreedWhenClosed == freed = (~readopen /\ ~writeopen)

(* What a sleeper tested still holds, or the holder of the lock, or a killed *)
(* writer before it, changed it.                                             *)
SleepersWait ==
  \A p \in Proc :
    /\ pc[p] \in {"wfull", "wsleep"} => readopen
    /\ pc[p] \in {"rempty", "rsleep"} => writeopen
    /\ pc[p] = "wfull" => Full
    /\ pc[p] = "rempty" => Empty
    /\ pc[p] = "wsleep" => Full \/ \E q \in Proc : pc[q] = "copy"
    /\ pc[p] = "rsleep" => \/ Empty
                           \/ \E q \in Proc : killed[q]
                           \/ \E q \in Proc : pc[q] = "write"

(* piperead() in its copy loop has something to return, or is at the end. *)
CopyHasData ==
  \A p \in Proc : pc[p] = "copy" /\ ~got[p] => ~Empty \/ ~writeopen

IInv ==
  /\ TypeOK
  /\ Bounded
  /\ LockHeld
  /\ EndsHeld
  /\ FreedWhenClosed
  /\ SleepersWait
  /\ CopyHasData

-----------------------------------------------------------------------------
(* Arithmetic modulo a positive number w. *)
LEMMA ModRange ==
  ASSUME NEW w \in Nat \ {0}, NEW x \in Int
  PROVE x % w \in 0..w-1
  OBVIOUS

(* Division with remainder. *)
LEMMA ModQuotient ==
  ASSUME NEW w \in Nat \ {0}, NEW x \in Int
  PROVE \E k \in Int : x = k * w + (x % w)
<1>1. x \div w \in Int
  OBVIOUS
<1>2. x = (x \div w) * w + (x % w)
  OBVIOUS
<1> QED BY <1>1, <1>2, Zenon

(* A number is determined by its quotient and its remainder. *)
LEMMA ModUnique ==
  ASSUME NEW w \in Nat \ {0}, NEW k \in Int, NEW a \in 0..w-1
  PROVE (k * w + a) % w = a
  OBVIOUS

(* A multiple of w makes no difference: this is why the counters may wrap *)
(* at Word although the index wraps at PIPESIZE.                          *)
LEMMA ModShift ==
  ASSUME NEW w \in Nat \ {0}, NEW x \in Int, NEW y \in Int, y % w = 0
  PROVE (x + y) % w = x % w
<1>1. PICK k \in Int : x = k * w + (x % w)
  BY ModQuotient, Zenon
<1>2. PICK l \in Int : y = l * w + (y % w)
  BY ModQuotient, Zenon
<1>3. x + y = (k + l) * w + (x % w) /\ k + l \in Int
  BY <1>1, <1>2, ModRange
<1>4. x % w \in 0..w-1
  BY ModRange, Zenon
<1>5. ((k + l) * w + (x % w)) % w = x % w
  BY <1>3, <1>4, ModUnique, Zenon
<1> QED BY <1>3, <1>5, Zenon

(* Numbers less than w apart have different remainders. *)
LEMMA ModApart ==
  ASSUME NEW w \in Nat \ {0}, NEW x \in Int, NEW d \in 1..w-1
  PROVE (x + d) % w # x % w
<1>1. PICK k \in Int : x = k * w + (x % w)
  BY ModQuotient, Zenon
<1>2. x + d \in Int
  OBVIOUS
<1>3. PICK l \in Int : x + d = l * w + ((x + d) % w)
  BY <1>2, ModQuotient, Zenon
<1> SUFFICES ASSUME (x + d) % w = x % w PROVE FALSE
  OBVIOUS
<1> DEFINE m == l - k
<1>4. d = m * w /\ m \in Int
  BY <1>1, <1>3, ModRange
<1> HIDE DEF m
<1>5. CASE m <= 0
  BY <1>4, <1>5
<1>6. CASE m >= 1
  BY <1>4, <1>6
<1> QED BY <1>4, <1>5, <1>6

-----------------------------------------------------------------------------
(* The counters without %. *)
LEMMA Counters ==
  ASSUME NEW x \in 0..Word-1, NEW y \in 0..Word-1
  PROVE /\ Inc(x) = IF x = Word - 1 THEN 0 ELSE x + 1
        /\ (y - x) % Word = IF x <= y THEN y - x ELSE y - x + Word
        /\ (x + PIPESIZE) % Word = IF x + PIPESIZE < Word THEN x + PIPESIZE
                                   ELSE x + PIPESIZE - Word
  BY PipeAssumption DEF Inc

(* Full and empty are told apart by the difference of the counters. *)
LEMMA FillFacts ==
  ASSUME TypeOK
  PROVE /\ Fill \in 0..Word-1
        /\ Full <=> Fill = PIPESIZE
        /\ Empty <=> Fill = 0
<1>1. nread \in 0..Word-1 /\ nwrite \in 0..Word-1
  BY Zenon DEF TypeOK
<1>2. Fill = IF nread <= nwrite THEN nwrite - nread ELSE nwrite - nread + Word
  BY <1>1, Counters, Zenon DEF Fill
<1>3. Full <=> nwrite = IF nread + PIPESIZE < Word THEN nread + PIPESIZE
                        ELSE nread + PIPESIZE - Word
  BY <1>1, Counters, Zenon DEF Full
<1> QED BY <1>1, <1>2, <1>3, PipeAssumption DEF Empty

(* A byte in and a byte out. *)
LEMMA FillGrows ==
  ASSUME TypeOK, Bounded, ~Full, nwrite' = Inc(nwrite), nread' = nread
  PROVE Fill' = Fill + 1 /\ nwrite' \in 0..Word-1
<1>1. nread \in 0..Word-1 /\ nwrite \in 0..Word-1
  BY Zenon DEF TypeOK
<1>2. nwrite' = IF nwrite = Word - 1 THEN 0 ELSE nwrite + 1
  BY <1>1, Counters, Zenon
<1>3. nwrite' \in 0..Word-1
  BY <1>1, <1>2, PipeAssumption
<1>4. Fill = IF nread <= nwrite THEN nwrite - nread ELSE nwrite - nread + Word
  BY <1>1, Counters, Zenon DEF Fill
<1>5. Fill' = IF nread <= nwrite' THEN nwrite' - nread ELSE nwrite' - nread + Word
  BY <1>1, <1>3, Counters, Zenon DEF Fill
<1>6. Fill < PIPESIZE /\ PIPESIZE < Word
  BY FillFacts, PipeAssumption DEF Bounded
<1> QED BY <1>1, <1>2, <1>3, <1>4, <1>5, <1>6, PipeAssumption

(* A byte out. *)
LEMMA FillShrinks ==
  ASSUME TypeOK, ~Empty, nwrite' = nwrite, nread' = Inc(nread)
  PROVE Fill' = Fill - 1 /\ nread' \in 0..Word-1
<1>1. nread \in 0..Word-1 /\ nwrite \in 0..Word-1 /\ nread # nwrite
  BY Zenon DEF TypeOK, Empty
<1>2. nread' = IF nread = Word - 1 THEN 0 ELSE nread + 1
  BY <1>1, Counters, Zenon
<1>3. nread' \in 0..Word-1
  BY <1>1, <1>2, PipeAssumption
<1>4. Fill = IF nread <= nwrite THEN nwrite - nread ELSE nwrite - nread + Word
  BY <1>1, Counters, Zenon DEF Fill
<1>5. Fill' = IF nread' <= nwrite THEN nwrite - nread' ELSE nwrite - nread' + Word
  BY <1>1, <1>3, Counters, Zenon DEF Fill
<1> QED BY <1>1, <1>2, <1>3, <1>4, <1>5, PipeAssumption

-----------------------------------------------------------------------------
(* A call starts without the lock. *)
LEMMA call_inv ==
  ASSUME IInv, NEW p \in Proc, NEW e \in {"r", "w"}, NEW k \in 0..MaxN, call(p, e, k)
  PROVE IInv'
<1> USE DEF IInv, call, Move, pipeVars
<1>1. TypeOK'
  BY PipeAssumption, Zenon DEF TypeOK, Pcs
<1>2. Bounded' /\ FreedWhenClosed'
  BY Zenon DEF Bounded, Fill, FreedWhenClosed
<1>3. LockHeld'
  BY PipeAssumption, Zenon DEF LockHeld, LockPcs, TypeOK
<1>4. EndsHeld'
  BY DEF EndsHeld, WritePcs, ReadPcs, TypeOK
<1>5. SleepersWait'
  BY
     DEF SleepersWait, LockHeld, LockPcs, EndsHeld, WritePcs, ReadPcs, TypeOK, Full, Empty
<1>6. CopyHasData'
  BY Zenon DEF CopyHasData, TypeOK, Empty, LockHeld, LockPcs
<1> QED BY <1>1, <1>2, <1>3, <1>4, <1>5, <1>6, Zenon

(* The lock is free when it is taken; the caller holds its own end open. *)
LEMMA acquire_inv ==
  ASSUME IInv, NEW p \in Proc, acquire(p)
  PROVE IInv'
<1> USE DEF IInv, acquire, Move, pipeVars
<1>1. TypeOK'
  BY PipeAssumption, Zenon DEF TypeOK, Pcs
<1>2. Bounded' /\ FreedWhenClosed'
  BY Zenon DEF Bounded, Fill, FreedWhenClosed
<1>3. LockHeld'
  BY PipeAssumption, Zenon DEF LockHeld, LockPcs, TypeOK
<1>4. EndsHeld'
  BY DEF EndsHeld, WritePcs, ReadPcs, TypeOK
<1>5. SleepersWait'
  BY
     DEF SleepersWait, LockHeld, LockPcs, EndsHeld, WritePcs, ReadPcs, TypeOK, Full, Empty
<1>6. CopyHasData'
  BY Zenon DEF CopyHasData, TypeOK, Empty, LockHeld, LockPcs
<1> QED BY <1>1, <1>2, <1>3, <1>4, <1>5, <1>6, Zenon

(* A byte is written only below PIPESIZE, under the lock, so that the fill  *)
(* grows by one and stays within the buffer.                                *)
LEMMA write_byte_inv ==
  ASSUME IInv, NEW p \in Proc, NEW v \in Data, write_byte(p, v)
  PROVE IInv'
<1> USE DEF IInv, write_byte, pipeVars
<1>1. TypeOK'
  <2>1. nwrite' \in 0..Word-1
    BY FillGrows, Zenon
  <2>2. n' \in [Proc -> 0..MaxN]
    BY PipeAssumption DEF TypeOK
  <2> QED BY <2>1, <2>2, Zenon DEF TypeOK
<1>2. Bounded'
  BY PipeAssumption, FillGrows, FillShrinks, FillFacts DEF Bounded
<1>3. LockHeld'
  BY PipeAssumption, Zenon DEF LockHeld, LockPcs, TypeOK
<1>4. EndsHeld'
  BY Zenon DEF EndsHeld, WritePcs, ReadPcs, TypeOK
<1>5. FreedWhenClosed'
  BY Zenon DEF FreedWhenClosed
<1>6. SleepersWait'
  BY
     DEF SleepersWait, LockHeld, LockPcs, EndsHeld, WritePcs, ReadPcs, TypeOK, Full, Empty
<1>7. CopyHasData'
  BY Zenon DEF CopyHasData, TypeOK, Empty, LockHeld, LockPcs
<1> QED BY <1>1, <1>2, <1>3, <1>4, <1>5, <1>6, <1>7, Zenon

(* pipewrite() gives up: the lock is released. *)
LEMMA write_error_inv ==
  ASSUME IInv, NEW p \in Proc, write_error(p)
  PROVE IInv'
<1> USE DEF IInv, write_error, Move, Return, pipeVars
<1>1. TypeOK'
  BY PipeAssumption DEF TypeOK, Pcs
<1>2. Bounded' /\ FreedWhenClosed'
  BY Zenon DEF Bounded, Fill, FreedWhenClosed
<1>3. LockHeld'
  BY PipeAssumption DEF LockHeld, LockPcs, TypeOK
<1>4. EndsHeld'
  BY DEF EndsHeld, WritePcs, ReadPcs, TypeOK
<1>5. SleepersWait'
  BY
     DEF SleepersWait, LockHeld, LockPcs, EndsHeld, WritePcs, ReadPcs, TypeOK, Full, Empty
<1>6. CopyHasData'
  BY Zenon DEF CopyHasData, TypeOK, Empty, LockHeld, LockPcs
<1> QED BY <1>1, <1>2, <1>3, <1>4, <1>5, <1>6, Zenon

(* wakeup(&p->nread) and sleep() of a writer: asleep only with the buffer   *)
(* full and a reader there to empty it.                                     *)
LEMMA write_full_inv ==
  ASSUME IInv, NEW p \in Proc, write_full(p)
  PROVE IInv'
<1> USE DEF IInv, write_full, WakeReaders, pipeVars
<1>1. TypeOK'
  BY PipeAssumption, Zenon DEF TypeOK, Pcs
<1>2. Bounded' /\ FreedWhenClosed'
  BY Zenon DEF Bounded, Fill, FreedWhenClosed
<1>3. LockHeld'
  BY PipeAssumption, Zenon DEF LockHeld, LockPcs, TypeOK
<1>4. EndsHeld'
  BY Zenon DEF EndsHeld, WritePcs, ReadPcs, TypeOK
<1>5. SleepersWait'
  BY
     DEF SleepersWait, LockHeld, LockPcs, EndsHeld, WritePcs, ReadPcs, TypeOK, Full, Empty
<1>6. CopyHasData'
  BY Zenon DEF CopyHasData, TypeOK, Empty, LockHeld, LockPcs
<1> QED BY <1>1, <1>2, <1>3, <1>4, <1>5, <1>6, Zenon

(* The end of pipewrite() wakes the readers and releases the lock. *)
LEMMA write_done_inv ==
  ASSUME IInv, NEW p \in Proc, write_done(p)
  PROVE IInv'
<1> USE DEF IInv, write_done, WakeReaders, Return, pipeVars
<1>1. TypeOK'
  BY PipeAssumption, Zenon DEF TypeOK, Pcs
<1>2. Bounded' /\ FreedWhenClosed'
  BY Zenon DEF Bounded, Fill, FreedWhenClosed
<1>3. LockHeld'
  BY PipeAssumption DEF LockHeld, LockPcs, TypeOK
<1>4. EndsHeld'
  BY DEF EndsHeld, WritePcs, ReadPcs, TypeOK
<1>5. SleepersWait'
  BY
     DEF SleepersWait, LockHeld, LockPcs, EndsHeld, WritePcs, ReadPcs, TypeOK, Full, Empty
<1>6. CopyHasData'
  BY Zenon DEF CopyHasData, TypeOK, Empty, LockHeld, LockPcs
<1> QED BY <1>1, <1>2, <1>3, <1>4, <1>5, <1>6, Zenon

(* sleep() gives the lock back in the step that makes the caller a sleeper. *)
LEMMA sleep_inv ==
  ASSUME IInv, NEW p \in Proc, sleep(p)
  PROVE IInv'
<1> USE DEF IInv, sleep, Move, pipeVars
<1>1. TypeOK'
  BY PipeAssumption, Zenon DEF TypeOK, Pcs
<1>2. Bounded' /\ FreedWhenClosed'
  BY Zenon DEF Bounded, Fill, FreedWhenClosed
<1>3. LockHeld'
  BY PipeAssumption DEF LockHeld, LockPcs, TypeOK
<1>4. EndsHeld'
  BY DEF EndsHeld, WritePcs, ReadPcs, TypeOK
<1>5. SleepersWait'
  BY
     DEF SleepersWait, LockHeld, LockPcs, EndsHeld, WritePcs, ReadPcs, TypeOK, Full, Empty
<1>6. CopyHasData'
  BY Zenon DEF CopyHasData, TypeOK, Empty, LockHeld, LockPcs
<1> QED BY <1>1, <1>2, <1>3, <1>4, <1>5, <1>6, Zenon

(* A killed reader releases the lock and returns. *)
LEMMA read_killed_inv ==
  ASSUME IInv, NEW p \in Proc, read_killed(p)
  PROVE IInv'
<1> USE DEF IInv, read_killed, Move, Return, pipeVars
<1>1. TypeOK'
  BY PipeAssumption DEF TypeOK, Pcs
<1>2. Bounded' /\ FreedWhenClosed'
  BY Zenon DEF Bounded, Fill, FreedWhenClosed
<1>3. LockHeld'
  BY PipeAssumption DEF LockHeld, LockPcs, TypeOK
<1>4. EndsHeld'
  BY DEF EndsHeld, WritePcs, ReadPcs, TypeOK
<1>5. SleepersWait'
  BY
     DEF SleepersWait, LockHeld, LockPcs, EndsHeld, WritePcs, ReadPcs, TypeOK, Full, Empty
<1>6. CopyHasData'
  BY Zenon DEF CopyHasData, TypeOK, Empty, LockHeld, LockPcs
<1> QED BY <1>1, <1>2, <1>3, <1>4, <1>5, <1>6, Zenon

(* A reader sleeps only while the pipe is empty and the write end open. *)
LEMMA read_empty_inv ==
  ASSUME IInv, NEW p \in Proc, read_empty(p)
  PROVE IInv'
<1> USE DEF IInv, read_empty, Move, MustWait, pipeVars
<1>1. TypeOK'
  BY PipeAssumption, Zenon DEF TypeOK, Pcs
<1>2. Bounded' /\ FreedWhenClosed'
  BY Zenon DEF Bounded, Fill, FreedWhenClosed
<1>3. LockHeld'
  BY PipeAssumption DEF LockHeld, LockPcs, TypeOK
<1>4. EndsHeld'
  BY DEF EndsHeld, WritePcs, ReadPcs, TypeOK
<1>5. SleepersWait'
  BY
     DEF SleepersWait, LockHeld, LockPcs, EndsHeld, WritePcs, ReadPcs, TypeOK, Full, Empty
<1>6. CopyHasData'
  BY Zenon DEF CopyHasData, TypeOK, Empty, LockHeld, LockPcs
<1> QED BY <1>1, <1>2, <1>3, <1>4, <1>5, <1>6, Zenon

(* The reader goes on to copy only with data there or the write end closed. *)
LEMMA read_ready_inv ==
  ASSUME IInv, NEW p \in Proc, read_ready(p)
  PROVE IInv'
<1> USE DEF IInv, read_ready, Move, MustWait, pipeVars
<1>1. TypeOK'
  BY PipeAssumption, Zenon DEF TypeOK, Pcs
<1>2. Bounded' /\ FreedWhenClosed'
  BY Zenon DEF Bounded, Fill, FreedWhenClosed
<1>3. LockHeld'
  BY PipeAssumption, Zenon DEF LockHeld, LockPcs, TypeOK
<1>4. EndsHeld'
  BY DEF EndsHeld, WritePcs, ReadPcs, TypeOK
<1>5. SleepersWait'
  BY
     DEF SleepersWait, LockHeld, LockPcs, EndsHeld, WritePcs, ReadPcs, TypeOK, Full, Empty
<1>6. CopyHasData'
  BY Zenon DEF CopyHasData, TypeOK, Empty, LockHeld, LockPcs
<1> QED BY <1>1, <1>2, <1>3, <1>4, <1>5, <1>6, Zenon

(* A byte is taken only from a pipe that is not empty. *)
LEMMA read_byte_inv ==
  ASSUME IInv, NEW p \in Proc, read_byte(p)
  PROVE IInv'
<1> USE DEF IInv, read_byte, pipeVars
<1>1. TypeOK'
  <2>1. nread' \in 0..Word-1
    BY FillShrinks, Zenon
  <2>2. n' \in [Proc -> 0..MaxN]
    BY PipeAssumption DEF TypeOK
  <2> QED BY <2>1, <2>2, Zenon DEF TypeOK
<1>2. Bounded'
  BY PipeAssumption, FillGrows, FillShrinks, FillFacts DEF Bounded
<1>3. LockHeld'
  BY PipeAssumption, Zenon DEF LockHeld, LockPcs, TypeOK
<1>4. EndsHeld'
  BY Zenon DEF EndsHeld, WritePcs, ReadPcs, TypeOK
<1>5. FreedWhenClosed'
  BY Zenon DEF FreedWhenClosed
<1>6. SleepersWait'
  BY
     DEF SleepersWait, LockHeld, LockPcs, EndsHeld, WritePcs, ReadPcs, TypeOK, Full, Empty
<1>7. CopyHasData'
  BY Zenon DEF CopyHasData, TypeOK, Empty, LockHeld, LockPcs
<1> QED BY <1>1, <1>2, <1>3, <1>4, <1>5, <1>6, <1>7, Zenon

(* The end of piperead() wakes the writers and releases the lock. *)
LEMMA read_done_inv ==
  ASSUME IInv, NEW p \in Proc, read_done(p)
  PROVE IInv'
<1> USE DEF IInv, read_done, WakeWriters, Return, pipeVars
<1>1. TypeOK'
  BY PipeAssumption DEF TypeOK, Pcs
<1>2. Bounded' /\ FreedWhenClosed'
  BY Zenon DEF Bounded, Fill, FreedWhenClosed
<1>3. LockHeld'
  BY PipeAssumption, Zenon DEF LockHeld, LockPcs, TypeOK
<1>4. EndsHeld'
  BY Zenon DEF EndsHeld, WritePcs, ReadPcs, TypeOK
<1>5. SleepersWait'
  BY
     DEF SleepersWait, LockHeld, LockPcs, EndsHeld, WritePcs, ReadPcs, TypeOK, Full, Empty
<1>6. CopyHasData'
  BY Zenon DEF CopyHasData, TypeOK, Empty, LockHeld, LockPcs
<1> QED BY <1>1, <1>2, <1>3, <1>4, <1>5, <1>6, Zenon

(* A close starts: the last one on an end goes on to pipeclose(). *)
LEMMA fileclose_inv ==
  ASSUME IInv, NEW p \in Proc, NEW e \in {"r", "w"}, fileclose(p, e)
  PROVE IInv'
<1> USE DEF IInv, fileclose, Move, LastHolder, pipeVars
<1>1. TypeOK'
  BY PipeAssumption, Zenon DEF TypeOK, Pcs
<1>2. Bounded' /\ FreedWhenClosed'
  BY Zenon DEF Bounded, Fill, FreedWhenClosed
<1>3. LockHeld'
  BY PipeAssumption, Zenon DEF LockHeld, LockPcs, TypeOK
<1>4. EndsHeld'
  BY DEF EndsHeld, WritePcs, ReadPcs, TypeOK
<1>5. SleepersWait'
  BY
     DEF SleepersWait, LockHeld, LockPcs, EndsHeld, WritePcs, ReadPcs, TypeOK, Full, Empty
<1>6. CopyHasData'
  BY Zenon DEF CopyHasData, TypeOK, Empty, LockHeld, LockPcs
<1> QED BY <1>1, <1>2, <1>3, <1>4, <1>5, <1>6, Zenon

(* Closing an end wakes the sleepers of the other; the buffer is freed with *)
(* the second end, when no call can be under way.                           *)
LEMMA pipeclose_inv ==
  ASSUME IInv, NEW p \in Proc, pipeclose(p)
  PROVE IInv'
<1> USE DEF IInv, pipeclose, WakeReaders, WakeWriters, pipeVars
<1>1. TypeOK'
  BY PipeAssumption, ZenonT(30) DEF TypeOK, Pcs
<1>2. Bounded' /\ FreedWhenClosed'
  BY Zenon DEF Bounded, Fill, FreedWhenClosed
<1>3. LockHeld'
  BY PipeAssumption DEF LockHeld, LockPcs, TypeOK
<1>4. EndsHeld'
  BY DEF EndsHeld, WritePcs, ReadPcs, TypeOK
<1>5. SleepersWait'
  <2>1. \A q \in Proc : pc[q] \notin LockPcs
    BY PipeAssumption, Zenon DEF LockHeld
  <2>2. Full' = Full /\ Empty' = Empty
    BY Zenon DEF Full, Empty
  <2>3. CASE pc[p] = "closew"
    BY <2>1, <2>2, <2>3 DEF SleepersWait, LockPcs, TypeOK
  <2>4. CASE pc[p] = "closer"
    BY <2>1, <2>2, <2>4 DEF SleepersWait, LockPcs, TypeOK
  <2> QED BY <2>3, <2>4, Zenon
<1>6. CopyHasData'
  BY Zenon DEF CopyHasData, TypeOK, Empty, LockHeld, LockPcs
<1> QED BY <1>1, <1>2, <1>3, <1>4, <1>5, <1>6, Zenon

(* kill() makes a sleeper runnable and touches nothing else. *)
LEMMA kill_inv ==
  ASSUME IInv, NEW p \in Proc, kill(p)
  PROVE IInv'
<1> USE DEF IInv, kill, pipeVars
<1>1. TypeOK'
  BY PipeAssumption, Zenon DEF TypeOK, Pcs
<1>2. Bounded' /\ FreedWhenClosed'
  BY Zenon DEF Bounded, Fill, FreedWhenClosed
<1>3. LockHeld'
  BY PipeAssumption, Zenon DEF LockHeld, LockPcs, TypeOK
<1>4. EndsHeld'
  BY DEF EndsHeld, WritePcs, ReadPcs, TypeOK
<1>5. SleepersWait'
  BY
     DEF SleepersWait, LockHeld, LockPcs, EndsHeld, WritePcs, ReadPcs, TypeOK, Full, Empty
<1>6. CopyHasData'
  BY Zenon DEF CopyHasData, TypeOK, Empty, LockHeld, LockPcs
<1> QED BY <1>1, <1>2, <1>3, <1>4, <1>5, <1>6, Zenon

(* A step that changes nothing keeps the invariant. *)
LEMMA stutter_inv == IInv /\ UNCHANGED vars => IInv'
<1> SUFFICES ASSUME IInv, UNCHANGED vars PROVE IInv'
  OBVIOUS
<1> USE DEF IInv, vars, pipeVars
<1>1. TypeOK' /\ Bounded' /\ LockHeld' /\ EndsHeld' /\ FreedWhenClosed'
  BY Zenon DEF TypeOK, Bounded, Fill, LockHeld, EndsHeld, FreedWhenClosed
<1>2. SleepersWait' /\ CopyHasData'
  BY Zenon DEF SleepersWait, CopyHasData, Full, Empty
<1> QED BY <1>1, <1>2, Zenon

(* The new pipe is empty, with both ends open. *)
LEMMA Init_inv == Init => IInv
<1> SUFFICES ASSUME Init PROVE IInv
  OBVIOUS
<1> USE PipeAssumption DEF Init
<1>1. TypeOK
  <2>1. (CHOOSE v \in Data : TRUE) \in Data
    OBVIOUS
  <2>2. data \in [0..PIPESIZE-1 -> Data]
    BY <2>1, Zenon
  <2>3. nread \in 0..Word-1 /\ nwrite \in 0..Word-1 /\ n \in [Proc -> 0..MaxN]
    OBVIOUS
  <2> QED BY <2>2, <2>3, Zenon DEF TypeOK, Pcs
<1>2. Bounded
  BY <1>1, FillFacts DEF Bounded, Empty
<1>3. LockHeld /\ EndsHeld /\ FreedWhenClosed
  BY Zenon DEF LockHeld, LockPcs, EndsHeld, WritePcs, ReadPcs, FreedWhenClosed
<1>4. SleepersWait /\ CopyHasData
  BY Zenon DEF SleepersWait, CopyHasData
<1> QED BY <1>1, <1>2, <1>3, <1>4, Zenon DEF IInv

(* Every step preserves the invariant: one case per action. *)
LEMMA Next_inv == IInv /\ [Next]_vars => IInv'
<1> SUFFICES ASSUME IInv, [Next]_vars PROVE IInv'
  OBVIOUS
<1>1. ASSUME NEW p \in Proc, write(p) PROVE IInv'
  BY <1>1, write_byte_inv, write_error_inv, write_full_inv, write_done_inv, Zenon DEF write
<1>2. ASSUME NEW p \in Proc, read(p) PROVE IInv'
  BY <1>2, read_killed_inv, read_empty_inv, read_ready_inv, read_byte_inv,
     read_done_inv, Zenon DEF read
<1>3. ASSUME NEW p \in Proc, Inside(p) PROVE IInv'
  BY <1>1, <1>2, <1>3, acquire_inv, sleep_inv, pipeclose_inv, Zenon DEF Inside
<1>4. ASSUME NEW p \in Proc, NEW e \in {"r", "w"}, fileclose(p, e) PROVE IInv'
  BY <1>4, fileclose_inv, Zenon
<1>5. ASSUME NEW p \in Proc, NEW e \in {"r", "w"}, NEW k \in 0..MaxN, call(p, e, k)
      PROVE IInv'
  BY <1>5, call_inv, Zenon
<1>6. ASSUME NEW p \in Killable, kill(p) PROVE IInv'
  BY <1>6, kill_inv, PipeAssumption, Zenon
<1>7. CASE UNCHANGED vars
  BY <1>7, stutter_inv, Zenon
<1> QED BY <1>3, <1>4, <1>5, <1>6, <1>7, Zenon DEF Next

-----------------------------------------------------------------------------
(* IInv holds in every reachable state of a pipe. *)
THEOREM Invariance == Spec => []IInv
  BY Init_inv, Next_inv, PTL DEF Spec

(* The counters stay uints, nobody uses the page after pipeclose() has given *)
(* it back, and nobody sleeps in pipewrite() or piperead() who should have   *)
(* been woken: for any number of readers and writers.                        *)
THEOREM PipeIsSound == Spec => []PipeSound
<1>1. IInv => NoUseAfterFree
  <2> SUFFICES ASSUME IInv, freed, NEW p \in Proc PROVE pc[p] = "idle" /\ ends[p] = {}
    BY Zenon DEF NoUseAfterFree
  <2>1. "r" \notin ends[p] /\ "w" \notin ends[p] /\ pc[p] \notin {"closer", "closew"}
    BY Zenon DEF IInv, FreedWhenClosed, EndsHeld
  <2>2. pc[p] \notin WritePcs \cup ReadPcs
    BY <2>1, Zenon DEF IInv, EndsHeld
  <2>3. pc[p] \in Pcs /\ ends[p] \subseteq {"r", "w"}
    BY Zenon DEF IInv, TypeOK
  <2> QED BY <2>1, <2>2, <2>3, Zenon DEF Pcs, WritePcs, ReadPcs
<1>2. IInv => NoLostWakeup
  BY PipeAssumption, Zenon DEF IInv, LockHeld, LockPcs, SleepersWait, NoLostWakeup
<1>3. IInv => PipeSound
  BY <1>1, <1>2, Zenon DEF IInv, PipeSound
<1> QED BY <1>3, Invariance, PTL

(* read() returns 0 only at the end of the file, however many readers there *)
(* are.                                                                     *)
THEOREM ZeroIsEof == Spec => ZeroMeansEof
<1> DEFINE Eof == \A p \in Proc :
                    pc[p] = "copy" /\ pc'[p] = "idle" /\ n[p] > 0 /\ ~got[p]
                      => Empty /\ ~writeopen
<1>1. IInv /\ [Next]_vars => Eof \/ UNCHANGED vars
  <2> SUFFICES ASSUME IInv, Next, NEW p \in Proc, pc[p] = "copy", pc'[p] = "idle",
                      n[p] > 0, ~got[p]
               PROVE Empty /\ ~writeopen
    BY Zenon DEF vars
  <2> USE DEF IInv, TypeOK
  <2>1. ASSUME NEW q \in Proc, write(q) PROVE pc'[p] = "copy"
    BY <2>1, Zenon DEF write, write_byte, write_error, write_full, write_done, Move,
       WakeReaders
  <2>2. ASSUME NEW q \in Proc, read(q), ~read_done(p) PROVE pc'[p] = "copy"
    BY <2>2 DEF read, read_killed, read_empty, read_ready, read_byte, read_done,
       Move, WakeWriters
  <2>3. ASSUME NEW q \in Proc, acquire(q) \/ sleep(q) \/ pipeclose(q)
        PROVE pc'[p] = "copy"
    BY <2>3, Zenon DEF acquire, sleep, pipeclose, Move, WakeReaders, WakeWriters
  <2>4. ASSUME NEW q \in Proc, NEW e \in {"r", "w"},
               fileclose(q, e) \/ \E k \in 0..MaxN : call(q, e, k)
        PROVE pc'[p] = "copy"
    BY <2>4, Zenon DEF fileclose, call, Move
  <2>5. ASSUME NEW q \in Killable, kill(q) PROVE pc'[p] = "copy"
    BY <2>5, Zenon DEF kill
  <2>6. read_done(p)
    BY <2>1, <2>2, <2>3, <2>4, <2>5, Zenon DEF Next, Inside
  <2> QED BY <2>6 DEF read_done, CopyHasData
<1>2. Spec => [][Eof]_vars
  BY <1>1, Invariance, PTL DEF Spec
<1> QED BY <1>2, Zenon DEF ZeroMeansEof

-----------------------------------------------------------------------------
(* The slot of the i-th byte in the pipe. *)
SlotOf(i) == (nread + i - 1) % PIPESIZE

(* The bytes in the pipe are a sequence of Fill bytes. *)
ContentsInSlots ==
  /\ Contents \in Seq(Data)
  /\ Len(Contents) = Fill
  /\ \A i \in 1..Fill : Contents[i] = data[SlotOf(i)] /\ SlotOf(i) \in 0..PIPESIZE-1

(* The contents of the pipe, slot by slot. *)
LEMMA ContentsFacts == TypeOK => ContentsInSlots
<1> SUFFICES ASSUME TypeOK PROVE ContentsInSlots
  OBVIOUS
<1>1. Fill \in Nat
  BY FillFacts, PipeAssumption
<1>2. ASSUME NEW i \in 1..Fill PROVE SlotOf(i) \in 0..PIPESIZE-1
  <2>1. nread + i - 1 \in Int
    BY <1>1 DEF TypeOK
  <2> QED BY <2>1, ModRange, PipeAssumption, Zenon DEF SlotOf
<1>3. Contents = [i \in 1..Fill |-> data[SlotOf(i)]]
  BY Zenon DEF Contents, Fill, SlotOf
<1>4. Contents \in [1..Fill -> Data]
  BY <1>2, <1>3, Zenon DEF TypeOK
<1>5. Contents \in Seq(Data) /\ Len(Contents) = Fill
  BY <1>1, <1>4
<1> QED BY <1>2, <1>3, <1>5, Zenon DEF ContentsInSlots

(* nwrite is where the next byte goes, although the counters have wrapped. *)
LEMMA NextSlot ==
  ASSUME TypeOK
  PROVE SlotOf(Fill + 1) = nwrite % PIPESIZE
<1>1. nread \in 0..Word-1 /\ nwrite \in 0..Word-1
  BY DEF TypeOK
<1>2. nread + Fill = IF nread <= nwrite THEN nwrite ELSE nwrite + Word
  BY <1>1, Counters, PipeAssumption DEF Fill
<1>3. (nwrite + Word) % PIPESIZE = nwrite % PIPESIZE
  <2>1. nwrite \in Int /\ Word \in Int /\ PIPESIZE \in Nat \ {0} /\ Word % PIPESIZE = 0
    BY <1>1, PipeAssumption
  <2> QED BY <2>1, ModShift, Zenon
<1>4. nread + (Fill + 1) - 1 = nread + Fill
  BY <1>1, FillFacts
<1> QED BY <1>2, <1>3, <1>4, Zenon DEF SlotOf

(* Two bytes in the pipe, or one and the next to come, have different slots. *)
LEMMA SlotsApart ==
  ASSUME TypeOK, NEW i \in 1..PIPESIZE, NEW j \in 1..PIPESIZE, i < j
  PROVE SlotOf(i) # SlotOf(j)
<1> DEFINE x == nread + i - 1
           d == j - i
<1>1. x \in Int /\ d \in 1..PIPESIZE-1 /\ nread + j - 1 = x + d
  BY PipeAssumption DEF TypeOK
<1> HIDE DEF x, d
<1>2. (x + d) % PIPESIZE # x % PIPESIZE
  BY <1>1, PipeAssumption, ModApart, Zenon
<1> QED BY <1>1, <1>2, Zenon DEF SlotOf, x

(* The byte that pipewrite() stores comes after all others, in a slot none *)
(* of them is in.                                                          *)
LEMMA WriteAppends ==
  ASSUME TypeOK, Bounded, TypeOK', NEW p \in Proc, NEW v \in Data, write_byte(p, v)
  PROVE Contents' = Append(Contents, v)
<1>1. Fill' = Fill + 1 /\ Fill \in 0..PIPESIZE-1
  BY FillGrows, FillFacts, PipeAssumption DEF write_byte, Bounded
<1>2. /\ Contents \in Seq(Data) /\ Len(Contents) = Fill
      /\ \A i \in 1..Fill : Contents[i] = data[SlotOf(i)] /\ SlotOf(i) \in 0..PIPESIZE-1
  BY ContentsFacts, Zenon DEF ContentsInSlots
<1>3. /\ Contents' \in Seq(Data) /\ Len(Contents') = Fill + 1
      /\ \A i \in 1..Fill+1 : Contents'[i] = data'[SlotOf(i)] /\ SlotOf(i) \in 0..PIPESIZE-1
  <2>1. \A i : SlotOf(i)' = SlotOf(i)
    BY Zenon DEF write_byte, SlotOf
  <2>2. ContentsInSlots'
    BY ContentsFacts, PTL
  <2> QED BY <1>1, <2>1, <2>2, Zenon DEF ContentsInSlots
<1>4. \A i \in 1..Fill : Contents'[i] = Contents[i]
  <2> SUFFICES ASSUME NEW i \in 1..Fill PROVE data'[SlotOf(i)] = data[SlotOf(i)]
    BY <1>1, <1>2, <1>3
  <2>1. SlotOf(i) # nwrite % PIPESIZE
    BY <1>1, SlotsApart, NextSlot, PipeAssumption
  <2> QED BY <1>2, <2>1, Zenon DEF write_byte, TypeOK
<1>5. Contents'[Fill + 1] = v
  BY <1>1, <1>3, NextSlot DEF write_byte, TypeOK
<1> QED
  <2>1. /\ Append(Contents, v) \in Seq(Data) /\ Len(Append(Contents, v)) = Fill + 1
        /\ Append(Contents, v)[Fill + 1] = v
        /\ \A i \in 1..Fill : Append(Contents, v)[i] = Contents[i]
    BY <1>2, AppendProperties
  <2>2. \A i \in 1..Fill+1 : Contents'[i] = Append(Contents, v)[i]
    BY <1>1, <1>4, <1>5, <2>1
  <2> QED BY <1>3, <2>1, <2>2, SeqEqual, Zenon

(* The byte that piperead() takes is the oldest. *)
LEMMA ReadTakesHead ==
  ASSUME TypeOK, TypeOK', NEW p \in Proc, read_byte(p)
  PROVE Contents # <<>> /\ Contents' = Tail(Contents)
<1>1. Fill' = Fill - 1 /\ Fill \in Nat \ {0}
  BY FillShrinks, FillFacts, PipeAssumption DEF read_byte
<1>2. ContentsInSlots
  BY ContentsFacts, Zenon
<1>3. ContentsInSlots'
  BY ContentsFacts, PTL
<1>4. \A i \in 1..Fill-1 : SlotOf(i)' = SlotOf(i + 1)
  <2> SUFFICES ASSUME NEW i \in 1..Fill-1 PROVE (nread' + i - 1) % PIPESIZE = (nread + i) % PIPESIZE
    BY DEF SlotOf, TypeOK
  <2>1. nread' = IF nread = Word - 1 THEN 0 ELSE nread + 1
    BY Counters, Zenon DEF read_byte, TypeOK
  <2>2. CASE nread = Word - 1
    <3>1. i - 1 \in Int /\ Word \in Int /\ PIPESIZE \in Nat \ {0} /\ Word % PIPESIZE = 0
      BY PipeAssumption
    <3>2. (i - 1 + Word) % PIPESIZE = (i - 1) % PIPESIZE
      BY <3>1, ModShift, Zenon
    <3>3. nread + i = i - 1 + Word /\ nread' + i - 1 = i - 1
      BY <1>1, <2>1, <2>2, PipeAssumption
    <3> QED BY <3>2, <3>3, Zenon
  <2>3. CASE nread # Word - 1
    BY <2>1, <2>3 DEF TypeOK
  <2> QED BY <2>2, <2>3, Zenon
<1>5. data' = data /\ Len(Contents) = Fill /\ Len(Contents') = Fill - 1
  BY <1>1, <1>2, <1>3, Zenon DEF read_byte, ContentsInSlots
<1>6. \A i \in 1..Fill-1 : Contents'[i] = Contents[i + 1]
  <2> SUFFICES ASSUME NEW i \in 1..Fill-1 PROVE Contents'[i] = Contents[i + 1]
    OBVIOUS
  <2>1. Contents'[i] = data[SlotOf(i)']
    BY <1>1, <1>3, <1>5, Zenon DEF ContentsInSlots
  <2>2. Contents[i + 1] = data[SlotOf(i + 1)]
    BY <1>1, <1>2 DEF ContentsInSlots
  <2> QED BY <1>4, <2>1, <2>2, Zenon
<1>7. Contents \in Seq(Data) /\ Contents' \in Seq(Data) /\ Contents # <<>>
  BY <1>1, <1>2, <1>3, <1>5, Zenon DEF ContentsInSlots
<1>8. /\ Tail(Contents) \in Seq(Data) /\ Len(Tail(Contents)) = Fill - 1
      /\ \A i \in 1..Fill-1 : Tail(Contents)[i] = Contents[i + 1]
  BY <1>1, <1>5, <1>7, HeadTailProperties, Zenon
<1> QED BY <1>5, <1>6, <1>7, <1>8, SeqEqual, Zenon

(* The ring buffer with its wrapping counters implements a bounded queue:  *)
(* bytes come out in the order they went in, none lost or doubled, and     *)
(* nothing is written once the write side is closed, for any interleaving  *)
(* of any number of readers and writers, their closes and kills.           *)
THEOREM PipeIsFifo == Spec => ImplementsFifo
<1>1. Init => Fifo!Init
  <2> SUFFICES ASSUME Init PROVE Fifo!Init
    OBVIOUS
  <2>1. Fill = 0 /\ Contents \in Seq(Data) /\ Len(Contents) = Fill
    BY Init_inv, FillFacts, ContentsFacts, Zenon DEF IInv, Init, Empty, ContentsInSlots
  <2> QED BY <2>1, EmptySeq, Zenon DEF Init, Fifo!Init
<1>2. IInv /\ IInv' /\ [Next]_vars => [Fifo!Next]_(Fifo!fifoVars)
  <2> SUFFICES ASSUME IInv, IInv', [Next]_vars
               PROVE Fifo!Next \/ UNCHANGED Fifo!fifoVars
    OBVIOUS
  <2>1. ASSUME NEW p \in Proc, NEW v \in Data, write_byte(p, v) PROVE Fifo!Put(v)
    <3>1. Contents' = Append(Contents, v)
      BY <2>1, WriteAppends, Zenon DEF IInv
    <3>2. writeopen
      BY <2>1, Zenon DEF write_byte, IInv, EndsHeld, WritePcs
    <3>3. Len(Contents) < PIPESIZE
      BY <2>1, FillFacts, ContentsFacts, PipeAssumption
         DEF write_byte, IInv, Bounded, ContentsInSlots
    <3> QED BY <2>1, <3>1, <3>2, <3>3, Zenon DEF Fifo!Put, write_byte
  <2>2. ASSUME NEW p \in Proc, read_byte(p) PROVE Fifo!Get
    BY <2>2, ReadTakesHead, Zenon DEF IInv, read_byte, Fifo!Get
  <2>3. ASSUME nread' = nread, nwrite' = nwrite, data' = data PROVE Contents' = Contents
    BY <2>3, Zenon DEF Contents
  <2>4. ASSUME NEW p \in Proc, pipeclose(p)
        PROVE Fifo!CloseWrite \/ UNCHANGED Fifo!fifoVars
    BY <2>3, <2>4, Zenon DEF pipeclose, IInv, EndsHeld, Fifo!CloseWrite, Fifo!fifoVars
  <2>5. ASSUME UNCHANGED pipeVars PROVE UNCHANGED Fifo!fifoVars
    BY <2>3, <2>5, Zenon DEF pipeVars, Fifo!fifoVars
  <2>6. ASSUME NEW p \in Proc, Inside(p), ~pipeclose(p), ~read_byte(p),
               ~\E v \in Data : write_byte(p, v)
        PROVE UNCHANGED pipeVars
    BY <2>6, Zenon DEF Inside, acquire, sleep, write, write_error, write_full, write_done,
       read, read_killed, read_empty, read_ready, read_done
  <2>7. ASSUME NEW p \in Proc, NEW e \in {"r", "w"},
               fileclose(p, e) \/ \E k \in 0..MaxN : call(p, e, k)
        PROVE UNCHANGED pipeVars
    BY <2>7, Zenon DEF fileclose, call
  <2>8. ASSUME NEW p \in Killable, kill(p) PROVE UNCHANGED pipeVars
    BY <2>8, Zenon DEF kill
  <2>9. CASE UNCHANGED vars
    BY <2>5, <2>9, Zenon DEF vars
  <2> QED BY <2>1, <2>2, <2>4, <2>5, <2>6, <2>7, <2>8, <2>9, Zenon DEF Next, Fifo!Next
<1> QED BY <1>1, <1>2, Invariance, PTL DEF Spec, ImplementsFifo, Fifo!Spec
=============================================================================
