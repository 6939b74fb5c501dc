--------------------------- MODULE LogInvariant ----------------------------
(***************************************************************************)
(* What Log keeps, for every number of processes, blocks and values and    *)
(* every size of the log.                                                  *)
(*                                                                         *)
(* Shape says which step of commit() or of recovery the log is in, and for *)
(* each of them which of log sectors, home sectors and buffers hold the    *)
(* same.  Every step keeps it, log_write() as long as the log has room and *)
(* end_op() as long as log.outstanding counts the operations; LogProofs    *)
(* shows both.                                                             *)
(***************************************************************************)
EXTENDS Log, TLAPS

(* The time a prover is given for a step. *)
USE SMTT(60), ZenonT(30)

Active == {p \in Proc : pc[p] \in {"in", "logw"}}
CommitPcs == {"wlog", "whead", "inst", "clear", "done"}

(* Some process is at l. *)
At(l) == \E p \in Proc : pc[p] = l

(* The block is in the log. *)
InLog(b) == \E i \in 1..Len(lh) : lh[i] = b

(* One process commits, when no operation is under way; after it, or before *)
(* the first operation, the log is empty.                                   *)
Control ==
  /\ \A p, q \in Proc : pc[p] \in CommitPcs /\ pc[q] \in CommitPcs => p = q
  /\ committing <=> \E p \in Proc : pc[p] \in CommitPcs
  /\ committing => Active = {}
  /\ mode # "up" => \A p \in Proc : pc[p] = "idle"
  /\ mode = "up" /\ Active = {} /\ ~committing => lh = <<>>

(* What an operation holds at each of its steps. *)
Operations ==
  \A p \in Proc :
    /\ writes[p] <= OpMax
    /\ p \notin Active => writes[p] = 0
    /\ pc[p] = "logw" => writes[p] >= 1 /\ \E b \in Block : busy[p] = {b}
    /\ pc[p] # "logw" => busy[p] = {}
    /\ \A b \in busy[p] : buf[b] # NotCached /\ \A q \in Proc \ {p} : b \notin busy[q]

(* The log fits into struct logheader and into its sectors. *)
Short == Len(lh) <= NLOG - 1 /\ Len(lh) <= LOGSIZE

(* No block is in the log twice. *)
Distinct == \A i, j \in 1..Len(lh) : lh[i] = lh[j] => i = j

(* The header on the disk, and the counter of the loops over it. *)
Header ==
  /\ mode = "up" => hd = IF At("inst") \/ At("clear") THEN lh ELSE <<>>
  /\ mode \in {"rinst", "rclear"} => hd = lh
  /\ mode = "boot" => lh = <<>> /\ tail = 1
  /\ \A i, j \in 1..Len(hd) : hd[i] = hd[j] => i = j
  /\ Len(hd) <= NLOG - 1 /\ Len(hd) <= LOGSIZE
  /\ At("wlog") \/ At("inst") \/ mode = "rinst" => tail \in 1..Len(lh)
  /\ At("whead") => tail = 1 /\ lh # <<>>
  /\ At("done") => lh = <<>>

(* The pinned buffers are those in the log that are not installed yet. *)
Pinned ==
  /\ \A b \in dirty : buf[b] # NotCached
  /\ mode # "up" \/ At("clear") \/ At("done") => dirty = {}
  /\ mode = "up" /\ ~At("inst") /\ ~At("clear") /\ ~At("done") =>
       \A b \in Block : b \in dirty <=> InLog(b)
  /\ At("inst") => \A b \in Block : b \in dirty <=> \E i \in tail..Len(lh) : lh[i] = b

(* What has been copied from the buffers to the log and from there home. *)
Copied ==
  /\ At("wlog") => \A i \in 1..tail-1 : logblk[i] = bread(lh[i])
  /\ At("whead") \/ At("inst") \/ At("clear")
       => \A i \in 1..Len(lh) : logblk[i] = bread(lh[i])
  /\ At("inst") \/ mode = "rinst" => \A i \in 1..tail-1 : disk[lh[i]] = logblk[i]
  /\ At("clear") \/ mode = "rclear" => \A i \in 1..Len(lh) : disk[lh[i]] = logblk[i]

Shape ==
  /\ TypeOK
  /\ Control
  /\ Operations
  /\ Short
  /\ Distinct
  /\ Header
  /\ Pinned
  /\ Copied
  /\ CleanMatchesDisk
  /\ SleepersMustWait

-----------------------------------------------------------------------------
(* While one process commits there is no operation, and no other commits. *)
LEMMA CommitFacts ==
  ASSUME Shape, NEW p \in Proc, pc[p] \in CommitPcs
  PROVE /\ mode = "up" /\ committing
        /\ \A q \in Proc : q \notin Active /\ busy[q] = {} /\ writes[q] = 0
        /\ \A q \in Proc \ {p} : pc[q] \in {"idle", "sleep", "begin"}
        /\ \A l \in CommitPcs : At(l) <=> pc[p] = l
  BY DEF Shape, TypeOK, Control, Operations, CommitPcs, Active, Pcs, At

(* While an operation is under way nobody commits, and the header is empty. *)
LEMMA OperationFacts ==
  ASSUME Shape, Active # {}
  PROVE /\ mode = "up" /\ ~committing
        /\ \A l \in CommitPcs : ~At(l)
        /\ hd = <<>>
  BY Zenon DEF Shape, TypeOK, Control, Header, CommitPcs, Active, At

(* During recovery there is neither. *)
LEMMA RecoveryFacts ==
  ASSUME Shape, mode # "up"
  PROVE /\ \A l \in CommitPcs : ~At(l)
        /\ \A q \in Proc :
             q \notin Active /\ busy[q] = {} /\ writes[q] = 0 /\ pc[q] = "idle"
        /\ ~committing /\ dirty = {} /\ Active = {}
  BY Zenon DEF Shape, TypeOK, Control, Operations, Pinned, CommitPcs, Active, At

-----------------------------------------------------------------------------
(* What the log, the disk and the pinned buffers say stays as it is. *)
LogFrame ==
  /\ UNCHANGED <<disk, logblk, hd, lh, dirty, tail, mode>>
  /\ \A l \in CommitPcs : At(l)' <=> At(l)
  /\ \A b \in dirty : buf[b] # NotCached => buf'[b] # NotCached
  /\ (\E l \in CommitPcs : At(l)) => \A b \in Block : bread(b)' = bread(b)

LEMMA LogKept ==
  ASSUME Shape, LogFrame
  PROVE Distinct' /\ Header' /\ Pinned' /\ Copied'
<1>1. Distinct' /\ Header'
  BY DEF Shape, LogFrame, Distinct, Header, CommitPcs
<1>2. Pinned'
  BY Zenon DEF Shape, LogFrame, Pinned, InLog, CommitPcs
<1>3. Copied'
  <2>1. \A i \in 1..Len(lh) : lh[i] \in Block
    BY DEF Shape, TypeOK
  <2>2. At("wlog") => tail-1 <= Len(lh) /\ tail \in Nat /\ Len(lh) \in Nat
    BY DEF Shape, Header, TypeOK
  <2>3. (\E l \in CommitPcs : At(l)) => \A i \in 1..Len(lh) : bread(lh[i])' = bread(lh[i])
    BY <2>1, Zenon DEF LogFrame
  <2> QED BY <2>2, <2>3 DEF Shape, LogFrame, Copied, CommitPcs
<1> QED BY <1>1, <1>2, <1>3, Zenon

(* The operations and their sleepers stay as they are. *)
OpsFrame ==
  /\ UNCHANGED <<pc, writes, busy, outstanding, committing, lh, mode>>
  /\ \A p \in Proc : \A b \in busy[p] : buf'[b] # NotCached

LEMMA OpsKept ==
  ASSUME Shape, TypeOK', OpsFrame
  PROVE Control' /\ Operations' /\ Short' /\ SleepersMustWait'
<1>1. Active' = Active /\ Short'
  BY Zenon DEF OpsFrame, Active, Shape, Short
<1>2. Control' /\ Operations'
  BY <1>1 DEF Shape, OpsFrame, Control, Operations
<1>3. SleepersMustWait'
  BY Zenon DEF Shape, OpsFrame, SleepersMustWait, MustWait
<1> QED BY <1>1, <1>2, <1>3, Zenon

(* A step of commit() from one of its places to the next. *)
CommitStep(p, l) ==
  /\ pc[p] \in CommitPcs /\ l \in CommitPcs /\ pc' = [pc EXCEPT ![p] = l]
  /\ UNCHANGED <<outstanding, committing, mode, writes, busy>>
  /\ lh' = lh \/ lh' = <<>>

LEMMA CommitKeeps ==
  ASSUME Shape, TypeOK', NEW p \in Proc, NEW l, CommitStep(p, l)
  PROVE /\ Control' /\ Operations' /\ Short' /\ SleepersMustWait'
        /\ \A k \in CommitPcs : At(k)' <=> k = l
        /\ mode = "up" /\ \A k \in CommitPcs : At(k) <=> k = pc[p]
        /\ Active' = Active /\ \A q \in Proc : busy[q] = {}
<1>1. /\ mode = "up" /\ committing
      /\ \A q \in Proc : q \notin Active /\ busy[q] = {} /\ writes[q] = 0
      /\ \A q \in Proc \ {p} : pc[q] \in {"idle", "sleep", "begin"}
      /\ \A k \in CommitPcs : At(k) <=> k = pc[p]
  BY CommitFacts, Zenon DEF CommitStep
<1>2. pc'[p] = l /\ \A q \in Proc \ {p} : pc'[q] = pc[q]
  BY Zenon DEF CommitStep, Shape, TypeOK
<1>3. Active' = Active /\ \A k \in CommitPcs : At(k)' <=> k = l
  BY <1>1, <1>2 DEF CommitStep, At, Active, CommitPcs
<1>4. Control'
  BY <1>1, <1>2, <1>3 DEF CommitStep, Shape, TypeOK, Control, CommitPcs
<1>5. Operations'
  BY <1>1, <1>2, <1>3, Zenon DEF CommitStep, Shape, Operations, CommitPcs
<1>6. Short'
  BY LogAssumption DEF CommitStep, Shape, Short
<1>7. SleepersMustWait'
  BY <1>1, Zenon DEF CommitStep, SleepersMustWait, MustWait
<1> QED BY <1>1, <1>3, <1>4, <1>5, <1>6, <1>7, Zenon

(* A step of recovery, before any operation begins. *)
RecoveryStep ==
  /\ mode # "up" /\ (mode' = "up" => lh' = <<>>)
  /\ UNCHANGED <<pc, outstanding, committing, writes, busy>>
  /\ Short'

LEMMA RecoveryKeeps ==
  ASSUME Shape, TypeOK', RecoveryStep
  PROVE /\ Control' /\ Operations' /\ SleepersMustWait'
        /\ \A l \in CommitPcs : ~At(l) /\ ~At(l)'
        /\ dirty = {} /\ Active' = Active /\ Active = {}
<1>1. /\ \A l \in CommitPcs : ~At(l)
      /\ \A q \in Proc : q \notin Active /\ busy[q] = {} /\ writes[q] = 0 /\ pc[q] = "idle"
      /\ ~committing /\ dirty = {} /\ Active = {}
  BY RecoveryFacts, Zenon DEF RecoveryStep
<1>2. Active' = {} /\ \A l \in CommitPcs : ~At(l)'
  BY <1>1, Zenon DEF RecoveryStep, At, Active
<1>3. Control' /\ SleepersMustWait'
  BY <1>1, <1>2, Zenon DEF RecoveryStep, Control, SleepersMustWait, CommitPcs
<1>4. Operations'
  BY <1>1, <1>2, Zenon DEF RecoveryStep, Shape, Operations
<1> QED BY <1>1, <1>2, <1>3, <1>4, Zenon

-----------------------------------------------------------------------------
(* Going to sleep is no step of an operation. *)
LEMMA begin_op_sleep_inv ==
  ASSUME Shape, NEW p \in Proc, begin_op_sleep(p)
  PROVE Shape'
<1>1. /\ pc[p] \in {"idle", "begin"} /\ MustWait /\ mode = "up"
      /\ pc' = [pc EXCEPT ![p] = "sleep"] /\ pc \in [Proc -> Pcs]
      /\ UNCHANGED <<disk, logblk, hd, buf, dirty, lh, outstanding, committing, tail, mode,
                     panicked, writes, busy>>
  BY Zenon DEF begin_op_sleep, Running, diskPart, logPart, Shape, TypeOK
<1>2. TypeOK'
  BY <1>1, Zenon DEF Shape, TypeOK, Pcs
<1>3. Active' = Active /\ \A l \in CommitPcs : At(l)' <=> At(l)
  BY <1>1, Zenon DEF At, CommitPcs, Active
<1>4. Control'
  BY <1>1, <1>3 DEF Shape, TypeOK, Control, CommitPcs
<1>5. Operations'
  BY <1>1, <1>3, Zenon DEF Shape, Operations
<1>6. Short'
  BY <1>1, Zenon DEF Shape, Short
<1>7. Distinct' /\ Header' /\ Pinned' /\ Copied'
  BY <1>1, <1>3, LogKept, Zenon DEF LogFrame, bread
<1>8. CleanMatchesDisk' /\ SleepersMustWait'
  BY <1>1, Zenon DEF Shape, CleanMatchesDisk, SleepersMustWait, MustWait
<1> QED BY <1>2, <1>4, <1>5, <1>6, <1>7, <1>8, Zenon DEF Shape

(* A cached sector is what the disk has. *)
LEMMA cache_inv ==
  ASSUME Shape, NEW b \in Block, cache(b)
  PROVE Shape' /\ \A x \in Block : bread(x)' = bread(x)
<1>1. /\ buf[b] = NotCached /\ buf' = [buf EXCEPT ![b] = disk[b]]
      /\ buf \in [Block -> Val \cup {NotCached}] /\ disk[b] \in Val
      /\ UNCHANGED <<disk, logblk, hd, dirty, lh, outstanding, committing, tail, mode,
                     panicked, pc, writes, busy>>
  BY Zenon DEF cache, diskPart, logPart, Shape, TypeOK
<1>2. TypeOK'
  BY <1>1, Zenon DEF Shape, TypeOK
<1>3. \A x \in Block : bread(x)' = bread(x) /\ (buf[x] # NotCached => buf'[x] # NotCached)
  BY <1>1, LogAssumption, Zenon DEF bread
<1>4. Control' /\ Operations' /\ Short' /\ SleepersMustWait'
  <2>1. \A p \in Proc : \A x \in busy[p] : x \in Block /\ buf[x] # NotCached
    BY Zenon DEF Shape, TypeOK, Operations
  <2> QED BY <1>1, <1>2, <1>3, <2>1, OpsKept, Zenon DEF OpsFrame
<1>5. Distinct' /\ Header' /\ Pinned' /\ Copied'
  <2>1. dirty \subseteq Block /\ \A l \in CommitPcs : At(l)' <=> At(l)
    BY <1>1, Zenon DEF Shape, TypeOK, At
  <2> QED BY <1>1, <1>3, <2>1, LogKept, Zenon DEF LogFrame
<1>6. CleanMatchesDisk'
  BY <1>1, Zenon DEF Shape, CleanMatchesDisk
<1> QED BY <1>2, <1>3, <1>4, <1>5, <1>6, Zenon DEF Shape

(* Only a buffer that is neither pinned nor busy is recycled. *)
LEMMA evict_inv ==
  ASSUME Shape, NEW b \in Block, evict(b)
  PROVE Shape' /\ \A x \in Block : bread(x)' = bread(x)
<1>1. /\ b \notin dirty /\ \A q \in Proc : b \notin busy[q]
      /\ buf' = [buf EXCEPT ![b] = NotCached] /\ buf[b] = disk[b]
      /\ buf \in [Block -> Val \cup {NotCached}]
      /\ UNCHANGED <<disk, logblk, hd, dirty, lh, outstanding, committing, tail, mode,
                     panicked, pc, writes, busy>>
  BY Zenon DEF evict, diskPart, logPart, Shape, TypeOK, CleanMatchesDisk
<1>2. TypeOK'
  BY <1>1, Zenon DEF Shape, TypeOK
<1>3. \A x \in Block : bread(x)' = bread(x) /\ (x # b => buf'[x] = buf[x])
  BY <1>1, LogAssumption, Zenon DEF bread
<1>4. Control' /\ Operations' /\ Short' /\ SleepersMustWait'
  <2>1. \A p \in Proc : \A x \in busy[p] : x \in Block /\ buf[x] # NotCached
    BY DEF Shape, TypeOK, Operations
  <2> QED BY <1>1, <1>2, <1>3, <2>1, OpsKept, Zenon DEF OpsFrame
<1>5. Distinct' /\ Header' /\ Pinned' /\ Copied'
  <2>1. dirty \subseteq Block /\ \A l \in CommitPcs : At(l)' <=> At(l)
    BY <1>1, Zenon DEF Shape, TypeOK, At
  <2> QED BY <1>1, <1>3, <2>1, LogKept, Zenon DEF LogFrame
<1>6. CleanMatchesDisk'
  BY <1>1, Zenon DEF Shape, CleanMatchesDisk
<1> QED BY <1>2, <1>3, <1>4, <1>5, <1>6, Zenon DEF Shape

(* A buffer is changed by the one operation that has it. *)
LEMMA log_test_inv ==
  ASSUME Shape, NEW p \in Proc, NEW b \in Block, NEW v \in Val, log_test(p, b, v)
  PROVE Shape'
<1> USE LogAssumption
<1>1. /\ pc[p] = "in" /\ writes[p] < OpMax /\ \A q \in Proc : b \notin busy[q]
      /\ buf' = [buf EXCEPT ![b] = v]
      /\ busy' = [busy EXCEPT ![p] = {b}]
      /\ pc' = [pc EXCEPT ![p] = "logw"]
      /\ writes' = [writes EXCEPT ![p] = @ + 1]
      /\ UNCHANGED <<disk, logblk, hd, dirty, lh, outstanding, committing, tail, mode>>
  BY Zenon DEF log_test, diskPart, logPart
<1>2. /\ buf \in [Block -> Val \cup {NotCached}] /\ busy \in [Proc -> SUBSET Block]
      /\ pc \in [Proc -> Pcs] /\ writes \in [Proc -> Nat] /\ dirty \subseteq Block
  BY Zenon DEF Shape, TypeOK
<1>3. p \in Active /\ Active' = Active /\ \A l \in CommitPcs : ~At(l) /\ ~At(l)'
  BY <1>1, <1>2, OperationFacts, Zenon DEF At, CommitPcs, Active
<1>4. panicked' \in BOOLEAN
  BY Zenon DEF log_test
<1>5. TypeOK'
  BY <1>1, <1>2, <1>4 DEF Shape, TypeOK, Pcs
<1>6. Control'
  BY <1>1, <1>2, <1>3, OperationFacts, Zenon DEF Shape, Control, CommitPcs
<1>7. Operations'
  BY <1>1, <1>2, <1>3 DEF Shape, Operations
<1>8. Short'
  BY <1>1, Zenon DEF Shape, Short
<1>9. Distinct' /\ Header' /\ Pinned' /\ Copied'
  BY <1>1, <1>2, <1>3, LogKept, Zenon DEF LogFrame
<1>10. CleanMatchesDisk'
  <2>1. busy[p] = {}
    BY <1>1, Zenon DEF Shape, Operations
  <2> SUFFICES ASSUME NEW x \in Block \ dirty', buf'[x] # NotCached,
                      \A q \in Proc : x \notin busy'[q]
               PROVE buf'[x] = disk'[x]
    BY Zenon DEF CleanMatchesDisk
  <2>2. x # b /\ \A q \in Proc : x \notin busy[q]
    BY <1>1, <1>2, <2>1, Zenon
  <2> QED BY <1>1, <1>2, <2>2, Zenon DEF Shape, CleanMatchesDisk
<1>11. SleepersMustWait'
  BY <1>1, <1>2, Zenon DEF Shape, SleepersMustWait, MustWait
<1> QED BY <1>5, <1>6, <1>7, <1>8, <1>9, <1>10, <1>11, Zenon DEF Shape

(* A block that is new in the log, which has room for it. *)
LEMMA log_write_inv ==
  ASSUME Shape, NEW p \in Proc, log_write(p),
         Len(lh) < LOGSIZE, Len(lh) < NLOG - 1
  PROVE Shape'
<1> USE LogAssumption
<1>1. /\ pc[p] = "logw" /\ busy' = [busy EXCEPT ![p] = {}]
      /\ pc' = [pc EXCEPT ![p] = "in"]
      /\ UNCHANGED <<disk, logblk, hd, buf, outstanding, committing, tail, mode, panicked,
                     writes>>
  BY Zenon DEF log_write, diskPart
<1>2. /\ busy \in [Proc -> SUBSET Block] /\ pc \in [Proc -> Pcs] /\ writes \in [Proc -> Nat]
      /\ dirty \subseteq Block /\ lh \in Seq(Block) /\ Len(lh) \in Nat
  BY DEF Shape, TypeOK
<1>3. /\ p \in Active /\ Active' = Active /\ mode = "up" /\ ~committing /\ hd = <<>>
      /\ \A l \in CommitPcs : ~At(l) /\ ~At(l)'
  BY <1>1, <1>2, OperationFacts, Zenon DEF At, CommitPcs, Active
<1>4. PICK b \in Block : /\ busy[p] = {b} /\ buf[b] # NotCached
                         /\ lh' = IF InLog(b) THEN lh ELSE Append(lh, b)
                         /\ dirty' = dirty \cup {b}
  <2>1. DOMAIN lh = 1..Len(lh)
    BY <1>2
  <2>2. PICK b \in Block : busy[p] = {b} /\ buf[b] # NotCached
    BY <1>1 DEF Shape, Operations
  <2> QED BY <2>1, <2>2, Zenon DEF log_write, InLog, pin
<1>5. /\ Len(lh') \in {Len(lh), Len(lh) + 1}
      /\ \A i \in 1..Len(lh) : lh'[i] = lh[i]
      /\ ~InLog(b) => Len(lh') = Len(lh) + 1 /\ lh'[Len(lh')] = b
      /\ InLog(b) => lh' = lh
      /\ lh' \in Seq(Block)
  BY <1>2, <1>4
<1>6. TypeOK'
  BY <1>1, <1>2, <1>4, <1>5, Zenon DEF Shape, TypeOK, Pcs
<1>7. Control'
  BY <1>1, <1>2, <1>3, Zenon DEF Shape, Control, CommitPcs
<1>8. Operations'
  BY <1>1, <1>2, <1>3 DEF Shape, Operations
<1>9. Short'
  BY <1>1, <1>2, <1>5 DEF Short
<1>10. Distinct'
  BY <1>2, <1>4, <1>5 DEF Shape, Distinct, InLog
<1>11. Header' /\ Copied'
  BY <1>1, <1>3 DEF Shape, Header, Copied, CommitPcs
<1>12. Pinned'
  <2>1. \A x \in Block : InLog(x)' <=> InLog(x) \/ x = b
    <3>1. CASE InLog(b)
      BY <1>5, <3>1, Zenon DEF InLog
    <3>2. CASE ~InLog(b)
      <4>1. \A i \in 1..Len(lh') : i \in 1..Len(lh) \/ i = Len(lh')
        BY <1>2, <1>5, <3>2
      <4>2. 1..Len(lh) \subseteq 1..Len(lh') /\ Len(lh') \in 1..Len(lh')
        BY <1>2, <1>5, <3>2
      <4> QED BY <1>5, <3>2, <4>1, <4>2, Zenon DEF InLog
    <3> QED BY <3>1, <3>2, Zenon
  <2> QED BY <1>1, <1>2, <1>3, <1>4, <2>1, Zenon DEF Shape, Pinned, CommitPcs
<1>13. CleanMatchesDisk'
  BY <1>1, <1>2, <1>4, Zenon DEF Shape, CleanMatchesDisk
<1>14. SleepersMustWait'
  <2>1. PICK k \in Nat : k = (outstanding + 1) * MAXOPBLOCKS
    BY DEF Shape, TypeOK
  <2>2. MustWait => MustWait'
    BY <1>1, <1>2, <1>5, <2>1 DEF MustWait
  <2> QED BY <1>1, <1>2, <2>2, Zenon DEF Shape, SleepersMustWait
<1> QED BY <1>6, <1>7, <1>8, <1>9, <1>10, <1>11, <1>12, <1>13, <1>14, Zenon DEF Shape

(* A new operation finds nobody committing. *)
LEMMA begin_op_inv ==
  ASSUME Shape, NEW p \in Proc, begin_op(p)
  PROVE Shape'
<1> USE LogAssumption
<1>1. /\ pc[p] \in {"idle", "begin"} /\ ~MustWait /\ mode = "up"
      /\ outstanding' = outstanding + 1 /\ pc' = [pc EXCEPT ![p] = "in"]
      /\ UNCHANGED <<disk, logblk, hd, buf, dirty, lh, committing, tail, mode, panicked,
                     writes, busy>>
  BY Zenon DEF begin_op, Running, diskPart
<1>2. pc \in [Proc -> Pcs] /\ outstanding \in Nat /\ Len(lh) \in Nat
  BY DEF Shape, TypeOK
<1>3. /\ Active' = Active \cup {p} /\ p \notin Active /\ ~committing
      /\ \A l \in CommitPcs : ~At(l) /\ ~At(l)'
  BY <1>1, <1>2, Zenon DEF At, CommitPcs, Active, MustWait, Shape, Control
<1>4. TypeOK'
  BY <1>1, <1>2 DEF Shape, TypeOK, Pcs
<1>5. Control'
  BY <1>1, <1>2, <1>3, Zenon DEF Shape, Control, CommitPcs
<1>6. Operations'
  BY <1>1, <1>2, <1>3, Zenon DEF Shape, Operations
<1>7. Short'
  BY <1>1, Zenon DEF Shape, Short
<1>8. Distinct' /\ Header' /\ Pinned' /\ Copied'
  BY <1>1, <1>3, LogKept, Zenon DEF LogFrame
<1>9. CleanMatchesDisk'
  BY <1>1, Zenon DEF Shape, CleanMatchesDisk
<1>10. SleepersMustWait'
  <2>1. \A q \in Proc : pc[q] # "sleep"
    BY <1>1, Zenon DEF Shape, SleepersMustWait
  <2> QED BY <1>1, <1>2, <2>1, Zenon DEF SleepersMustWait
<1> QED BY <1>4, <1>5, <1>6, <1>7, <1>8, <1>9, <1>10, Zenon DEF Shape

(* The last operation to end starts the commit, when no other is under way; *)
(* otherwise the sleepers are woken.                                        *)
LEMMA end_op_inv ==
  ASSUME Shape, NEW p \in Proc, end_op(p),
         outstanding' \in Nat, outstanding' = 0 <=> Active' = {}
  PROVE Shape'
<1> USE LogAssumption
<1>1. /\ p \in Active /\ ~committing /\ mode = "up" /\ hd = <<>>
      /\ pc[p] = "in" /\ \A l \in CommitPcs : ~At(l)
  BY OperationFacts, Zenon DEF Active, end_op, Running
<1>2. /\ UNCHANGED <<disk, logblk, hd, buf, dirty, lh, mode, busy, panicked>>
      /\ outstanding' = outstanding - 1 /\ tail' = 1
      /\ writes' = [writes EXCEPT ![p] = 0]
  BY <1>1, Zenon DEF end_op, diskPart
<1>3. /\ committing' \in BOOLEAN /\ (committing' <=> outstanding' = 0)
      /\ outstanding' > 0 => pc' = Wake(p, "idle")
      /\ ~(outstanding' > 0) /\ lh = <<>> => pc' = [pc EXCEPT ![p] = "done"]
      /\ ~(outstanding' > 0) /\ lh # <<>> => pc' = [pc EXCEPT ![p] = "wlog"]
  BY <1>1, Zenon DEF end_op
<1>4. /\ pc \in [Proc -> Pcs] /\ writes \in [Proc -> Nat] /\ busy \in [Proc -> SUBSET Block]
      /\ dirty \subseteq Block /\ lh \in Seq(Block) /\ Len(lh) \in Nat
  BY DEF Shape, TypeOK
<1>5. Active' = Active \ {p}
  BY <1>1, <1>3, <1>4, Zenon DEF Active, Wake
<1>6. /\ committing' <=> Active' = {}
      /\ \/ ~committing' /\ pc' = Wake(p, "idle")
         \/ committing' /\ lh = <<>> /\ pc' = [pc EXCEPT ![p] = "done"]
         \/ committing' /\ lh # <<>> /\ pc' = [pc EXCEPT ![p] = "wlog"]
  <2>1. outstanding' > 0 <=> outstanding' # 0
    OBVIOUS
  <2> QED BY <1>3, <2>1, Zenon
<1>7. /\ \A l \in CommitPcs : At(l)' <=> pc'[p] = l
      /\ \A q \in Proc \ {p} : pc'[q] \notin CommitPcs
      /\ pc'[p] \in {"idle", "done", "wlog"} /\ (pc'[p] = "idle" <=> ~committing')
      /\ pc'[p] = "done" => lh = <<>>
      /\ pc'[p] = "wlog" => lh # <<>>
      /\ \A q \in Proc \ {p} : pc'[q] = pc[q] \/ (pc[q] = "sleep" /\ pc'[q] = "begin")
      /\ ~committing' => \A q \in Proc : pc'[q] # "sleep"
  <2>1. /\ \/ ~committing' /\ pc'[p] = "idle"
           \/ committing' /\ lh = <<>> /\ pc'[p] = "done"
           \/ committing' /\ lh # <<>> /\ pc'[p] = "wlog"
        /\ \A q \in Proc \ {p} : pc'[q] = pc[q] \/ (pc[q] = "sleep" /\ pc'[q] = "begin")
        /\ ~committing' => \A q \in Proc : pc'[q] # "sleep"
    <3>1. CASE ~committing'
      BY <1>6, <3>1, Zenon DEF Wake
    <3>2. CASE committing'
      BY <1>4, <1>6, <3>2, Zenon
    <3> QED BY <3>1, <3>2, Zenon
  <2>2. \A q \in Proc \ {p} : pc[q] \notin CommitPcs /\ pc'[q] \notin CommitPcs
    BY <1>1, <2>1, Zenon DEF At, CommitPcs
  <2> QED BY <2>1, <2>2, Zenon DEF At, CommitPcs
<1>8. TypeOK'
  <2>1. pc' \in [Proc -> Pcs]
    BY <1>4, <1>6, Zenon DEF Pcs, Wake
  <2>2. tail' \in Nat \ {0} /\ writes' \in [Proc -> Nat]
    BY <1>2, <1>4
  <2>3. panicked' \in BOOLEAN /\ dirty' \subseteq Block /\ hd' \in Seq(Block) /\ lh' \in Seq(Block)
    BY <1>2, Zenon DEF Shape, TypeOK
  <2> QED BY <1>2, <1>3, <1>6, <2>1, <2>2, <2>3, Zenon DEF Shape, TypeOK
<1>9. Control'
  BY <1>1, <1>2, <1>6, <1>7, Zenon DEF Control, CommitPcs
<1>10. Operations'
  <2>1. \A q \in Proc : busy'[q] = busy[q] /\ writes'[q] = IF q = p THEN 0 ELSE writes[q]
    BY <1>2, <1>4, Zenon
  <2>2. \A q \in Proc \ {p} : pc'[q] = "logw" <=> pc[q] = "logw"
    BY <1>7, Zenon
  <2> QED BY <1>1, <1>2, <1>5, <1>7, <2>1, <2>2 DEF Shape, Operations
<1>11. Short'
  BY <1>2, Zenon DEF Shape, Short
<1>12. Distinct' /\ Header'
  <2>1. lh # <<>> => 1 \in 1..Len(lh)
    BY <1>4
  <2> QED BY <1>1, <1>2, <1>7, <2>1 DEF Shape, Distinct, Header, CommitPcs
<1>13. Pinned'
  <2>1. \A b \in Block : InLog(b)' = InLog(b) /\ (InLog(b) => lh # <<>>)
    BY <1>2, <1>4 DEF InLog
  <2>2. \A b \in Block : b \in dirty <=> InLog(b)
    BY <1>1, Zenon DEF Shape, Pinned, CommitPcs
  <2>3. lh = <<>> => dirty = {}
    BY <1>4, <2>1, <2>2, Zenon
  <2> QED BY <1>1, <1>2, <1>7, <2>1, <2>2, <2>3, Zenon DEF Shape, Pinned, CommitPcs
<1>14. Copied'
  BY <1>1, <1>2, <1>7 DEF Copied, CommitPcs
<1>15. CleanMatchesDisk' /\ SleepersMustWait'
  BY <1>2, <1>7, Zenon DEF Shape, CleanMatchesDisk, SleepersMustWait, MustWait
<1> QED BY <1>8, <1>9, <1>10, <1>11, <1>12, <1>13, <1>14, <1>15, Zenon DEF Shape

(* The next block of the log is copied from its buffer. *)
LEMMA write_log_inv ==
  ASSUME Shape, NEW p \in Proc, write_log(p)
  PROVE Shape'
<1> PICK l : l = IF tail = Len(lh) THEN "whead" ELSE "wlog"
  OBVIOUS
<1>1. /\ pc[p] = "wlog" /\ pc' = [pc EXCEPT ![p] = l]
      /\ logblk' = [logblk EXCEPT ![tail] = bread(lh[tail])]
      /\ tail' = NextTail
      /\ UNCHANGED <<disk, hd, buf, dirty, lh, outstanding, committing, mode, panicked,
                     writes, busy>>
  BY Zenon DEF write_log, AfterLog, logPart
<1>2. /\ tail \in 1..Len(lh) /\ Len(lh) <= NLOG - 1 /\ Len(lh) \in Nat /\ NLOG \in Nat
      /\ \A i \in 1..Len(lh) : lh[i] \in Block
      /\ logblk \in [1..NLOG-1 -> Val] /\ pc \in [Proc -> Pcs]
  <2>1. At("wlog")
    BY <1>1, Zenon DEF At
  <2> QED BY <2>1, LogAssumption DEF Shape, TypeOK, Header, Short
<1>3. /\ l = "wlog" => tail' = tail + 1 /\ tail # Len(lh)
      /\ l = "whead" => tail' = 1 /\ tail = Len(lh)
      /\ l \in {"wlog", "whead"} /\ tail' \in Nat \ {0}
  BY <1>1, <1>2 DEF NextTail
<1>4. \A x \in Block : bread(x) \in Val /\ bread(x)' = bread(x)
  BY <1>1, Zenon DEF bread, Shape, TypeOK
<1>5. TypeOK'
  BY <1>1, <1>2, <1>3, <1>4, Zenon DEF Shape, TypeOK, Pcs
<1>6. /\ Control' /\ Operations' /\ Short' /\ SleepersMustWait'
      /\ \A k \in CommitPcs : At(k)' <=> k = l
      /\ mode = "up" /\ \A k \in CommitPcs : At(k) <=> k = "wlog"
  BY <1>1, <1>3, <1>5, CommitKeeps, Zenon DEF CommitStep, CommitPcs
<1>7. Distinct' /\ Header'
  BY <1>1, <1>2, <1>3, <1>6 DEF Shape, Distinct, Header, CommitPcs
<1>8. Pinned'
  BY <1>1, <1>3, <1>6, Zenon DEF Shape, Pinned, InLog, CommitPcs
<1>9. Copied'
  <2>1. /\ logblk'[tail] = bread(lh[tail])
        /\ \A i \in 1..Len(lh) : i # tail => logblk'[i] = logblk[i]
    BY <1>1, <1>2
  <2>2. \A i \in 1..tail-1 : logblk[i] = bread(lh[i])
    BY <1>6, Zenon DEF Shape, Copied, CommitPcs
  <2>3. \A i \in 1..tail : logblk'[i] = bread(lh[i])'
    BY <1>1, <1>2, <1>4, <2>1, <2>2
  <2> QED BY <1>1, <1>2, <1>3, <1>6, <2>3 DEF Copied, CommitPcs
<1>10. CleanMatchesDisk'
  BY <1>1, Zenon DEF Shape, CleanMatchesDisk
<1> QED BY <1>5, <1>6, <1>7, <1>8, <1>9, <1>10, Zenon DEF Shape

(* The header is written when every block of the log is. *)
LEMMA write_head_inv ==
  ASSUME Shape, NEW p \in Proc, write_head(p)
  PROVE Shape'
<1>1. /\ pc[p] = "whead" /\ hd' = lh /\ pc' = [pc EXCEPT ![p] = "inst"]
      /\ UNCHANGED <<disk, logblk, buf, dirty, lh, outstanding, committing, tail, mode,
                     panicked, writes, busy>>
  BY Zenon DEF write_head, logPart
<1>2. TypeOK'
  BY <1>1, Zenon DEF Shape, TypeOK, Pcs
<1>3. /\ Control' /\ Operations' /\ Short' /\ SleepersMustWait'
      /\ \A k \in CommitPcs : At(k)' <=> k = "inst"
      /\ mode = "up" /\ \A k \in CommitPcs : At(k) <=> k = "whead"
  BY <1>1, <1>2, CommitKeeps, Zenon DEF CommitStep, CommitPcs
<1>4. tail = 1 /\ lh # <<>> /\ Len(lh) \in Nat /\ 1 \in 1..Len(lh)
  BY <1>3 DEF Shape, Header, CommitPcs, TypeOK
<1>5. Distinct' /\ Header'
  <2>1. Len(lh) <= LOGSIZE /\ Len(lh) <= NLOG - 1
    BY Zenon DEF Shape, Short
  <2> QED BY <1>1, <1>3, <1>4, <2>1 DEF Shape, Header, CommitPcs, Distinct
<1>6. Pinned'
  BY <1>1, <1>3, <1>4, Zenon DEF Shape, Pinned, InLog, CommitPcs
<1>7. Copied'
  BY <1>1, <1>3, <1>4 DEF Shape, Copied, bread, CommitPcs
<1>8. CleanMatchesDisk'
  BY <1>1, Zenon DEF Shape, CleanMatchesDisk
<1> QED BY <1>2, <1>3, <1>5, <1>6, <1>7, <1>8, Zenon DEF Shape

(* One turn of the loop that installs, in commit() or in recovery. *)
LEMMA InstallFacts ==
  ASSUME Shape, Install, At("inst") \/ mode = "rinst"
  PROVE /\ tail \in 1..Len(lh)
        /\ Len(lh) <= NLOG - 1 /\ Len(lh) <= LOGSIZE /\ Len(lh) \in Nat
        /\ hd = lh /\ \A i \in 1..Len(lh) : lh[i] \in Block
        /\ \A i \in 1..Len(lh) : lh[i] = lh[tail] => i = tail
        /\ disk'[lh[tail]] = logblk[tail] /\ buf'[lh[tail]] = logblk[tail]
        /\ logblk[tail] \in Val
        /\ \A x \in Block \ {lh[tail]} : disk'[x] = disk[x] /\ buf'[x] = buf[x]
        /\ disk' \in [Block -> Val] /\ buf' \in [Block -> Val \cup {NotCached}]
        /\ dirty' = dirty \ {lh[tail]} /\ tail' = NextTail /\ tail' \in Nat \ {0}
        /\ \A i \in 1..tail : disk'[lh[i]] = logblk[i]
<1> USE LogAssumption
<1>1. /\ tail \in 1..Len(lh) /\ Len(lh) <= NLOG - 1 /\ Len(lh) \in Nat
      /\ hd = lh /\ \A i \in 1..Len(lh) : lh[i] \in Block
      /\ logblk[tail] \in Val
  <2>1. tail \in 1..Len(lh) /\ Len(lh) <= NLOG - 1 /\ Len(lh) \in Nat /\ hd = lh
    BY RecoveryFacts DEF Shape, TypeOK, Header, Short, CommitPcs
  <2> QED BY <2>1 DEF Shape, TypeOK
<1>2. Len(lh) <= LOGSIZE /\ \A i \in 1..Len(lh) : lh[i] = lh[tail] => i = tail
  BY <1>1, Zenon DEF Shape, Distinct, Header
<1>3. /\ disk'[lh[tail]] = logblk[tail] /\ buf'[lh[tail]] = logblk[tail]
      /\ \A x \in Block \ {lh[tail]} : disk'[x] = disk[x] /\ buf'[x] = buf[x]
      /\ disk' \in [Block -> Val] /\ buf' \in [Block -> Val \cup {NotCached}]
  BY <1>1, Zenon DEF Install, Shape, TypeOK
<1>4. dirty' = dirty \ {lh[tail]} /\ tail' = NextTail /\ tail' \in Nat \ {0}
  BY <1>1 DEF Install, NextTail
<1>5. \A i \in 1..tail : disk'[lh[i]] = logblk[i]
  BY <1>1, <1>2, <1>3 DEF Shape, Copied
<1> QED BY <1>1, <1>2, <1>3, <1>4, <1>5, Zenon

(* A block is installed: its buffer, its log sector and its home are the    *)
(* same, and the buffer is clean.                                           *)
LEMMA install_trans_inv ==
  ASSUME Shape, NEW p \in Proc, install_trans(p)
  PROVE Shape' /\ \A x \in Block : bread(x)' = bread(x)
<1> PICK l, b : l = (IF tail = Len(lh) THEN "clear" ELSE "inst") /\ b = lh[tail]
  OBVIOUS
<1>1. /\ pc[p] = "inst" /\ pc' = [pc EXCEPT ![p] = l] /\ Install
      /\ UNCHANGED <<logblk, hd, lh, outstanding, committing, mode, panicked, writes, busy>>
  BY Zenon DEF install_trans, logPart
<1>2. /\ tail \in 1..Len(lh) /\ Len(lh) \in Nat /\ hd = lh
      /\ \A i \in 1..Len(lh) : lh[i] \in Block
      /\ \A i \in 1..Len(lh) : lh[i] = b => i = tail
      /\ b \in Block /\ disk'[b] = logblk[tail] /\ buf'[b] = logblk[tail]
      /\ logblk[tail] \in Val
      /\ \A x \in Block \ {b} : disk'[x] = disk[x] /\ buf'[x] = buf[x]
      /\ disk' \in [Block -> Val] /\ buf' \in [Block -> Val \cup {NotCached}]
      /\ dirty' = dirty \ {b} /\ tail' = NextTail /\ tail' \in Nat \ {0}
      /\ \A i \in 1..tail : disk'[lh[i]] = logblk[i]
  BY <1>1, InstallFacts, Zenon DEF At
<1>3. /\ l = "inst" => tail' = tail + 1 /\ tail # Len(lh)
      /\ l = "clear" => tail' = 1 /\ tail = Len(lh)
      /\ l \in {"inst", "clear"}
  BY <1>2, Zenon DEF NextTail
<1>4. TypeOK'
  BY <1>1, <1>2, <1>3, Zenon DEF Shape, TypeOK, Pcs
<1>5. /\ Control' /\ Operations' /\ Short' /\ SleepersMustWait'
      /\ \A k \in CommitPcs : At(k)' <=> k = l
      /\ mode = "up" /\ \A k \in CommitPcs : At(k) <=> k = "inst"
  BY <1>1, <1>3, <1>4, CommitKeeps, Zenon DEF CommitStep, CommitPcs
<1>a. /\ At("inst") /\ ~At("wlog")' /\ ~At("whead")' /\ ~At("done")'
      /\ At("inst")' <=> l = "inst"
      /\ At("clear")' <=> l = "clear"
  BY <1>5, Zenon DEF CommitPcs
<1>b. \A i \in 1..Len(lh) : logblk[i] = bread(lh[i])
  BY <1>a, Zenon DEF Shape, Copied
<1>6. \A x \in Block : bread(x)' = bread(x)
  <2>1. logblk[tail] = bread(b)
    BY <1>2, <1>b, Zenon
  <2> QED BY <1>2, <2>1, LogAssumption, Zenon DEF bread
<1>7. Distinct' /\ Header'
  <2>1. hd = lh /\ (l = "inst" => tail' \in 1..Len(lh)) /\ l \in {"inst", "clear"}
    BY <1>2, <1>3
  <2> QED BY <1>1, <1>5, <2>1 DEF Shape, Distinct, Header, CommitPcs
<1>8. Pinned'
  <2>1. \A x \in Block : x \in dirty <=> \E i \in tail..Len(lh) : lh[i] = x
    BY <1>5, Zenon DEF Shape, Pinned, CommitPcs
  <2>2. \A x \in Block : x \in dirty' <=> \E i \in tail+1..Len(lh) : lh[i] = x
    BY <1>2, <2>1
  <2>3. tail = Len(lh) => dirty' = {}
    BY <1>2, <2>2 DEF Shape, TypeOK
  <2>4. \A x \in dirty' : buf'[x] # NotCached
    BY <1>2, Zenon DEF Shape, TypeOK, Pinned
  <2> QED BY <1>1, <1>3, <1>5, <2>2, <2>3, <2>4, Zenon DEF Pinned, CommitPcs
<1>9. Copied'
  <2>1. \A i \in 1..Len(lh) : logblk[i] = bread(lh[i])'
    BY <1>1, <1>2, <1>6, <1>b, Zenon
  <2>2. \A i \in 1..tail : disk'[lh[i]] = logblk[i]
    BY <1>2, Zenon
  <2>3. mode' = "up" /\ UNCHANGED <<logblk, lh>>
    BY <1>1, <1>5, Zenon
  <2> QED BY <1>3, <1>a, <2>1, <2>2, <2>3, <1>2 DEF Copied
<1>10. CleanMatchesDisk'
  BY <1>1, <1>2 DEF Shape, CleanMatchesDisk
<1> QED BY <1>4, <1>5, <1>6, <1>7, <1>8, <1>9, <1>10, Zenon DEF Shape

(* The header is emptied when every block is at home. *)
LEMMA clear_inv ==
  ASSUME Shape, NEW p \in Proc, clear(p)
  PROVE Shape'
<1>1. /\ pc[p] = "clear" /\ lh' = <<>> /\ hd' = <<>> /\ pc' = [pc EXCEPT ![p] = "done"]
      /\ UNCHANGED <<disk, logblk, buf, dirty, outstanding, committing, tail, mode,
                     panicked, writes, busy>>
  BY Zenon DEF clear
<1>2. TypeOK'
  BY <1>1 DEF Shape, TypeOK, Pcs
<1>3. /\ Control' /\ Operations' /\ Short' /\ SleepersMustWait'
      /\ \A k \in CommitPcs : At(k)' <=> k = "done"
      /\ mode = "up" /\ \A k \in CommitPcs : At(k) <=> k = "clear"
  BY <1>1, <1>2, CommitKeeps, Zenon DEF CommitStep, CommitPcs
<1>4. Distinct' /\ Header'
  BY <1>1, <1>3, LogAssumption DEF Distinct, Header, CommitPcs
<1>5. Pinned' /\ Copied'
  BY <1>1, <1>3, Zenon DEF Shape, Pinned, Copied, CommitPcs
<1>6. CleanMatchesDisk'
  BY <1>1, Zenon DEF Shape, CleanMatchesDisk
<1> QED BY <1>2, <1>3, <1>4, <1>5, <1>6, Zenon DEF Shape

(* The next operations find an empty log; the sleepers are woken. *)
LEMMA commit_done_inv ==
  ASSUME Shape, NEW p \in Proc, commit_done(p)
  PROVE Shape'
<1>1. /\ pc[p] = "done" /\ committing' = FALSE /\ pc' = Wake(p, "idle")
      /\ UNCHANGED <<disk, logblk, hd, buf, dirty, lh, outstanding, tail, mode, panicked,
                     writes, busy>>
  BY Zenon DEF commit_done, diskPart
<1>2. TypeOK'
  BY <1>1, Zenon DEF Shape, TypeOK, Pcs, Wake
<1>3. /\ mode = "up"
      /\ \A q \in Proc : q \notin Active /\ busy[q] = {} /\ writes[q] = 0
      /\ \A q \in Proc \ {p} : pc[q] \in {"idle", "sleep", "begin"}
      /\ \A l \in CommitPcs : At(l) <=> l = "done"
  BY <1>1, CommitFacts, Zenon DEF CommitPcs
<1>4. /\ \A q \in Proc : pc'[q] \in {"idle", "begin"}
      /\ \A l \in CommitPcs : ~At(l)'
      /\ Active' = Active
  BY <1>1, <1>3, Zenon DEF At, CommitPcs, Active, Wake
<1>5. lh = <<>> /\ dirty = {} /\ hd = <<>>
  BY <1>3, Zenon DEF Shape, Header, Pinned, CommitPcs
<1>6. Control'
  BY <1>1, <1>3, <1>4, <1>5, Zenon DEF Control, CommitPcs
<1>7. Operations'
  BY <1>1, <1>3, <1>4, Zenon DEF Shape, Operations
<1>8. Short'
  BY <1>1, Zenon DEF Shape, Short
<1>9. Distinct' /\ Header'
  BY <1>1, <1>3, <1>4, <1>5 DEF Shape, Distinct, Header, CommitPcs
<1>10. Pinned' /\ Copied'
  BY <1>1, <1>3, <1>4, <1>5 DEF Pinned, InLog, Copied, CommitPcs
<1>11. CleanMatchesDisk' /\ SleepersMustWait'
  BY <1>1, <1>4, Zenon DEF Shape, CleanMatchesDisk, SleepersMustWait
<1> QED BY <1>2, <1>6, <1>7, <1>8, <1>9, <1>10, <1>11, Zenon DEF Shape

(* Recovery starts with the committed header. *)
LEMMA read_head_inv ==
  ASSUME Shape, read_head
  PROVE Shape'
<1>1. /\ mode = "boot" /\ lh' = hd /\ mode' = IF hd = <<>> THEN "rclear" ELSE "rinst"
      /\ UNCHANGED <<disk, logblk, hd, buf, dirty, outstanding, committing, tail, panicked,
                     pc, writes, busy>>
  BY Zenon DEF read_head, Committed, diskPart
<1>2. TypeOK'
  BY <1>1, Zenon DEF Shape, TypeOK
<1>3. /\ tail = 1 /\ Len(hd) <= NLOG - 1 /\ Len(hd) <= LOGSIZE
      /\ hd # <<>> => 1 \in 1..Len(hd)
      /\ \A i, j \in 1..Len(hd) : hd[i] = hd[j] => i = j
  BY <1>1 DEF Shape, TypeOK, Header
<1>4. /\ Control' /\ Operations' /\ Short' /\ SleepersMustWait'
      /\ \A l \in CommitPcs : ~At(l)'
      /\ dirty = {}
  BY <1>1, <1>2, <1>3, RecoveryKeeps, Zenon DEF RecoveryStep, Short
<1>5. Distinct' /\ Header'
  BY <1>1, <1>3, <1>4, Zenon DEF Distinct, Header, CommitPcs
<1>6. Pinned' /\ Copied'
  BY <1>1, <1>3, <1>4 DEF Pinned, Copied, CommitPcs
<1>7. CleanMatchesDisk'
  BY <1>1, Zenon DEF Shape, CleanMatchesDisk
<1> QED BY <1>2, <1>4, <1>5, <1>6, <1>7, Zenon DEF Shape

(* Recovery installs a block again; a crash here repeats it. *)
LEMMA recover_install_inv ==
  ASSUME Shape, recover_install
  PROVE Shape'
<1>1. /\ mode = "rinst" /\ Install
      /\ mode' = IF tail = Len(lh) THEN "rclear" ELSE "rinst"
      /\ UNCHANGED <<logblk, hd, lh, outstanding, committing, panicked, pc, writes, busy>>
  BY Zenon DEF recover_install, logPart
<1>2. /\ tail \in 1..Len(lh) /\ Len(lh) \in Nat /\ hd = lh
      /\ Len(lh) <= NLOG - 1 /\ Len(lh) <= LOGSIZE
      /\ lh[tail] \in Block
      /\ disk'[lh[tail]] = logblk[tail] /\ buf'[lh[tail]] = logblk[tail]
      /\ \A x \in Block \ {lh[tail]} : disk'[x] = disk[x] /\ buf'[x] = buf[x]
      /\ disk' \in [Block -> Val] /\ buf' \in [Block -> Val \cup {NotCached}]
      /\ dirty' = dirty \ {lh[tail]} /\ tail' = NextTail /\ tail' \in Nat \ {0}
      /\ \A i \in 1..tail : disk'[lh[i]] = logblk[i]
  BY <1>1, InstallFacts, Zenon
<1>3. TypeOK'
  BY <1>1, <1>2, Zenon DEF Shape, TypeOK
<1>4. /\ Control' /\ Operations' /\ Short' /\ SleepersMustWait'
      /\ \A l \in CommitPcs : ~At(l)'
      /\ dirty = {}
  BY <1>1, <1>2, <1>3, RecoveryKeeps, Zenon DEF RecoveryStep, Short
<1>a. /\ dirty' = {} /\ UNCHANGED <<logblk, hd, lh>> /\ hd = lh
      /\ mode' \in {"rinst", "rclear"}
      /\ mode' = "rinst" => tail' = tail + 1 /\ tail # Len(lh)
      /\ mode' = "rclear" => tail = Len(lh)
  BY <1>1, <1>2, <1>4, Zenon DEF NextTail
<1>b. ~At("wlog")' /\ ~At("whead")' /\ ~At("inst")' /\ ~At("clear")' /\ ~At("done")'
  BY <1>4, Zenon DEF CommitPcs
<1>5. Distinct' /\ Header'
  BY <1>2, <1>a, <1>b DEF Shape, Distinct, Header
<1>6. Pinned'
  BY <1>a, <1>b, Zenon DEF Pinned
<1>7. Copied'
  BY <1>2, <1>a, <1>b DEF Copied
<1>8. CleanMatchesDisk'
  <2>1. \A x \in Block : buf[x] = disk[x] => buf'[x] = disk'[x]
    BY <1>2, Zenon
  <2>2. \A x \in Block : buf[x] # buf'[x] => buf'[x] = disk'[x]
    BY <1>2, Zenon
  <2> QED BY <1>1, <1>4, <2>1, <2>2, Zenon DEF Shape, CleanMatchesDisk
<1> QED BY <1>3, <1>4, <1>5, <1>6, <1>7, <1>8, Zenon DEF Shape

(* The system goes up with an empty log and clean buffers. *)
LEMMA recover_clear_inv ==
  ASSUME Shape, recover_clear
  PROVE Shape'
<1> USE LogAssumption
<1>1. /\ mode = "rclear" /\ lh' = <<>> /\ hd' = <<>> /\ mode' = "up"
      /\ UNCHANGED <<disk, logblk, buf, dirty, outstanding, committing, tail, panicked, pc,
                     writes, busy>>
  BY Zenon DEF recover_clear
<1>2. TypeOK'
  BY <1>1 DEF Shape, TypeOK
<1>3. /\ Control' /\ Operations' /\ Short' /\ SleepersMustWait'
      /\ \A l \in CommitPcs : ~At(l)'
      /\ dirty = {}
  BY <1>1, <1>2, RecoveryKeeps, LogAssumption DEF RecoveryStep, Short
<1>4. Distinct' /\ Header'
  BY <1>1, <1>3 DEF Distinct, Header, CommitPcs
<1>5. Pinned' /\ Copied'
  BY <1>1, <1>3 DEF Pinned, InLog, Copied, CommitPcs
<1>6. CleanMatchesDisk'
  BY <1>1, Zenon DEF Shape, CleanMatchesDisk
<1> QED BY <1>2, <1>3, <1>4, <1>5, <1>6, Zenon DEF Shape

=============================================================================
