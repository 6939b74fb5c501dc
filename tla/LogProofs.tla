----------------------------- MODULE LogProofs -----------------------------
(***************************************************************************)
(* Log is sound and implements AtomicDisk, for every number of processes,  *)
(* blocks and values, and for every size of the log that                   *)
(* ReservationAssumption allows.                                           *)
(*                                                                         *)
(* IInv is inductive.  To Shape it adds that log_write() never meets a     *)
(* full log, a counting argument: begin_op() gives an operation            *)
(* MAXOPBLOCKS tickets, a block put into the log takes one, and the log    *)
(* has room for every ticket there is.  What a restart would find then     *)
(* changes in one step, the write of the header, and is what the           *)
(* operations that have ended wrote.                                       *)
(***************************************************************************)
EXTENDS LogInvariant, FiniteSetTheorems

(* The time a prover is given for a step. *)
USE SMTT(60), ZenonT(30)

(* The state of a machine that has just started. *)
Started ==
  /\ buf = [b \in Block |-> NotCached] /\ dirty = {}
  /\ lh = <<>> /\ outstanding = 0 /\ committing = FALSE
  /\ tail = 1 /\ mode \in {"boot", "up"} /\ panicked = FALSE
  /\ pc = [p \in Proc |-> "idle"]
  /\ writes = [p \in Proc |-> 0]
  /\ busy = [p \in Proc |-> {}]

(* The disk, with a header that says on its own what to install. *)
DiskOK ==
  /\ disk \in [Block -> Val] /\ logblk \in [1..NLOG-1 -> Val] /\ hd \in Seq(Block)
  /\ \A i, j \in 1..Len(hd) : hd[i] = hd[j] => i = j
  /\ Len(hd) <= NLOG - 1 /\ Len(hd) <= LOGSIZE
  /\ mode = "up" => hd = <<>>

(* Whatever the moment of the crash, the disk is all that a start needs. *)
LEMMA Started_shape == Started /\ DiskOK => Shape
<1> SUFFICES ASSUME Started, DiskOK PROVE Shape
  OBVIOUS
<1> USE LogAssumption
<1>1. TypeOK /\ Short
  <2>1. committing \in BOOLEAN /\ panicked \in BOOLEAN
    BY Zenon DEF Started
  <2>2. pc \in [Proc -> Pcs] /\ buf \in [Block -> Val \cup {NotCached}]
    BY Zenon DEF Started, Pcs
  <2>3. lh \in Seq(Block)
    BY DEF Started
  <2> QED BY <2>1, <2>2, <2>3 DEF Started, DiskOK, TypeOK, Short
<1>2. Active = {} /\ \A l \in CommitPcs : ~At(l)
  BY Zenon DEF Started, At, CommitPcs, Active
<1>3. Control /\ Operations
  BY <1>2 DEF Started, Control, Operations, CommitPcs
<1>4. Distinct /\ Header
  BY <1>2 DEF Started, DiskOK, Distinct, Header, CommitPcs
<1>5. Pinned /\ Copied
  BY <1>2 DEF Started, Pinned, Copied, CommitPcs, InLog
<1>6. CleanMatchesDisk /\ SleepersMustWait
  BY Zenon DEF Started, CleanMatchesDisk, SleepersMustWait
<1> QED BY <1>1, <1>3, <1>4, <1>5, <1>6, Zenon DEF Shape

-----------------------------------------------------------------------------
(* Log entries an operation has made, not counting one that is under way. *)
Made(p) == IF pc[p] = "logw" THEN writes[p] - 1 ELSE writes[p]

(* The entries the operations under way may still make. *)
Tickets == {t \in Proc \X (1..MAXOPBLOCKS) : t[1] \in Active /\ Made(t[1]) < t[2]}

(* Every ticket has room in the log. *)
Room ==
  /\ outstanding = Cardinality(Active)
  /\ Len(lh) + Cardinality(Tickets) <= LOGSIZE

IInv ==
  /\ Shape
  /\ NoPanic
  /\ Room

(* There are finitely many operations and tickets. *)
LEMMA Finite == TypeOK => /\ IsFiniteSet(Active) /\ Cardinality(Active) \in Nat
                          /\ IsFiniteSet(Tickets) /\ Cardinality(Tickets) \in Nat
<1> SUFFICES ASSUME TypeOK PROVE /\ IsFiniteSet(Active) /\ IsFiniteSet(Tickets)
  BY FS_CardinalityType, Zenon
<1>1. IsFiniteSet(Proc) /\ IsFiniteSet(1..MAXOPBLOCKS)
  BY FS_Interval, LogAssumption, ReservationAssumption
<1>2. IsFiniteSet(Proc \X (1..MAXOPBLOCKS))
  BY <1>1, FS_Product, Zenon
<1>3. Active \subseteq Proc /\ Tickets \subseteq Proc \X (1..MAXOPBLOCKS)
  BY Zenon DEF Active, Tickets
<1> QED BY <1>1, <1>2, <1>3, FS_Subset, Zenon

(* With no ticket more and the same log there is room still. *)
LEMMA RoomKept ==
  ASSUME IInv, TypeOK', Active' = Active, lh' = lh, outstanding' = outstanding,
         \A p \in Active : Made(p) <= Made(p)'
  PROVE Room'
<1>1. Tickets' \subseteq Tickets
  BY DEF Tickets, Made, TypeOK, IInv, Shape, Active
<1>2. IsFiniteSet(Tickets) /\ Cardinality(Tickets) \in Nat
  BY Finite, Zenon DEF IInv, Shape
<1>3. Cardinality(Tickets') <= Cardinality(Tickets) /\ Cardinality(Tickets') \in Nat
  BY <1>1, <1>2, FS_Subset, FS_CardinalityType, Zenon
<1>4. Len(lh) \in Nat
  BY DEF IInv, Shape, TypeOK
<1> QED BY <1>2, <1>3, <1>4, LogAssumption DEF IInv, Room

(* An operation that is not at its limit has two tickets. *)
LEMMA TwoTickets ==
  ASSUME IInv, NEW p \in Active, Made(p) < OpMax
  PROVE Cardinality(Tickets) >= 2 /\ Len(lh) < LOGSIZE /\ Len(lh) < NLOG - 1
<1> USE LogAssumption, ReservationAssumption
<1>1. Made(p) \in Nat /\ p \in Proc
  BY DEF Made, IInv, Shape, TypeOK, Operations, Active
<1> PICK t, u : t = <<p, Made(p) + 1>> /\ u = <<p, MAXOPBLOCKS>>
  BY Zenon
<1>2. t \in Tickets /\ u \in Tickets \ {t}
  BY <1>1 DEF Tickets
<1>3. IsFiniteSet(Tickets) /\ IsFiniteSet(Tickets \ {t})
      /\ Cardinality(Tickets \ {t}) = Cardinality(Tickets) - 1
      /\ Cardinality(Tickets) \in Nat
  BY <1>2, Finite, FS_RemoveElement, Zenon DEF IInv, Shape
<1>4. Cardinality(Tickets \ {t}) # 0 /\ Cardinality(Tickets \ {t}) \in Nat
  BY <1>2, <1>3, FS_EmptySet, FS_CardinalityType, Zenon
<1>5. Cardinality(Tickets) >= 2
  BY <1>3, <1>4
<1> QED BY <1>3, <1>5 DEF IInv, Shape, TypeOK, Room

(* With no operation before and after a step there is nothing to count. *)
LEMMA NoTickets ==
  ASSUME IInv, Shape', Active = {}, Active' = {}, UNCHANGED <<outstanding, panicked>>
  PROVE IInv'
<1>1. Tickets' = {} /\ Cardinality(Tickets') = 0 /\ Cardinality(Active') = 0
  BY FS_EmptySet, Zenon DEF Tickets
<1>2. outstanding' = 0
  BY <1>1, Zenon DEF IInv, Room
<1>3. Room'
  BY <1>1, <1>2 DEF Room, Shape, Short, TypeOK
<1> QED BY <1>3, Zenon DEF IInv, NoPanic

(* A step that changes nothing keeps the invariant. *)
LEMMA stutter_shape == Shape /\ UNCHANGED vars => Shape'
<1> SUFFICES ASSUME Shape, UNCHANGED vars PROVE Shape'
  OBVIOUS
<1>1. UNCHANGED <<disk, logblk, hd, buf, dirty, lh, outstanding, committing, tail, mode,
                  panicked, pc, writes, busy>>
  BY Zenon DEF vars, diskPart, logPart
<1>2. TypeOK'
  BY <1>1, Zenon DEF Shape, TypeOK
<1>3. Control' /\ Operations' /\ Short' /\ SleepersMustWait'
  <2>1. \A p \in Proc : \A b \in busy[p] : buf[b] # NotCached
    BY Zenon DEF Shape, Operations
  <2> QED BY <1>1, <1>2, <2>1, OpsKept, Zenon DEF OpsFrame
<1>4. Distinct' /\ Header' /\ Pinned' /\ Copied'
  BY <1>1, LogKept, Zenon DEF LogFrame, At, bread
<1>5. CleanMatchesDisk'
  BY <1>1, Zenon DEF Shape, CleanMatchesDisk
<1> QED BY <1>2, <1>3, <1>4, <1>5, Zenon DEF Shape

(* Going to sleep and what the buffer cache does take no ticket. *)
LEMMA quiet_inv ==
  ASSUME IInv, \/ \E p \in Proc : begin_op_sleep(p)
               \/ \E b \in Block : cache(b) \/ evict(b)
               \/ UNCHANGED vars
  PROVE IInv'
<1>1. Shape'
  BY begin_op_sleep_inv, cache_inv, evict_inv, stutter_shape, Zenon DEF IInv
<1>2. /\ UNCHANGED <<lh, outstanding, panicked, writes>>
      /\ \/ pc' = pc
         \/ \E p \in Proc : /\ pc[p] \in {"idle", "begin"}
                            /\ pc' = [pc EXCEPT ![p] = "sleep"]
  BY Zenon DEF begin_op_sleep, cache, evict, vars, logPart
<1>3. Active' = Active /\ \A p \in Active : Made(p)' = Made(p) /\ Made(p) \in Int
  BY <1>2 DEF Active, Made, IInv, Shape, TypeOK, Pcs
<1>4. Room'
  BY <1>1, <1>2, <1>3, RoomKept DEF Shape
<1> QED BY <1>1, <1>2, <1>4, Zenon DEF IInv, NoPanic

(* A new operation gets MAXOPBLOCKS tickets, for which begin_op() has found *)
(* space.                                                                   *)
LEMMA begin_op_room ==
  ASSUME IInv, NEW p \in Proc, begin_op(p)
  PROVE IInv'
<1> USE LogAssumption
<1>1. Shape'
  BY begin_op_inv, Zenon DEF IInv
<1>2. /\ pc[p] \in {"idle", "begin"} /\ ~MustWait /\ pc' = [pc EXCEPT ![p] = "in"]
      /\ outstanding' = outstanding + 1 /\ UNCHANGED <<lh, panicked>>
      /\ pc \in [Proc -> Pcs] /\ outstanding \in Nat /\ Len(lh) \in Nat
  BY DEF begin_op, IInv, Shape, TypeOK
<1>3. Active' = Active \cup {p} /\ p \notin Active
  BY <1>2, Zenon DEF Active
<1>4. IsFiniteSet(Active') /\ Cardinality(Active') = outstanding + 1
  BY <1>3, Finite, FS_AddElement, Zenon DEF IInv, Shape, Room
<1>5. IsFiniteSet(1..MAXOPBLOCKS) /\ Cardinality(1..MAXOPBLOCKS) = MAXOPBLOCKS
  BY FS_Interval
<1>6. /\ IsFiniteSet(Active' \X (1..MAXOPBLOCKS))
      /\ Cardinality(Active' \X (1..MAXOPBLOCKS)) = (outstanding + 1) * MAXOPBLOCKS
  BY <1>4, <1>5, FS_Product
<1>7. Tickets' \subseteq Active' \X (1..MAXOPBLOCKS)
  BY Zenon DEF Tickets
<1>8. /\ Cardinality(Tickets') <= (outstanding + 1) * MAXOPBLOCKS
      /\ Cardinality(Tickets') \in Nat
  BY <1>6, <1>7, FS_Subset, FS_CardinalityType, Zenon
<1>9. (outstanding + 1) * MAXOPBLOCKS \in Nat
  BY <1>2
<1>10. Len(lh) + (outstanding + 1) * MAXOPBLOCKS <= LOGSIZE
  BY <1>2, <1>9 DEF MustWait
<1>11. Room'
  BY <1>2, <1>4, <1>8, <1>9, <1>10 DEF Room
<1> QED BY <1>1, <1>2, <1>11, Zenon DEF IInv, NoPanic

(* The reservation leaves log_write() the space it tests for: the operation *)
(* has a ticket for this block and one to spare.                            *)
LEMMA log_test_room ==
  ASSUME IInv, NEW p \in Proc, NEW b \in Block, NEW v \in Val, log_test(p, b, v)
  PROVE IInv'
<1>1. Shape'
  BY log_test_inv, Zenon DEF IInv
<1>2. /\ pc[p] = "in" /\ writes[p] < OpMax /\ pc' = [pc EXCEPT ![p] = "logw"]
      /\ writes' = [writes EXCEPT ![p] = @ + 1] /\ UNCHANGED <<lh, outstanding>>
      /\ pc \in [Proc -> Pcs] /\ writes \in [Proc -> Nat] /\ Len(lh) \in Nat
  BY DEF log_test, logPart, IInv, Shape, TypeOK
<1>3. p \in Active /\ Active' = Active
  BY <1>2, Zenon DEF Active
<1>4. outstanding # 0 /\ outstanding \in Nat
  BY <1>3, Finite, FS_EmptySet, Zenon DEF IInv, Shape, Room
<1>5. ~TooBig /\ ~(outstanding < 1)
  BY <1>2, <1>3, <1>4, TwoTickets, LogAssumption DEF TooBig, Made
<1>6. NoPanic'
  BY <1>5, Zenon DEF log_test, NoPanic
<1>7. Room'
  BY <1>1, <1>2, <1>3, RoomKept DEF Shape, Made, Active
<1> QED BY <1>1, <1>6, <1>7, Zenon DEF IInv

(* A block that is new in the log takes a ticket. *)
LEMMA log_write_room ==
  ASSUME IInv, NEW p \in Proc, log_write(p)
  PROVE IInv'
<1> PICK t : t = <<p, writes[p]>>
  BY Zenon
<1>1. /\ pc[p] = "logw" /\ pc' = [pc EXCEPT ![p] = "in"]
      /\ UNCHANGED <<outstanding, panicked, writes>>
      /\ lh' = lh \/ \E b \in Block : lh' = Append(lh, b)
      /\ pc \in [Proc -> Pcs] /\ writes \in [Proc -> Nat] /\ lh \in Seq(Block)
  BY Zenon DEF log_write, IInv, Shape, TypeOK
<1>2. p \in Active /\ Active' = Active
  BY <1>1, Zenon DEF Active
<1>3. writes[p] <= OpMax /\ writes[p] >= 1 /\ Made(p) = writes[p] - 1
  BY <1>1, Zenon DEF IInv, Shape, Operations, Made
<1>4. Cardinality(Tickets) >= 2 /\ Len(lh) < LOGSIZE /\ Len(lh) < NLOG - 1
  BY <1>1, <1>2, <1>3, TwoTickets, LogAssumption
<1>5. Shape'
  BY <1>4, log_write_inv, Zenon DEF IInv
<1>6. t \in Tickets /\ Tickets' \subseteq Tickets \ {t}
  BY <1>1, <1>2, <1>3, LogAssumption, ReservationAssumption DEF Tickets, Made
<1>7. /\ Cardinality(Tickets \ {t}) = Cardinality(Tickets) - 1
      /\ IsFiniteSet(Tickets \ {t}) /\ Cardinality(Tickets) \in Nat
  BY <1>6, Finite, FS_RemoveElement DEF IInv, Shape
<1>8. Cardinality(Tickets') <= Cardinality(Tickets) - 1 /\ Cardinality(Tickets') \in Nat
  BY <1>6, <1>7, FS_Subset, FS_CardinalityType
<1>9. Len(lh') <= Len(lh) + 1 /\ Len(lh') \in Nat /\ Len(lh) \in Nat
  BY <1>1
<1>10. Room'
  BY <1>1, <1>2, <1>7, <1>8, <1>9, LogAssumption DEF IInv, Room
<1> QED BY <1>1, <1>5, <1>10, Zenon DEF IInv, NoPanic

(* An operation that ends gives its tickets back. *)
LEMMA end_op_room ==
  ASSUME IInv, NEW p \in Proc, end_op(p)
  PROVE IInv'
<1>1. p \in Active /\ ~committing /\ pc[p] = "in" /\ pc \in [Proc -> Pcs]
  BY OperationFacts, Zenon DEF end_op, Active, IInv, Shape, TypeOK
<1>2. /\ UNCHANGED <<lh, panicked>> /\ outstanding' = outstanding - 1
      /\ writes' = [writes EXCEPT ![p] = 0] /\ writes \in [Proc -> Nat]
      /\ \/ pc' = Wake(p, "idle")
         \/ pc' = [pc EXCEPT ![p] = "done"]
         \/ pc' = [pc EXCEPT ![p] = "wlog"]
  BY <1>1, Zenon DEF end_op, IInv, Shape, TypeOK
<1>3. Active' = Active \ {p} /\ \A q \in Active' : Made(q)' = Made(q)
  BY <1>1, <1>2, Zenon DEF Active, Made, Wake
<1>4. /\ IsFiniteSet(Active') /\ Cardinality(Active') = Cardinality(Active) - 1
      /\ Cardinality(Active') \in Nat /\ Cardinality(Active) \in Nat
  BY <1>1, <1>3, Finite, FS_RemoveElement, FS_CardinalityType DEF IInv, Shape
<1>5. outstanding' \in Nat /\ outstanding' = Cardinality(Active')
  BY <1>2, <1>4 DEF IInv, Room
<1>6. outstanding' = 0 <=> Active' = {}
  BY <1>4, <1>5, FS_EmptySet
<1>7. Shape'
  BY <1>5, <1>6, end_op_inv DEF IInv
<1>8. Tickets' \subseteq Tickets
  BY <1>3, Zenon DEF Tickets
<1>9. Cardinality(Tickets') <= Cardinality(Tickets) /\ Cardinality(Tickets') \in Nat
      /\ Cardinality(Tickets) \in Nat
  BY <1>8, Finite, FS_Subset, FS_CardinalityType DEF IInv, Shape
<1>10. Room'
  <2>1. Len(lh) \in Nat /\ LOGSIZE \in Nat
    BY LogAssumption DEF IInv, Shape, TypeOK
  <2> QED BY <1>2, <1>5, <1>9, <2>1 DEF IInv, Room
<1> QED BY <1>2, <1>7, <1>10, Zenon DEF IInv, NoPanic

(* The steps of commit() come when no operation is under way. *)
LEMMA commit_room ==
  ASSUME IInv, NEW p \in Proc, commit(p)
  PROVE IInv'
<1>1. Shape'
  BY write_log_inv, write_head_inv, install_trans_inv, clear_inv, commit_done_inv
     DEF IInv, commit
<1>2. /\ pc[p] \in CommitPcs /\ UNCHANGED <<outstanding, panicked>>
      /\ (\E l \in CommitPcs : pc' = [pc EXCEPT ![p] = l]) \/ pc' = Wake(p, "idle")
  BY Zenon DEF commit, write_log, AfterLog, write_head, install_trans, clear, commit_done, logPart,
         CommitPcs
<1>3. pc \in [Proc -> Pcs] /\ Active = {}
  BY <1>2, CommitFacts DEF IInv, Shape, TypeOK, Active
<1>4. Active' = {}
  BY <1>2, <1>3, Zenon DEF Active, Wake, CommitPcs
<1> QED BY <1>1, <1>2, <1>3, <1>4, NoTickets, Zenon

(* So do those of recovery. *)
LEMMA recover_room ==
  ASSUME IInv, recover_from_log
  PROVE IInv'
<1>1. Shape'
  BY read_head_inv, recover_install_inv, recover_clear_inv DEF IInv, recover_from_log
<1>2. mode # "up" /\ UNCHANGED <<outstanding, panicked, pc>>
  BY Zenon DEF recover_from_log, read_head, recover_install, recover_clear, logPart
<1>3. Active = {} /\ Active' = {}
  BY <1>2, RecoveryFacts, Zenon DEF IInv, Active
<1> QED BY <1>1, <1>2, <1>3, NoTickets

(* A machine that has just started has no operation. *)
LEMMA Started_inv == Started /\ DiskOK => IInv
<1> SUFFICES ASSUME Started, DiskOK PROVE IInv
  OBVIOUS
<1>1. Active = {}
  BY Zenon DEF Started, Active
<1>2. Tickets = {} /\ Cardinality(Tickets) = 0 /\ Cardinality(Active) = 0
  BY <1>1, FS_EmptySet, Zenon DEF Tickets
<1>3. Room
  BY <1>2, LogAssumption DEF Room, Started
<1> QED BY <1>3, Started_shape, Zenon DEF IInv, NoPanic, Started

(* A crash leaves the disk. *)
LEMMA crash_inv ==
  ASSUME IInv, crash
  PROVE IInv'
<1>1. Started' /\ mode' = "boot" /\ UNCHANGED <<disk, logblk, hd>>
  BY Zenon DEF crash, diskPart, Started
<1>2. DiskOK'
  BY <1>1, Zenon DEF DiskOK, IInv, Shape, TypeOK, Header
<1> QED BY <1>1, <1>2, Started_inv, PTL

(* The new file system: an empty log, and nothing cached. *)
LEMMA Init_inv == Init => IInv
<1> SUFFICES ASSUME Init PROVE IInv
  OBVIOUS
<1>1. Started
  BY Zenon DEF Init, Started
<1>2. DiskOK
  BY LogAssumption DEF Init, DiskOK
<1> QED BY <1>1, <1>2, Started_inv

(* Every step preserves the invariant: one case per action. *)
LEMMA Next_inv == IInv /\ [Next]_vars => IInv'
<1> SUFFICES ASSUME IInv, [Next]_vars PROVE IInv'
  OBVIOUS
<1>1. ASSUME NEW p \in Proc, begin_op(p) \/ log_write(p) \/ end_op(p) \/ commit(p)
      PROVE IInv'
  BY <1>1, begin_op_room, log_write_room, end_op_room, commit_room
<1>2. ASSUME NEW p \in Proc, NEW b \in Block, NEW v \in Val, log_test(p, b, v) PROVE IInv'
  BY <1>2, log_test_room, Zenon
<1>3. CASE \/ \E p \in Proc : begin_op_sleep(p)
           \/ \E b \in Block : cache(b) \/ evict(b)
           \/ UNCHANGED vars
  BY <1>3, quiet_inv, Zenon
<1>4. CASE recover_from_log
  BY <1>4, recover_room, Zenon
<1>5. CASE crash
  BY <1>5, crash_inv, Zenon
<1> QED BY <1>1, <1>2, <1>3, <1>4, <1>5 DEF Next

-----------------------------------------------------------------------------
(* IInv holds in every reachable state, crashes and recovery included. *)
THEOREM Invariance == Spec => []IInv
  BY Init_inv, Next_inv, PTL DEF Spec

(* For any number of operations and blocks: no buffer is lost or stale, the *)
(* log never overflows, and nobody sleeps in begin_op() who could go on.    *)
THEOREM LogIsSound == Spec => []LogSound
<1>1. IInv => LogSound
  BY Zenon DEF IInv, Shape, LogSound
<1> QED BY <1>1, Invariance, PTL

-----------------------------------------------------------------------------
(* What a restart would find, block by block. *)
StableIs ==
  /\ \A b \in Block : (\A i \in 1..Len(hd) : hd[i] # b) => Stable[b] = disk[b]
  /\ \A i \in 1..Len(hd) : Stable[hd[i]] = logblk[i]

(* No block is in the header twice, so that recovery's order of installation *)
(* does not matter.                                                          *)
LEMMA StableFacts == Shape => StableIs
<1> SUFFICES ASSUME Shape PROVE StableIs
  OBVIOUS
<1>1. ASSUME NEW b \in Block, \A i \in 1..Len(hd) : hd[i] # b
      PROVE Stable[b] = disk[b]
  BY <1>1, Zenon DEF Stable
<1>2. ASSUME NEW i \in 1..Len(hd)
      PROVE Stable[hd[i]] = logblk[i]
  <2> DEFINE last(k) == hd[k] = hd[i] /\ \A j \in k+1..Len(hd) : hd[j] # hd[i]
  <2>1. hd[i] \in Block /\ Len(hd) \in Nat
    BY DEF Shape, TypeOK
  <2>2. \A k \in 1..Len(hd) : last(k) <=> k = i
    BY <2>1 DEF Shape, Header
  <2>3. (CHOOSE k \in 1..Len(hd) : last(k)) = i
    BY <2>2, Zenon
  <2> QED BY <2>1, <2>3, Zenon DEF Stable
<1> QED BY <1>1, <1>2, Zenon DEF StableIs

(* Installing, or reusing log sectors that no header names, is not seen by a *)
(* restart.                                                                  *)
LEMMA StableKept ==
  ASSUME Shape, Shape', hd' = hd,
         \A i \in 1..Len(hd) : logblk'[i] = logblk[i],
         \A b \in Block : (\A i \in 1..Len(hd) : hd[i] # b) => disk'[b] = disk[b]
  PROVE Stable' = Stable
<1>1. StableIs /\ StableIs'
  BY StableFacts, PTL
<1>2. \A b \in Block : Stable'[b] = Stable[b]
  BY <1>1 DEF StableIs
<1> QED BY <1>2, Zenon DEF Stable

(* What is read does not change when no block does. *)
LEMMA MemKept ==
  ASSUME mode = "up", mode' = "up", \A b \in Block : bread(b)' = bread(b)
  PROVE Mem' = Mem
  BY Zenon DEF Mem

Quiet == mode = "up" /\ Active = {} /\ ~committing

(* When no operation is under way and nothing is committing, everything is on *)
(* the disk.                                                                  *)
LEMMA Settled == Shape /\ Quiet => Mem = Stable
<1> SUFFICES ASSUME Shape, Quiet PROVE Mem = Stable
  OBVIOUS
<1> USE DEF Quiet
<1>1. lh = <<>> /\ \A l \in CommitPcs : ~At(l)
  BY Zenon DEF Shape, Control, CommitPcs, At
<1>2. hd = <<>> /\ dirty = {} /\ \A p \in Proc : busy[p] = {}
  BY <1>1 DEF Shape, TypeOK, Header, Pinned, InLog, Operations, CommitPcs, Active
<1>3. \A b \in Block : bread(b) = disk[b]
  BY <1>2, Zenon DEF Shape, CleanMatchesDisk, bread
<1>4. \A b \in Block : Stable[b] = disk[b]
  BY <1>2, StableFacts DEF StableIs
<1>5. Mem = [b \in Block |-> bread(b)] /\ Stable = [b \in Block |-> Stable[b]]
  BY DEF Mem, Stable
<1> QED BY <1>3, <1>4, <1>5, Zenon

(* The step is none of the atomic disk. *)
Same == Mem' = Mem /\ Stable' = Stable /\ Active' = Active

(* Steps that leave the disk and what is read as they are. *)
LEMMA QuietStep ==
  ASSUME UNCHANGED <<disk, logblk, hd, mode>>, \A b \in Block : bread(b)' = bread(b)
  PROVE Mem' = Mem /\ Stable' = Stable
<1>1. Stable' = Stable
  BY DEF Stable
<1> QED BY <1>1, Zenon DEF Mem

(* begin_op() starts a transaction, from a disk that has everything. *)
LEMMA begin_op_step ==
  ASSUME Shape, NEW p \in Proc, begin_op(p)
  PROVE Atomic!Begin(p)
<1>1. /\ mode = "up" /\ ~committing /\ pc' = [pc EXCEPT ![p] = "in"]
      /\ pc[p] \in {"idle", "begin"} /\ pc \in [Proc -> Pcs]
      /\ UNCHANGED <<disk, logblk, hd, buf, mode>>
  BY Zenon DEF begin_op, Running, MustWait, diskPart, Shape, TypeOK
<1>2. Active' = Active \cup {p} /\ p \notin Active
  BY <1>1, Zenon DEF Active
<1>3. Active = {} => Mem = Stable
  BY <1>1, Settled, Zenon DEF Quiet
<1>4. Mem' = Mem /\ Stable' = Stable
  BY <1>1, QuietStep, Zenon DEF bread
<1> QED BY <1>2, <1>3, <1>4, Zenon DEF Atomic!Begin, Active

(* A buffer is modified within an operation. *)
LEMMA log_test_step ==
  ASSUME Shape, NEW p \in Proc, NEW b \in Block, NEW v \in Val, log_test(p, b, v)
  PROVE Atomic!Write(p, b, v)
<1>1. /\ mode = "up" /\ pc[p] = "in" /\ pc' = [pc EXCEPT ![p] = "logw"]
      /\ buf' = [buf EXCEPT ![b] = v] /\ UNCHANGED <<disk, logblk, hd, mode>>
      /\ pc \in [Proc -> Pcs] /\ buf \in [Block -> Val \cup {NotCached}]
  BY Zenon DEF log_test, Running, diskPart, Shape, TypeOK
<1>2. p \in Active /\ Active' = Active
  BY <1>1, Zenon DEF Active
<1>3. Stable' = Stable
  BY <1>1 DEF Stable
<1>4. Mem' = [Mem EXCEPT ![b] = v]
  BY <1>1, LogAssumption, Zenon DEF Mem, bread
<1> QED BY <1>2, <1>3, <1>4, Zenon DEF Atomic!Write, Active

(* An operation ends. *)
LEMMA end_op_step ==
  ASSUME Shape, NEW p \in Proc, end_op(p)
  PROVE Atomic!End(p)
<1>1. p \in Active /\ ~committing /\ pc[p] = "in" /\ pc \in [Proc -> Pcs]
  BY OperationFacts, Zenon DEF end_op, Active, Shape, TypeOK
<1>2. /\ UNCHANGED <<disk, logblk, hd, buf, mode>>
      /\ \/ pc' = Wake(p, "idle")
         \/ pc' = [pc EXCEPT ![p] = "done"]
         \/ pc' = [pc EXCEPT ![p] = "wlog"]
  BY <1>1, Zenon DEF end_op, diskPart
<1>3. Active' = Active \ {p}
  BY <1>1, <1>2, Zenon DEF Wake, Active
<1>4. Mem' = Mem /\ Stable' = Stable
  BY <1>2, QuietStep, Zenon DEF bread
<1> QED BY <1>1, <1>3, <1>4, Zenon DEF Atomic!End, Active

(* Sleeping, the critical section of log_write() and the end of commit() are *)
(* not seen.                                                                 *)
LEMMA hidden_step ==
  ASSUME Shape, NEW p \in Proc, begin_op_sleep(p) \/ log_write(p) \/ commit_done(p)
  PROVE Same
<1>1. /\ UNCHANGED <<disk, logblk, hd, buf, mode>> /\ pc \in [Proc -> Pcs]
      /\ \/ pc[p] \in {"idle", "begin"} /\ pc' = [pc EXCEPT ![p] = "sleep"]
         \/ pc[p] = "logw" /\ pc' = [pc EXCEPT ![p] = "in"]
         \/ pc[p] = "done" /\ pc' = Wake(p, "idle")
  BY Zenon DEF begin_op_sleep, log_write, commit_done, diskPart, Shape, TypeOK
<1>2. Active' = Active
  BY <1>1 DEF Active, Wake
<1>3. Mem' = Mem /\ Stable' = Stable
  BY <1>1, QuietStep DEF bread
<1> QED BY <1>2, <1>3, Zenon DEF Same

(* Nor is what the buffer cache does. *)
LEMMA cache_step ==
  ASSUME Shape, NEW b \in Block, cache(b) \/ evict(b)
  PROVE Same
<1>1. UNCHANGED <<disk, logblk, hd, mode, pc>>
  BY Zenon DEF cache, evict, diskPart
<1>2. \A x \in Block : bread(x)' = bread(x)
  BY cache_inv, evict_inv
<1> QED BY <1>1, <1>2, QuietStep DEF Same, Active

(* Log sectors that no header names are not seen. *)
LEMMA write_log_step ==
  ASSUME Shape, Shape', NEW p \in Proc, write_log(p)
  PROVE Same
<1>1. /\ pc[p] = "wlog" /\ mode = "up" /\ UNCHANGED <<disk, hd, buf, mode>>
      /\ pc' = [pc EXCEPT ![p] = IF tail = Len(lh) THEN "whead" ELSE "wlog"]
      /\ pc \in [Proc -> Pcs]
  BY Zenon DEF write_log, Running, AfterLog, Shape, TypeOK
<1>2. hd = <<>>
  BY <1>1, CommitFacts DEF Shape, Header, CommitPcs
<1>3. Stable' = Stable
  BY <1>1, <1>2, StableKept
<1>4. Mem' = Mem
  BY <1>1, MemKept DEF bread
<1>5. Active' = Active
  BY <1>1, Zenon DEF Active
<1> QED BY <1>3, <1>4, <1>5 DEF Same

(* Writing the header commits all of the operations that have ended. *)
LEMMA write_head_step ==
  ASSUME Shape, Shape', NEW p \in Proc, write_head(p)
  PROVE Atomic!Commit
<1>1. /\ pc[p] = "whead" /\ pc' = [pc EXCEPT ![p] = "inst"] /\ hd' = lh
      /\ UNCHANGED <<disk, logblk, buf, mode>> /\ pc \in [Proc -> Pcs]
  BY Zenon DEF write_head, Shape, TypeOK
<1>2. /\ mode = "up" /\ Active = {} /\ \A l \in CommitPcs : At(l) <=> l = "whead"
      /\ \A q \in Proc : busy[q] = {}
  BY <1>1, CommitFacts DEF CommitPcs, Active
<1>3. Active' = {} /\ Mem' = Mem
  <2>1. Active' = Active
    BY <1>1, Zenon DEF Active
  <2>2. Mem' = Mem
    BY <1>1, <1>2, MemKept DEF bread
  <2> QED BY <1>2, <2>1, <2>2
<1>4. StableIs'
  BY StableFacts, PTL
<1>5. ASSUME NEW b \in Block PROVE Stable'[b] = bread(b)
  <2>1. CASE InLog(b)
    <3>1. \A i \in 1..Len(lh) : logblk[i] = bread(lh[i])
      BY <1>2, Zenon DEF Shape, Copied, CommitPcs
    <3> QED BY <1>1, <1>4, <2>1, <3>1 DEF InLog, StableIs
  <2>2. CASE ~InLog(b)
    <3>1. b \notin dirty
      BY <1>2, <2>2, Zenon DEF Shape, Pinned, CommitPcs
    <3>2. bread(b) = disk[b]
      BY <1>2, <3>1, Zenon DEF Shape, CleanMatchesDisk, bread
    <3> QED BY <1>1, <1>4, <2>2, <3>2, Zenon DEF InLog, StableIs
  <2> QED BY <2>1, <2>2, Zenon
<1>6. Stable' = Mem
  <2>1. Mem = [b \in Block |-> bread(b)] /\ Stable' = [b \in Block |-> Stable'[b]]
    BY <1>2 DEF Mem, Stable
  <2> QED BY <1>5, <2>1, Zenon
<1> QED BY <1>2, <1>3, <1>6 DEF Atomic!Commit, Active

(* Installing, in commit() or in recovery, is not seen: a restart would do it *)
(* again.                                                                     *)
LEMMA InstallStable ==
  ASSUME Shape, Shape', Install, At("inst") \/ mode = "rinst", UNCHANGED <<hd, logblk>>
  PROVE Stable' = Stable
  BY InstallFacts, StableKept, Zenon

LEMMA install_step ==
  ASSUME Shape, Shape', NEW p \in Proc, install_trans(p)
  PROVE Same
<1>1. /\ pc[p] = "inst" /\ mode = "up" /\ Install /\ UNCHANGED <<logblk, hd, mode>>
      /\ pc' = [pc EXCEPT ![p] = IF tail = Len(lh) THEN "clear" ELSE "inst"]
      /\ pc \in [Proc -> Pcs]
  BY Zenon DEF install_trans, Running, Shape, TypeOK
<1>2. Stable' = Stable
  BY <1>1, InstallStable, Zenon DEF At
<1>3. Mem' = Mem
  BY <1>1, install_trans_inv, MemKept, Zenon
<1>4. Active' = Active
  BY <1>1, Zenon DEF Active
<1> QED BY <1>2, <1>3, <1>4 DEF Same

LEMMA recover_install_step ==
  ASSUME Shape, Shape', recover_install
  PROVE Same
<1>1. /\ mode = "rinst" /\ mode' # "up" /\ Install /\ UNCHANGED <<logblk, hd, pc>>
  BY Zenon DEF recover_install
<1>2. Stable' = Stable
  BY <1>1, InstallStable, Zenon
<1> QED BY <1>1, <1>2, Zenon DEF Same, Mem, Active

(* When every block is at home, the header may go. *)
LEMMA ClearStable ==
  ASSUME Shape, Shape', At("clear") \/ mode = "rclear", hd' = <<>>, disk' = disk
  PROVE Stable' = Stable
<1>1. StableIs /\ StableIs'
  BY StableFacts, PTL
<1>2. hd = lh
  BY RecoveryFacts DEF Shape, Header, TypeOK, CommitPcs
<1>3. ASSUME NEW b \in Block PROVE Stable'[b] = Stable[b]
  <2>1. Stable'[b] = disk[b]
    BY <1>1 DEF StableIs
  <2>2. \A i \in 1..Len(hd) : Stable[hd[i]] = disk[hd[i]]
    BY <1>1, <1>2 DEF StableIs, Shape, Copied
  <2>3. (\A i \in 1..Len(hd) : hd[i] # b) => Stable[b] = disk[b]
    BY <1>1, Zenon DEF StableIs
  <2> QED BY <2>1, <2>2, <2>3
<1>4. /\ Stable = [b \in Block |-> Stable[b]]
      /\ Stable' = [b \in Block |-> Stable'[b]]
  BY DEF Stable
<1> QED BY <1>3, <1>4

LEMMA clear_step ==
  ASSUME Shape, Shape', NEW p \in Proc, clear(p)
  PROVE Same
<1>1. /\ pc[p] = "clear" /\ mode = "up" /\ pc' = [pc EXCEPT ![p] = "done"] /\ hd' = <<>>
      /\ UNCHANGED <<disk, buf, mode>> /\ pc \in [Proc -> Pcs]
  BY Zenon DEF clear, Running, Shape, TypeOK
<1>2. Stable' = Stable
  BY <1>1, ClearStable, Zenon DEF At
<1>3. Mem' = Mem
  BY <1>1, MemKept, Zenon DEF bread
<1>4. Active' = Active
  BY <1>1, Zenon DEF Active
<1> QED BY <1>2, <1>3, <1>4 DEF Same

LEMMA recover_clear_step ==
  ASSUME Shape, Shape', recover_clear
  PROVE Same
<1>1. /\ mode = "rclear" /\ mode' = "up" /\ hd' = <<>>
      /\ UNCHANGED <<disk, pc, committing>>
  BY Zenon DEF recover_clear
<1>2. Stable' = Stable
  BY <1>1, ClearStable, Zenon
<1>3. Active' = Active /\ Active = {} /\ ~committing
  BY <1>1, RecoveryFacts, Zenon DEF Active
<1>4. Mem' = Stable'
  <2>1. Quiet'
    BY <1>1, <1>3, Zenon DEF Quiet
  <2>2. (Mem = Stable)'
    BY <2>1, Settled, PTL
  <2> QED BY <2>2, Zenon
<1> QED BY <1>1, <1>2, <1>3, <1>4, Zenon DEF Same, Mem

(* A crash loses what is not committed; until recovery has ended, what will  *)
(* be read is what it finds.                                                 *)
LEMMA crash_step ==
  ASSUME crash
  PROVE Atomic!Crash
<1>1. UNCHANGED <<disk, logblk, hd>> /\ mode' = "boot" /\ pc' = [p \in Proc |-> "idle"]
  BY Zenon DEF crash, diskPart
<1>2. Stable' = Stable
  BY <1>1 DEF Stable
<1>3. Mem' = Stable /\ Active' = {}
  BY <1>1, <1>2, Zenon DEF Mem, Active
<1> QED BY <1>2, <1>3 DEF Atomic!Crash, Active

LEMMA read_head_step ==
  ASSUME read_head
  PROVE Same
<1>1. UNCHANGED <<disk, logblk, hd, pc>> /\ mode = "boot" /\ mode' # "up"
  BY Zenon DEF read_head, diskPart
<1>2. Stable' = Stable
  BY <1>1 DEF Stable
<1> QED BY <1>1, <1>2, Zenon DEF Same, Mem, Active

(* Every step of the log is a step of the atomic disk or none. *)
LEMMA AtomicStep ==
  ASSUME Shape, Shape', [Next]_vars
  PROVE [Atomic!Next]_(Atomic!diskVars)
<1>1. Same => UNCHANGED Atomic!diskVars
  BY Zenon DEF Same, Atomic!diskVars, Active
<1>2. ASSUME NEW p \in Proc, begin_op(p) \/ begin_op_sleep(p) \/ end_op(p) \/ log_write(p)
      PROVE Same \/ Atomic!Next
  <2>1. Atomic!Begin(p) \/ Atomic!End(p) \/ Same
    BY <1>2, begin_op_step, hidden_step, end_op_step
  <2> QED BY <2>1, Zenon DEF Atomic!Next
<1>3. ASSUME NEW p \in Proc, commit(p)
      PROVE Same \/ Atomic!Next
  <2>1. Same \/ Atomic!Commit
    BY <1>3, write_log_step, write_head_step, install_step, clear_step, hidden_step
       DEF commit
  <2> QED BY <2>1, Zenon DEF Atomic!Next
<1>4. ASSUME NEW p \in Proc, NEW b \in Block, NEW v \in Val, log_test(p, b, v)
      PROVE Atomic!Next
  BY <1>4, log_test_step, Zenon DEF Atomic!Next
<1>5. ASSUME NEW b \in Block, cache(b) \/ evict(b) PROVE Same
  BY <1>5, cache_step
<1>6. ASSUME crash PROVE Atomic!Next
  BY <1>6, crash_step, Zenon DEF Atomic!Next
<1>7. ASSUME recover_from_log PROVE Same
  BY <1>7, read_head_step, recover_install_step, recover_clear_step DEF recover_from_log
<1>8. ASSUME UNCHANGED vars PROVE Same
  <2>1. UNCHANGED <<disk, logblk, hd, buf, mode, pc>>
    BY <1>8, Zenon DEF vars, diskPart
  <2> QED BY <2>1, QuietStep DEF Same, bread, Active
<1> QED BY <1>1, <1>2, <1>3, <1>4, <1>5, <1>6, <1>7, <1>8, Zenon DEF Next

(* For every number of operations, of blocks and every size of the log,     *)
(* operations are atomic and durable: whatever the moment of a crash, in    *)
(* commit() or in recovery, a restart finds the blocks of the last commit.  *)
THEOREM LogIsAtomic == Spec => ImplementsAtomicDisk
<1>1. Init => Atomic!Init
  <2> SUFFICES ASSUME Init PROVE Atomic!Init
    OBVIOUS
  <2>1. Active = {}
    BY DEF Init, Active
  <2>2. Mem = [b \in Block |-> Blank] /\ Stable = [b \in Block |-> Blank]
    BY DEF Init, Mem, Stable, bread
  <2> QED BY <2>1, <2>2 DEF Atomic!Init, Active
<1>2. IInv /\ IInv' /\ [Next]_vars => [Atomic!Next]_(Atomic!diskVars)
  BY AtomicStep, Zenon DEF IInv
<1> QED BY <1>1, <1>2, Invariance, PTL DEF Spec, ImplementsAtomicDisk, Atomic!Spec

=============================================================================
