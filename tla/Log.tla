--------------------------------- MODULE Log ---------------------------------
(***************************************************************************)
(* The file system's write-ahead log (log.c) over the disk and the buffer  *)
(* cache (bio.c, ide.c), with crashes at any moment, recovery included.    *)
(*                                                                         *)
(* A step is a critical section of log.lock, one sector written to the     *)
(* disk, or one buffer modified while it is B_BUSY.  A sector write is     *)
(* atomic; a crash keeps the disk and loses everything else.               *)
(*                                                                         *)
(* pc[p] is where process p is in a file system call:                      *)
(*   idle    outside                    sleep   asleep in begin_op()       *)
(*   begin   woken up in begin_op()     in      after begin_op()           *)
(*   logw    in log_write() after its tests, before it has log.lock        *)
(*   wlog, whead, inst, clear, done     the steps of commit()              *)
(* mode is up, or a step of recover_from_log() after a restart:            *)
(*   boot, rinst, rclear                                                   *)
(***************************************************************************)
EXTENDS Integers, Sequences, FiniteSets

CONSTANTS Proc, Block, Val,
          Blank,        \* the value blocks have at first
          NotCached,    \* a block no buffer holds
          MAXOPBLOCKS,  \* blocks begin_op() reserves for one operation
          LOGSIZE,      \* capacity of struct logheader
          NLOG,         \* sectors of the on-disk log, its header included
          OpMax,        \* bound on the log_write() calls of one operation
          CanCrash      \* whether the machine may crash

ASSUME LogAssumption ==
  /\ MAXOPBLOCKS \in Nat \ {0} /\ LOGSIZE \in Nat /\ NLOG \in Nat \ {0}
  /\ OpMax \in Nat
  /\ MAXOPBLOCKS <= LOGSIZE
  /\ Blank \in Val /\ NotCached \notin Val
  /\ CanCrash \in BOOLEAN

(* An operation writes less than it reserves: the test of log_write() wants a *)
(* sector to spare.  mkfs makes the on-disk log LOGSIZE sectors long.         *)
ASSUME ReservationAssumption ==
  /\ OpMax < MAXOPBLOCKS
  /\ LOGSIZE <= NLOG
  /\ IsFiniteSet(Proc)

VARIABLES disk, logblk, hd,            \* home sectors, log sectors, log header
          buf, dirty,                  \* buffer cache: contents, B_DIRTY
          lh, outstanding, committing, \* struct log
          tail,                        \* loop counter of commit or recovery
          mode, panicked,
          pc, writes,                  \* control; log_write() calls so far
          busy                         \* the B_BUSY block p is writing, if any

diskPart == <<disk, logblk, hd>>
logPart == <<lh, outstanding, committing>>
vars == <<diskPart, buf, dirty, logPart, tail, mode, panicked, pc, writes, busy>>

Init ==
  /\ disk = [b \in Block |-> Blank]
  /\ logblk = [i \in 1..NLOG-1 |-> Blank]
  /\ hd = <<>>
  /\ buf = [b \in Block |-> NotCached]
  /\ dirty = {}
  /\ lh = <<>> /\ outstanding = 0 /\ committing = FALSE
  /\ tail = 1
  /\ mode = "up" /\ panicked = FALSE
  /\ pc = [p \in Proc |-> "idle"]
  /\ writes = [p \in Proc |-> 0]
  /\ busy = [p \in Proc |-> {}]

Running == mode = "up" /\ ~panicked

(* bread(): the cached contents, or the sector. *)
bread(b) == IF buf[b] # NotCached THEN buf[b] ELSE disk[b]

(* wakeup(&log), with the caller p moved to c. *)
Wake(p, c) ==
  [q \in Proc |-> IF q = p THEN c ELSE IF pc[q] = "sleep" THEN "begin" ELSE pc[q]]

(* begin_op() waits for a commit to end or for space. *)
MustWait == committing \/ Len(lh) + (outstanding + 1) * MAXOPBLOCKS > LOGSIZE

begin_op(p) ==
  /\ Running /\ pc[p] \in {"idle", "begin"}
  /\ ~MustWait
  /\ outstanding' = outstanding + 1
  /\ pc' = [pc EXCEPT ![p] = "in"]
  /\ UNCHANGED <<diskPart, buf, dirty, lh, committing, tail, mode, panicked, writes, busy>>

(* sleep(&log, &log.lock) in the same critical section as the test. *)
begin_op_sleep(p) ==
  /\ Running /\ pc[p] \in {"idle", "begin"}
  /\ MustWait
  /\ pc' = [pc EXCEPT ![p] = "sleep"]
  /\ UNCHANGED <<diskPart, buf, dirty, logPart, tail, mode, panicked, writes, busy>>

(* The panics of log_write(); the first is tested before absorption. *)
TooBig == Len(lh) >= LOGSIZE \/ Len(lh) >= NLOG - 1

(* Mutant: the buffer is not pinned. *)
pin_not(b) == UNCHANGED dirty

(* b->flags |= B_DIRTY keeps the buffer in the cache until it is installed. *)
pin(b) == dirty' = dirty \cup {b}

(* bread(b), a change of its data, and the tests of log_write(), which run *)
(* before it takes log.lock.                                               *)
log_test(p, b, v) ==
  /\ Running /\ pc[p] = "in" /\ writes[p] < OpMax
  /\ \A q \in Proc : b \notin busy[q]
  /\ buf' = [buf EXCEPT ![b] = v]
  /\ busy' = [busy EXCEPT ![p] = {b}]
  /\ panicked' = (TooBig \/ outstanding < 1)
  /\ pc' = [pc EXCEPT ![p] = "logw"]
  /\ writes' = [writes EXCEPT ![p] = @ + 1]
  /\ UNCHANGED <<diskPart, dirty, logPart, tail, mode>>

(* The critical section of log_write(), which absorbs a block the log has *)
(* already, and brelse().                                                 *)
log_write(p) ==
  /\ Running /\ pc[p] = "logw"
  /\ \E b \in busy[p] :
       /\ lh' = IF \E i \in DOMAIN lh : lh[i] = b THEN lh ELSE Append(lh, b)
       /\ pin(b)
  /\ busy' = [busy EXCEPT ![p] = {}]
  /\ pc' = [pc EXCEPT ![p] = "in"]
  /\ UNCHANGED <<diskPart, buf, outstanding, committing, tail, mode, panicked, writes>>

(* bget() caches a sector, or recycles a buffer that is neither busy nor *)
(* dirty.                                                                *)
cache(b) ==
  /\ Running
  /\ buf[b] = NotCached
  /\ buf' = [buf EXCEPT ![b] = disk[b]]
  /\ UNCHANGED <<diskPart, dirty, logPart, tail, mode, panicked, pc, writes, busy>>

evict(b) ==
  /\ Running
  /\ b \notin dirty /\ buf[b] # NotCached
  /\ \A q \in Proc : b \notin busy[q]
  /\ buf' = [buf EXCEPT ![b] = NotCached]
  /\ UNCHANGED <<diskPart, dirty, logPart, tail, mode, panicked, pc, writes, busy>>

(* end_op(): the last operation commits, any other wakes begin_op(). *)
end_op(p) ==
  /\ Running /\ pc[p] = "in"
  /\ outstanding' = outstanding - 1
  /\ writes' = [writes EXCEPT ![p] = 0]
  /\ IF committing
     THEN panicked' = TRUE /\ UNCHANGED <<committing, pc>>
     ELSE /\ committing' = (outstanding' = 0)
          /\ pc' = IF outstanding' > 0 THEN Wake(p, "idle")
                   ELSE [pc EXCEPT ![p] = IF lh = <<>> THEN "done" ELSE "wlog"]
          /\ UNCHANGED panicked
  /\ tail' = 1
  /\ UNCHANGED <<diskPart, buf, dirty, lh, mode, busy>>

-----------------------------------------------------------------------------
(* Mutant: the blocks are installed before the header commits them. *)
AfterLog_install == "inst"

(* commit() writes the header after the log blocks. *)
AfterLog == "whead"

(* The log sector after tail; the loops over lh start again at the first. *)
NextTail == IF tail = Len(lh) THEN 1 ELSE tail + 1

(* write_log(): one block from the cache to the log. *)
write_log(p) ==
  /\ Running /\ pc[p] = "wlog"
  /\ logblk' = [logblk EXCEPT ![tail] = bread(lh[tail])]
  /\ tail' = NextTail
  /\ pc' = [pc EXCEPT ![p] = IF tail = Len(lh) THEN AfterLog ELSE @]
  /\ UNCHANGED <<disk, hd, buf, dirty, logPart, mode, panicked, writes, busy>>

(* write_head(): the commit point. *)
write_head(p) ==
  /\ Running /\ pc[p] = "whead"
  /\ hd' = lh
  /\ pc' = [pc EXCEPT ![p] = "inst"]
  /\ UNCHANGED <<disk, logblk, buf, dirty, logPart, tail, mode, panicked, writes, busy>>

(* One turn of install_trans(): a log block to its home; bwrite() leaves the *)
(* buffer clean.                                                             *)
Install ==
  /\ disk' = [disk EXCEPT ![lh[tail]] = logblk[tail]]
  /\ buf' = [buf EXCEPT ![lh[tail]] = logblk[tail]]
  /\ dirty' = dirty \ {lh[tail]}
  /\ tail' = NextTail

install_trans(p) ==
  /\ Running /\ pc[p] = "inst"
  /\ Install
  /\ pc' = [pc EXCEPT ![p] = IF tail = Len(lh) THEN "clear" ELSE @]
  /\ UNCHANGED <<logblk, hd, logPart, mode, panicked, writes, busy>>

(* log.lh.n = 0; write_head() *)
clear(p) ==
  /\ Running /\ pc[p] = "clear"
  /\ lh' = <<>> /\ hd' = <<>>
  /\ pc' = [pc EXCEPT ![p] = "done"]
  /\ UNCHANGED <<disk, logblk, buf, dirty, outstanding, committing, tail, mode,
                 panicked, writes, busy>>

(* Mutant: log.committing stays set. *)
commit_done_stuck(p) ==
  /\ Running /\ pc[p] = "done"
  /\ pc' = Wake(p, "idle")
  /\ UNCHANGED <<diskPart, buf, dirty, logPart, tail, mode, panicked, writes, busy>>

(* The end of end_op() after commit(). *)
commit_done(p) ==
  /\ Running /\ pc[p] = "done"
  /\ committing' = FALSE
  /\ pc' = Wake(p, "idle")
  /\ UNCHANGED <<diskPart, buf, dirty, lh, outstanding, tail, mode, panicked, writes, busy>>

-----------------------------------------------------------------------------
(* The machine stops and restarts; initlog() runs before any operation. *)
crash ==
  /\ CanCrash
  /\ buf' = [b \in Block |-> NotCached] /\ dirty' = {}
  /\ lh' = <<>> /\ outstanding' = 0 /\ committing' = FALSE
  /\ tail' = 1 /\ mode' = "boot" /\ panicked' = FALSE
  /\ pc' = [p \in Proc |-> "idle"]
  /\ writes' = [p \in Proc |-> 0]
  /\ busy' = [p \in Proc |-> {}]
  /\ UNCHANGED diskPart

(* The header read_head() finds on the disk. *)
Committed == hd

(* read_head() *)
read_head ==
  /\ mode = "boot"
  /\ lh' = Committed
  /\ mode' = IF Committed = <<>> THEN "rclear" ELSE "rinst"
  /\ UNCHANGED <<diskPart, buf, dirty, outstanding, committing, tail, panicked,
                 pc, writes, busy>>

recover_install ==
  /\ mode = "rinst"
  /\ Install
  /\ mode' = IF tail = Len(lh) THEN "rclear" ELSE mode
  /\ UNCHANGED <<logblk, hd, logPart, panicked, pc, writes, busy>>

recover_clear ==
  /\ mode = "rclear"
  /\ lh' = <<>> /\ hd' = <<>>
  /\ mode' = "up"
  /\ UNCHANGED <<disk, logblk, buf, dirty, outstanding, committing, tail,
                 panicked, pc, writes, busy>>

-----------------------------------------------------------------------------
commit(p) ==
  write_log(p) \/ write_head(p) \/ install_trans(p) \/ clear(p) \/ commit_done(p)

recover_from_log == read_head \/ recover_install \/ recover_clear

Next ==
  \/ \E p \in Proc : begin_op(p) \/ begin_op_sleep(p) \/ end_op(p) \/ commit(p)
  \/ \E p \in Proc, b \in Block, v \in Val : log_test(p, b, v)
  \/ \E p \in Proc : log_write(p)
  \/ \E b \in Block : cache(b) \/ evict(b)
  \/ crash
  \/ recover_from_log

Spec == Init /\ [][Next]_vars

(* Operations end, and commit and recovery go on: the disk answers. *)
FairSpec ==
  /\ Spec
  /\ \A p \in Proc : WF_vars(log_write(p) \/ end_op(p)) /\ WF_vars(commit(p))
  /\ WF_vars(recover_from_log)

-----------------------------------------------------------------------------
Pcs == {"idle", "sleep", "begin", "in", "logw", "wlog", "whead", "inst", "clear", "done"}

TypeOK ==
  /\ disk \in [Block -> Val]
  /\ logblk \in [1..NLOG-1 -> Val]
  /\ hd \in Seq(Block) /\ lh \in Seq(Block)
  /\ buf \in [Block -> Val \cup {NotCached}]
  /\ dirty \subseteq Block
  /\ outstanding \in Nat
  /\ committing \in BOOLEAN /\ panicked \in BOOLEAN
  /\ tail \in Nat \ {0}
  /\ mode \in {"up", "boot", "rinst", "rclear"}
  /\ pc \in [Proc -> Pcs]
  /\ writes \in [Proc -> Nat]
  /\ busy \in [Proc -> SUBSET Block]

(* What a restart finds: the home sectors under the committed log. *)
Stable ==
  [b \in Block |-> IF \E i \in 1..Len(hd) : hd[i] = b
                   THEN logblk[CHOOSE i \in 1..Len(hd) :
                                 hd[i] = b /\ \A j \in i+1..Len(hd) : hd[j] # b]
                   ELSE disk[b]]

Mem == IF mode = "up" THEN [b \in Block |-> bread(b)] ELSE Stable

Atomic == INSTANCE AtomicDisk
            WITH mem <- Mem, stable <- Stable, active <- {p \in Proc : pc[p] \in {"in", "logw"}}

(* Operations are atomic and durable across crashes at any step of commit() *)
(* and of recovery, whatever the buffer cache evicts.                       *)
ImplementsAtomicDisk == Atomic!Spec

(* A buffer that may be recycled has what the disk has: evicting it loses *)
(* nothing and a cached copy is never stale.                              *)
CleanMatchesDisk ==
  \A b \in Block \ dirty :
    buf[b] # NotCached /\ (\A p \in Proc : b \notin busy[p]) => buf[b] = disk[b]

(* The reservation of begin_op() keeps the panics of log_write() and end_op() *)
(* away from operations that stay within OpMax.                               *)
NoPanic == ~panicked

(* Nobody sleeps in begin_op() who could go on: end_op() and commit() wake *)
(* the sleepers whenever space or the log becomes free.                    *)
SleepersMustWait == (\E p \in Proc : pc[p] = "sleep") => MustWait

(* Cache, log and sleepers stay in step at every step of an operation, of  *)
(* commit() and of recovery: the state has its types, a buffer that may be *)
(* recycled has what the disk has, the reservations keep log_write() from  *)
(* its panic, and nobody sleeps in begin_op() who could go on.             *)
LogSound == TypeOK /\ CleanMatchesDisk /\ NoPanic /\ SleepersMustWait

(* When somebody sleeps in begin_op() the log takes operations again: what *)
(* is under way ends, commits or is cut off by a crash.                    *)
SpaceReturns == (\E p \in Proc : pc[p] = "sleep") ~> ~MustWait

=============================================================================
