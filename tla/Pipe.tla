-------------------------------- MODULE Pipe --------------------------------
(***************************************************************************)
(* One pipe (pipe.c) shared by processes that each hold its read end, its  *)
(* write end or both (file.c).  Everything done while p->lock is held is   *)
(* cut at the points another actor can see: kill() takes only ptable.lock, *)
(* so it may fall between the test of proc->killed and sleep().            *)
(*                                                                         *)
(* pc[p]:                                                                  *)
(*   idle    outside the pipe code                                         *)
(*   wacq    pipewrite() before (re)acquiring p->lock                      *)
(*   write   pipewrite() in its loop, holding the lock                     *)
(*   wfull   pipewrite() after the tests, about to sleep                   *)
(*   wsleep  asleep on &p->nwrite                                          *)
(*   racq, read, rempty, rsleep   the same for piperead(), on &p->nread    *)
(*   copy    piperead() in its copy loop, holding the lock                 *)
(*   closer, closew   pipeclose() of that end before acquiring p->lock     *)
(***************************************************************************)
EXTENDS Integers, FiniteSets

CONSTANTS Proc,       \* the processes that share the pipe
          Killable,   \* the ones kill() may hit
          PIPESIZE,   \* bytes of p->data
          Word,       \* values of a uint: nread and nwrite wrap around
          Data,       \* byte values
          MaxN,       \* bound on the n of one read or write
          NoLock      \* the lock is free

ASSUME PipeAssumption ==
  /\ PIPESIZE \in Nat \ {0}
  /\ Word \in Nat /\ Word > PIPESIZE /\ Word % PIPESIZE = 0
  /\ MaxN \in Nat \ {0}
  /\ Killable \subseteq Proc
  /\ NoLock \notin Proc
  /\ Data # {}

VARIABLES nread, nwrite, data, readopen, writeopen, lock,  \* struct pipe
          freed,     \* the page was given back with kfree()
          ends,      \* the ends a process holds; their sum is file.ref
          pc, n,     \* control, and bytes still to move in this call
          got,       \* whether this piperead() has copied a byte
          killed

pipeVars == <<nread, nwrite, data, readopen, writeopen>>
vars == <<pipeVars, lock, freed, ends, pc, n, got, killed>>

Pcs == {"idle", "wacq", "write", "wfull", "wsleep", "racq", "read", "rempty",
        "rsleep", "copy", "closer", "closew"}

WritePcs == {"wacq", "write", "wfull", "wsleep"}
ReadPcs == {"racq", "read", "rempty", "rsleep", "copy"}
LockPcs == {"write", "wfull", "read", "rempty", "copy"}

Init ==
  /\ nread = 0 /\ nwrite = 0
  /\ data = [i \in 0..PIPESIZE-1 |-> CHOOSE v \in Data : TRUE]  \* never read
  /\ readopen = TRUE /\ writeopen = TRUE
  /\ lock = NoLock
  /\ freed = FALSE
  /\ ends = [p \in Proc |-> {"r", "w"}]
  /\ pc = [p \in Proc |-> "idle"]
  /\ n = [p \in Proc |-> 0]
  /\ got = [p \in Proc |-> FALSE]
  /\ killed = [p \in Proc |-> FALSE]

Empty == nread = nwrite

(* Mutant: the full test is off by one. *)
Full_late == nwrite = (nread + PIPESIZE + 1) % Word

Full == nwrite = (nread + PIPESIZE) % Word

(* wakeup(&p->nread) and wakeup(&p->nwrite) as the control of the sleepers, *)
(* with the control of the caller p moved to c.                             *)
WakeReaders(p, c) ==
  [q \in Proc |-> IF q = p THEN c ELSE IF pc[q] = "rsleep" THEN "racq" ELSE pc[q]]

WakeWriters(p, c) ==
  [q \in Proc |-> IF q = p THEN c ELSE IF pc[q] = "wsleep" THEN "wacq" ELSE pc[q]]

(* x++ on a uint *)
Inc(x) == (x + 1) % Word

Move(p, c) == pc' = [pc EXCEPT ![p] = c]

(* The locals of the call die with it. *)
Return(p) == n' = [n EXCEPT ![p] = 0] /\ got' = [got EXCEPT ![p] = FALSE]

-----------------------------------------------------------------------------
(* sys_read() or sys_write() on the pipe with a count of k. *)
call(p, e, k) ==
  /\ pc[p] = "idle" /\ e \in ends[p] /\ ~killed[p]
  /\ Move(p, IF e = "w" THEN "wacq" ELSE "racq")
  /\ n' = [n EXCEPT ![p] = k]
  /\ got' = [got EXCEPT ![p] = FALSE]
  /\ UNCHANGED <<pipeVars, lock, freed, ends, killed>>

(* acquire(&p->lock), on entry and at the end of sleep(). *)
acquire(p) ==
  /\ pc[p] \in {"wacq", "racq"}
  /\ lock = NoLock
  /\ lock' = p
  /\ Move(p, IF pc[p] = "wacq" THEN "write" ELSE "read")
  /\ UNCHANGED <<pipeVars, freed, ends, n, got, killed>>

(* p->data[p->nwrite++ % PIPESIZE] = addr[i] *)
write_byte(p, v) ==
  /\ pc[p] = "write" /\ n[p] > 0
  /\ ~Full
  /\ data' = [data EXCEPT ![nwrite % PIPESIZE] = v]
  /\ nwrite' = Inc(nwrite)
  /\ n' = [n EXCEPT ![p] = @ - 1]
  /\ UNCHANGED <<nread, readopen, writeopen, lock, freed, ends, pc, got, killed>>

(* Mutant: readopen is not tested. *)
write_error_killed(p) ==
  /\ pc[p] = "write" /\ n[p] > 0
  /\ Full
  /\ killed[p]
  /\ lock' = NoLock
  /\ Move(p, "idle")
  /\ Return(p)
  /\ UNCHANGED <<pipeVars, freed, ends, killed>>

(* The pipe is full and nobody will read, or the writer is killed: return -1, *)
(* without a wakeup.                                                          *)
write_error(p) ==
  /\ pc[p] = "write" /\ n[p] > 0
  /\ Full
  /\ ~readopen \/ killed[p]
  /\ lock' = NoLock
  /\ Move(p, "idle")
  /\ Return(p)
  /\ UNCHANGED <<pipeVars, freed, ends, killed>>

(* Mutant: nobody is woken when the pipe fills up. *)
write_full_quiet(p) ==
  /\ pc[p] = "write" /\ n[p] > 0
  /\ Full
  /\ readopen /\ ~killed[p]
  /\ Move(p, "wfull")
  /\ UNCHANGED <<pipeVars, lock, freed, ends, n, got, killed>>

(* The pipe is full: wake the readers, and go on to sleep(). *)
write_full(p) ==
  /\ pc[p] = "write" /\ n[p] > 0
  /\ Full
  /\ readopen /\ ~killed[p]
  /\ pc' = WakeReaders(p, "wfull")
  /\ UNCHANGED <<pipeVars, lock, freed, ends, n, got, killed>>

(* All bytes are in: wake the readers, release, return n. *)
write_done(p) ==
  /\ pc[p] = "write" /\ n[p] = 0
  /\ pc' = WakeReaders(p, "idle")
  /\ lock' = NoLock
  /\ Return(p)
  /\ UNCHANGED <<pipeVars, freed, ends, killed>>

(* sleep(chan, &p->lock): asleep and lock released in one ptable.lock section. *)
sleep(p) ==
  /\ pc[p] \in {"wfull", "rempty"}
  /\ lock' = NoLock
  /\ Move(p, IF pc[p] = "wfull" THEN "wsleep" ELSE "rsleep")
  /\ UNCHANGED <<pipeVars, freed, ends, n, got, killed>>

-----------------------------------------------------------------------------
(* piperead() waits while the pipe is empty and a writer remains. *)
MustWait == Empty /\ writeopen

read_killed(p) ==
  /\ pc[p] = "read"
  /\ MustWait /\ killed[p]
  /\ lock' = NoLock
  /\ Move(p, "idle")
  /\ Return(p)
  /\ UNCHANGED <<pipeVars, freed, ends, killed>>

read_empty(p) ==
  /\ pc[p] = "read"
  /\ MustWait /\ ~killed[p]
  /\ Move(p, "rempty")
  /\ UNCHANGED <<pipeVars, lock, freed, ends, n, got, killed>>

read_ready(p) ==
  /\ pc[p] = "read"
  /\ ~MustWait
  /\ Move(p, "copy")
  /\ UNCHANGED <<pipeVars, lock, freed, ends, n, got, killed>>

(* addr[i] = p->data[p->nread++ % PIPESIZE] *)
read_byte(p) ==
  /\ pc[p] = "copy" /\ n[p] > 0 /\ ~Empty
  /\ nread' = Inc(nread)
  /\ n' = [n EXCEPT ![p] = @ - 1]
  /\ got' = [got EXCEPT ![p] = TRUE]
  /\ UNCHANGED <<nwrite, data, readopen, writeopen, lock, freed, ends, pc, killed>>

(* Enough is read or nothing is left: wake the writers, release, return i. *)
read_done(p) ==
  /\ pc[p] = "copy"
  /\ n[p] = 0 \/ Empty
  /\ pc' = WakeWriters(p, "idle")
  /\ lock' = NoLock
  /\ Return(p)
  /\ UNCHANGED <<pipeVars, freed, ends, killed>>

-----------------------------------------------------------------------------
(* --f->ref == 0 *)
LastHolder(p, e) == {q \in Proc : e \in ends[q]} = {p}

(* fileclose() of one end, by close() or exit(): the last holder goes on to *)
(* pipeclose().                                                             *)
fileclose(p, e) ==
  /\ pc[p] = "idle" /\ e \in ends[p]
  /\ ends' = [ends EXCEPT ![p] = @ \ {e}]
  /\ Move(p, IF ~LastHolder(p, e) THEN "idle"
             ELSE IF e = "w" THEN "closew" ELSE "closer")
  /\ UNCHANGED <<pipeVars, lock, freed, n, got, killed>>

(* pipeclose(): one critical section, and kfree() after the last close. *)
pipeclose(p) ==
  /\ pc[p] \in {"closew", "closer"}
  /\ lock = NoLock
  /\ \/ /\ pc[p] = "closew"
        /\ writeopen' = FALSE
        /\ pc' = WakeReaders(p, "idle")
        /\ UNCHANGED readopen
     \/ /\ pc[p] = "closer"
        /\ readopen' = FALSE
        /\ pc' = WakeWriters(p, "idle")
        /\ UNCHANGED writeopen
  /\ freed' = (~readopen' /\ ~writeopen')
  /\ UNCHANGED <<nread, nwrite, data, lock, ends, n, got, killed>>

(* kill(), under ptable.lock only: a sleeper wakes up in sleep(). *)
kill(p) ==
  /\ ~killed[p]
  /\ killed' = [killed EXCEPT ![p] = TRUE]
  /\ pc' = [pc EXCEPT ![p] = IF @ = "rsleep" THEN "racq"
                             ELSE IF @ = "wsleep" THEN "wacq" ELSE @]
  /\ UNCHANGED <<pipeVars, lock, freed, ends, n, got>>

-----------------------------------------------------------------------------
write(p) == \/ \E v \in Data : write_byte(p, v)
            \/ write_error(p) \/ write_full(p) \/ write_done(p)

read(p) == read_killed(p) \/ read_empty(p) \/ read_ready(p) \/ read_byte(p) \/ read_done(p)

(* The steps of a process that has entered the pipe code. *)
Inside(p) == acquire(p) \/ write(p) \/ read(p) \/ sleep(p) \/ pipeclose(p)

Next ==
  \/ \E p \in Proc : Inside(p)
  \/ \E p \in Proc, e \in {"r", "w"} :
       fileclose(p, e) \/ \E k \in 0..MaxN : call(p, e, k)
  \/ \E p \in Killable : kill(p)

Spec == Init /\ [][Next]_vars

(* A process in the pipe code goes on; p->lock is contended by system calls *)
(* that all end, so a process that keeps trying gets it.                    *)
FairSpec == Spec /\ \A p \in Proc : SF_vars(Inside(p))

-----------------------------------------------------------------------------
TypeOK ==
  /\ nread \in 0..Word-1 /\ nwrite \in 0..Word-1
  /\ data \in [0..PIPESIZE-1 -> Data]
  /\ readopen \in BOOLEAN /\ writeopen \in BOOLEAN /\ freed \in BOOLEAN
  /\ lock \in Proc \cup {NoLock}
  /\ ends \in [Proc -> SUBSET {"r", "w"}]
  /\ pc \in [Proc -> Pcs]
  /\ n \in [Proc -> 0..MaxN]
  /\ got \in [Proc -> BOOLEAN]
  /\ killed \in [Proc -> BOOLEAN]

(* The bytes between nread and nwrite, oldest first. *)
Contents == [i \in 1..((nwrite - nread) % Word) |-> data[(nread + i - 1) % PIPESIZE]]

Fifo == INSTANCE PipeFifo WITH queue <- Contents, Capacity <- PIPESIZE

(* The ring buffer with its wrapping counters is a bounded queue: bytes come *)
(* out in the order they went in, for any interleaving of readers, writers,  *)
(* closes and kills.                                                         *)
ImplementsFifo == Fifo!Spec

(* Nobody touches the page after kfree(): no process is in the pipe code and *)
(* none holds an end.                                                        *)
NoUseAfterFree ==
  freed => \A p \in Proc : pc[p] = "idle" /\ ends[p] = {}

(* No wakeup is lost.  While the lock is free, a sleeping writer faces a full *)
(* pipe that still has a reader, and a sleeping reader an empty pipe that     *)
(* still has a writer.  The one exception the code makes: a killed writer     *)
(* that finds the pipe full returns without waking the readers.               *)
NoLostWakeup ==
  lock = NoLock =>
    \A p \in Proc :
      /\ pc[p] = "wsleep" => Full /\ readopen
      /\ pc[p] = "rsleep" => writeopen /\ (Empty \/ \E q \in Proc : killed[q])

(* The pipe's page and its sleepers are in order: the counters stay uints, *)
(* nobody uses the page after pipeclose() has freed it, and nobody sleeps  *)
(* in pipewrite() or piperead() who should have been woken.                *)
PipeSound == TypeOK /\ NoUseAfterFree /\ NoLostWakeup

(* read() returns 0 only at the end of the file: the pipe is empty and every *)
(* write end is closed, also when another reader took the bytes first.       *)
ZeroMeansEof ==
  [][\A p \in Proc : pc[p] = "copy" /\ pc'[p] = "idle" /\ n[p] > 0 /\ ~got[p]
                        => Empty /\ ~writeopen]_vars

(* Once the other side is closed, every call that is under way returns. *)
CloseEndsCalls ==
  \A p \in Proc :
    /\ (~writeopen /\ pc[p] \in ReadPcs) ~> (pc[p] = "idle")
    /\ (~readopen /\ pc[p] \in WritePcs) ~> (pc[p] = "idle")

(* Calls end, and end with the right answer: those of the other side end   *)
(* after a close, and 0 from read() means end of file.                     *)
CallsEndRightly == ZeroMeansEof /\ CloseEndsCalls

=============================================================================
