------------------------------- MODULE Bcache -------------------------------
(***************************************************************************)
(* The buffer cache (bio.c) and the disk driver's queue and interrupt      *)
(* (ide.c), used by processes that each hold one buffer at a time.         *)
(*                                                                         *)
(* A step is one critical section of bcache.lock or of idelock.  bget()    *)
(* and iderw() sleep on the same channel, the buffer, so a wakeup(b) of    *)
(* either side reaches the sleepers of both.                               *)
(*                                                                         *)
(* pc[p]: idle; bget, before a scan of bget(); bsleep, asleep in bget();   *)
(* rw, before iderw() takes idelock; iosleep, asleep in iderw(); iotest,   *)
(* woken up there; held, with the buffer.                                  *)
(***************************************************************************)
EXTENDS Integers, Sequences, FiniteSets

CONSTANTS Proc, Sector, Val,
          BadSector,  \* the sectors whose reads end with a disk error
          NBUF,       \* buffers
          NoSector,   \* a buffer not used yet (dev is -1)
          Blank,      \* what the sectors hold at first
          MaxPinned   \* bound on the buffers the log keeps B_DIRTY

Buf == 1..NBUF
NoBuf == 0

ASSUME BcacheAssumption ==
  /\ NBUF \in Nat \ {0}
  /\ NoSector \notin Sector
  /\ BadSector \subseteq Sector
  /\ Blank \in Val
  /\ MaxPinned \in Nat

VARIABLES sector, busy, valid, dirty, data,  \* struct buf
          lru,       \* the list from bcache.head, most recently used first
          idequeue,
          active, disk,  \* the drive: executing a request; the sectors
          pc, want, buf,                     \* control, argument, result
          panicked

bufVars == <<sector, busy, valid, dirty, data>>
vars == <<bufVars, lru, idequeue, active, disk, pc, want, buf, panicked>>

Init ==
  /\ sector = [b \in Buf |-> NoSector]
  /\ busy = {} /\ valid = {} /\ dirty = {}
  /\ data = [b \in Buf |-> Blank]
  /\ lru = [i \in Buf |-> NBUF + 1 - i]
  /\ idequeue = <<>> /\ active = FALSE
  /\ disk = [s \in Sector |-> Blank]
  /\ pc = [p \in Proc |-> "idle"]
  /\ want = [p \in Proc |-> NoSector]
  /\ buf = [p \in Proc |-> NoBuf]
  /\ panicked = FALSE

At(p, c) == ~panicked /\ pc[p] = c

(* The first loop of bget(): the buffer that caches sector s. *)
Cached(s) == {b \in Buf : sector[b] = s}

(* Mutant: B_DIRTY buffers are recycled too. *)
Clean_any == Buf \ busy

(* The second loop: the least recently used buffer neither busy nor dirty. *)
Clean == Buf \ (busy \cup dirty)

Oldest(b, S) ==
  \E i \in 1..NBUF : lru[i] = b /\ b \in S /\ \A j \in i+1..NBUF : lru[j] \notin S

(* wakeup(b), as the control of the processes. *)
Wake(b) ==
  [p \in Proc |-> IF buf[p] # b THEN pc[p]
                  ELSE IF pc[p] = "bsleep" THEN "bget"
                  ELSE IF pc[p] = "iosleep" THEN "iotest" ELSE pc[p]]

-----------------------------------------------------------------------------
bread(p, s) ==
  /\ At(p, "idle")
  /\ pc' = [pc EXCEPT ![p] = "bget"]
  /\ want' = [want EXCEPT ![p] = s]
  /\ UNCHANGED <<bufVars, lru, idequeue, active, disk, buf, panicked>>

(* bget() finds the sector in a free buffer. *)
bget_hit(p) ==
  /\ At(p, "bget")
  /\ \E b \in Cached(want[p]) \ busy :
       /\ busy' = busy \cup {b}
       /\ buf' = [buf EXCEPT ![p] = b]
       /\ pc' = [pc EXCEPT ![p] = IF b \in valid THEN "held" ELSE "rw"]
  /\ UNCHANGED <<sector, valid, dirty, data, lru, idequeue, active, disk, want, panicked>>

(* bget() finds the sector in a busy buffer and sleeps on it. *)
bget_sleep(p) ==
  /\ At(p, "bget")
  /\ \E b \in Cached(want[p]) \cap busy :
       /\ buf' = [buf EXCEPT ![p] = b]
       /\ pc' = [pc EXCEPT ![p] = "bsleep"]
  /\ UNCHANGED <<bufVars, lru, idequeue, active, disk, want, panicked>>

(* bget() recycles a buffer, or panics with "no buffers". *)
bget_recycle(p) ==
  /\ At(p, "bget")
  /\ Cached(want[p]) = {}
  /\ \/ \E b \in Buf :
          /\ Oldest(b, Clean)
          /\ sector' = [sector EXCEPT ![b] = want[p]]
          /\ busy' = busy \cup {b} /\ valid' = valid \ {b} /\ dirty' = dirty \ {b}
          /\ buf' = [buf EXCEPT ![p] = b]
          /\ pc' = [pc EXCEPT ![p] = "rw"]
          /\ UNCHANGED <<data, panicked>>
     \/ /\ Clean = {}
        /\ panicked' = TRUE
        /\ UNCHANGED <<bufVars, buf, pc>>
  /\ UNCHANGED <<lru, idequeue, active, disk, want>>

bget(p) == bget_hit(p) \/ bget_sleep(p) \/ bget_recycle(p)

(* The holder changes the data and calls bwrite(). *)
bwrite(p, v) ==
  /\ At(p, "held")
  /\ data' = [data EXCEPT ![buf[p]] = v]
  /\ dirty' = dirty \cup {buf[p]}
  /\ pc' = [pc EXCEPT ![p] = "rw"]
  /\ UNCHANGED <<sector, busy, valid, lru, idequeue, active, disk, want, buf, panicked>>

(* The holder changes the data and calls log_write(), which pins the buffer. *)
log_write(p, v) ==
  /\ At(p, "held")
  /\ Cardinality(dirty \cup {buf[p]}) <= MaxPinned
  /\ data' = [data EXCEPT ![buf[p]] = v]
  /\ dirty' = dirty \cup {buf[p]}
  /\ UNCHANGED <<sector, busy, valid, lru, idequeue, active, disk, pc, want, buf, panicked>>

(* The relinking of brelse(): the buffers before b move back by one. *)
ToFront(b) ==
  LET i == CHOOSE k \in Buf : lru[k] = b
  IN [j \in Buf |-> IF j = 1 THEN b ELSE IF j <= i THEN lru[j - 1] ELSE lru[j]]

(* brelse(): the buffer goes to the front of the list. *)
brelse(p) ==
  /\ At(p, "held")
  /\ lru' = ToFront(buf[p])
  /\ busy' = busy \ {buf[p]}
  /\ pc' = [Wake(buf[p]) EXCEPT ![p] = "idle"]
  /\ buf' = [buf EXCEPT ![p] = NoBuf]
  /\ want' = [want EXCEPT ![p] = NoSector]
  /\ UNCHANGED <<sector, valid, dirty, data, idequeue, active, disk, panicked>>

-----------------------------------------------------------------------------
(* idestart(): a write puts its data into the sector, a read fetches them *)
(* with the interrupt.                                                     *)
idestart(b) ==
  /\ active' = TRUE
  /\ disk' = IF b \in dirty THEN [disk EXCEPT ![sector[b]] = data[b]] ELSE disk

(* iderw() appends the buffer to the queue, starts the disk if it was idle, *)
(* and sleeps.                                                              *)
iderw(p) ==
  /\ At(p, "rw")
  /\ idequeue' = Append(idequeue, buf[p])
  /\ IF idequeue = <<>> THEN idestart(buf[p]) ELSE UNCHANGED <<active, disk>>
  /\ pc' = [pc EXCEPT ![p] = "iosleep"]
  /\ UNCHANGED <<bufVars, lru, want, buf, panicked>>

(* Mutant: iderw() sleeps without a loop. *)
iderw_test_once(p) ==
  /\ At(p, "iotest")
  /\ pc' = [pc EXCEPT ![p] = "held"]
  /\ UNCHANGED <<bufVars, lru, idequeue, active, disk, want, buf, panicked>>

(* The loop at the end of iderw() tests the flags again after a wakeup. *)
iderw_test(p) ==
  /\ At(p, "iotest")
  /\ pc' = [pc EXCEPT ![p] = IF buf[p] \in valid \ dirty THEN "held" ELSE "iosleep"]
  /\ UNCHANGED <<bufVars, lru, idequeue, active, disk, want, buf, panicked>>

(* Mutant: the interrupt handler leaves the rest of the queue to iderw(). *)
StartNext_never(q) == active' = FALSE /\ UNCHANGED disk

(* The end of ideintr() starts the next request of the queue. *)
StartNext(q) ==
  IF q # <<>> THEN idestart(Head(q)) ELSE active' = FALSE /\ UNCHANGED disk

(* ideintr(): the request at the head is done.  A read that failed leaves the *)
(* buffer's old data and marks them valid all the same.                       *)
ideintr ==
  /\ ~panicked /\ active
  /\ LET b == Head(idequeue)
     IN /\ data' = [data EXCEPT ![b] = IF b \in dirty \/ sector[b] \in BadSector
                                       THEN @ ELSE disk[sector[b]]]
        /\ valid' = valid \cup {b}
        /\ dirty' = dirty \ {b}
        /\ pc' = Wake(b)
  /\ idequeue' = Tail(idequeue)
  /\ StartNext(idequeue')
  /\ UNCHANGED <<sector, busy, lru, want, buf, panicked>>

(* kill() makes a sleeper runnable, whatever it sleeps for. *)
kill(p) ==
  /\ ~panicked
  /\ pc[p] \in {"bsleep", "iosleep"}
  /\ pc' = [pc EXCEPT ![p] = IF @ = "bsleep" THEN "bget" ELSE "iotest"]
  /\ UNCHANGED <<bufVars, lru, idequeue, active, disk, want, buf, panicked>>

-----------------------------------------------------------------------------
Step(p) == bget(p) \/ iderw(p) \/ iderw_test(p)

Use(p) == brelse(p) \/ \E v \in Val : bwrite(p, v) \/ log_write(p, v)

(* After panic() the machine spins. *)
Halted == panicked /\ UNCHANGED vars

Next ==
  \/ \E p \in Proc : Step(p) \/ Use(p) \/ kill(p) \/ \E s \in Sector : bread(p, s)
  \/ ideintr
  \/ Halted

Spec == Init /\ [][Next]_vars

(* Processes inside the cache go on, a holder releases its buffer in the end *)
(* (it writes finitely often), and the disk answers.                         *)
FairSpec ==
  /\ Spec
  /\ \A p \in Proc : WF_vars(Step(p)) /\ SF_vars(brelse(p))
  /\ WF_vars(ideintr)

-----------------------------------------------------------------------------
TypeOK ==
  /\ sector \in [Buf -> Sector \cup {NoSector}]
  /\ busy \subseteq Buf /\ valid \subseteq Buf /\ dirty \subseteq Buf
  /\ data \in [Buf -> Val]
  /\ lru \in [Buf -> Buf]
  /\ idequeue \in Seq(Buf) /\ active \in BOOLEAN
  /\ disk \in [Sector -> Val]
  /\ pc \in [Proc -> {"idle", "bget", "bsleep", "rw", "iosleep", "iotest", "held"}]
  /\ want \in [Proc -> Sector \cup {NoSector}]
  /\ buf \in [Proc -> Buf \cup {NoBuf}]
  /\ panicked \in BOOLEAN

Holders(b) == {p \in Proc : buf[p] = b /\ pc[p] \in {"rw", "iosleep", "iotest", "held"}}

(* "Only one process at a time can use a buffer" (bio.c:13), it is the buffer *)
(* of the sector asked for, and no other buffer has a copy of that sector.    *)
OneHolder ==
  /\ \A b \in Buf : b \in busy <=> Holders(b) # {}
  /\ \A b \in Buf : \A p, q \in Holders(b) : p = q /\ sector[b] = want[p]
  /\ \A b, c \in Buf : sector[b] = sector[c] /\ sector[b] # NoSector => b = c

(* What bread() of sector s gives. *)
Contents(s) ==
  IF Cached(s) \cap (valid \cup dirty) # {}
  THEN data[CHOOSE b \in Cached(s) : b \in valid \cup dirty] ELSE disk[s]

(* Caching is transparent: the contents of a sector change only when the     *)
(* process that holds its buffer writes, never by eviction, by a transfer or *)
(* by another sector's traffic; and a holder sees those contents.            *)
Transparent ==
  [][\A s \in Sector \ BadSector : Contents(s)' # Contents(s) =>
        \E p \in Proc : pc[p] = "held" /\ want[p] = s /\ pc'[p] \in {"held", "rw"}]_vars

(* bread() and bwrite() come back only when the disk is done, even to a      *)
(* process that kill() has roused: a holder's data are valid and no transfer *)
(* of its buffer is pending; and what a clean buffer holds is on the disk,   *)
(* unless reading it failed.                                                 *)
InSync ==
  /\ \A p \in Proc : pc[p] = "held" =>
       buf[p] \in valid /\ \A i \in DOMAIN idequeue : idequeue[i] # buf[p]
  /\ \A b \in valid \ dirty :
       sector[b] \notin BadSector => disk[sector[b]] = data[b]

(* A sleeper always has somebody who will wake it: in bget() the buffer is *)
(* busy with its sector, in iderw() the request is in the queue.           *)
SleepersHaveWaker ==
  \A p \in Proc :
    /\ pc[p] = "bsleep" => buf[p] \in busy /\ sector[buf[p]] = want[p]
    /\ pc[p] = "iosleep" => \E i \in DOMAIN idequeue : idequeue[i] = buf[p]

(* Buffers, disk queue and sleepers stay in step: the state has its types, *)
(* a buffer has one user and a sector one buffer, a holder's data are in   *)
(* step with the disk, and a sleeper has somebody who will wake it.        *)
BufferSound == TypeOK /\ OneHolder /\ InSync /\ SleepersHaveWaker

(* Nobody sleeps for ever: a process waiting in bget() gets to try again, and *)
(* one waiting in iderw() gets its buffer back.  Stated for one process, as   *)
(* all are alike.                                                             *)
SleepersReturn ==
  LET p == CHOOSE q \in Proc : TRUE
  IN /\ (pc[p] = "bsleep") ~> (pc[p] = "bget" \/ panicked)
     /\ (pc[p] = "rw") ~> (pc[p] = "held" \/ panicked)

=============================================================================
