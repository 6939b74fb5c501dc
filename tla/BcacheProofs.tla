---------------------------- MODULE BcacheProofs ----------------------------
(***************************************************************************)
(* Proofs about Bcache for every number of processes, sectors and buffers. *)
(*                                                                         *)
(* IInv is inductive.  To BufferSound it adds what ties a process to the   *)
(* disk queue: a buffer is in the queue for its one holder, who waits in   *)
(* iderw(), and is there exactly while its flags say that a transfer is    *)
(* due; the sector of a write is on the disk from the moment the write is  *)
(* at the head of the queue.  Under IInv the contents of a sector are in   *)
(* its valid buffer or on the disk, and every step is followed to where    *)
(* they are then: the cache is transparent.                                *)
(***************************************************************************)
EXTENDS Bcache, TLAPS

(* The time a prover is given for a step. *)
USE SMTT(60), ZenonT(30)

HoldPcs == {"rw", "iosleep", "iotest", "held"}

(* Process p has buffer b, B_BUSY. *)
Holds(p, b) == buf[p] = b /\ pc[p] \in HoldPcs

Queued(b) == \E i \in 1..Len(idequeue) : idequeue[i] = b

(* OneHolder, process by process. *)
Owned ==
  /\ \A b \in Buf : b \in busy <=> \E p \in Proc : Holds(p, b)
  /\ \A b \in Buf : \A p, q \in Proc : Holds(p, b) /\ Holds(q, b) => p = q
  /\ \A p \in Proc : pc[p] \in HoldPcs => buf[p] \in Buf /\ sector[buf[p]] = want[p]
  /\ \A b, c \in Buf : sector[b] = sector[c] /\ sector[b] # NoSector => b = c

(* Every buffer is on the list of bcache.head once. *)
Listed ==
  /\ \A i, j \in Buf : lru[i] = lru[j] => i = j
  /\ \A b \in Buf : \E i \in Buf : lru[i] = b

(* Which transfers are due, and what is known of those that are done. *)
Transfers ==
  /\ dirty \subseteq valid
  /\ \A b \in valid : sector[b] # NoSector
  /\ \A p \in Proc : pc[p] # "idle" => want[p] # NoSector
  /\ \A p \in Proc : pc[p] = "rw" => buf[p] \notin valid \ dirty
  /\ \A p \in Proc : pc[p] = "iotest" => Queued(buf[p]) \/ buf[p] \in valid \ dirty

(* The disk queue: no buffer twice, each for a process that waits. *)
Queue ==
  /\ active <=> idequeue # <<>>
  /\ \A i, j \in 1..Len(idequeue) : idequeue[i] = idequeue[j] => i = j
  /\ \A b \in Buf : Queued(b) =>
       /\ \E p \in Proc : buf[p] = b /\ pc[p] \in {"iosleep", "iotest"}
       /\ b \notin valid \ dirty
  /\ idequeue # <<>> /\ idequeue[1] \in dirty
       => disk[sector[idequeue[1]]] = data[idequeue[1]]

IInv ==
  /\ TypeOK
  /\ Owned
  /\ Listed
  /\ Transfers
  /\ Queue
  /\ InSync
  /\ SleepersHaveWaker

-----------------------------------------------------------------------------
(* What Append, Head and Tail do to a queue of buffers. *)
LEMMA QueueFacts ==
  ASSUME NEW q \in Seq(Buf), NEW b \in Buf
  PROVE  /\ Append(q, b) \in Seq(Buf)
         /\ Len(Append(q, b)) = Len(q) + 1
         /\ Append(q, b)[Len(q) + 1] = b
         /\ \A i \in 1..Len(q) : Append(q, b)[i] = q[i] /\ q[i] \in Buf
         /\ Append(q, b) # <<>> /\ Len(q) \in Nat /\ (q # <<>> <=> Len(q) > 0)
         /\ q # <<>> => /\ Head(q) = q[1] /\ q[1] \in Buf /\ Len(q) > 0
                        /\ Tail(q) \in Seq(Buf)
                        /\ Len(Tail(q)) = Len(q) - 1
                        /\ \A i \in 1..Len(q) - 1 : Tail(q)[i] = q[i + 1]
  OBVIOUS

(* Owned is OneHolder. *)
LEMMA OwnedIsOneHolder == Owned => OneHolder
  <1> SUFFICES ASSUME Owned PROVE OneHolder
    OBVIOUS
  <1>1. ASSUME NEW b \in Buf
        PROVE  b \in busy <=> Holders(b) # {}
    BY Zenon DEF Owned, Holders, Holds, HoldPcs
  <1>2. ASSUME NEW b \in Buf, NEW p \in Holders(b), NEW q \in Holders(b)
        PROVE  p = q /\ sector[b] = want[p]
    BY DEF Owned, Holders, Holds, HoldPcs
  <1> QED
    BY <1>1, <1>2, Zenon DEF OneHolder, Owned

(* The inductive invariant gives the property of the run. *)
LEMMA IInvIsSound == IInv => BufferSound
  BY OwnedIsOneHolder, Zenon DEF IInv, BufferSound

LEMMA Init_inv == Init => IInv
  <1> SUFFICES ASSUME Init PROVE IInv
    OBVIOUS
  <1> USE BcacheAssumption DEF Init, Buf, NoBuf
  <1>1. TypeOK
    <2>1. lru \in [Buf -> Buf]
      OBVIOUS
    <2>2. idequeue \in Seq(Buf) /\ NoSector \in Sector \cup {NoSector}
      OBVIOUS
    <2>3. active \in BOOLEAN /\ panicked \in BOOLEAN
      BY Zenon
    <2> HIDE DEF Buf
    <2> QED
      BY <2>1, <2>2, <2>3, Zenon DEF TypeOK
  <1>2. Owned /\ Transfers /\ InSync /\ SleepersHaveWaker
    BY Zenon DEF Owned, Holds, HoldPcs, Transfers, InSync, SleepersHaveWaker
  <1>3. Listed
    <2>1. ASSUME NEW b \in Buf PROVE \E i \in Buf : lru[i] = b
      <3>1. NBUF + 1 - b \in Buf /\ lru[NBUF + 1 - b] = b
        OBVIOUS
      <3> QED
        BY <3>1, Zenon
    <2> QED
      BY <2>1 DEF Listed
  <1>4. Queue
    BY DEF Queue, Queued
  <1> QED
    BY <1>1, <1>2, <1>3, <1>4, Zenon DEF IInv

-----------------------------------------------------------------------------
(* Steps that take, pass on or release no buffer. *)
LEMMA OwnedKept ==
  ASSUME Owned, UNCHANGED <<sector, busy>>,
         \A q \in Proc : /\ pc'[q] \in HoldPcs <=> pc[q] \in HoldPcs
                         /\ pc[q] \in HoldPcs => buf'[q] = buf[q] /\ want'[q] = want[q]
  PROVE  Owned'
  <1>1. \A q \in Proc : \A b \in Buf : Holds(q, b)' <=> Holds(q, b)
    BY Zenon DEF Holds
  <1> QED
    BY <1>1, Zenon DEF Owned

(* Steps that leave the disk and its queue alone. *)
LEMMA QueueKept ==
  ASSUME Queue, UNCHANGED <<sector, valid, dirty, data, idequeue, active, disk>>,
         \A q \in Proc : pc[q] \in {"iosleep", "iotest"} =>
           buf'[q] = buf[q] /\ (pc'[q] \in {"iosleep", "iotest"} \/ ~Queued(buf[q]))
  PROVE  Queue'
  <1>1. \A b \in Buf : Queued(b)' <=> Queued(b)
    BY Zenon DEF Queued
  <1> QED
    BY <1>1 DEF Queue

(* bread() only notes the sector that is asked for. *)
LEMMA bread_inv ==
  ASSUME IInv, NEW p \in Proc, NEW s \in Sector, bread(p, s)
  PROVE  IInv'
  <1>i. /\ TypeOK /\ Owned /\ Listed /\ Transfers /\ Queue
        /\ InSync /\ SleepersHaveWaker
    BY Zenon DEF IInv
  <1>0. /\ pc[p] = "idle" /\ pc' = [pc EXCEPT ![p] = "bget"]
        /\ want' = [want EXCEPT ![p] = s]
        /\ UNCHANGED <<sector, busy, valid, dirty, data, lru, idequeue, active, disk, buf,
                       panicked>>
    BY Zenon DEF bread, At, bufVars
  <1>1. TypeOK' /\ Listed'
    BY <1>0, <1>i, Zenon DEF TypeOK, Listed
  <1>a. \A q \in Proc : q # p => pc'[q] = pc[q] /\ want'[q] = want[q]
    BY <1>0, <1>i, Zenon DEF TypeOK
  <1>b. pc'[p] = "bget" /\ want'[p] = s /\ s # NoSector
    BY <1>0, <1>i, BcacheAssumption, Zenon DEF TypeOK
  <1>2. Owned'
    BY <1>0, <1>a, <1>b, <1>i, OwnedKept, Zenon DEF HoldPcs
  <1>3. Transfers'
    BY <1>0, <1>a, <1>b, <1>i, Zenon DEF Transfers, Queued
  <1>4. Queue'
    BY <1>0, <1>a, <1>b, <1>i, QueueKept, Zenon
  <1>5. InSync' /\ SleepersHaveWaker'
    BY <1>0, <1>a, <1>b, <1>i DEF InSync, SleepersHaveWaker
  <1> QED
    BY <1>1, <1>2, <1>3, <1>4, <1>5, Zenon DEF IInv

(* A free buffer with the sector is taken: it is valid, or has to be read. *)
LEMMA bget_hit_inv ==
  ASSUME IInv, NEW p \in Proc, bget_hit(p)
  PROVE  IInv'
  <1>i. /\ TypeOK /\ Owned /\ Listed /\ Transfers /\ Queue
        /\ InSync /\ SleepersHaveWaker
    BY Zenon DEF IInv
  <1> PICK b \in Buf : /\ sector[b] = want[p] /\ b \notin busy
                       /\ busy' = busy \cup {b}
                       /\ buf' = [buf EXCEPT ![p] = b]
                       /\ pc' = [pc EXCEPT ![p] = IF b \in valid THEN "held" ELSE "rw"]
    BY Zenon DEF bget_hit, Cached
  <1>0. /\ pc[p] = "bget"
        /\ UNCHANGED <<sector, valid, dirty, data, lru, idequeue, active, disk, want,
                       panicked>>
    BY Zenon DEF bget_hit, At
  <1>a. /\ \A q \in Proc : q # p => pc'[q] = pc[q] /\ buf'[q] = buf[q]
        /\ buf'[p] = b /\ pc'[p] \in {"held", "rw"} /\ (pc'[p] = "held" <=> b \in valid)
    BY <1>i, Zenon DEF TypeOK
  <1>b. (\A q \in Proc : ~Holds(q, b)) /\ ~Queued(b)
    BY <1>i DEF Owned, Queue, Holds, HoldPcs
  <1>1. TypeOK' /\ Listed'
    BY <1>0, <1>i, Zenon DEF TypeOK, Listed
  <1>2. Owned'
    <2>1. \A q \in Proc : \A c \in Buf :
            Holds(q, c)' <=> (q # p /\ Holds(q, c)) \/ (q = p /\ c = b)
      BY <1>a, Zenon DEF Holds, HoldPcs
    <2>2. \A c \in Buf : ~Holds(p, c)
      BY <1>0, Zenon DEF Holds, HoldPcs
    <2>3. \A c \in Buf : c \in busy' <=> \E q \in Proc : Holds(q, c)'
      BY <1>i, <2>1, <2>2 DEF Owned
    <2> QED
      BY <1>0, <1>a, <1>b, <1>i, <2>1, <2>3 DEF Owned
  <1>3. Transfers'
    BY <1>0, <1>a, <1>i DEF Transfers, Queued
  <1>4. Queue'
    BY <1>0, <1>a, <1>i, QueueKept, Zenon
  <1>5. InSync' /\ SleepersHaveWaker'
    BY <1>0, <1>a, <1>b, <1>i DEF InSync, SleepersHaveWaker, Queued, TypeOK
  <1> QED
    BY <1>1, <1>2, <1>3, <1>4, <1>5, Zenon DEF IInv

(* A process sleeps on a busy buffer of its sector. *)
LEMMA bget_sleep_inv ==
  ASSUME IInv, NEW p \in Proc, bget_sleep(p)
  PROVE  IInv'
  <1>i. /\ TypeOK /\ Owned /\ Listed /\ Transfers /\ Queue
        /\ InSync /\ SleepersHaveWaker
    BY DEF IInv
  <1> PICK b \in Buf : /\ sector[b] = want[p] /\ b \in busy
                       /\ buf' = [buf EXCEPT ![p] = b]
                       /\ pc' = [pc EXCEPT ![p] = "bsleep"]
    BY Zenon DEF bget_sleep, Cached
  <1>0. /\ pc[p] = "bget"
        /\ UNCHANGED <<sector, busy, valid, dirty, data, lru, idequeue, active, disk,
                       want, panicked>>
    BY Zenon DEF bget_sleep, At, bufVars
  <1>a. /\ \A q \in Proc : q # p => pc'[q] = pc[q] /\ buf'[q] = buf[q]
        /\ buf'[p] = b /\ pc'[p] = "bsleep"
    BY <1>i, Zenon DEF TypeOK
  <1>1. TypeOK' /\ Listed'
    BY <1>0, <1>i, Zenon DEF TypeOK, Listed
  <1>2. Owned'
    BY <1>0, <1>a, <1>i, OwnedKept, Zenon DEF HoldPcs
  <1>3. Transfers'
    BY <1>0, <1>a, <1>i DEF Transfers, Queued
  <1>4. Queue'
    BY <1>0, <1>a, <1>i, QueueKept, Zenon
  <1>5. InSync' /\ SleepersHaveWaker'
    BY <1>0, <1>a, <1>i DEF InSync, SleepersHaveWaker
  <1> QED
    BY <1>1, <1>2, <1>3, <1>4, <1>5, Zenon DEF IInv

(* The recycled buffer is free and clean, so nobody waits for it and no *)
(* transfer of it is due; or bget() panics and nothing else changes.    *)
LEMMA bget_recycle_inv ==
  ASSUME IInv, NEW p \in Proc, bget_recycle(p)
  PROVE  IInv'
  <1>i. /\ TypeOK /\ Owned /\ Listed /\ Transfers /\ Queue
        /\ InSync /\ SleepersHaveWaker
    BY DEF IInv
  <1>0. /\ pc[p] = "bget" /\ UNCHANGED <<lru, idequeue, active, disk, want>>
        /\ \A c \in Buf : sector[c] # want[p]
    BY Zenon DEF bget_recycle, Cached, At
  <1>1. ASSUME NEW b \in Buf, b \notin busy, b \notin dirty,
               sector' = [sector EXCEPT ![b] = want[p]],
               busy' = busy \cup {b}, valid' = valid \ {b}, dirty' = dirty \ {b},
               buf' = [buf EXCEPT ![p] = b],
               pc' = [pc EXCEPT ![p] = "rw"],
               UNCHANGED <<data, panicked>>
        PROVE  IInv'
    <2>a. /\ \A q \in Proc : q # p => pc'[q] = pc[q] /\ buf'[q] = buf[q]
          /\ \A c \in Buf : c # b => sector'[c] = sector[c]
          /\ buf'[p] = b /\ pc'[p] = "rw" /\ sector'[b] = want[p]
      BY <1>1, <1>i, Zenon DEF TypeOK
    <2>b. (\A q \in Proc : ~Holds(q, b)) /\ ~Queued(b)
      BY <1>1, <1>i DEF Owned, Queue, Holds, HoldPcs
    <2>c. want[p] \in Sector /\ valid \subseteq Buf
      BY <1>0, <1>i, Zenon DEF Transfers, TypeOK
    <2>1. TypeOK' /\ Listed'
      BY <1>0, <1>1, <1>i, Zenon DEF TypeOK, Listed
    <2>2. Owned'
      <3>1. \A q \in Proc : \A c \in Buf :
              Holds(q, c)' <=> (q # p /\ Holds(q, c)) \/ (q = p /\ c = b)
        BY <2>a, Zenon DEF Holds, HoldPcs
      <3>2. \A c \in Buf : ~Holds(p, c)
        BY <1>0, Zenon DEF Holds, HoldPcs
      <3>3. \A c \in Buf : c \in busy' <=> \E q \in Proc : Holds(q, c)'
        BY <1>1, <1>i, <3>1, <3>2 DEF Owned
      <3>4. \A q \in Proc : pc'[q] \in HoldPcs =>
              buf'[q] \in Buf /\ sector'[buf'[q]] = want'[q]
        BY <1>0, <2>a, <2>b, <1>i DEF Owned, Holds
      <3> QED
        BY <1>0, <2>a, <2>b, <1>i, <3>1, <3>3, <3>4 DEF Owned
    <2>3. Transfers'
      BY <1>0, <1>1, <1>i, <2>a, <2>b, <2>c DEF Transfers, Queued, Holds, HoldPcs
    <2>4. Queue'
      <3>1. idequeue # <<>> => Queued(idequeue[1]) /\ idequeue[1] # b /\ idequeue[1] \in Buf
        BY <2>b, <1>i DEF Queued, TypeOK
      <3>2. \A c \in Buf : Queued(c)' <=> Queued(c)
        BY <1>0, Zenon DEF Queued
      <3>3. \A c \in Buf : Queued(c) =>
              /\ \E q \in Proc : buf'[q] = c /\ pc'[q] \in {"iosleep", "iotest"}
              /\ c \notin valid' \ dirty'
        BY <1>0, <1>1, <1>i, <2>a, <2>b DEF Queue
      <3> QED
        BY <1>0, <1>1, <1>i, <2>a, <3>1, <3>2, <3>3 DEF Queue
    <2>5. InSync'
      BY <1>0, <1>1, <1>i, <2>a, <2>b, <2>c DEF InSync, Owned, Holds, HoldPcs
    <2>6. SleepersHaveWaker'
      BY <1>0, <1>1, <1>i, <2>a DEF SleepersHaveWaker, TypeOK
    <2> QED
      BY <2>1, <2>2, <2>3, <2>4, <2>5, <2>6, Zenon DEF IInv
  <1>2. ASSUME panicked' = TRUE, UNCHANGED <<bufVars, buf, pc>>
        PROVE  IInv'
    <2>1. TypeOK'
      BY <1>0, <1>2, <1>i, Zenon DEF TypeOK, bufVars
    <2> QED
      BY <1>0, <1>2, <1>i, <2>1, OwnedKept, QueueKept
         DEF IInv, Listed, Transfers, Queued, InSync, SleepersHaveWaker, bufVars
  <1> QED
    BY <1>1, <1>2, Zenon DEF bget_recycle, Oldest, Clean

(* A holder's buffer is not in the queue, so writing it disturbs no request. *)
LEMMA WriteKeepsQueue ==
  ASSUME Queue, idequeue \in Seq(Buf), NEW b \in Buf, ~Queued(b),
         dirty' = dirty \cup {b}, \A c \in Buf : c # b => data'[c] = data[c],
         UNCHANGED <<sector, valid, idequeue, active, disk, buf>>,
         \A q \in Proc : pc[q] \in {"iosleep", "iotest"} => pc'[q] = pc[q]
  PROVE  Queue'
  <1>1. idequeue # <<>> => Queued(idequeue[1]) /\ idequeue[1] \in Buf /\ idequeue[1] # b
    BY DEF Queued
  <1>2. \A c \in Buf : Queued(c)' <=> Queued(c)
    BY Zenon DEF Queued
  <1>3. \A c \in Buf : Queued(c) =>
          /\ \E q \in Proc : buf'[q] = c /\ pc'[q] \in {"iosleep", "iotest"}
          /\ c \notin valid' \ dirty'
    BY DEF Queue
  <1> QED
    BY <1>1, <1>2, <1>3 DEF Queue

(* The holder's buffer becomes dirty and its transfer is due. *)
LEMMA bwrite_inv ==
  ASSUME IInv, NEW p \in Proc, NEW v \in Val, bwrite(p, v)
  PROVE  IInv'
  <1>i. /\ TypeOK /\ Owned /\ Listed /\ Transfers /\ Queue
        /\ InSync /\ SleepersHaveWaker
    BY DEF IInv
  <1>0. /\ pc[p] = "held" /\ data' = [data EXCEPT ![buf[p]] = v]
        /\ dirty' = dirty \cup {buf[p]} /\ pc' = [pc EXCEPT ![p] = "rw"]
        /\ UNCHANGED <<sector, busy, valid, lru, idequeue, active, disk, want, buf,
                       panicked>>
    BY Zenon DEF bwrite, At
  <1>a. buf[p] \in valid /\ buf[p] \in Buf /\ ~Queued(buf[p]) /\ idequeue \in Seq(Buf)
    BY <1>0, <1>i DEF InSync, Queued, TypeOK
  <1>b. \A q \in Proc : pc[q] \in HoldPcs /\ buf[q] = buf[p] => q = p
    BY <1>0, <1>a, <1>i DEF Owned, Holds, HoldPcs
  <1>c. \A c \in Buf : c # buf[p] => data'[c] = data[c]
    BY <1>0, <1>i, Zenon DEF TypeOK
  <1>d. pc'[p] = "rw" /\ \A q \in Proc : q # p => pc'[q] = pc[q]
    BY <1>0, <1>i, Zenon DEF TypeOK
  <1>1. TypeOK' /\ Listed'
    BY <1>0, <1>a, <1>i, Zenon DEF TypeOK, Listed
  <1>2. Owned'
    BY <1>0, <1>d, <1>i, OwnedKept, Zenon DEF HoldPcs
  <1>3. Transfers'
    BY <1>0, <1>a, <1>b, <1>d, <1>i DEF Transfers, Queued, HoldPcs
  <1>4. Queue'
    BY <1>0, <1>a, <1>c, <1>d, <1>i, WriteKeepsQueue, Zenon
  <1>5. InSync'
    BY <1>0, <1>a, <1>c, <1>d, <1>i DEF InSync, TypeOK
  <1>6. SleepersHaveWaker'
    BY <1>0, <1>a, <1>d, <1>i, Zenon DEF SleepersHaveWaker
  <1> QED
    BY <1>1, <1>2, <1>3, <1>4, <1>5, <1>6, Zenon DEF IInv

(* The same for log_write(), which starts no transfer. *)
LEMMA log_write_inv ==
  ASSUME IInv, NEW p \in Proc, NEW v \in Val, log_write(p, v)
  PROVE  IInv'
  <1>i. /\ TypeOK /\ Owned /\ Listed /\ Transfers /\ Queue
        /\ InSync /\ SleepersHaveWaker
    BY DEF IInv
  <1>0. /\ pc[p] = "held" /\ data' = [data EXCEPT ![buf[p]] = v]
        /\ dirty' = dirty \cup {buf[p]}
        /\ UNCHANGED <<sector, busy, valid, lru, idequeue, active, disk, pc, want, buf,
                       panicked>>
    BY Zenon DEF log_write, At
  <1>a. buf[p] \in valid /\ buf[p] \in Buf /\ ~Queued(buf[p]) /\ idequeue \in Seq(Buf)
    BY <1>0, <1>i DEF InSync, Queued, TypeOK
  <1>b. \A q \in Proc : pc[q] \in HoldPcs /\ buf[q] = buf[p] => q = p
    BY <1>0, <1>a, <1>i DEF Owned, Holds, HoldPcs
  <1>c. \A c \in Buf : c # buf[p] => data'[c] = data[c]
    BY <1>0, <1>i, Zenon DEF TypeOK
  <1>1. TypeOK' /\ Listed'
    BY <1>0, <1>a, <1>i, Zenon DEF TypeOK, Listed
  <1>2. Owned'
    BY <1>0, <1>i, OwnedKept, Zenon
  <1>3. Transfers'
    BY <1>0, <1>a, <1>b, <1>i, Zenon DEF Transfers, Queued, HoldPcs
  <1>4. Queue'
    BY <1>0, <1>a, <1>c, <1>i, WriteKeepsQueue, Zenon
  <1>5. InSync' /\ SleepersHaveWaker'
    BY <1>0, <1>a, <1>c, <1>i DEF InSync, SleepersHaveWaker, TypeOK
  <1> QED
    BY <1>1, <1>2, <1>3, <1>4, <1>5 DEF IInv

(* When the i-th of the list goes to the front, the j-th is the l-th of before. *)
Moved(i, j, l) ==
  (j = 1 /\ l = i) \/ (j # 1 /\ j <= i /\ l = j - 1) \/ (j > i /\ l = j)

(* Each place has a buffer, each buffer a place. *)
LEMMA MovedOnce ==
  ASSUME NEW i \in Buf
  PROVE  /\ \A j \in Buf : \E l \in Buf : Moved(i, j, l)
         /\ \A l \in Buf : \E j \in Buf : Moved(i, j, l)
         /\ \A j, k, l \in Buf : Moved(i, j, l) /\ Moved(i, k, l) => j = k
  <1> USE BcacheAssumption DEF Moved, Buf
  <1>1. ASSUME NEW j \in Buf PROVE \E l \in Buf : Moved(i, j, l)
    <2>1. CASE j = 1
      BY <2>1, Zenon
    <2>2. CASE j # 1 /\ j <= i
      <3>1. j - 1 \in Buf
        BY <2>2
      <3> QED
        BY <2>2, <3>1, Zenon
    <2>3. CASE j > i
      BY <2>3, Zenon
    <2> QED
      BY <2>1, <2>2, <2>3
  <1>2. ASSUME NEW l \in Buf PROVE \E j \in Buf : Moved(i, j, l)
    <2>1. CASE l = i
      <3>1. 1 \in Buf
        OBVIOUS
      <3> QED
        BY <2>1, <3>1, Zenon
    <2>2. CASE l < i
      <3>1. l + 1 \in Buf /\ Moved(i, l + 1, l)
        BY <2>2
      <3> QED
        BY <3>1, Zenon
    <2>3. CASE l > i
      BY <2>3, Zenon
    <2> QED
      BY <2>1, <2>2, <2>3
  <1>3. ASSUME NEW j \in Buf, NEW k \in Buf, NEW l \in Buf,
               Moved(i, j, l), Moved(i, k, l)
        PROVE  j = k
    BY <1>3
  <1> QED
    BY <1>1, <1>2, <1>3

(* The list stays a list of all buffers. *)
LEMMA ListedKept ==
  ASSUME IInv, NEW b \in Buf, lru' = ToFront(b)
  PROVE  lru' \in [Buf -> Buf] /\ Listed'
  <1>1. lru \in [Buf -> Buf] /\ Listed
    BY Zenon DEF IInv, TypeOK
  <1>2. PICK i \in Buf : i = (CHOOSE k \in Buf : lru[k] = b) /\ lru[i] = b
    BY <1>1, Zenon DEF Listed
  <1>3. lru' = [j \in Buf |-> lru'[j]]
    BY Zenon DEF ToFront
  <1>4. ASSUME NEW j \in Buf, NEW l \in Buf, Moved(i, j, l) PROVE lru'[j] = lru[l]
    BY <1>2, <1>4 DEF ToFront, Moved, Buf
  <1>5. ASSUME NEW j \in Buf PROVE lru'[j] \in Buf
    <2>1. PICK l \in Buf : Moved(i, j, l)
      BY MovedOnce, Zenon
    <2> QED
      BY <1>1, <1>4, <2>1
  <1>6. ASSUME NEW j \in Buf, NEW k \in Buf, lru'[j] = lru'[k] PROVE j = k
    <2>1. PICK l \in Buf, m \in Buf : Moved(i, j, l) /\ Moved(i, k, m)
      BY MovedOnce, Zenon
    <2>2. l = m
      BY <1>1, <1>4, <1>6, <2>1 DEF Listed
    <2> QED
      BY <2>1, <2>2, MovedOnce, Zenon
  <1>7. ASSUME NEW c \in Buf PROVE \E j \in Buf : lru'[j] = c
    <2>1. PICK l \in Buf : lru[l] = c
      BY <1>1, Zenon DEF Listed
    <2>2. PICK j \in Buf : Moved(i, j, l)
      BY MovedOnce, Zenon
    <2> QED
      BY <1>4, <2>1, <2>2, Zenon
  <1> QED
    BY <1>3, <1>5, <1>6, <1>7, Zenon DEF Listed

(* The buffer is free again and all who slept for it try again. *)
LEMMA brelse_inv ==
  ASSUME IInv, NEW p \in Proc, brelse(p)
  PROVE  IInv'
  <1>i. /\ TypeOK /\ Owned /\ Listed /\ Transfers /\ Queue
        /\ InSync /\ SleepersHaveWaker
    BY DEF IInv
  <1> PICK b \in Buf : b = buf[p]
    BY <1>i, Zenon DEF brelse, At, Owned, HoldPcs
  <1>0. /\ pc[p] = "held" /\ lru' = ToFront(b) /\ busy' = busy \ {b}
        /\ pc' = [Wake(b) EXCEPT ![p] = "idle"]
        /\ buf' = [buf EXCEPT ![p] = NoBuf]
        /\ want' = [want EXCEPT ![p] = NoSector]
        /\ UNCHANGED <<sector, valid, dirty, data, idequeue, active, disk, panicked>>
    BY Zenon DEF brelse, At
  <1>a. \A q \in Proc : Holds(q, b) <=> q = p
    BY <1>0, <1>i DEF Owned, Holds, HoldPcs
  <1>b. ~Queued(b)
    BY <1>0, <1>i DEF InSync, Queued
  <1>c. /\ pc'[p] = "idle" /\ buf'[p] = NoBuf /\ want'[p] = NoSector
        /\ \A q \in Proc \ {p} :
             /\ buf'[q] = buf[q] /\ want'[q] = want[q]
             /\ \/ pc'[q] = pc[q]
                \/ buf[q] = b /\ pc[q] = "bsleep" /\ pc'[q] = "bget"
             /\ buf[q] = b => pc'[q] # "bsleep"
    BY <1>0, <1>a, <1>i, Zenon DEF Wake, Holds, HoldPcs, TypeOK
  <1>1. TypeOK'
    BY <1>0, <1>i, ListedKept, Zenon DEF Wake, TypeOK
  <1>2. Listed'
    BY <1>0, ListedKept, Zenon
  <1>3. Owned'
    <2>1. \A c \in Buf : \A q \in Proc : Holds(q, c)' <=> Holds(q, c) /\ q # p
      BY <1>0, <1>c DEF Holds, HoldPcs
    <2>2. \A c \in Buf : Holds(p, c) <=> c = b
      BY <1>0, Zenon DEF Holds, HoldPcs
    <2>3. \A c \in Buf : c \in busy' <=> \E q \in Proc : Holds(q, c)'
      BY <1>0, <1>a, <2>1, <2>2, <1>i DEF Owned
    <2>4. \A q \in Proc : pc'[q] \in HoldPcs => pc[q] \in HoldPcs /\ q # p
      BY <1>0, <1>c, Zenon DEF HoldPcs
    <2> QED
      BY <1>0, <1>c, <2>1, <2>3, <2>4, <1>i DEF Owned
  <1>4. Transfers'
    BY <1>0, <1>c, <1>i DEF Transfers, Queued
  <1>5. Queue'
    BY <1>0, <1>b, <1>c, <1>i DEF Queue, Queued
  <1>6. InSync' /\ SleepersHaveWaker'
    BY <1>0, <1>a, <1>c, <1>i DEF InSync, SleepersHaveWaker
  <1> QED
    BY <1>1, <1>2, <1>3, <1>4, <1>5, <1>6, Zenon DEF IInv

(* The request goes to the end of the queue; at the head of an empty queue it *)
(* starts at once, and a write is then on the disk.                           *)
LEMMA iderw_inv ==
  ASSUME IInv, NEW p \in Proc, iderw(p)
  PROVE  IInv'
  <1>i. /\ TypeOK /\ Owned /\ Listed /\ Transfers /\ Queue
        /\ InSync /\ SleepersHaveWaker
    BY DEF IInv
  <1> PICK b \in Buf : b = buf[p]
    BY <1>i, Zenon DEF iderw, At, Owned, HoldPcs
  <1>0. /\ pc[p] = "rw" /\ idequeue' = Append(idequeue, b)
        /\ pc' = [pc EXCEPT ![p] = "iosleep"]
        /\ UNCHANGED <<sector, busy, valid, dirty, data, lru, want, buf, panicked>>
    BY Zenon DEF iderw, At, bufVars
  <1>d. /\ idequeue # <<>> => active' = active /\ disk' = disk
        /\ idequeue = <<>> => /\ active' = TRUE
                              /\ disk' = IF b \in dirty
                                         THEN [disk EXCEPT ![sector[b]] = data[b]]
                                         ELSE disk
    BY Zenon DEF iderw, idestart
  <1>a. \A q \in Proc : Holds(q, b) <=> q = p
    BY <1>0, <1>i DEF Owned, Holds, HoldPcs
  <1>b. ~Queued(b)
    BY <1>0, <1>a, <1>i, Zenon DEF Queue, Holds, HoldPcs
  <1>e. b \notin valid \ dirty /\ sector[b] \in Sector
    BY <1>0, <1>i DEF Transfers, Owned, HoldPcs, TypeOK
  <1>q. /\ Len(idequeue') = Len(idequeue) + 1 /\ idequeue'[Len(idequeue) + 1] = b
        /\ \A i \in 1..Len(idequeue) : idequeue'[i] = idequeue[i]
        /\ idequeue' \in Seq(Buf) /\ Len(idequeue) \in Nat /\ idequeue' # <<>>
        /\ idequeue # <<>> <=> Len(idequeue) > 0
    <2>1. idequeue \in Seq(Buf)
      BY <1>i, Zenon DEF TypeOK
    <2> QED
      BY <1>0, <2>1, QueueFacts
  <1>c. \A c \in Buf : Queued(c)' <=> Queued(c) \/ c = b
    BY <1>q DEF Queued
  <1>1. TypeOK' /\ Listed'
    <2>1. active' \in BOOLEAN /\ panicked' \in BOOLEAN
      BY <1>0, <1>d, Zenon, <1>i DEF TypeOK
    <2>2. disk' \in [Sector -> Val]
      BY <1>d, <1>e, <1>i DEF TypeOK
    <2> QED
      BY <1>0, <1>q, <2>1, <2>2, <1>i, Zenon DEF TypeOK, Listed
  <1>2. Owned'
    BY <1>0, <1>i DEF Owned, Holds, HoldPcs, TypeOK
  <1>3. Transfers'
    <2>1. \A q \in Proc : pc'[q] = "iotest" => pc[q] = "iotest" /\ buf[q] \in Buf
      BY <1>0, <1>i, Zenon DEF TypeOK, Owned, HoldPcs
    <2> QED
      BY <1>0, <1>c, <2>1, <1>i, Zenon DEF Transfers, TypeOK
  <1>4. Queue'
    <2>1. active' <=> idequeue' # <<>>
      BY <1>q, <1>d, <1>i, Zenon DEF Queue
    <2>2. ASSUME NEW i \in 1..Len(idequeue'), NEW j \in 1..Len(idequeue'),
                 idequeue'[i] = idequeue'[j]
          PROVE  i = j
      BY <2>2, <1>q, <1>b, <1>i DEF Queue, Queued
    <2>3. ASSUME NEW c \in Buf, Queued(c)'
          PROVE  /\ \E q \in Proc : buf'[q] = c /\ pc'[q] \in {"iosleep", "iotest"}
                 /\ c \notin valid' \ dirty'
      BY <2>3, <1>c, <1>0, <1>e, <1>i DEF Queue, TypeOK
    <2>4. idequeue'[1] \in dirty' => disk'[sector'[idequeue'[1]]] = data'[idequeue'[1]]
      BY <1>q, <1>0, <1>d, <1>e, <1>i DEF Queue, TypeOK
    <2> QED
      BY <2>1, <2>2, <2>3, <2>4, <1>i, Zenon DEF Queue
  <1>5. InSync'
    <2>1. ASSUME NEW q \in Proc, pc'[q] = "held"
          PROVE  buf'[q] \in valid' /\ \A i \in DOMAIN idequeue' : idequeue'[i] # buf'[q]
      BY <2>1, <1>0, <1>a, <1>q, <1>i DEF InSync, Holds, HoldPcs, TypeOK
    <2>2. ASSUME NEW c \in valid' \ dirty', sector'[c] \notin BadSector
          PROVE  disk'[sector'[c]] = data'[c]
      BY <2>2, <1>0, <1>d, <1>e, <1>i DEF InSync, Owned, TypeOK, Transfers
    <2> QED
      BY <2>1, <2>2, <1>i, Zenon DEF InSync
  <1>6. SleepersHaveWaker'
    <2>1. ASSUME NEW q \in Proc, pc'[q] = "bsleep"
          PROVE  buf'[q] \in busy' /\ sector'[buf'[q]] = want'[q]
      BY <2>1, <1>0, <1>i, Zenon DEF SleepersHaveWaker, TypeOK
    <2>2. ASSUME NEW q \in Proc, pc'[q] = "iosleep"
          PROVE  \E i \in DOMAIN idequeue' : idequeue'[i] = buf'[q]
      <3>1. buf[q] \in Buf /\ (Queued(buf[q]) \/ buf[q] = b)
        <4>1. buf[q] \in Buf
          BY <2>2, <1>0, <1>i, Zenon DEF TypeOK, Owned, HoldPcs
        <4>2. CASE q # p
          <5>1. pc[q] = "iosleep"
            BY <2>2, <4>2, <1>0, <1>i, Zenon DEF TypeOK
          <5> QED
            BY <4>1, <5>1, <1>i DEF SleepersHaveWaker, Queued, TypeOK
        <4> QED
          BY <4>1, <4>2, Zenon
      <3>2. PICK i \in 1..Len(idequeue') : idequeue'[i] = buf[q]
        BY <3>1, <1>c, Zenon DEF Queued
      <3> QED
        BY <3>2, <1>0, <1>q
    <2> QED
      BY <2>1, <2>2, <1>i, Zenon DEF SleepersHaveWaker
  <1> QED
    BY <1>1, <1>2, <1>3, <1>4, <1>5, <1>6, Zenon DEF IInv

(* A woken process goes on when its buffer is clean, and sleeps again while *)
(* the request is in the queue.                                             *)
LEMMA iderw_test_inv ==
  ASSUME IInv, NEW p \in Proc, iderw_test(p)
  PROVE  IInv'
  <1>i. /\ TypeOK /\ Owned /\ Listed /\ Transfers /\ Queue
        /\ InSync /\ SleepersHaveWaker
    BY DEF IInv
  <1>0. /\ pc[p] = "iotest"
        /\ pc' = [pc EXCEPT ![p] = IF buf[p] \in valid \ dirty THEN "held" ELSE "iosleep"]
        /\ UNCHANGED <<sector, busy, valid, dirty, data, lru, idequeue, active, disk, want,
                       buf, panicked>>
    BY Zenon DEF iderw_test, At, bufVars
  <1>a. buf[p] \in Buf /\ (Queued(buf[p]) <=> buf[p] \notin valid \ dirty)
    BY <1>0, <1>i, Zenon DEF Queue, Transfers, Owned, HoldPcs
  <1>b. /\ \A q \in Proc : q # p => pc'[q] = pc[q]
        /\ pc'[p] \in {"held", "iosleep"} /\ (pc'[p] = "held" <=> ~Queued(buf[p]))
    BY <1>0, <1>a, <1>i, Zenon DEF TypeOK
  <1>1. TypeOK' /\ Listed'
    BY <1>0, <1>i, Zenon DEF TypeOK, Listed
  <1>2. Owned'
    BY <1>0, <1>b, <1>i, OwnedKept, Zenon DEF HoldPcs
  <1>3. Transfers'
    BY <1>0, <1>b, <1>i, Zenon DEF Transfers, Queued
  <1>4. Queue'
    BY <1>0, <1>b, <1>i, QueueKept, Zenon
  <1>5. InSync' /\ SleepersHaveWaker'
    BY <1>0, <1>a, <1>b, <1>i DEF InSync, SleepersHaveWaker, Queued, TypeOK
  <1> QED
    BY <1>1, <1>2, <1>3, <1>4, <1>5, Zenon DEF IInv

(* The request at the head is done, its holder is woken and the next request *)
(* starts.                                                                   *)
LEMMA ideintr_inv ==
  ASSUME IInv, ideintr
  PROVE  IInv'
  <1>i. /\ TypeOK /\ Owned /\ Listed /\ Transfers /\ Queue
        /\ InSync /\ SleepersHaveWaker
    BY Zenon DEF IInv
  <1>q. /\ idequeue # <<>> /\ Head(idequeue) = idequeue[1] /\ idequeue[1] \in Buf
        /\ idequeue' = Tail(idequeue) /\ idequeue' \in Seq(Buf)
        /\ Len(idequeue) \in Nat \ {0} /\ Len(idequeue') = Len(idequeue) - 1
        /\ \A i \in 1..Len(idequeue) - 1 : idequeue'[i] = idequeue[i + 1]
        /\ idequeue' # <<>> => /\ Head(idequeue') = idequeue'[1] /\ idequeue'[1] \in Buf
                               /\ Len(idequeue') > 0
    BY QueueFacts, <1>i DEF ideintr, Queue, TypeOK
  <1> PICK b \in Buf : b = idequeue[1]
    BY <1>q, Zenon
  <1>0. /\ data' = [data EXCEPT ![b] = IF b \in dirty \/ sector[b] \in BadSector
                                       THEN @ ELSE disk[sector[b]]]
        /\ valid' = valid \cup {b} /\ dirty' = dirty \ {b} /\ pc' = Wake(b)
        /\ UNCHANGED <<sector, busy, lru, want, buf, panicked>>
    BY <1>q, Zenon DEF ideintr
  <1>d. /\ idequeue' = <<>> => active' = FALSE /\ disk' = disk
        /\ idequeue' # <<>> =>
             /\ active' = TRUE
             /\ disk' = IF idequeue'[1] \in dirty
                        THEN [disk EXCEPT ![sector[idequeue'[1]]] = data[idequeue'[1]]]
                        ELSE disk
    BY <1>q, Zenon DEF ideintr, StartNext, idestart
  <1>c. \A c \in Buf : Queued(c)' <=> Queued(c) /\ c # b
    <2>1. ASSUME NEW c \in Buf, Queued(c)' PROVE Queued(c) /\ c # b
      BY <2>1, <1>q, <1>i DEF Queued, Queue
    <2>2. ASSUME NEW c \in Buf, Queued(c), c # b PROVE Queued(c)'
      <3> PICK i \in 1..Len(idequeue) : idequeue[i] = c
        BY <2>2, Zenon DEF Queued
      <3>1. i - 1 \in 1..Len(idequeue') /\ idequeue'[i - 1] = c
        BY <2>2, <1>q
      <3> QED
        BY <3>1, Zenon DEF Queued
    <2> QED
      BY <2>1, <2>2, Zenon
  <1>m. idequeue' # <<>> => 1 \in 1..Len(idequeue') /\ idequeue'[1] \in Buf
    BY <1>q
  <1>a. \A q \in Proc : pc[q] \in HoldPcs =>
          /\ sector[buf[q]] \in Sector
          /\ buf[q] = b => pc[q] \in {"iosleep", "iotest"}
    <2>1. Queued(b)
      BY <1>q DEF Queued
    <2>2. PICK r \in Proc : buf[r] = b /\ pc[r] \in {"iosleep", "iotest"}
      BY <2>1, <1>i, Zenon DEF Queue
    <2> QED
      BY <2>2, <1>i DEF Owned, Holds, HoldPcs, Transfers, TypeOK
  <1>e. /\ sector[b] \in Sector
        /\ idequeue' # <<>> => idequeue'[1] # b /\ sector[idequeue'[1]] \in Sector
    <2>1. \A c \in Buf : Queued(c) => sector[c] \in Sector
      BY <1>a, <1>i, Zenon DEF Queue, HoldPcs
    <2>2. Queued(b)
      BY <1>q DEF Queued
    <2>3. ASSUME idequeue' # <<>> PROVE Queued(idequeue'[1]) /\ idequeue'[1] # b
      <3>1. 1 \in 1..Len(idequeue) /\ 2 \in 1..Len(idequeue) /\ idequeue'[1] = idequeue[2]
        BY <1>q, <2>3
      <3> QED
        BY <3>1, <1>i DEF Queued, Queue
    <2> QED
      BY <2>1, <2>2, <2>3, <1>m, Zenon
  <1>p. \A q \in Proc :
          /\ pc'[q] \in HoldPcs <=> pc[q] \in HoldPcs
          /\ buf[q] # b => pc'[q] = pc[q]
          /\ buf[q] = b /\ pc[q] \in HoldPcs => pc'[q] = "iotest"
          /\ buf[q] = b => pc'[q] \notin {"bsleep", "iosleep", "rw", "held"}
          /\ pc'[q] = "idle" <=> pc[q] = "idle"
    BY <1>0, <1>a, Zenon DEF Wake, HoldPcs
  <1>1. TypeOK' /\ Listed'
    <2>1. pc' \in [Proc -> {"idle", "bget", "bsleep", "rw", "iosleep", "iotest", "held"}]
      BY <1>0, <1>i, Zenon DEF Wake, TypeOK
    <2>2. active' \in BOOLEAN /\ panicked' \in BOOLEAN
      BY <1>0, <1>d, Zenon, <1>i DEF TypeOK
    <2>3. disk' \in [Sector -> Val] /\ data' \in [Buf -> Val]
      <3>1. disk' \in [Sector -> Val]
        BY <1>d, <1>e, <1>i, <1>m, Zenon DEF TypeOK
      <3>2. data' \in [Buf -> Val]
        BY <1>0, <1>e, <1>i, Zenon DEF TypeOK
      <3> QED
        BY <3>1, <3>2, Zenon
    <2> QED
      BY <1>0, <1>q, <2>1, <2>2, <2>3, <1>i DEF TypeOK, Listed
  <1>2. Owned'
    BY <1>0, <1>p, <1>i, OwnedKept, Zenon
  <1>3. Transfers'
    <2>1. \A q \in Proc : pc'[q] = "iotest" => Queued(buf[q])' \/ buf[q] \in valid' \ dirty'
      <3>1. \A q \in Proc : pc'[q] = "iotest" => buf[q] \in Buf /\ pc[q] \in HoldPcs
        BY <1>p, <1>i, Zenon DEF HoldPcs, Owned
      <3>2. \A q \in Proc : pc'[q] = "iotest" =>
              buf[q] = b \/ Queued(buf[q]) \/ buf[q] \in valid \ dirty
        BY <1>p, <1>i, <3>1, Zenon DEF Transfers, SleepersHaveWaker, Queued, HoldPcs
      <3> QED
        BY <1>0, <1>c, <3>1, <3>2, Zenon
    <2>2. sector[b] # NoSector
      BY <1>e, BcacheAssumption, Zenon
    <2> QED
      BY <1>0, <1>p, <1>i, <2>1, <2>2, Zenon DEF Transfers, HoldPcs
  <1>4. Queue'
    <2>1. active' <=> idequeue' # <<>>
      BY <1>d, Zenon
    <2>2. ASSUME NEW i \in 1..Len(idequeue'), NEW j \in 1..Len(idequeue'),
                 idequeue'[i] = idequeue'[j]
          PROVE  i = j
      BY <2>2, <1>q, <1>i DEF Queue
    <2>3. ASSUME NEW c \in Buf, Queued(c)'
          PROVE  /\ \E q \in Proc : buf'[q] = c /\ pc'[q] \in {"iosleep", "iotest"}
                 /\ c \notin valid' \ dirty'
      BY <2>3, <1>c, <1>0, <1>p, <1>i DEF Queue
    <2>4. idequeue' # <<>> /\ idequeue'[1] \in dirty'
            => disk'[sector'[idequeue'[1]]] = data'[idequeue'[1]]
      BY <1>q, <1>0, <1>d, <1>e, <1>i, Zenon DEF TypeOK
    <2> QED
      BY <2>1, <2>2, <2>3, <2>4, <1>i, Zenon DEF Queue
  <1>5. InSync'
    <2>1. ASSUME NEW q \in Proc, pc'[q] = "held"
          PROVE  buf'[q] \in valid' /\ \A i \in DOMAIN idequeue' : idequeue'[i] # buf'[q]
      <3>1. pc[q] = "held" /\ buf[q] \in valid /\ buf[q] # b
        BY <2>1, <1>p, <1>i, Zenon DEF InSync
      <3>2. ~Queued(buf[q])
        BY <3>1, <1>i DEF InSync, Queued, TypeOK
      <3> QED
        BY <3>1, <3>2, <1>0, <1>c, <1>q, <1>i DEF Queued, TypeOK
    <2>2. ASSUME NEW c \in valid' \ dirty', sector'[c] \notin BadSector
          PROVE  disk'[sector'[c]] = data'[c]
      <3>1. disk[sector[c]] = data'[c]
        BY <2>2, <1>0, <1>e, <1>q, <1>i DEF InSync, TypeOK, Queue
      <3>2. idequeue' # <<>> /\ idequeue'[1] \in dirty => sector[c] # sector[idequeue'[1]]
        BY <2>2, <1>0, <1>e, <1>m, <1>i, BcacheAssumption DEF Owned, TypeOK
      <3>3. disk'[sector[c]] = disk[sector[c]]
        <4>1. c \in Buf /\ sector[c] \in Sector
          BY <2>2, <1>0, <1>e, <1>i DEF Transfers, TypeOK
        <4> QED
          BY <4>1, <3>2, <1>d, <1>e, <1>m, <1>i, Zenon DEF TypeOK
      <3> QED
        BY <3>1, <3>3, <1>0, Zenon
    <2> QED
      BY <2>1, <2>2, <1>i, Zenon DEF InSync
  <1>6. SleepersHaveWaker'
    <2>1. ASSUME NEW q \in Proc, pc'[q] = "bsleep"
          PROVE  buf'[q] \in busy' /\ sector'[buf'[q]] = want'[q]
      BY <2>1, <1>0, <1>p, <1>i, Zenon DEF SleepersHaveWaker
    <2>2. ASSUME NEW q \in Proc, pc'[q] = "iosleep"
          PROVE  \E i \in DOMAIN idequeue' : idequeue'[i] = buf'[q]
      <3>1. pc[q] = "iosleep" /\ buf[q] # b /\ buf[q] \in Buf
        BY <2>2, <1>p, <1>i, Zenon DEF Owned, HoldPcs
      <3>2. Queued(buf[q])
        BY <3>1, <1>i DEF SleepersHaveWaker, Queued, TypeOK
      <3>3. PICK i \in 1..Len(idequeue') : idequeue'[i] = buf[q]
        BY <3>1, <3>2, <1>c, Zenon DEF Queued
      <3> QED
        BY <3>3, <1>0, <1>q
    <2> QED
      BY <2>1, <2>2, <1>i, Zenon DEF SleepersHaveWaker
  <1> QED
    BY <1>1, <1>2, <1>3, <1>4, <1>5, <1>6, Zenon DEF IInv

(* A sleeper that kill() rouses goes back to its test. *)
LEMMA kill_inv ==
  ASSUME IInv, NEW p \in Proc, kill(p)
  PROVE  IInv'
  <1>i. /\ TypeOK /\ Owned /\ Listed /\ Transfers /\ Queue
        /\ InSync /\ SleepersHaveWaker
    BY Zenon DEF IInv
  <1>0. /\ pc[p] \in {"bsleep", "iosleep"}
        /\ pc' = [pc EXCEPT ![p] = IF @ = "bsleep" THEN "bget" ELSE "iotest"]
        /\ UNCHANGED <<sector, busy, valid, dirty, data, lru, idequeue, active, disk, want,
                       buf, panicked>>
    BY Zenon DEF kill, bufVars
  <1>a. /\ \A q \in Proc : q # p => pc'[q] = pc[q]
        /\ (pc[p] = "bsleep" /\ pc'[p] = "bget") \/ (pc[p] = "iosleep" /\ pc'[p] = "iotest")
    BY <1>0, <1>i, Zenon DEF TypeOK
  <1>1. TypeOK' /\ Listed'
    BY <1>0, <1>i, Zenon DEF TypeOK, Listed
  <1>2. Owned'
    BY <1>0, <1>a, <1>i, OwnedKept, Zenon DEF HoldPcs
  <1>3. Transfers'
    BY <1>0, <1>a, <1>i DEF Transfers, Queued, SleepersHaveWaker, TypeOK
  <1>4. Queue'
    BY <1>0, <1>a, <1>i, QueueKept, Zenon
  <1>5. InSync' /\ SleepersHaveWaker'
    BY <1>0, <1>a, <1>i DEF InSync, SleepersHaveWaker
  <1> QED
    BY <1>1, <1>2, <1>3, <1>4, <1>5, Zenon DEF IInv

LEMMA stutter_inv ==
  ASSUME IInv, UNCHANGED vars
  PROVE  IInv'
  BY DEF IInv, TypeOK, Owned, Holds, Listed, Transfers, Queue, Queued, InSync,
     SleepersHaveWaker, vars, bufVars

LEMMA Next_inv == IInv /\ [Next]_vars => IInv'
  <1> SUFFICES ASSUME IInv, [Next]_vars PROVE IInv'
    OBVIOUS
  <1> QED
    BY bread_inv, bget_hit_inv, bget_sleep_inv, bget_recycle_inv, bwrite_inv,
       log_write_inv, brelse_inv, iderw_inv, iderw_test_inv, ideintr_inv, kill_inv,
       stutter_inv, Zenon DEF Next, Step, Use, bget, Halted

(* IInv holds in every state of bio.c and ide.c. *)
THEOREM Invariance == Spec => []IInv
  BY Init_inv, Next_inv, PTL DEF Spec

(* The buffer cache and the disk queue are sound: a B_BUSY buffer has one   *)
(* holder and a sector one buffer, bread() and bwrite() come back only with *)
(* the transfer done, also after kill(), a clean buffer agrees with the     *)
(* disk, and every sleeper of bget() and iderw() has somebody to wake it.   *)
THEOREM BufferIsSound == Spec => []BufferSound
  BY Invariance, IInvIsSound, PTL

-----------------------------------------------------------------------------
(* Under the invariant the contents of a sector are those of its valid buffer, *)
(* if there is one, and those on the disk if not.                              *)
ContentsIs ==
  \A s \in Sector :
    /\ \A b \in valid : sector[b] = s => Contents(s) = data[b]
    /\ (\A b \in valid : sector[b] # s) => Contents(s) = disk[s]

LEMMA ContentsFacts == IInv => ContentsIs
  <1> SUFFICES ASSUME IInv, NEW s \in Sector
               PROVE  /\ \A b \in valid : sector[b] = s => Contents(s) = data[b]
                      /\ (\A b \in valid : sector[b] # s) => Contents(s) = disk[s]
    BY Zenon DEF ContentsIs
  <1> USE DEF IInv, Contents, Cached
  <1>0. valid \subseteq Buf /\ valid \cup dirty = valid /\ s # NoSector
    BY BcacheAssumption, Zenon DEF TypeOK, Transfers
  <1>1. ASSUME NEW b \in valid, sector[b] = s PROVE Contents(s) = data[b]
    <2>1. b \in {c \in Buf : sector[c] = s}
      BY <1>0, <1>1, Zenon
    <2>2. \A c \in {d \in Buf : sector[d] = s} : c = b
      BY <1>0, <1>1, Zenon DEF Owned
    <2>3. (CHOOSE c \in {d \in Buf : sector[d] = s} : c \in valid \cup dirty) = b
      BY <2>1, <2>2, <1>0, Zenon
    <2> QED
      BY <2>1, <2>3, <1>0, Zenon
  <1>2. ASSUME \A b \in valid : sector[b] # s PROVE Contents(s) = disk[s]
    BY <1>0, <1>2, Zenon
  <1> QED
    BY <1>1, <1>2, Zenon

(* The process that has the buffer of sector s writes. *)
Written(s) == \E p \in Proc : pc[p] = "held" /\ want[p] = s /\ pc'[p] \in {"held", "rw"}

(* A step that touches neither flags, sectors nor data. *)
LEMMA SameContents ==
  ASSUME NEW s \in Sector, UNCHANGED <<sector, valid, dirty, data, disk>>
  PROVE  Contents(s)' = Contents(s)
  BY DEF Contents, Cached

(* A recycled buffer is clean: what it held is on the disk. *)
LEMMA RecycleKeeps ==
  ASSUME IInv, IInv', NEW p \in Proc, bget_recycle(p), NEW s \in Sector \ BadSector
  PROVE  Contents(s)' = Contents(s)
  <1>1. ASSUME NEW b \in Buf, b \notin dirty, sector' = [sector EXCEPT ![b] = want[p]],
               valid' = valid \ {b}, UNCHANGED <<data, disk>>,
               \A c \in Buf : sector[c] # want[p]
        PROVE  Contents(s)' = Contents(s)
    <2>0. ContentsIs /\ ContentsIs'
      BY ContentsFacts, PTL
    <2>a. \A c \in valid \ {b} : c \in valid' /\ sector'[c] = sector[c]
      BY <1>1, Zenon DEF IInv, TypeOK
    <2>1. ASSUME NEW c \in valid, sector[c] = s, c # b PROVE Contents(s)' = Contents(s)
      BY <1>1, <2>0, <2>1, <2>a DEF ContentsIs
    <2>2. CASE b \in valid /\ sector[b] = s
      <3>1. disk[s] = data[b]
        BY <1>1, <2>2, Zenon DEF IInv, InSync
      <3>2. \A c \in valid \ {b} : sector[c] # s
        BY <2>2, BcacheAssumption DEF IInv, TypeOK, Owned
      <3>3. \A c \in valid' : sector'[c] # s
        BY <1>1, <2>a, <3>2, Zenon
      <3> QED
        BY <1>1, <2>0, <2>2, <3>1, <3>3 DEF ContentsIs
    <2>3. CASE \A c \in valid : sector[c] # s
      <3>1. \A c \in valid' : sector'[c] # s
        BY <1>1, <2>a, <2>3, Zenon
      <3> QED
        BY <1>1, <2>0, <2>3, <3>1 DEF ContentsIs
    <2> QED
      BY <2>1, <2>2, <2>3, Zenon
  <1>2. ASSUME UNCHANGED <<bufVars, disk>> PROVE Contents(s)' = Contents(s)
    BY <1>2, SameContents, Zenon DEF bufVars
  <1> QED
    BY <1>1, <1>2, Zenon DEF bget_recycle, Oldest, Clean, Cached

(* Only the contents of the holder's sector change. *)
LEMMA WriteIsOwn ==
  ASSUME IInv, IInv', NEW p \in Proc, pc[p] = "held", pc'[p] \in {"held", "rw"},
         NEW v \in Val, data' = [data EXCEPT ![buf[p]] = v],
         UNCHANGED <<sector, valid, disk>>, NEW s \in Sector, ~Written(s)
  PROVE  Contents(s)' = Contents(s)
  <1>1. ContentsIs /\ ContentsIs'
    BY ContentsFacts, PTL
  <1>2. \A b \in valid : sector[b] = s => data'[b] = data[b]
    BY DEF IInv, TypeOK, Owned, HoldPcs, Written
  <1> QED
    BY <1>1, <1>2 DEF ContentsIs

(* A transfer to the disk takes the data of a valid buffer. *)
LEMMA TransferKeeps ==
  ASSUME ContentsIs, ContentsIs', disk \in [Sector -> Val], NEW s \in Sector,
         UNCHANGED <<sector, valid, data>>,
         \/ disk' = disk
         \/ \E b \in valid : disk' = [disk EXCEPT ![sector[b]] = data[b]]
  PROVE  Contents(s)' = Contents(s)
  BY DEF ContentsIs

(* A read fills a buffer that was not valid with what the disk has. *)
LEMMA InterruptKeeps ==
  ASSUME IInv, IInv', ideintr, NEW s \in Sector \ BadSector
  PROVE  Contents(s)' = Contents(s)
  <1>1. PICK b \in Buf :
          /\ b = Head(idequeue) /\ b = idequeue[1] /\ Queued(b)
          /\ sector' = sector /\ valid' = valid \cup {b}
          /\ data' = [data EXCEPT ![b] = IF b \in dirty \/ sector[b] \in BadSector
                                         THEN @ ELSE disk[sector[b]]]
    <2>1. idequeue \in Seq(Buf) /\ idequeue # <<>>
      <3>1. active /\ TypeOK /\ Queue
        BY Zenon DEF ideintr, IInv
      <3> QED
        BY <3>1, Zenon DEF TypeOK, Queue
    <2>2. Head(idequeue) = idequeue[1] /\ idequeue[1] \in Buf /\ 1 \in 1..Len(idequeue)
      BY <2>1
    <2> QED
      BY <2>2, Zenon DEF ideintr, Queued
  <1>2. disk' = disk \/ \E n \in dirty : disk' = [disk EXCEPT ![sector[n]] = data[n]]
    <2>1. StartNext(idequeue')
      BY Zenon DEF ideintr
    <2> QED
      BY <2>1, Zenon DEF StartNext, idestart
  <1>3. /\ ContentsIs /\ ContentsIs' /\ dirty \subseteq valid /\ valid \subseteq Buf
        /\ b \in valid => b \in dirty
        /\ disk \in [Sector -> Val] /\ data \in [Buf -> Val]
        /\ \A c, d \in Buf : sector[c] = s /\ sector[d] = s => c = d
        /\ \A c \in valid : sector[c] \in Sector
    <2>1. ContentsIs /\ ContentsIs'
      BY ContentsFacts, PTL
    <2>2. TypeOK /\ Owned /\ Transfers /\ Queue
      BY Zenon DEF IInv
    <2>3. /\ valid \subseteq Buf /\ disk \in [Sector -> Val] /\ data \in [Buf -> Val]
          /\ sector \in [Buf -> Sector \cup {NoSector}]
      BY <2>2, Zenon DEF TypeOK
    <2>4. dirty \subseteq valid /\ \A c \in valid : sector[c] \in Sector
      BY <2>2, <2>3, Zenon DEF Transfers
    <2>5. b \in valid => b \in dirty
      BY <1>1, <2>2, Zenon DEF Queue
    <2>6. \A c, d \in Buf : sector[c] = s /\ sector[d] = s => c = d
      BY <2>2, BcacheAssumption DEF Owned
    <2> QED
      BY <2>1, <2>3, <2>4, <2>5, <2>6, Zenon
  <1>4. ASSUME NEW c \in valid, sector[c] = s PROVE Contents(s)' = Contents(s)
    <2>1. c \in valid' /\ sector'[c] = s /\ data'[c] = data[c]
      BY <1>1, <1>3, <1>4, Zenon
    <2> QED
      BY <1>3, <1>4, <2>1 DEF ContentsIs
  <1>5. CASE \A c \in valid : sector[c] # s
    <2>1. disk'[s] = disk[s]
      BY <1>2, <1>3, <1>5, Zenon
    <2>2. CASE sector[b] = s
      <3>1. b \in valid' /\ sector'[b] = s /\ data'[b] = disk[s]
        BY <1>1, <1>3, <1>5, <2>2, Zenon
      <3> QED
        BY <1>3, <1>5, <3>1 DEF ContentsIs
    <2>3. CASE sector[b] # s
      <3>1. \A c \in valid' : sector'[c] # s
        BY <1>1, <1>5, <2>3, Zenon
      <3> QED
        BY <1>3, <1>5, <2>1, <3>1 DEF ContentsIs
    <2> QED
      BY <2>2, <2>3, Zenon
  <1> QED
    BY <1>4, <1>5, Zenon

LEMMA ContentsStep ==
  ASSUME IInv, IInv', [Next]_vars, NEW s \in Sector \ BadSector, ~Written(s)
  PROVE  Contents(s)' = Contents(s)
  <1>1. ASSUME NEW p \in Proc,
               \/ bget_hit(p) \/ bget_sleep(p) \/ iderw_test(p) \/ kill(p) \/ brelse(p)
               \/ \E t \in Sector : bread(p, t)
        PROVE  Contents(s)' = Contents(s)
    <2>1. UNCHANGED <<sector, valid, dirty, data, disk>>
      BY <1>1, Zenon DEF bget_hit, bget_sleep, iderw_test, kill, brelse, bread, bufVars
    <2> QED
      BY <2>1, SameContents, Zenon
  <1>2. ASSUME NEW p \in Proc, NEW v \in Val, bwrite(p, v) \/ log_write(p, v)
        PROVE  Contents(s)' = Contents(s)
    <2>1. /\ pc[p] = "held" /\ pc'[p] \in {"held", "rw"}
          /\ data' = [data EXCEPT ![buf[p]] = v] /\ UNCHANGED <<sector, valid, disk>>
      BY <1>2 DEF bwrite, log_write, At, IInv, TypeOK
    <2> QED
      BY <2>1, WriteIsOwn, Zenon
  <1>3. ASSUME NEW p \in Proc, iderw(p) PROVE Contents(s)' = Contents(s)
    <2>1. /\ UNCHANGED <<sector, valid, data>>
          /\ disk' = disk \/ \E b \in dirty : disk' = [disk EXCEPT ![sector[b]] = data[b]]
      BY <1>3, Zenon DEF iderw, idestart, bufVars
    <2>2. dirty \subseteq valid /\ disk \in [Sector -> Val]
      BY Zenon DEF IInv, Transfers, TypeOK
    <2>3. ContentsIs /\ ContentsIs'
      BY ContentsFacts, PTL
    <2> QED
      BY <2>1, <2>2, <2>3, TransferKeeps, Zenon
  <1>4. CASE UNCHANGED vars
    BY <1>4, SameContents, Zenon DEF vars, bufVars
  <1> QED
    BY <1>1, <1>2, <1>3, <1>4, RecycleKeeps, InterruptKeeps, Zenon
       DEF Next, Step, Use, bget, Halted

(* For any number of processes, sectors and buffers the cache is transparent: *)
(* eviction, transfers and the traffic of other sectors leave what bread()    *)
(* gives for a sector; only the process that has its buffer changes it.       *)
THEOREM CacheIsTransparent == Spec => Transparent
  <1>1. IInv /\ IInv' /\ [Next]_vars
          => [\A s \in Sector \ BadSector : Contents(s)' # Contents(s) =>
                \E p \in Proc :
                  pc[p] = "held" /\ want[p] = s /\ pc'[p] \in {"held", "rw"}]_vars
    BY ContentsStep, Zenon DEF Written
  <1> QED
    BY <1>1, Invariance, PTL DEF Spec, Transparent

=============================================================================
