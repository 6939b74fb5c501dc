----------------------------- MODULE ProcProofs -----------------------------
(***************************************************************************)
(* Proofs about Proc for every number of slots, CPUs and pids.             *)
(*                                                                         *)
(* IInv is inductive.  Its parts say where a process's control can be in   *)
(* each state, who owns an EMBRYO slot, who is whose parent, and which     *)
(* pids are in use; the safety invariants of Proc follow from it.          *)
(***************************************************************************)
EXTENDS Proc, TLAPS

(* The time a prover is given for a step. *)
USE SMTT(60), ZenonT(30)

ForkPc == {"kstack", "copyuvm", "forkend"}

(* Where a process can be in each state. *)
Control ==
  \A p \in Slot :
    /\ state[p] \in {"UNUSED", "EMBRYO"} <=> pc[p] = "none"
    /\ state[p] = "ZOMBIE" => pc[p] = "exit"
    /\ pc[p] = "waiting" => state[p] \in {"SLEEPING", "RUNNABLE"}
    /\ state[p] = "SLEEPING" => pc[p] \in {"waiting", "loop", "exit"}
    /\ state[p] = "SLEEPING" /\ pc[p] = "waiting" => chan[p] = p

InitAlive == pc[initproc] \notin {"none", "exit"}

(* A process inside fork() owns one EMBRYO slot, and no two share one. *)
ForkOwner ==
  /\ \A p \in Slot : pc[p] \in ForkPc => np[p] \in Slot /\ state[np[p]] = "EMBRYO"
  /\ \A p, r \in Slot : pc[p] \in ForkPc /\ pc[r] \in ForkPc /\ np[p] = np[r] => p = r
  /\ \A q \in Slot : state[q] = "EMBRYO" =>
       \E p \in Slot : pc[p] \in ForkPc /\ np[p] = q

(* The parent field. *)
Parents ==
  /\ parent[initproc] = NoProc
  /\ \A q \in Slot : parent[q] # NoProc => parent[q] # q /\ Live(parent[q])
  /\ \A q \in Slot : state[q] = "UNUSED" => parent[q] = NoProc
  /\ \A q \in Slot \ {initproc} :
       Live(q) \/ state[q] = "ZOMBIE" => parent[q] # NoProc
  /\ \A p \in Slot : pc[p] \in {"kstack", "copyuvm"} => parent[np[p]] = NoProc
  /\ \A p \in Slot : pc[p] = "forkend" => parent[np[p]] = p

PidsTaken ==
  /\ UniquePids
  /\ \A p \in Slot : pid[p] < nextpid

IInv ==
  /\ TypeOK
  /\ Control
  /\ InitAlive
  /\ ForkOwner
  /\ Parents
  /\ PidsTaken
  /\ NoLostExit

-----------------------------------------------------------------------------
(* Slots are numbered from initproc; NoProc is none of them. *)
LEMMA SlotFacts == initproc \in Slot /\ NoProc \notin Slot
  BY ProcAssumption DEF initproc, NoProc, Slot

(* Entering a system call moves the control of one running process. *)
LEMMA syscall_inv ==
  ASSUME IInv, NEW p \in Slot, NEW c \in Calls, syscall(p, c)
  PROVE IInv'
<1>1. TypeOK'
  BY SlotFacts, Zenon DEF IInv, At, ptable, Calls, syscall, TypeOK, Pc, Calls,
     procstate
<1>2. Control'
  BY SlotFacts DEF IInv, At, ptable, Calls, syscall, TypeOK, Control
<1>3. InitAlive'
  BY SlotFacts DEF IInv, At, ptable, Calls, syscall, TypeOK, Control,
     InitAlive, ForkOwner, ForkPc
<1>4. ForkOwner'
  BY SlotFacts DEF IInv, At, ptable, Calls, syscall, TypeOK, Control,
     ForkOwner, ForkPc
<1>5. Parents'
  BY SlotFacts DEF IInv, At, ptable, Calls, syscall, TypeOK, Control,
     InitAlive, ForkOwner, ForkPc, Parents, Live
<1>6. PidsTaken'
  BY SlotFacts DEF IInv, At, ptable, Calls, syscall, TypeOK, Control,
     ForkOwner, ForkPc, PidsTaken, UniquePids
<1>7. NoLostExit'
  BY SlotFacts DEF IInv, At, ptable, Calls, syscall, TypeOK, Control,
     InitAlive, ForkOwner, ForkPc, Parents, Live, NoLostExit, Children, Zombies
<1> QED BY <1>1, <1>2, <1>3, <1>4, <1>5, <1>6, <1>7, Zenon DEF IInv

(* A fault marks a running process, which is not asleep in wait(). *)
LEMMA fault_inv ==
  ASSUME IInv, NEW p \in Slot, fault(p)
  PROVE IInv'
<1>1. TypeOK'
  BY SlotFacts, Zenon DEF IInv, At, fault, TypeOK, Pc, Calls, procstate
<1>2. Control'
  BY SlotFacts, Zenon DEF IInv, At, fault, TypeOK, Control
<1>3. InitAlive'
  BY SlotFacts, Zenon DEF IInv, At, fault, TypeOK, Control, InitAlive, ForkOwner,
     ForkPc
<1>4. ForkOwner'
  BY SlotFacts DEF IInv, At, fault, TypeOK, Control, ForkOwner, ForkPc
<1>5. Parents'
  BY SlotFacts DEF IInv, At, fault, TypeOK, Control, InitAlive, ForkOwner,
     ForkPc, Parents, Live
<1>6. PidsTaken'
  BY SlotFacts DEF IInv, At, fault, TypeOK, Control, ForkOwner, ForkPc,
     PidsTaken, UniquePids
<1>7. NoLostExit'
  BY SlotFacts DEF IInv, At, fault, TypeOK, Control, InitAlive, ForkOwner,
     ForkPc, Parents, Live, NoLostExit, Children, Zombies
<1> QED BY <1>1, <1>2, <1>3, <1>4, <1>5, <1>6, <1>7, Zenon DEF IInv

(* A failed scan changes the caller's control only. *)
LEMMA allocproc_none_inv ==
  ASSUME IInv, NEW p \in Slot, allocproc_none(p)
  PROVE IInv'
<1>1. TypeOK'
  BY SlotFacts, Zenon DEF IInv, At, ptable, allocproc_none, TypeOK, Pc, Calls,
     procstate
<1>2. Control'
  BY SlotFacts, Zenon DEF IInv, At, ptable, allocproc_none, TypeOK, Control
<1>3. InitAlive'
  BY SlotFacts DEF IInv, At, ptable, allocproc_none, TypeOK, Control,
     InitAlive, ForkOwner, ForkPc
<1>4. ForkOwner'
  BY SlotFacts DEF IInv, At, ptable, allocproc_none, TypeOK, Control,
     ForkOwner, ForkPc
<1>5. Parents'
  BY SlotFacts DEF IInv, At, ptable, allocproc_none, TypeOK, Control,
     InitAlive, ForkOwner, ForkPc, Parents, Live
<1>6. PidsTaken'
  BY SlotFacts DEF IInv, At, ptable, allocproc_none, TypeOK, Control,
     ForkOwner, ForkPc, PidsTaken, UniquePids
<1>7. NoLostExit'
  BY SlotFacts DEF IInv, At, ptable, allocproc_none, TypeOK, Control,
     InitAlive, ForkOwner, ForkPc, Parents, Live, NoLostExit, Children, Zombies
<1> QED BY <1>1, <1>2, <1>3, <1>4, <1>5, <1>6, <1>7 DEF IInv

(* The slot taken was UNUSED, so nobody owned it and nobody is its child's *)
(* parent; its pid is fresh because all pids are below nextpid.            *)
LEMMA allocproc_inv ==
  ASSUME IInv, NEW p \in Slot, allocproc(p)
  PROVE IInv'
<1>1. TypeOK'
  BY SlotFacts DEF IInv, At, take_pid, First, Unused, allocproc, TypeOK, Pc,
     Calls, procstate
<1>2. Control'
  BY SlotFacts DEF IInv, At, take_pid, First, Unused, allocproc, TypeOK,
     Control
<1>3. InitAlive'
  BY SlotFacts DEF IInv, At, take_pid, First, Unused, allocproc, TypeOK,
     Control, InitAlive, ForkOwner, ForkPc
<1>4. ForkOwner'
  BY SlotFacts DEF IInv, At, take_pid, First, Unused, allocproc, TypeOK,
     Control, ForkOwner, ForkPc
<1>5. Parents'
  BY SlotFacts DEF IInv, At, take_pid, First, Unused, allocproc, TypeOK,
     Control, InitAlive, ForkOwner, ForkPc, Parents, Live
<1>6. PidsTaken'
  BY SlotFacts DEF IInv, At, take_pid, First, Unused, allocproc, TypeOK,
     Control, ForkOwner, ForkPc, PidsTaken, UniquePids
<1>7. NoLostExit'
  BY SlotFacts DEF IInv, At, take_pid, First, Unused, allocproc, TypeOK,
     Control, InitAlive, ForkOwner, ForkPc, Parents, Live, NoLostExit,
     Children, Zombies
<1> QED BY <1>1, <1>2, <1>3, <1>4, <1>5, <1>6, <1>7 DEF IInv

(* The slot given back is the caller's own EMBRYO, which has no parent yet. *)
LEMMA fork_fail_inv ==
  ASSUME IInv, NEW p \in Slot, fork_fail(p)
  PROVE IInv'
<1>1. TypeOK'
  BY SlotFacts, Zenon DEF IInv, At, give_back, fork_fail, TypeOK, Pc, Calls, procstate
<1>2. Control'
  BY SlotFacts DEF IInv, At, give_back, fork_fail, TypeOK, Control, ForkOwner,
     ForkPc
<1>3. InitAlive'
  BY SlotFacts DEF IInv, At, give_back, fork_fail, TypeOK, Control, InitAlive,
     ForkOwner, ForkPc
<1>4. ForkOwner'
  BY SlotFacts DEF IInv, At, give_back, fork_fail, TypeOK, Control, ForkOwner,
     ForkPc
<1>5. Parents'
  BY SlotFacts DEF IInv, At, give_back, fork_fail, TypeOK, Control, InitAlive,
     ForkOwner, ForkPc, Parents, Live
<1>6. PidsTaken'
  BY SlotFacts DEF IInv, At, give_back, fork_fail, TypeOK, Control, ForkOwner,
     ForkPc, PidsTaken, UniquePids
<1>7. NoLostExit'
  BY SlotFacts DEF IInv, At, give_back, fork_fail, TypeOK, Control, InitAlive,
     ForkOwner, ForkPc, Parents, Live, NoLostExit, Children, Zombies
<1> QED BY <1>1, <1>2, <1>3, <1>4, <1>5, <1>6, <1>7 DEF IInv

(* The kernel stack is there: the caller's control moves on. *)
LEMMA kstack_ok_inv ==
  ASSUME IInv, NEW p \in Slot, kstack_ok(p)
  PROVE IInv'
<1>1. TypeOK'
  BY SlotFacts, Zenon DEF IInv, At, ptable, kstack_ok, TypeOK, Pc, Calls, procstate
<1>2. Control'
  BY SlotFacts, Zenon DEF IInv, At, ptable, kstack_ok, TypeOK, Control
<1>3. InitAlive'
  BY SlotFacts DEF IInv, At, ptable, kstack_ok, TypeOK, Control, InitAlive,
     ForkOwner, ForkPc
<1>4. ForkOwner'
  BY SlotFacts DEF IInv, At, ptable, kstack_ok, TypeOK, Control, ForkOwner,
     ForkPc
<1>5. Parents'
  BY SlotFacts DEF IInv, At, ptable, kstack_ok, TypeOK, Control, InitAlive,
     ForkOwner, ForkPc, Parents, Live
<1>6. PidsTaken'
  BY SlotFacts DEF IInv, At, ptable, kstack_ok, TypeOK, Control, ForkOwner,
     ForkPc, PidsTaken, UniquePids
<1>7. NoLostExit'
  BY SlotFacts DEF IInv, At, ptable, kstack_ok, TypeOK, Control, InitAlive,
     ForkOwner, ForkPc, Parents, Live, NoLostExit, Children, Zombies
<1> QED BY <1>1, <1>2, <1>3, <1>4, <1>5, <1>6, <1>7 DEF IInv

(* The EMBRYO gets the caller as its parent; no waiter is affected, since *)
(* the caller runs and the child is no zombie.                            *)
LEMMA copyuvm_ok_inv ==
  ASSUME IInv, NEW p \in Slot, copyuvm_ok(p)
  PROVE IInv'
<1>1. TypeOK'
  BY SlotFacts, Zenon DEF IInv, At, copyuvm_ok, TypeOK, Pc, Calls, procstate
<1>2. Control'
  BY SlotFacts, Zenon DEF IInv, At, copyuvm_ok, TypeOK, Control
<1>3. InitAlive'
  BY SlotFacts DEF IInv, At, copyuvm_ok, TypeOK, Control, InitAlive, ForkOwner,
     ForkPc
<1>4. ForkOwner'
  BY SlotFacts DEF IInv, At, copyuvm_ok, TypeOK, Control, ForkOwner, ForkPc
<1>5. Parents'
  BY SlotFacts DEF IInv, At, copyuvm_ok, TypeOK, Control, InitAlive, ForkOwner,
     ForkPc, Parents, Live
<1>6. PidsTaken'
  BY SlotFacts DEF IInv, At, copyuvm_ok, TypeOK, Control, ForkOwner, ForkPc,
     PidsTaken, UniquePids
<1>7. NoLostExit'
  BY SlotFacts DEF IInv, At, copyuvm_ok, TypeOK, Control, InitAlive, ForkOwner,
     ForkPc, Parents, Live, NoLostExit, Children, Zombies
<1> QED BY <1>1, <1>2, <1>3, <1>4, <1>5, <1>6, <1>7 DEF IInv

(* The EMBRYO becomes a process, with the caller as its live parent. *)
LEMMA fork_end_inv ==
  ASSUME IInv, NEW p \in Slot, fork_end(p)
  PROVE IInv'
<1>1. TypeOK'
  BY SlotFacts, Zenon DEF IInv, At, fork_end, TypeOK, Pc, Calls, procstate
<1>2. Control'
  BY SlotFacts DEF IInv, At, fork_end, TypeOK, Control
<1>3. InitAlive'
  BY SlotFacts DEF IInv, At, fork_end, TypeOK, Control, InitAlive, ForkOwner,
     ForkPc
<1>4. ForkOwner'
  BY SlotFacts DEF IInv, At, fork_end, TypeOK, Control, ForkOwner, ForkPc
<1>5. Parents'
  BY SlotFacts DEF IInv, At, fork_end, TypeOK, Control, InitAlive, ForkOwner,
     ForkPc, Parents, Live
<1>6. PidsTaken'
  BY SlotFacts DEF IInv, At, fork_end, TypeOK, Control, ForkOwner, ForkPc,
     PidsTaken, UniquePids
<1>7. NoLostExit'
  BY SlotFacts DEF IInv, At, fork_end, TypeOK, Control, InitAlive, ForkOwner,
     ForkPc, Parents, Live, NoLostExit, Children, Zombies
<1> QED BY <1>1, <1>2, <1>3, <1>4, <1>5, <1>6, <1>7 DEF IInv

(* exit() of a process other than init moves its control. *)
LEMMA sys_exit_inv ==
  ASSUME IInv, NEW p \in Slot, NEW s \in Status, sys_exit(p, s)
  PROVE IInv'
<1>1. TypeOK'
  BY SlotFacts, ZenonT(30) DEF IInv, At, exit_begin, sys_exit, TypeOK, Pc, Calls, procstate
<1>2. Control'
  BY SlotFacts DEF IInv, At, exit_begin, sys_exit, TypeOK, Control
<1>3. InitAlive'
  BY SlotFacts DEF IInv, At, exit_begin, sys_exit, TypeOK, Control, InitAlive,
     ForkOwner, ForkPc
<1>4. ForkOwner'
  BY SlotFacts DEF IInv, At, exit_begin, sys_exit, TypeOK, Control, ForkOwner,
     ForkPc
<1>5. Parents'
  BY SlotFacts DEF IInv, At, exit_begin, sys_exit, TypeOK, Control, InitAlive,
     ForkOwner, ForkPc, Parents, Live
<1>6. PidsTaken'
  BY SlotFacts DEF IInv, At, exit_begin, sys_exit, TypeOK, Control, ForkOwner,
     ForkPc, PidsTaken, UniquePids
<1>7. NoLostExit'
  BY SlotFacts DEF IInv, At, exit_begin, sys_exit, TypeOK, Control, InitAlive,
     ForkOwner, ForkPc, Parents, Live, NoLostExit, Children, Zombies
<1> QED BY <1>1, <1>2, <1>3, <1>4, <1>5, <1>6, <1>7, Zenon DEF IInv

(* The exit that trap() forces on a killed process does the same. *)
LEMMA trap_exit_inv ==
  ASSUME IInv, NEW p \in Slot, trap_exit(p)
  PROVE IInv'
<1>1. TypeOK'
  BY ProcAssumption, ZenonT(30) DEF IInv, ForcedOut, exit_begin, trap_exit, TypeOK, Pc,
     Calls, procstate
<1>2. Control'
  BY SlotFacts DEF IInv, ForcedOut, exit_begin, trap_exit, TypeOK, Control
<1>3. InitAlive'
  BY SlotFacts DEF IInv, ForcedOut, exit_begin, trap_exit, TypeOK, Control,
     InitAlive, ForkOwner, ForkPc
<1>4. ForkOwner'
  BY SlotFacts DEF IInv, ForcedOut, exit_begin, trap_exit, TypeOK, Control,
     ForkOwner, ForkPc
<1>5. Parents'
  BY SlotFacts DEF IInv, ForcedOut, exit_begin, trap_exit, TypeOK, Control,
     InitAlive, ForkOwner, ForkPc, Parents, Live
<1>6. PidsTaken'
  BY SlotFacts, Zenon DEF IInv, ForcedOut, exit_begin, trap_exit, TypeOK, Control,
     ForkOwner, ForkPc, PidsTaken, UniquePids
<1>7. NoLostExit'
  BY SlotFacts DEF IInv, ForcedOut, exit_begin, trap_exit, TypeOK, Control,
     InitAlive, ForkOwner, ForkPc, Parents, Live, NoLostExit, Children, Zombies
<1> QED BY <1>1, <1>2, <1>3, <1>4, <1>5, <1>6, <1>7 DEF IInv

(* The children of the dying process get init as their parent; a waiter *)
(* that gets a zombie child is its parent or init, and both are woken.  *)
LEMMA exit_end_inv ==
  ASSUME IInv, NEW p \in Slot, exit_end(p)
  PROVE IInv'
<1>1. TypeOK'
  BY SlotFacts, Zenon DEF IInv, At, Woken, adopt, exit_end, TypeOK, Pc, Calls,
     procstate, Children, Zombies
<1>2. Control'
  BY SlotFacts, Zenon DEF IInv, At, Woken, adopt, exit_end, TypeOK, Control, Children,
     Zombies
<1>3. InitAlive'
  BY SlotFacts, Zenon DEF IInv, At, Woken, adopt, exit_end, TypeOK, Control,
     InitAlive, ForkOwner, ForkPc, Children, Zombies
<1>4. ForkOwner'
  BY SlotFacts DEF IInv, At, Woken, adopt, exit_end, TypeOK, Control,
     ForkOwner, ForkPc, Children, Zombies
<1>5. Parents'
  <2> USE SlotFacts DEF IInv, At, Woken, adopt, exit_end, TypeOK, Control, Parents
  <2>1. p # initproc
    BY Zenon DEF InitAlive
  <2>2. \A q \in Slot \ {p} : Live(q) => Live(q)'
    BY Zenon DEF Live
  <2>3. Live(initproc)'
    BY <2>1, <2>2 DEF InitAlive, Live, procstate
  <2>4. \A q \in Slot : parent'[q] # NoProc => parent'[q] # q /\ Live(parent[q])'
    BY <2>1, <2>2, <2>3
  <2>5. \A q \in Slot \ {initproc} :
          Live(q)' \/ state'[q] = "ZOMBIE" => parent'[q] # NoProc
    BY DEF Live
  <2>6. \A q \in Slot : state'[q] = "UNUSED" => parent'[q] = NoProc
    BY <2>1
  <2>7. \A r \in Slot : pc'[r] \in ForkPc => r # p /\ np'[r] \in Slot /\ np'[r] # p
    BY DEF ForkOwner, ForkPc
  <2>8. QED
    BY <2>1, <2>4, <2>5, <2>6, <2>7 DEF ForkOwner, ForkPc
<1>6. PidsTaken'
  BY SlotFacts DEF IInv, At, Woken, adopt, exit_end, TypeOK, Control,
     ForkOwner, ForkPc, PidsTaken, UniquePids, Children, Zombies
<1>7. NoLostExit'
  BY SlotFacts DEF IInv, At, Woken, adopt, exit_end, TypeOK, Control,
     InitAlive, ForkOwner, ForkPc, Parents, Live, NoLostExit, Children, Zombies
<1> QED BY <1>1, <1>2, <1>3, <1>4, <1>5, <1>6, <1>7 DEF IInv

(* The scan reaps one zombie child, gives up, or sleeps only when no child *)
(* is a zombie and the process is not killed.                              *)
LEMMA wait_inv ==
  ASSUME IInv, NEW p \in Slot, wait(p)
  PROVE IInv'
<1>1. TypeOK'
  <2> USE DEF IInv, wait, TypeOK, Pc, Calls, procstate
  <2>1. CASE wait_reap(p)
    BY <2>1 DEF wait_reap, NoProc
  <2>2. CASE wait_giveup(p)
    BY <2>2, Zenon DEF wait_giveup
  <2>3. CASE wait_sleep(p)
    BY <2>3, Zenon DEF wait_sleep
  <2>4. QED
    BY <2>1, <2>2, <2>3, Zenon
<1>2. Control'
  BY SlotFacts DEF IInv, At, Resumed, wait_reap, wait_giveup, wait_sleep,
     First, wait, TypeOK, Control, Children, Zombies
<1>3. InitAlive'
  BY SlotFacts DEF IInv, At, Resumed, wait_reap, wait_giveup, wait_sleep,
     First, wait, TypeOK, Control, InitAlive, ForkOwner, ForkPc, Children,
     Zombies
<1>4. ForkOwner'
  BY SlotFacts DEF IInv, At, Resumed, wait_reap, wait_giveup, wait_sleep,
     First, wait, TypeOK, Control, ForkOwner, ForkPc, Children, Zombies
<1>5. Parents'
  BY SlotFacts DEF IInv, At, Resumed, wait_reap, wait_giveup, wait_sleep,
     First, wait, TypeOK, Control, InitAlive, ForkOwner, ForkPc, Parents, Live,
     Children, Zombies
<1>6. PidsTaken'
  BY SlotFacts DEF IInv, At, Resumed, wait_reap, wait_giveup, wait_sleep,
     First, wait, TypeOK, Control, ForkOwner, ForkPc, PidsTaken, UniquePids,
     Children, Zombies
<1>7. NoLostExit'
  BY SlotFacts DEF IInv, At, Resumed, wait_reap, wait_giveup, wait_sleep,
     First, wait, TypeOK, Control, InitAlive, ForkOwner, ForkPc, Parents, Live,
     NoLostExit, Children, Zombies
<1> QED BY <1>1, <1>2, <1>3, <1>4, <1>5, <1>6, <1>7 DEF IInv

(* A sleeper that is killed does not stay asleep. *)
LEMMA kill_inv ==
  ASSUME IInv, NEW p \in Slot, NEW k \in KillArg, kill(p, k)
  PROVE IInv'
<1>1. TypeOK'
  BY SlotFacts, Zenon DEF IInv, At, rouse, First, kill, TypeOK, Pc, Calls, procstate
<1>2. Control'
  BY SlotFacts DEF IInv, At, rouse, First, kill, TypeOK, Control
<1>3. InitAlive'
  BY SlotFacts DEF IInv, At, rouse, First, kill, TypeOK, Control, InitAlive,
     ForkOwner, ForkPc
<1>4. ForkOwner'
  BY SlotFacts DEF IInv, At, rouse, First, kill, TypeOK, Control, ForkOwner,
     ForkPc
<1>5. Parents'
  BY SlotFacts DEF IInv, At, rouse, First, kill, TypeOK, Control, InitAlive,
     ForkOwner, ForkPc, Parents, Live
<1>6. PidsTaken'
  BY SlotFacts DEF IInv, At, rouse, First, kill, TypeOK, Control, ForkOwner,
     ForkPc, PidsTaken, UniquePids
<1>7. NoLostExit'
  BY SlotFacts DEF IInv, At, rouse, First, kill, TypeOK, Control, InitAlive,
     ForkOwner, ForkPc, Parents, Live, NoLostExit, Children, Zombies
<1> QED BY <1>1, <1>2, <1>3, <1>4, <1>5, <1>6, <1>7 DEF IInv

(* A test of a blocking call moves the caller's control. *)
LEMMA block_test_inv ==
  ASSUME IInv, NEW p \in Slot, NEW c \in {"user", "block"}, block_test(p, c)
  PROVE IInv'
<1>1. TypeOK'
  BY SlotFacts, Zenon DEF IInv, At, ptable, block_test, TypeOK, Pc, Calls, procstate
<1>2. Control'
  BY SlotFacts, Zenon DEF IInv, At, ptable, block_test, TypeOK, Control
<1>3. InitAlive'
  BY SlotFacts DEF IInv, At, ptable, block_test, TypeOK, Control, InitAlive,
     ForkOwner, ForkPc
<1>4. ForkOwner'
  BY SlotFacts DEF IInv, At, ptable, block_test, TypeOK, Control, ForkOwner,
     ForkPc
<1>5. Parents'
  BY SlotFacts DEF IInv, At, ptable, block_test, TypeOK, Control, InitAlive,
     ForkOwner, ForkPc, Parents, Live
<1>6. PidsTaken'
  BY SlotFacts DEF IInv, At, ptable, block_test, TypeOK, Control, ForkOwner,
     ForkPc, PidsTaken, UniquePids
<1>7. NoLostExit'
  BY SlotFacts DEF IInv, At, ptable, block_test, TypeOK, Control, InitAlive,
     ForkOwner, ForkPc, Parents, Live, NoLostExit, Children, Zombies
<1> QED BY <1>1, <1>2, <1>3, <1>4, <1>5, <1>6, <1>7, Zenon DEF IInv

(* Sleeping in a blocking call is not sleeping in wait(). *)
LEMMA sleep_inv ==
  ASSUME IInv, NEW p \in Slot, NEW c \in Chan, sleep(p, c)
  PROVE IInv'
<1>1. TypeOK'
  BY SlotFacts, Zenon DEF IInv, At, sleep, TypeOK, Pc, Calls, procstate
<1>2. Control'
  BY SlotFacts DEF IInv, At, sleep, TypeOK, Control
<1>3. InitAlive'
  BY SlotFacts DEF IInv, At, sleep, TypeOK, Control, InitAlive, ForkOwner,
     ForkPc
<1>4. ForkOwner'
  BY SlotFacts DEF IInv, At, sleep, TypeOK, Control, ForkOwner, ForkPc
<1>5. Parents'
  BY SlotFacts DEF IInv, At, sleep, TypeOK, Control, InitAlive, ForkOwner,
     ForkPc, Parents, Live
<1>6. PidsTaken'
  BY SlotFacts DEF IInv, At, sleep, TypeOK, Control, ForkOwner, ForkPc,
     PidsTaken, UniquePids
<1>7. NoLostExit'
  BY SlotFacts DEF IInv, At, sleep, TypeOK, Control, InitAlive, ForkOwner,
     ForkPc, Parents, Live, NoLostExit, Children, Zombies
<1> QED BY <1>1, <1>2, <1>3, <1>4, <1>5, <1>6, <1>7 DEF IInv

(* A preempted process keeps its control. *)
LEMMA yield_inv ==
  ASSUME IInv, NEW p \in Slot, yield(p)
  PROVE IInv'
<1>1. TypeOK'
  BY SlotFacts, Zenon DEF IInv, yield, TypeOK, Pc, Calls, procstate
<1>2. Control'
  BY SlotFacts, Zenon DEF IInv, yield, TypeOK, Control
<1>3. InitAlive'
  BY SlotFacts, Zenon DEF IInv, yield, TypeOK, Control, InitAlive, ForkOwner, ForkPc
<1>4. ForkOwner'
  BY SlotFacts DEF IInv, yield, TypeOK, Control, ForkOwner, ForkPc
<1>5. Parents'
  BY SlotFacts DEF IInv, yield, TypeOK, Control, InitAlive, ForkOwner, ForkPc,
     Parents, Live
<1>6. PidsTaken'
  BY SlotFacts DEF IInv, yield, TypeOK, Control, ForkOwner, ForkPc, PidsTaken,
     UniquePids
<1>7. NoLostExit'
  BY SlotFacts DEF IInv, yield, TypeOK, Control, InitAlive, ForkOwner, ForkPc,
     Parents, Live, NoLostExit, Children, Zombies
<1> QED BY <1>1, <1>2, <1>3, <1>4, <1>5, <1>6, <1>7 DEF IInv

(* A chosen process keeps its control. *)
LEMMA scheduler_inv ==
  ASSUME IInv, NEW p \in Slot, scheduler(p)
  PROVE IInv'
<1>1. TypeOK'
  BY SlotFacts, Zenon DEF IInv, scheduler, TypeOK, Pc, Calls, procstate
<1>2. Control'
  BY SlotFacts, Zenon DEF IInv, scheduler, TypeOK, Control
<1>3. InitAlive'
  BY SlotFacts, Zenon DEF IInv, scheduler, TypeOK, Control, InitAlive, ForkOwner,
     ForkPc
<1>4. ForkOwner'
  BY SlotFacts DEF IInv, scheduler, TypeOK, Control, ForkOwner, ForkPc
<1>5. Parents'
  BY SlotFacts DEF IInv, scheduler, TypeOK, Control, InitAlive, ForkOwner,
     ForkPc, Parents, Live
<1>6. PidsTaken'
  BY SlotFacts DEF IInv, scheduler, TypeOK, Control, ForkOwner, ForkPc,
     PidsTaken, UniquePids
<1>7. NoLostExit'
  BY SlotFacts DEF IInv, scheduler, TypeOK, Control, InitAlive, ForkOwner,
     ForkPc, Parents, Live, NoLostExit, Children, Zombies
<1> QED BY <1>1, <1>2, <1>3, <1>4, <1>5, <1>6, <1>7 DEF IInv

(* Waking sleepers of a channel that is no process's own. *)
LEMMA wakeup_inv ==
  ASSUME IInv, NEW c \in Chan, wakeup(c)
  PROVE IInv'
<1> USE SlotFacts DEF IInv, wakeup, wakeup1, TypeOK
<1>1. TypeOK'
  BY Zenon DEF procstate
<1>2. Control' /\ InitAlive'
  BY Zenon DEF Control, InitAlive
<1>3. ForkOwner'
  BY Zenon DEF ForkOwner
<1>4. Parents'
  BY DEF ForkOwner, ForkPc, Parents, Live
<1>5. PidsTaken' /\ NoLostExit'
  BY DEF PidsTaken, UniquePids, NoLostExit, Children, Zombies
<1> QED BY <1>1, <1>2, <1>3, <1>4, <1>5, Zenon

(* A stuttering step. *)
LEMMA stutter_inv == IInv /\ UNCHANGED vars => IInv'
  BY DEF IInv, vars, ptable, TypeOK, Control, InitAlive, ForkOwner, Parents,
         PidsTaken, UniquePids, NoLostExit, Children, Zombies, Live

(* The state userinit() leaves satisfies the invariant. *)
LEMMA Init_inv == Init => IInv
<1> SUFFICES ASSUME Init PROVE IInv
  OBVIOUS
<1> USE ProcAssumption, SlotFacts DEF Init
<1>1. TypeOK
  <2>1. state \in [Slot -> procstate] /\ pc \in [Slot -> Pc]
    BY Zenon DEF procstate, Pc
  <2>2. pid \in [Slot -> Nat] /\ nextpid \in Nat \ {0}
    OBVIOUS
  <2>3. /\ parent \in [Slot -> Slot \cup {NoProc}]
        /\ np \in [Slot -> Slot \cup {NoProc}]
        /\ chan \in [Slot -> Chan \cup Slot \cup {0}]
    OBVIOUS
  <2>4. killed \in [Slot -> BOOLEAN] /\ panicked \in BOOLEAN
    BY Zenon
  <2>5. status \in [Slot -> Status]
    OBVIOUS
  <2> QED BY <2>1, <2>2, <2>3, <2>4, <2>5, Zenon DEF TypeOK
<1>2. Control /\ InitAlive /\ ForkOwner
  BY Zenon DEF Control, InitAlive, ForkOwner, ForkPc
<1>3. Parents
  BY Zenon DEF Parents, Live
<1>4. PidsTaken
  BY DEF PidsTaken, UniquePids
<1>5. NoLostExit
  BY Zenon DEF NoLostExit
<1> QED BY <1>1, <1>2, <1>3, <1>4, <1>5, Zenon DEF IInv

(* Every step preserves the invariant: one case per action. *)
LEMMA Next_inv == IInv /\ [Next]_vars => IInv'
<1> SUFFICES ASSUME IInv, [Next]_vars PROVE IInv'
  OBVIOUS
<1>1. ASSUME NEW p \in Slot, Kernel(p) PROVE IInv'
  BY <1>1, allocproc_inv, allocproc_none_inv, fork_fail_inv, kstack_ok_inv,
     copyuvm_ok_inv, fork_end_inv, trap_exit_inv, exit_end_inv, wait_inv,
     kill_inv, block_test_inv, sleep_inv, Zenon DEF Kernel
<1>2. ASSUME NEW p \in Slot, User(p) PROVE IInv'
  BY <1>2, syscall_inv, fault_inv, sys_exit_inv, Zenon DEF User
<1>3. ASSUME NEW p \in Slot, yield(p) \/ scheduler(p) PROVE IInv'
  BY <1>3, yield_inv, scheduler_inv, Zenon
<1>4. ASSUME NEW c \in Chan, wakeup(c) PROVE IInv'
  BY <1>4, wakeup_inv, Zenon
<1>5. CASE Halted \/ UNCHANGED vars
  BY <1>5, stutter_inv, Zenon DEF Halted
<1> QED BY <1>1, <1>2, <1>3, <1>4, <1>5, Zenon DEF Next

-----------------------------------------------------------------------------
(* IInv holds in every reachable state of the process table. *)
THEOREM Invariance == Spec => []IInv
  BY Init_inv, Next_inv, PTL DEF Spec

(* Every field of the process table keeps its type: no step writes past the *)
(* table or stores a foreign value in it.                                   *)
THEOREM TypeCorrect == Spec => []TypeOK
<1>1. IInv => TypeOK
  BY Zenon DEF IInv
<1> QED BY <1>1, Invariance, PTL

(* wait() misses neither the exit of a child, nor a zombie that exit() hands *)
(* to init, nor a kill().                                                    *)
THEOREM WaitMissesNothing == Spec => []NoLostExit
<1>1. IInv => NoLostExit
  BY Zenon DEF IInv
<1> QED BY <1>1, Invariance, PTL

(* Every process but init has a live parent that can reap it. *)
THEOREM NoProcessIsOrphaned == Spec => []NoOrphan
<1>1. IInv => NoOrphan
  BY SlotFacts, Zenon DEF IInv, TypeOK, Parents, NoOrphan
<1> QED BY <1>1, Invariance, PTL

(* The failure paths of fork() leak no slot and no two forks share one. *)
THEOREM EmbryosAreOwned == Spec => []EmbryoOwned
<1>1. IInv => EmbryoOwned
  BY DEF IInv, TypeOK, Control, ForkOwner, ForkPc, EmbryoOwned, Live, procstate
<1> QED BY <1>1, Invariance, PTL

(* No two processes share a pid, whatever forks failed before. *)
THEOREM PidsAreUnique == Spec => []UniquePids
<1>1. IInv => UniquePids
  BY Zenon DEF IInv, PidsTaken
<1> QED BY <1>1, Invariance, PTL

(* The status of an exiting process is fixed once exit() is entered. *)
THEOREM StatusIsKept == Spec => ExitStatusKept
<1> DEFINE Kept == \A p \in Slot : pc[p] = "exit" /\ pc'[p] = "exit"
                                    => status'[p] = status[p]
<1>1. IInv /\ [Next]_vars => Kept \/ UNCHANGED vars
  <2> SUFFICES ASSUME IInv, [Next]_vars PROVE Kept \/ UNCHANGED vars
    OBVIOUS
  <2> USE DEF IInv, TypeOK
  <2>1. ASSUME NEW p \in Slot, NEW s \in Status, sys_exit(p, s) PROVE Kept
    BY <2>1, Zenon DEF sys_exit, At, exit_begin
  <2>2. ASSUME NEW p \in Slot, trap_exit(p) PROVE Kept
    BY <2>2, Zenon DEF trap_exit, ForcedOut, exit_begin
  <2>3. ASSUME UNCHANGED status PROVE Kept
    BY <2>3, Zenon
  <2>4. ASSUME NEW p \in Slot, Kernel(p), ~trap_exit(p) PROVE UNCHANGED status
    BY <2>4, Zenon DEF Kernel, allocproc, allocproc_none, fork_fail, kstack_ok,
       copyuvm_ok, fork_end, exit_end, wait, kill, block_test, sleep, ptable
  <2>5. ASSUME NEW p \in Slot, User(p), ~\E s \in Status : sys_exit(p, s)
        PROVE UNCHANGED status
    BY <2>5, Zenon DEF User, syscall, fault, ptable
  <2>6. ASSUME NEW p \in Slot, yield(p) \/ scheduler(p) PROVE UNCHANGED status
    BY <2>6, Zenon DEF yield, scheduler
  <2>7. ASSUME NEW c \in Chan, wakeup(c) PROVE UNCHANGED status
    BY <2>7, Zenon DEF wakeup
  <2> QED BY <2>1, <2>2, <2>3, <2>4, <2>5, <2>6, <2>7, Zenon DEF Next, Halted
<1>2. Spec => [][Kept]_vars
  BY <1>1, Invariance, PTL DEF Spec
<1> QED BY <1>2, Zenon DEF ExitStatusKept
=============================================================================
