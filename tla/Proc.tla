-------------------------------- MODULE Proc --------------------------------
(***************************************************************************)
(* The life of a process: allocproc, fork, exit, wait, kill, sleep,       *)
(* wakeup, yield and the scheduler's choice (proc.c), with the exits that *)
(* trap() forces on a killed process (trap.c).                             *)
(*                                                                         *)
(* One step is one critical section of ptable.lock, or one stretch of     *)
(* kernel code between two of them that writes the process table without  *)
(* the lock (the failure paths of fork).  Module Sched models the lock,    *)
(* the CPUs and swtch() that make these sections atomic.                   *)
(*                                                                         *)
(* pc[p] says where process p is:                                          *)
(*   user     in user space             fork     before allocproc()        *)
(*   kstack   before kalloc()           copyuvm  before copyuvm()          *)
(*   forkend  before np->state write    wait     before wait()'s acquire   *)
(*   waiting  asleep in wait()          kill     before kill()'s acquire   *)
(*   loop     testing the condition of a blocking call                     *)
(*   block    after the test, before sleep() has ptable.lock               *)
(*   exit     in exit(), up to and including ZOMBIE                        *)
(*   none     the slot holds no running program                            *)
(***************************************************************************)
EXTENDS Integers, FiniteSets

CONSTANTS NPROC,    \* slots of ptable.proc (param.h)
          NCPU,     \* processors
          Chan,     \* sleep channels other than a process's own address
          Status,   \* values passed to exit()
          KillArg,  \* pids passed to kill()
          MaxPid    \* bound on nextpid

Slot == 1..NPROC
initproc == 1
NoProc == 0
EXIT_STATUS_OK == 1

ASSUME ProcAssumption ==
  /\ NPROC \in Nat \ {0}
  /\ NCPU \in Nat \ {0}
  /\ MaxPid \in Nat \ {0}
  /\ EXIT_STATUS_OK \in Status
  /\ KillArg \subseteq Int
  /\ Chan \cap (0..NPROC) = {}

VARIABLES state, pid, parent, chan, killed, status,  \* struct proc
          nextpid,                                   \* static counter
          pc, np,                                    \* control; fork's child
          panicked                                   \* panic() was called

ptable == <<state, pid, parent, chan, killed, status>>
vars == <<ptable, nextpid, pc, np, panicked>>

procstate == {"UNUSED", "EMBRYO", "SLEEPING", "RUNNABLE", "RUNNING", "ZOMBIE"}
Calls == {"fork", "wait", "kill", "loop"}
Pc == Calls \cup {"none", "user", "kstack", "copyuvm", "forkend", "waiting",
                  "block", "exit"}

(* The slot a scan of the table from its start stops at. *)
First(q, S) == q \in S /\ \A r \in S : q <= r

Unused == {q \in Slot : state[q] = "UNUSED"}
Running == {q \in Slot : state[q] = "RUNNING"}
Children(p) == {q \in Slot : parent[q] = p}

(* Mutant: the scan of wait() looks at the first child only. *)
Zombies_first(p) ==
  {q \in Children(p) : state[q] = "ZOMBIE" /\ First(q, Children(p))}

(* The children wait() can reap. *)
Zombies(p) == {q \in Children(p) : state[q] = "ZOMBIE"}

(* Process p has a CPU and executes at c. *)
At(p, c) == ~panicked /\ state[p] = "RUNNING" /\ pc[p] = c

(* The state field after wakeup1(c): every sleeper on c becomes RUNNABLE. *)
wakeup1(c) ==
  [q \in Slot |-> IF state[q] = "SLEEPING" /\ chan[q] = c
                  THEN "RUNNABLE" ELSE state[q]]

(* userinit() has made the first process runnable. *)
Init ==
  /\ state = [p \in Slot |-> IF p = initproc THEN "RUNNABLE" ELSE "UNUSED"]
  /\ pid = [p \in Slot |-> IF p = initproc THEN 1 ELSE 0]
  /\ parent = [p \in Slot |-> NoProc]
  /\ chan = [p \in Slot |-> 0]
  /\ killed = [p \in Slot |-> FALSE]
  /\ status = [p \in Slot |-> EXIT_STATUS_OK]
  /\ nextpid = 2
  /\ pc = [p \in Slot |-> IF p = initproc THEN "user" ELSE "none"]
  /\ np = [p \in Slot |-> NoProc]
  /\ panicked = FALSE

-----------------------------------------------------------------------------
(* trap() on entry to a system call: a killed process does not get here. *)
syscall(p, c) ==
  /\ At(p, "user")
  /\ ~killed[p]
  /\ pc' = [pc EXCEPT ![p] = c]
  /\ UNCHANGED <<ptable, nextpid, np, panicked>>

(* A fault in user space marks the process killed. *)
fault(p) ==
  /\ At(p, "user")
  /\ killed' = [killed EXCEPT ![p] = TRUE]
  /\ UNCHANGED <<state, pid, parent, chan, status, nextpid, pc, np, panicked>>

(* allocproc() finds no UNUSED slot: fork() returns -1.  At the bound on *)
(* nextpid processes outside the model may have filled the table.        *)
allocproc_none(p) ==
  /\ At(p, "fork")
  /\ Unused = {} \/ nextpid > MaxPid
  /\ pc' = [pc EXCEPT ![p] = "user"]
  /\ UNCHANGED <<ptable, nextpid, np, panicked>>

(* Mutant: nextpid is read and not incremented. *)
take_pid_stuck(q) == pid' = [pid EXCEPT ![q] = nextpid] /\ UNCHANGED nextpid

(* p->pid = nextpid++ *)
take_pid(q) == pid' = [pid EXCEPT ![q] = nextpid] /\ nextpid' = nextpid + 1

(* allocproc() up to its release takes the first UNUSED slot. *)
allocproc(p) ==
  /\ At(p, "fork")
  /\ nextpid <= MaxPid
  /\ \E q \in Slot :
       /\ First(q, Unused)
       /\ state' = [state EXCEPT ![q] = "EMBRYO"]
       /\ take_pid(q)
       /\ np' = [np EXCEPT ![p] = q]
  /\ pc' = [pc EXCEPT ![p] = "kstack"]
  /\ UNCHANGED <<parent, chan, killed, status, panicked>>

(* Mutant: the failure path forgets the slot. *)
give_back_nothing(q) == UNCHANGED state

(* The slot goes back to UNUSED without ptable.lock; pid and killed stay. *)
give_back(q) == state' = [state EXCEPT ![q] = "UNUSED"]

(* kalloc() of the kernel stack (at kstack) or copyuvm() (at copyuvm) fails. *)
fork_fail(p) ==
  /\ At(p, "kstack") \/ At(p, "copyuvm")
  /\ give_back(np[p])
  /\ np' = [np EXCEPT ![p] = NoProc]
  /\ pc' = [pc EXCEPT ![p] = "user"]
  /\ UNCHANGED <<pid, parent, chan, killed, status, nextpid, panicked>>

kstack_ok(p) ==
  /\ At(p, "kstack")
  /\ pc' = [pc EXCEPT ![p] = "copyuvm"]
  /\ UNCHANGED <<ptable, nextpid, np, panicked>>

(* np->parent = proc, and the files are duplicated, without ptable.lock. *)
copyuvm_ok(p) ==
  /\ At(p, "copyuvm")
  /\ parent' = [parent EXCEPT ![np[p]] = p]
  /\ pc' = [pc EXCEPT ![p] = "forkend"]
  /\ UNCHANGED <<state, pid, chan, killed, status, nextpid, np, panicked>>

(* The child becomes RUNNABLE; its saved context returns to user space. *)
fork_end(p) ==
  /\ At(p, "forkend")
  /\ state' = [state EXCEPT ![np[p]] = "RUNNABLE"]
  /\ pc' = [pc EXCEPT ![p] = "user", ![np[p]] = "user"]
  /\ np' = [np EXCEPT ![p] = NoProc]
  /\ UNCHANGED <<pid, parent, chan, killed, status, nextpid, panicked>>

-----------------------------------------------------------------------------
(* exit(s) up to its acquire of ptable.lock.  The status is stored just before *)
(* the acquire; nobody reads it before the process is a ZOMBIE.                *)
exit_begin(p, s) ==
  /\ IF p = initproc
     THEN panicked' = TRUE /\ UNCHANGED <<status, pc>>
     ELSE /\ status' = [status EXCEPT ![p] = s]
          /\ pc' = [pc EXCEPT ![p] = "exit"]
          /\ UNCHANGED panicked
  /\ UNCHANGED <<state, pid, parent, chan, killed, nextpid, np>>

sys_exit(p, s) == At(p, "user") /\ ~killed[p] /\ exit_begin(p, s)

(* Mutant: trap() does not look at the privilege level of the trapped code. *)
ForcedOut_any(p) == killed[p]

(* Mutant: trap() returns to user space without a test. *)
ForcedOut_never(p) == FALSE

(* Whether trap() may force p out: killed, and the trap came from user mode *)
(* or is the end of a system call.                                          *)
ForcedOut(p) == killed[p] /\ pc[p] = "user"

trap_exit(p) ==
  /\ ~panicked /\ state[p] = "RUNNING"
  /\ ForcedOut(p)
  /\ exit_begin(p, EXIT_STATUS_OK)

(* Mutant: the parent is not woken. *)
Woken_no_parent(p) == IF Zombies(p) # {} THEN {initproc} ELSE {}

(* The channels exit() wakes: its parent's, and init's if init inherits a *)
(* zombie.                                                                *)
Woken(p) == {parent[p]} \cup (IF Zombies(p) # {} THEN {initproc} ELSE {})

(* Mutant: the children keep their dead parent. *)
adopt_nothing(p) == UNCHANGED parent

(* exit() passes abandoned children to init. *)
adopt(p) ==
  parent' = [q \in Slot |-> IF parent[q] = p THEN initproc ELSE parent[q]]

(* exit() under ptable.lock, up to sched(). *)
exit_end(p) ==
  /\ At(p, "exit")
  /\ state' = [q \in Slot |->
                 IF q = p THEN "ZOMBIE"
                 ELSE IF state[q] = "SLEEPING" /\ chan[q] \in Woken(p)
                 THEN "RUNNABLE" ELSE state[q]]
  /\ adopt(p)
  /\ UNCHANGED <<pid, chan, killed, status, nextpid, pc, np, panicked>>

(* The scan of wait(), entered with ptable.lock by a running process or by a *)
(* waiter the scheduler has just resumed: reap the first zombie child, give  *)
(* up, or sleep on the process's own address.                                *)
wait_reap(p) ==
  \E q \in Slot :
    /\ First(q, Zombies(p))
    /\ state' = [state EXCEPT ![p] = "RUNNING", ![q] = "UNUSED"]
    /\ pid' = [pid EXCEPT ![q] = 0]
    /\ parent' = [parent EXCEPT ![q] = NoProc]
    /\ killed' = [killed EXCEPT ![q] = FALSE]
    /\ chan' = [chan EXCEPT ![p] = 0]
    /\ pc' = [pc EXCEPT ![p] = "user", ![q] = "none"]

wait_giveup(p) ==
  /\ Zombies(p) = {}
  /\ Children(p) = {} \/ killed[p]
  /\ state' = [state EXCEPT ![p] = "RUNNING"]
  /\ chan' = [chan EXCEPT ![p] = 0]
  /\ pc' = [pc EXCEPT ![p] = "user"]
  /\ UNCHANGED <<pid, parent, killed>>

wait_sleep(p) ==
  /\ Zombies(p) = {}
  /\ Children(p) # {} /\ ~killed[p]
  /\ state' = [state EXCEPT ![p] = "SLEEPING"]
  /\ chan' = [chan EXCEPT ![p] = p]
  /\ pc' = [pc EXCEPT ![p] = "waiting"]
  /\ UNCHANGED <<pid, parent, killed>>

CpuFree == Cardinality(Running) < NCPU

Resumed(p) == ~panicked /\ state[p] = "RUNNABLE" /\ pc[p] = "waiting" /\ CpuFree

wait(p) ==
  /\ At(p, "wait") \/ Resumed(p)
  /\ wait_reap(p) \/ wait_giveup(p) \/ wait_sleep(p)
  /\ UNCHANGED <<status, nextpid, np, panicked>>

-----------------------------------------------------------------------------
(* kill() makes the process it hits runnable if it sleeps. *)
rouse(H) ==
  state' = [q \in Slot |-> IF q \in H /\ state[q] = "SLEEPING"
                           THEN "RUNNABLE" ELSE state[q]]

(* kill(k) hits the first slot with that pid, whatever its state; a pid no *)
(* slot has changes nothing but the caller.                                *)
kill(p, k) ==
  /\ At(p, "kill")
  /\ LET H == {q \in Slot : First(q, {r \in Slot : pid[r] = k})}
     IN killed' = [q \in Slot |-> killed[q] \/ q \in H] /\ rouse(H)
  /\ pc' = [pc EXCEPT ![p] = "user"]
  /\ UNCHANGED <<pid, parent, chan, status, nextpid, np, panicked>>

(* A blocking kernel call tests its condition: done, or about to sleep. *)
block_test(p, c) ==
  /\ At(p, "loop")
  /\ pc' = [pc EXCEPT ![p] = c]
  /\ UNCHANGED <<ptable, nextpid, np, panicked>>

(* sleep(c, lk) under ptable.lock, from a blocking system call or from the *)
(* file system operations inside exit().                                    *)
sleep(p, c) ==
  /\ At(p, "block") \/ At(p, "exit")
  /\ chan' = [chan EXCEPT ![p] = c]
  /\ state' = [state EXCEPT ![p] = "SLEEPING"]
  /\ pc' = [pc EXCEPT ![p] = IF @ = "block" THEN "loop" ELSE @]
  /\ UNCHANGED <<pid, parent, killed, status, nextpid, np, panicked>>

(* wakeup(c), by an interrupt handler or another process's system call. *)
wakeup(c) ==
  /\ ~panicked
  /\ \E q \in Slot : state[q] = "SLEEPING" /\ chan[q] = c
  /\ state' = wakeup1(c)
  /\ UNCHANGED <<pid, parent, chan, killed, status, nextpid, pc, np, panicked>>

(* A timer interrupt takes the CPU from a process that holds no lock. *)
yield(p) ==
  /\ ~panicked /\ state[p] = "RUNNING"
  /\ state' = [state EXCEPT ![p] = "RUNNABLE"]
  /\ UNCHANGED <<pid, parent, chan, killed, status, nextpid, pc, np, panicked>>

(* A CPU picks p; the end of sleep() clears chan before the lock is dropped. *)
(* A process resumed inside wait() goes on with its scan: see wait(p).       *)
scheduler(p) ==
  /\ ~panicked /\ state[p] = "RUNNABLE" /\ pc[p] # "waiting"
  /\ CpuFree
  /\ state' = [state EXCEPT ![p] = "RUNNING"]
  /\ chan' = [chan EXCEPT ![p] = 0]
  /\ UNCHANGED <<pid, parent, killed, status, nextpid, pc, np, panicked>>

-----------------------------------------------------------------------------
(* The steps the kernel takes on behalf of p once p is inside it. *)
Kernel(p) ==
  \/ allocproc(p) \/ allocproc_none(p) \/ fork_fail(p)
  \/ kstack_ok(p) \/ copyuvm_ok(p) \/ fork_end(p)
  \/ trap_exit(p) \/ exit_end(p) \/ wait(p)
  \/ \E k \in KillArg : kill(p, k)
  \/ \E c \in {"user", "block"} : block_test(p, c)
  \/ \E c \in Chan : sleep(p, c)

(* What the program in user space does. *)
User(p) ==
  \/ \E c \in Calls : syscall(p, c)
  \/ fault(p)
  \/ \E s \in Status : sys_exit(p, s)

(* After panic() the machine spins: nothing more is modelled. *)
Halted == panicked /\ UNCHANGED vars

Next ==
  \/ \E p \in Slot : Kernel(p) \/ User(p) \/ yield(p) \/ scheduler(p)
  \/ \E c \in Chan : wakeup(c)
  \/ Halted

Spec == Init /\ [][Next]_vars

(* The progress of process p.  The scheduler's scan reaches its slot again  *)
(* and again; in the kernel it moves on between two timer interrupts; a     *)
(* blocking call does not fail its test for ever and exit() blocks finitely *)
(* often.                                                                   *)
Progress(p) ==
  /\ SF_vars(scheduler(p)) /\ SF_vars(Kernel(p))
  /\ SF_vars(block_test(p, "user") \/ exit_end(p))

(* The timer takes the CPU from whoever keeps it, and events are signalled. *)
Interrupts ==
  /\ \A p \in Slot : WF_vars(yield(p))
  /\ \A c \in Chan : WF_vars(wakeup(c))

(* init makes progress and its loop calls wait() again and again (init.c), *)
(* and so does one other process; nothing is assumed of the rest.          *)
someproc == 2

FairSpec ==
  /\ Spec /\ Interrupts
  /\ Progress(initproc) /\ SF_vars(syscall(initproc, "wait"))
  /\ Progress(someproc)

-----------------------------------------------------------------------------
TypeOK ==
  /\ state \in [Slot -> procstate]
  /\ pid \in [Slot -> Nat]
  /\ parent \in [Slot -> Slot \cup {NoProc}]
  /\ chan \in [Slot -> Chan \cup Slot \cup {0}]
  /\ killed \in [Slot -> BOOLEAN]
  /\ status \in [Slot -> Status]
  /\ nextpid \in Nat \ {0}
  /\ pc \in [Slot -> Pc]
  /\ np \in [Slot -> Slot \cup {NoProc}]
  /\ panicked \in BOOLEAN

Live(p) == state[p] \in {"RUNNABLE", "RUNNING", "SLEEPING"}

(* No exit or kill is missed by wait(): a process asleep in wait() still has *)
(* a child to wait for, none of its children is a zombie, and it is not      *)
(* killed.  Exits, hand-overs to init and kills interleave with wait().      *)
NoLostExit ==
  \A p \in Slot : state[p] = "SLEEPING" /\ pc[p] = "waiting" =>
    Children(p) # {} /\ Zombies(p) = {} /\ ~killed[p]

(* Every process but init, a zombie included, has a parent that can still *)
(* reap it: exit() leaves no orphan behind.                               *)
NoOrphan ==
  \A q \in Slot \ {initproc} : Live(q) \/ state[q] = "ZOMBIE" =>
    parent[q] \in Slot /\ Live(parent[q])

(* A slot is EMBRYO exactly while one live process is in the middle of fork() *)
(* with it: the failure paths leak no slot, no two forks share one, and no    *)
(* process dies while it owns one.                                            *)
EmbryoOwned ==
  \A q \in Slot :
    LET Owners == {p \in Slot : pc[p] \in {"kstack", "copyuvm", "forkend"} /\ np[p] = q}
    IN /\ state[q] = "EMBRYO" <=> Owners # {}
       /\ \A p, r \in Owners : p = r /\ Live(p)

(* Pids name processes: two slots in use never have the same pid, stale pids *)
(* of failed forks included, and a slot in use has one.                      *)
UniquePids ==
  \A p, q \in Slot :
    /\ pid[p] = pid[q] /\ pid[p] # 0 => p = q
    /\ state[p] # "UNUSED" => pid[p] # 0

(* The status given to exit() is the one the parent reads: no kill or timer *)
(* trap between exit() and the parent's wait() changes it.                  *)
ExitStatusKept ==
  [][\A p \in Slot : pc[p] = "exit" /\ pc'[p] = "exit" => status'[p] = status[p]]_vars

(* init reaps every zombie handed to it or born to it. *)
InitReaps ==
  \A q \in Slot \ {initproc} : (state[q] = "ZOMBIE" /\ parent[q] = initproc)
                     ~> (state[q] = "UNUSED" \/ panicked)

(* A process killed while it waits for a child exits. *)
KilledWaiterExits ==
  (pc[someproc] = "waiting" /\ killed[someproc])
    ~> (state[someproc] = "ZOMBIE" \/ panicked)

=============================================================================
