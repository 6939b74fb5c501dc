-------------------------------- MODULE Sched --------------------------------
(***************************************************************************)
(* CPUs, interrupts, spin locks and context switches (spinlock.c, the      *)
(* scheduler, sched, yield, sleep and wakeup of proc.c, the timer branch   *)
(* of trap.c), driven by processes that call sys_sleep() for one tick and  *)
(* by the timer that wakes them.  tickslock and ptable.lock are the two    *)
(* locks, taken in that order.                                             *)
(*                                                                         *)
(* A context is a process or a CPU's scheduler; each has a control point   *)
(* pc and, on top of it, an interrupt frame irq.  A CPU executes one       *)
(* context, cur[c], at its topmost frame.  Contexts move between CPUs only *)
(* by swtch(), in sched() and scheduler().                                 *)
(*                                                                         *)
(*   process     user, sleep_tl, enter, test, sleep_pt, asleep, sched_s,   *)
(*               resume_s, sleep_re, forkret, trapret                      *)
(*   interrupt   tick_tl, tick, tick_pt, wake, tick_done, after, yield_pt, *)
(*               yielding, sched_y, resume_y, iret                         *)
(*   scheduler   idle, sched_pt, scan                                      *)
(***************************************************************************)
EXTENDS Integers, FiniteSets

CONSTANTS Proc, CPU,
          BootCpu,  \* the CPU with id 0, whose timer advances ticks
          Free      \* a lock nobody holds, a frame that is not there

ASSUME SchedAssumption ==
  /\ BootCpu \in CPU
  /\ Proc \cap CPU = {}
  /\ Free \notin CPU
  /\ IsFiniteSet(Proc)

Ctx == Proc \cup CPU

VARIABLES lock,               \* holder of tickslock and of ptable.lock
          IF_, ncli, intena,  \* per CPU: eflags.IF, cpu->ncli, cpu->intena
          spin,               \* per CPU: inside acquire() after pushcli()
          cur,                \* per CPU: the context it executes
          pc, irq,            \* per context: control point, interrupt frame
          state,              \* p->state
          saved,              \* the local intena of sched()
          due,                \* ticks - ticks0 < n is false for the process
          panicked

cpuVars == <<IF_, ncli, intena>>
vars == <<lock, cpuVars, spin, cur, pc, irq, state, saved, due, panicked>>

(* Mutant: the timer handler takes ptable.lock first. *)
Site_swapped ==
  [sleep_tl |-> <<"tickslock", "enter">>,
   sleep_pt |-> <<"ptable", "asleep">>,
   sleep_re |-> <<"tickslock", "test">>,
   tick_tl  |-> <<"ptable", "tick">>,
   tick_pt  |-> <<"tickslock", "wake">>,
   yield_pt |-> <<"ptable", "yielding">>,
   sched_pt |-> <<"ptable", "scan">>]

(* Mutant: ticks0 is read again in every turn of the loop of sys_sleep(). *)
Site_reset ==
  [sleep_tl |-> <<"tickslock", "enter">>,
   sleep_pt |-> <<"ptable", "asleep">>,
   sleep_re |-> <<"tickslock", "enter">>,
   tick_tl  |-> <<"tickslock", "tick">>,
   tick_pt  |-> <<"ptable", "wake">>,
   yield_pt |-> <<"ptable", "yielding">>,
   sched_pt |-> <<"ptable", "scan">>]

(* The calls of acquire(): the lock and the place after it. *)
Site ==
  [sleep_tl |-> <<"tickslock", "enter">>,
   sleep_pt |-> <<"ptable", "asleep">>,
   sleep_re |-> <<"tickslock", "test">>,
   tick_tl  |-> <<"tickslock", "tick">>,
   tick_pt  |-> <<"ptable", "wake">>,
   yield_pt |-> <<"ptable", "yielding">>,
   sched_pt |-> <<"ptable", "scan">>]

Pcs == DOMAIN Site \cup {"user", "enter", "test", "asleep", "sched_s", "resume_s",
       "forkret", "trapret", "tick", "wake", "tick_done", "after", "yielding", "sched_y",
       "resume_y", "iret", "idle", "scan"}

ASSUME FrameAssumption == Free \notin Pcs

Init ==
  /\ lock = [l \in {"tickslock", "ptable"} |-> Free]
  /\ IF_ = [c \in CPU |-> FALSE]
  /\ ncli = [c \in CPU |-> 0]
  /\ intena = [c \in CPU |-> FALSE]
  /\ spin = [c \in CPU |-> FALSE]
  /\ cur = [c \in CPU |-> c]
  /\ pc = [x \in Ctx |-> IF x \in Proc THEN "forkret" ELSE "idle"]
  /\ irq = [x \in Ctx |-> Free]
  /\ state = [p \in Proc |-> "RUNNABLE"]
  /\ saved = [p \in Proc |-> FALSE]
  /\ due = [p \in Proc |-> FALSE]
  /\ panicked = FALSE

(* Where CPU c executes, and a jump of its topmost frame. *)
Here(c) == IF irq[cur[c]] # Free THEN irq[cur[c]] ELSE pc[cur[c]]
At(c, l) == ~panicked /\ ~spin[c] /\ Here(c) = l
Goto(c, l) ==
  IF irq[cur[c]] # Free
  THEN irq' = [irq EXCEPT ![cur[c]] = l] /\ UNCHANGED pc
  ELSE pc' = [pc EXCEPT ![cur[c]] = l] /\ UNCHANGED irq

holding(c, l) == lock[l] = c

Panic == panicked' = TRUE /\ UNCHANGED <<lock, cpuVars, spin, cur, pc, irq, state,
                                         saved, due>>

-----------------------------------------------------------------------------
(* acquire(): pushcli() and the check for a lock this CPU holds already. *)
pushcli(c) ==
  /\ \E l \in DOMAIN Site :
       /\ At(c, l)
       /\ IF holding(c, Site[l][1])
          THEN Panic
          ELSE /\ IF_' = [IF_ EXCEPT ![c] = FALSE]
               /\ ncli' = [ncli EXCEPT ![c] = @ + 1]
               /\ intena' = [intena EXCEPT ![c] = IF ncli[c] = 0 THEN IF_[c] ELSE @]
               /\ spin' = [spin EXCEPT ![c] = TRUE]
               /\ UNCHANGED <<lock, cur, pc, irq, state, saved, due, panicked>>

(* acquire(): the xchg that finds the lock free. *)
xchg(c) ==
  /\ ~panicked /\ spin[c]
  /\ LET s == Site[Here(c)]
     IN /\ lock[s[1]] = Free
        /\ lock' = [lock EXCEPT ![s[1]] = c]
        /\ Goto(c, s[2])
  /\ spin' = [spin EXCEPT ![c] = FALSE]
  /\ UNCHANGED <<cpuVars, cur, state, saved, due, panicked>>

(* release(l) with popcli(), given the intena in force; the callers add the *)
(* panics of both with CanRelease.                                          *)
CanRelease(c, l) == holding(c, l) /\ ~IF_[c] /\ ncli[c] >= 1

(* popcli(). *)
popcli(c, ena) ==
  /\ ncli' = [ncli EXCEPT ![c] = @ - 1]
  /\ intena' = [intena EXCEPT ![c] = ena]
  /\ IF_' = [IF_ EXCEPT ![c] = ncli[c] = 1 /\ ena]

release(c, l, ena) == lock' = [lock EXCEPT ![l] = Free] /\ popcli(c, ena)

-----------------------------------------------------------------------------
(* scheduler(): sti, then acquire. *)
idle(c) ==
  /\ At(c, "idle")
  /\ IF_' = [IF_ EXCEPT ![c] = TRUE]
  /\ Goto(c, "sched_pt")
  /\ UNCHANGED <<lock, ncli, intena, spin, cur, state, saved, due, panicked>>

(* The scan meets a RUNNABLE process and switches to it; the loop goes on *)
(* from here when the process comes back.                                 *)
pick(c, p) ==
  /\ At(c, "scan")
  /\ state[p] = "RUNNABLE"
  /\ state' = [state EXCEPT ![p] = "RUNNING"]
  /\ cur' = [cur EXCEPT ![c] = p]
  /\ UNCHANGED <<lock, cpuVars, spin, pc, irq, saved, due, panicked>>

(* The scan reaches the end of the table. *)
scan_end(c) ==
  /\ At(c, "scan")
  /\ IF CanRelease(c, "ptable")
     THEN /\ release(c, "ptable", intena[c])
          /\ Goto(c, "idle")
          /\ UNCHANGED <<spin, cur, state, saved, due, panicked>>
     ELSE Panic

(* The conditions whose failure makes sched() panic. *)
SchedOk(c) == holding(c, "ptable") /\ ncli[c] = 1 /\ state[cur[c]] # "RUNNING" /\ ~IF_[c]

(* sched(): intena is saved in the process, and swtch() goes back to the *)
(* scheduler of this CPU.                                                *)
sched(c) ==
  \E l \in {"sched_s", "sched_y"} :
    /\ At(c, l)
    /\ IF SchedOk(c)
       THEN /\ saved' = [saved EXCEPT ![cur[c]] = intena[c]]
            /\ cur' = [cur EXCEPT ![c] = c]
            /\ Goto(c, IF l = "sched_s" THEN "resume_s" ELSE "resume_y")
            /\ UNCHANGED <<lock, cpuVars, spin, state, due, panicked>>
       ELSE Panic

(* Mutant: sched() leaves the intena of the CPU it comes back on. *)
RestoredIntena_cpu(c) == intena[c]

(* sched() returns, maybe on another CPU: intena is restored. *)
RestoredIntena(c) == saved[cur[c]]

(* Its caller, sleep() or yield(), releases ptable.lock. *)
resume(c) ==
  \E l \in {"resume_s", "resume_y"} :
    /\ At(c, l)
    /\ IF CanRelease(c, "ptable")
       THEN /\ release(c, "ptable", RestoredIntena(c))
            /\ Goto(c, IF l = "resume_s" THEN "sleep_re" ELSE "iret")
            /\ UNCHANGED <<spin, cur, state, saved, due, panicked>>
       ELSE Panic

(* forkret(): a new process's first run releases the scheduler's lock. *)
forkret(c) ==
  /\ At(c, "forkret")
  /\ IF CanRelease(c, "ptable")
     THEN /\ release(c, "ptable", intena[c])
          /\ Goto(c, "trapret")
          /\ UNCHANGED <<spin, cur, state, saved, due, panicked>>
     ELSE Panic

(* trapret: the iret to user space loads the user's flags, with IF on. *)
trapret(c) ==
  /\ At(c, "trapret")
  /\ IF_' = [IF_ EXCEPT ![c] = TRUE]
  /\ Goto(c, "user")
  /\ UNCHANGED <<lock, ncli, intena, spin, cur, state, saved, due, panicked>>

-----------------------------------------------------------------------------
(* sys_sleep(): from user space, through a trap gate that leaves IF alone. *)
sys_sleep(c) ==
  /\ At(c, "user")
  /\ Goto(c, "sleep_tl")
  /\ UNCHANGED <<lock, cpuVars, spin, cur, state, saved, due, panicked>>

(* ticks0 = ticks *)
enter(c) ==
  /\ At(c, "enter")
  /\ due' = [due EXCEPT ![cur[c]] = FALSE]
  /\ Goto(c, "test")
  /\ UNCHANGED <<lock, cpuVars, spin, cur, state, saved, panicked>>

(* The loop of sys_sleep(): return to user space, or call sleep(). *)
test_due(c) ==
  /\ At(c, "test") /\ due[cur[c]]
  /\ IF CanRelease(c, "tickslock")
     THEN /\ release(c, "tickslock", intena[c])
          /\ Goto(c, "trapret")
          /\ UNCHANGED <<spin, cur, state, saved, due, panicked>>
     ELSE Panic

test_early(c) ==
  /\ At(c, "test") /\ ~due[cur[c]]
  /\ Goto(c, "sleep_pt")
  /\ UNCHANGED <<lock, cpuVars, spin, cur, state, saved, due, panicked>>

(* sleep() with ptable.lock: release lk, become SLEEPING, call sched(). *)
sleep(c) ==
  /\ At(c, "asleep")
  /\ IF CanRelease(c, "tickslock")
     THEN /\ release(c, "tickslock", intena[c])
          /\ state' = [state EXCEPT ![cur[c]] = "SLEEPING"]
          /\ Goto(c, "sched_s")
          /\ UNCHANGED <<spin, cur, saved, due, panicked>>
     ELSE Panic

-----------------------------------------------------------------------------
(* A timer interrupt through an interrupt gate: IF goes off.  One that finds *)
(* a frame already there would overwrite it; NoNesting says it never does.   *)
timer(c) ==
  /\ ~panicked /\ IF_[c]
  /\ irq' = [irq EXCEPT ![cur[c]] = IF c = BootCpu THEN "tick_tl" ELSE "after"]
  /\ IF_' = [IF_ EXCEPT ![c] = FALSE]
  /\ UNCHANGED <<lock, ncli, intena, spin, cur, pc, state, saved, due, panicked>>

(* ticks++ *)
tick(c) ==
  /\ At(c, "tick")
  /\ due' = [p \in Proc |-> TRUE]
  /\ Goto(c, "tick_pt")
  /\ UNCHANGED <<lock, cpuVars, spin, cur, state, saved, panicked>>

(* The processes wakeup1(&ticks) makes RUNNABLE. *)
Woken(p) == state[p] = "SLEEPING"

(* wakeup(&ticks), up to the release of ptable.lock. *)
wakeup(c) ==
  /\ At(c, "wake")
  /\ IF CanRelease(c, "ptable")
     THEN /\ state' = [p \in Proc |-> IF Woken(p) THEN "RUNNABLE" ELSE state[p]]
          /\ release(c, "ptable", intena[c])
          /\ Goto(c, "tick_done")
          /\ UNCHANGED <<spin, cur, saved, due, panicked>>
     ELSE Panic

tick_done(c) ==
  /\ At(c, "tick_done")
  /\ IF CanRelease(c, "tickslock")
     THEN /\ release(c, "tickslock", intena[c])
          /\ Goto(c, "after")
          /\ UNCHANGED <<spin, cur, state, saved, due, panicked>>
     ELSE Panic

(* The end of trap(): a running process yields, the scheduler does not. *)
after(c) ==
  /\ At(c, "after")
  /\ Goto(c, IF cur[c] \in Proc /\ state[cur[c]] = "RUNNING" THEN "yield_pt" ELSE "iret")
  /\ UNCHANGED <<lock, cpuVars, spin, cur, state, saved, due, panicked>>

(* yield() with ptable.lock. *)
yield(c) ==
  /\ At(c, "yielding")
  /\ state' = [state EXCEPT ![cur[c]] = "RUNNABLE"]
  /\ Goto(c, "sched_y")
  /\ UNCHANGED <<lock, cpuVars, spin, cur, saved, due, panicked>>

(* iret restores the flags of the interrupted code, which had IF on. *)
iret(c) ==
  /\ At(c, "iret")
  /\ irq' = [irq EXCEPT ![cur[c]] = Free]
  /\ IF_' = [IF_ EXCEPT ![c] = TRUE]
  /\ UNCHANGED <<lock, ncli, intena, spin, cur, pc, state, saved, due, panicked>>

-----------------------------------------------------------------------------
Run(c) ==
  \/ pushcli(c) \/ idle(c) \/ scan_end(c)
  \/ sched(c) \/ resume(c) \/ forkret(c) \/ trapret(c)
  \/ enter(c) \/ test_due(c) \/ test_early(c) \/ sleep(c)
  \/ tick(c) \/ wakeup(c) \/ tick_done(c) \/ after(c) \/ yield(c) \/ iret(c)

Next ==
  \/ \E c \in CPU : Run(c) \/ xchg(c) \/ sys_sleep(c) \/ timer(c)
                    \/ \E p \in Proc : pick(c, p)

Spec == Init /\ [][Next]_vars

(* A step of context x outside its interrupt frames. *)
Base(x) == \E c \in CPU : cur[c] = x /\ irq[x] = Free /\ Run(c)

(* CPUs execute, and one process and the schedulers get on between two      *)
(* interrupts; a spinning CPU gets a lock that is free again and again; the *)
(* scan of the scheduler does not pass over that process for ever.          *)
someproc == CHOOSE p \in Proc : TRUE

FairSpec ==
  /\ Spec
  /\ \A c \in CPU : WF_vars(Run(c)) /\ SF_vars(xchg(c))
  /\ \A x \in CPU \cup {someproc} : SF_vars(Base(x))
  /\ SF_vars(\E c \in CPU : pick(c, someproc))

-----------------------------------------------------------------------------
TypeOK ==
  /\ lock \in [{"tickslock", "ptable"} -> CPU \cup {Free}]
  /\ IF_ \in [CPU -> BOOLEAN] /\ intena \in [CPU -> BOOLEAN]
  /\ ncli \in [CPU -> Nat]
  /\ spin \in [CPU -> BOOLEAN]
  /\ cur \in [CPU -> Ctx]
  /\ pc \in [Ctx -> Pcs] /\ irq \in [Ctx -> Pcs \cup {Free}]
  /\ state \in [Proc -> {"RUNNABLE", "RUNNING", "SLEEPING"}]
  /\ saved \in [Proc -> BOOLEAN] /\ due \in [Proc -> BOOLEAN]
  /\ panicked \in BOOLEAN

(* No assertion of acquire(), release(), popcli() or sched() fails: locks and *)
(* interrupt depth stay matched although contexts change CPU.                 *)
NoPanic == ~panicked

(* No wakeup is missed: a process that sleeps although its time has come is *)
(* about to be woken by a tick whose handler still holds tickslock.         *)
NoMissedWakeup ==
  \A p \in Proc : state[p] = "SLEEPING" /\ due[p] =>
    \E c \in CPU : holding(c, "tickslock") /\ Here(c) \in {"tick_pt", "wake"}

(* No two CPUs execute one context, on one kernel stack. *)
OneCpuPerContext ==
  /\ \A c, d \in CPU : c # d => cur[c] # cur[d]
  /\ lock["ptable"] = Free =>
       \A p \in Proc : state[p] = "RUNNING" <=> \E c \in CPU : cur[c] = p

(* A process in user space, or in a system call before it takes a lock, can  *)
(* be interrupted, also after sched() has moved it to another CPU; a CPU that *)
(* holds a lock cannot.                                                       *)
InterruptsMatchLocks ==
  \A c \in CPU :
    /\ Here(c) \in {"user", "sleep_tl", "sleep_re"} /\ ~spin[c] => IF_[c]
    /\ IF_[c] => ncli[c] = 0 /\ \A l \in DOMAIN lock : ~holding(c, l)

(* No interrupt comes while a handler runs in the same context. *)
NoNesting == \A c \in CPU : IF_[c] => irq[cur[c]] = Free

(* Contexts, locks, interrupts and wakeups stay in step while processes are *)
(* preempted, sleep and change CPU: the state has its types, no assertion   *)
(* of spinlock.c or sched() fails, no wakeup is missed, no context runs on  *)
(* two CPUs, interrupts are on exactly where the locks allow, and handlers  *)
(* do not nest.                                                             *)
SchedSound ==
  TypeOK /\ NoPanic /\ NoMissedWakeup /\ OneCpuPerContext /\ InterruptsMatchLocks /\ NoNesting

(* No CPU waits for itself or for a CPU that waits for it. *)
WaitsFor(c, d) == spin[c] /\ lock[Site[Here(c)][1]] = d
NoSpinDeadlock == \A c, d \in CPU : WaitsFor(c, d) => c # d /\ ~WaitsFor(d, c)

(* A process whose time in sys_sleep() is over gets back to user space, *)
(* whatever interrupts it and wherever it is resumed.                   *)
SleeperReturns ==
  (pc[someproc] \in {"sched_s", "resume_s"} /\ due[someproc]) ~> (pc[someproc] = "user")
=============================================================================
