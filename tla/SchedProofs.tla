---------------------------- MODULE SchedProofs ----------------------------
(***************************************************************************)
(* Proofs about Sched for every number of processes and CPUs.              *)
(*                                                                         *)
(* IInv is inductive.  It says where the contexts can be, and that the     *)
(* place a CPU executes decides which locks it holds, how deep its         *)
(* pushcli() calls are nested and whether interrupts are on: what the      *)
(* assertions of spinlock.c and sched() test is then a function of the     *)
(* place.                                                                  *)
(***************************************************************************)
EXTENDS Sched, TLAPS

(* The time a prover is given for a step. *)
USE SMTT(60), ZenonT(30)

IrqPcs == {"tick_tl", "tick", "tick_pt", "wake", "tick_done", "after", "yield_pt",
           "yielding", "sched_y", "resume_y", "iret"}
ProcPcs == {"user", "sleep_tl", "enter", "test", "sleep_pt", "asleep", "sched_s",
            "resume_s", "sleep_re", "forkret", "trapret"}
SchedulerPcs == {"idle", "sched_pt", "scan"}

(* Places an interrupt can come at. *)
OpenPcs == {"user", "sleep_tl", "sleep_re", "trapret", "idle", "sched_pt"}

(* Places at which tickslock, or ptable.lock, is held. *)
TickPcs == {"enter", "test", "sleep_pt", "asleep", "tick", "tick_pt", "wake", "tick_done"}
TablePcs == {"asleep", "sched_s", "resume_s", "forkret", "wake", "yielding", "sched_y",
             "resume_y", "scan"}

(* Places whose cpu->intena is the thread's own: on in a system call, off in *)
(* a handler.                                                                *)
OnPcs == {"sleep_tl", "sleep_re", "enter", "test", "sleep_pt", "asleep", "sched_s"}
OffPcs == IrqPcs \ {"resume_y"}

(* The place of a context, on a CPU or not. *)
Place(x) == IF irq[x] # Free THEN irq[x] ELSE pc[x]

Places ==
  /\ \A p \in Proc : pc[p] \in ProcPcs
  /\ \A c \in CPU : /\ pc[c] \in SchedulerPcs
                    /\ irq[c] \notin {"yield_pt", "yielding", "sched_y", "resume_y"}
  /\ \A x \in Ctx : irq[x] # Free => irq[x] \in IrqPcs /\ pc[x] \in OpenPcs

(* A CPU runs its scheduler or a process, and no two run one process.  A     *)
(* scheduler left by swtch() is in its scan; a process that no CPU runs left *)
(* in sched() or has not run yet.                                            *)
Contexts ==
  /\ \A c \in CPU : cur[c] \in Proc \/ cur[c] = c
  /\ \A c, d \in CPU : cur[c] = cur[d] => c = d
  /\ \A c \in CPU : cur[c] # c => pc[c] = "scan" /\ irq[c] = Free
  /\ \A p \in Proc : (\A c \in CPU : cur[c] # p) =>
       /\ state[p] # "RUNNING"
       /\ Place(p) \in {"forkret", "resume_s", "resume_y"}
       /\ state[p] = "SLEEPING" => Place(p) = "resume_s"

(* What sched() has saved is what the code it returns to had. *)
Saved ==
  \A p \in Proc : /\ Place(p) = "resume_s" => saved[p]
                  /\ Place(p) = "resume_y" => ~saved[p]

(* What place l decides of the CPU that executes it: the locks it holds, the *)
(* depth of its pushcli(), interrupts and the flag that popcli() restores,   *)
(* and the state of the process it runs.                                     *)
CpuAt(c, l) ==
  /\ holding(c, "tickslock") <=> l \in TickPcs
  /\ holding(c, "ptable") <=> l \in TablePcs
  /\ spin[c] => l \in DOMAIN Site
  /\ ncli[c] = (IF l \in TickPcs THEN 1 ELSE 0)
             + (IF l \in TablePcs THEN 1 ELSE 0) + (IF spin[c] THEN 1 ELSE 0)
  /\ IF_[c] => l \notin IrqPcs /\ ncli[c] = 0
  /\ l \in {"user", "sleep_tl", "sleep_re", "sched_pt"} /\ ~spin[c] => IF_[c]
  /\ ncli[c] > 0 /\ l \in OnPcs => intena[c]
  /\ ncli[c] > 0 /\ l \in OffPcs => ~intena[c]
  /\ cur[c] \in Proc => state[cur[c]] = IF l = "sched_s" THEN "SLEEPING"
                                        ELSE IF l = "sched_y" THEN "RUNNABLE"
                                        ELSE "RUNNING"

Cpus == \A c \in CPU : CpuAt(c, Here(c))

(* A process that is about to sleep has not missed its tick, and one that *)
(* sleeps will be woken by the tick it waits for.                         *)
Wakeups ==
  /\ \A c \in CPU : Here(c) \in {"sleep_pt", "asleep"} => ~due[cur[c]]
  /\ \A p \in Proc : state[p] = "SLEEPING" /\ due[p] =>
       \E c \in CPU : Here(c) \in {"tick_pt", "wake"}

IInv ==
  /\ TypeOK
  /\ NoPanic
  /\ Places
  /\ Contexts
  /\ Saved
  /\ Cpus
  /\ Wakeups

-----------------------------------------------------------------------------
(* The calls of acquire(), one by one. *)
LEMMA Sites ==
  /\ DOMAIN Site = {"sleep_tl", "sleep_pt", "sleep_re", "tick_tl", "tick_pt", "yield_pt",
                    "sched_pt"}
  /\ Site["sleep_tl"] = <<"tickslock", "enter">>
  /\ Site["sleep_pt"] = <<"ptable", "asleep">>
  /\ Site["sleep_re"] = <<"tickslock", "test">>
  /\ Site["tick_tl"] = <<"tickslock", "tick">>
  /\ Site["tick_pt"] = <<"ptable", "wake">>
  /\ Site["yield_pt"] = <<"ptable", "yielding">>
  /\ Site["sched_pt"] = <<"ptable", "scan">>
  BY Zenon DEF Site

(* Every place is one of a handler, of a process or of a scheduler. *)
LEMMA AllPlaces ==
  /\ Pcs = IrqPcs \cup ProcPcs \cup SchedulerPcs
  /\ Free \notin Pcs
  BY Sites, FrameAssumption DEF Pcs, IrqPcs, ProcPcs, SchedulerPcs

(* The place tells which context a CPU runs, and whether it handles an *)
(* interrupt.                                                          *)
LEMMA HereFacts ==
  ASSUME IInv, NEW c \in CPU
  PROVE /\ cur[c] \in Ctx
        /\ Here(c) \in IrqPcs <=> irq[cur[c]] # Free
        /\ Here(c) \in ProcPcs => cur[c] \in Proc
        /\ Here(c) \in SchedulerPcs => cur[c] = c
        /\ Here(c) \in {"yield_pt", "yielding", "sched_y", "resume_y"} => cur[c] \in Proc
        /\ Here(c) = Place(cur[c])
<1>1. cur[c] \in Ctx /\ Here(c) = Place(cur[c])
  BY Zenon DEF IInv, TypeOK, Here, Place
<1>2. Here(c) \in IrqPcs <=> irq[cur[c]] # Free
  BY <1>1, SchedAssumption, Zenon DEF IInv, Places, Here, Ctx, IrqPcs, ProcPcs, SchedulerPcs
<1>3. /\ Here(c) \in ProcPcs => cur[c] \in Proc
      /\ Here(c) \in SchedulerPcs => cur[c] = c
      /\ Here(c) \in {"yield_pt", "yielding", "sched_y", "resume_y"} => cur[c] \in Proc
  BY <1>1, SchedAssumption
     DEF IInv, Places, Contexts, Here, Ctx, IrqPcs, ProcPcs, SchedulerPcs
<1> QED BY <1>1, <1>2, <1>3, Zenon

(* The assertions of release() and popcli() hold wherever a lock is held. *)
LEMMA ReleaseFacts ==
  ASSUME IInv, NEW c \in CPU, ~spin[c]
  PROVE /\ Here(c) \in TickPcs => CanRelease(c, "tickslock")
        /\ Here(c) \in TablePcs => CanRelease(c, "ptable")
  BY DEF IInv, TypeOK, Cpus, CpuAt, CanRelease

(* A jump of the topmost frame of CPU c moves that CPU and nothing else. *)
LEMMA GotoFacts ==
  ASSUME IInv, NEW c \in CPU, NEW l, l # Free, Goto(c, l), cur' = cur
  PROVE /\ Here(c)' = l
        /\ \A d \in CPU \ {c} : Here(d)' = Here(d)
        /\ \A x \in Ctx \ {cur[c]} : Place(x)' = Place(x)
  BY DEF IInv, TypeOK, Goto, Here, Place, Contexts, Ctx

(* The step leaves the other CPUs alone. *)
OnlyCpu(c) ==
  \A d \in CPU \ {c} :
    /\ \A k \in {"tickslock", "ptable"} : lock'[k] = d <=> lock[k] = d
    /\ spin'[d] = spin[d] /\ ncli'[d] = ncli[d]
    /\ IF_'[d] = IF_[d] /\ intena'[d] = intena[d]
    /\ cur'[d] = cur[d]
    /\ cur[d] \in Proc => state'[cur[d]] = state[cur[d]]

(* A step of one CPU to a place that suits it. *)
LEMMA CpusKept ==
  ASSUME IInv, NEW c \in CPU, OnlyCpu(c), CpuAt(c, Here(c))',
         \A d \in CPU \ {c} : Here(d)' = Here(d)
  PROVE Cpus'
<1> SUFFICES ASSUME NEW d \in CPU, d # c PROVE CpuAt(d, Here(d))'
  BY Zenon DEF Cpus
<1>1. CpuAt(d, Here(d)) /\ Here(d)' = Here(d) /\ cur'[d] = cur[d]
  BY Zenon DEF IInv, Cpus, OnlyCpu
<1> QED BY <1>1 DEF CpuAt, OnlyCpu, holding

(* The types of what a jump may change. *)
CpuTypes ==
  /\ lock \in [{"tickslock", "ptable"} -> CPU \cup {Free}]
  /\ IF_ \in [CPU -> BOOLEAN] /\ intena \in [CPU -> BOOLEAN]
  /\ ncli \in [CPU -> Nat] /\ spin \in [CPU -> BOOLEAN]
  /\ state \in [Proc -> {"RUNNABLE", "RUNNING", "SLEEPING"}]
  /\ due \in [Proc -> BOOLEAN]

(* The handler, the system call or the scheduler goes on at place l. *)
Onward(c, l) ==
  /\ l \in Pcs \ {"resume_s", "resume_y"}
  /\ Here(c) \in IrqPcs => l \in IrqPcs
  /\ Here(c) \in ProcPcs => l \in ProcPcs
  /\ Here(c) \in SchedulerPcs => l \in SchedulerPcs
  /\ l \in {"yield_pt", "yielding", "sched_y"} => cur[c] \in Proc
  /\ Goto(c, l)
  /\ UNCHANGED <<cur, saved, panicked>>
  /\ \A p \in Proc : (\A d \in CPU : cur[d] # p) =>
                       state'[p] = state[p] \/ state'[p] = "RUNNABLE"

(* All but the wakeups, after a jump to a place that suits the CPU. *)
Kept == TypeOK /\ NoPanic /\ Places /\ Contexts /\ Saved /\ Cpus

LEMMA JumpKeeps ==
  ASSUME IInv, NEW c \in CPU, NEW l, Onward(c, l), OnlyCpu(c), CpuTypes', CpuAt(c, l)'
  PROVE Kept' /\ Here(c)' = l /\ \A d \in CPU \ {c} : Here(d)' = Here(d)
<1> USE SchedAssumption, AllPlaces
<1>0. /\ cur[c] \in Ctx
      /\ Here(c) \in IrqPcs <=> irq[cur[c]] # Free
      /\ Here(c) \in ProcPcs => cur[c] \in Proc
      /\ Here(c) \in SchedulerPcs => cur[c] = c
      /\ cur[c] \in Proc \/ cur[c] = c
      /\ Here(c) \in Pcs
  BY HereFacts, Zenon DEF IInv, Contexts, Here, TypeOK
<1>1. Here(c)' = l /\ \A d \in CPU \ {c} : Here(d)' = Here(d)
  BY GotoFacts, Zenon DEF Onward
<1>2. /\ \A x \in Ctx \ {cur[c]} : /\ pc'[x] = pc[x] /\ irq'[x] = irq[x]
                                    /\ Place(x)' = Place(x)
      /\ irq[cur[c]] # Free => pc'[cur[c]] = pc[cur[c]] /\ irq'[cur[c]] = l
      /\ irq[cur[c]] = Free => pc'[cur[c]] = l /\ irq'[cur[c]] = Free
  BY <1>0, GotoFacts DEF Onward, Goto, IInv, TypeOK
<1>3. Places'
  BY <1>0, <1>2 DEF Onward, IInv, Places, Ctx, IrqPcs, ProcPcs, SchedulerPcs
<1>4. Contexts'
  BY <1>0, <1>2 DEF Onward, IInv, Contexts, Ctx
<1>5. Saved'
  BY <1>0, <1>2 DEF Onward, IInv, Saved, Place, Ctx
<1>6. TypeOK' /\ NoPanic'
  <2>1. pc' \in [Ctx -> Pcs] /\ irq' \in [Ctx -> Pcs \cup {Free}]
    BY DEF Onward, Goto, IInv, TypeOK
  <2> QED BY <2>1, Zenon DEF Onward, CpuTypes, IInv, TypeOK, NoPanic
<1>7. Cpus'
  BY <1>1, CpusKept, Zenon
<1> QED BY <1>1, <1>3, <1>4, <1>5, <1>6, <1>7, Zenon DEF Kept

(* What the invariant says of the CPU that takes a step. *)
LEMMA CpuFacts ==
  ASSUME IInv, NEW c \in CPU
  PROVE /\ CpuTypes /\ CpuAt(c, Here(c)) /\ cur \in [CPU -> Ctx]
        /\ \A d \in CPU \ {c} : cur[d] # cur[c]
  BY Zenon DEF IInv, TypeOK, CpuTypes, Cpus, Contexts

(* While a CPU holds a lock no other CPU is where that lock is held; under   *)
(* ptable.lock the processes that the others run are RUNNING.                *)
LEMMA OneHolder ==
  ASSUME IInv, NEW c \in CPU, NEW d \in CPU, c # d
  PROVE /\ Here(c) \in TickPcs => Here(d) \notin TickPcs
        /\ Here(c) \in TablePcs =>
             Here(d) \notin TablePcs /\ (cur[d] \in Proc => state[cur[d]] = "RUNNING")
<1>1. /\ Here(c) \in TickPcs => Here(d) \notin TickPcs
      /\ Here(c) \in TablePcs => Here(d) \notin TablePcs
  BY Zenon DEF IInv, Cpus, CpuAt, holding
<1>2. Here(d) \notin TablePcs /\ cur[d] \in Proc => state[cur[d]] = "RUNNING"
  BY Zenon DEF IInv, Cpus, CpuAt, TablePcs
<1> QED BY <1>1, <1>2, Zenon

(* scheduler() goes from sti() to acquire(&ptable.lock), holding nothing. *)
LEMMA idle_inv ==
  ASSUME IInv, NEW c \in CPU, idle(c)
  PROVE IInv'
<1>1. /\ Here(c) = "idle" /\ ~spin[c] /\ Goto(c, "sched_pt")
      /\ IF_' = [IF_ EXCEPT ![c] = TRUE]
      /\ UNCHANGED <<lock, ncli, intena, spin, cur, state, saved, due, panicked>>
  BY Zenon DEF idle, At, cpuVars
<1>2. CpuTypes' /\ OnlyCpu(c)
  BY <1>1, CpuFacts, Zenon DEF CpuTypes, OnlyCpu
<1>3. CpuAt(c, "sched_pt")'
  BY <1>1, CpuFacts
     DEF CpuTypes, CpuAt, holding, TickPcs, TablePcs, OnPcs, OffPcs, IrqPcs
<1>4. Onward(c, "sched_pt")
  BY <1>1, CpuFacts, HereFacts, AllPlaces, Zenon DEF Onward, IrqPcs, ProcPcs, SchedulerPcs
<1>5. Kept' /\ Here(c)' = "sched_pt" /\ \A d \in CPU \ {c} : Here(d)' = Here(d)
  BY <1>2, <1>3, <1>4, JumpKeeps, Zenon
<1>6. Wakeups'
  BY <1>1, <1>5, CpuFacts DEF IInv, Wakeups, CpuTypes
<1> QED BY <1>5, <1>6, Zenon DEF Kept, IInv

(* sys_sleep() goes on to its loop with tickslock held. *)
LEMMA enter_inv ==
  ASSUME IInv, NEW c \in CPU, enter(c)
  PROVE IInv'
<1>1. /\ Here(c) = "enter" /\ ~spin[c] /\ Goto(c, "test")
      /\ due' = [due EXCEPT ![cur[c]] = FALSE]
      /\ UNCHANGED <<lock, IF_, ncli, intena, spin, cur, state, saved, panicked>>
  BY Zenon DEF enter, At, cpuVars
<1>2. CpuTypes' /\ OnlyCpu(c)
  BY <1>1, CpuFacts, Zenon DEF CpuTypes, OnlyCpu
<1>3. CpuAt(c, "test")'
  BY <1>1, CpuFacts
     DEF CpuTypes, CpuAt, holding, TickPcs, TablePcs, OnPcs, OffPcs, IrqPcs
<1>4. Onward(c, "test")
  BY <1>1, CpuFacts, HereFacts, AllPlaces, Zenon DEF Onward, IrqPcs, ProcPcs, SchedulerPcs
<1>5. Kept' /\ Here(c)' = "test" /\ \A d \in CPU \ {c} : Here(d)' = Here(d)
  BY <1>2, <1>3, <1>4, JumpKeeps, Zenon
<1>6. Wakeups'
  BY <1>1, <1>5, CpuFacts DEF IInv, Wakeups, CpuTypes
<1> QED BY <1>5, <1>6, Zenon DEF Kept, IInv

(* The tick is not there yet: under tickslock nobody can set due before the *)
(* caller has called sleep().                                               *)
LEMMA test_early_inv ==
  ASSUME IInv, NEW c \in CPU, test_early(c)
  PROVE IInv'
<1>1. /\ Here(c) = "test" /\ ~spin[c] /\ Goto(c, "sleep_pt")
      /\ ~due[cur[c]]
      /\ UNCHANGED <<lock, IF_, ncli, intena, spin, cur, state, saved, due, panicked>>
  BY Zenon DEF test_early, At, cpuVars
<1>2. CpuTypes' /\ OnlyCpu(c)
  BY <1>1, CpuFacts, Zenon DEF CpuTypes, OnlyCpu
<1>3. CpuAt(c, "sleep_pt")'
  BY <1>1, CpuFacts
     DEF CpuTypes, CpuAt, holding, TickPcs, TablePcs, OnPcs, OffPcs, IrqPcs
<1>4. Onward(c, "sleep_pt")
  BY <1>1, CpuFacts, HereFacts, AllPlaces, Zenon DEF Onward, IrqPcs, ProcPcs, SchedulerPcs
<1>5. Kept' /\ Here(c)' = "sleep_pt" /\ \A d \in CPU \ {c} : Here(d)' = Here(d)
  BY <1>2, <1>3, <1>4, JumpKeeps, Zenon
<1>6. Wakeups'
  BY <1>1, <1>5, CpuFacts DEF IInv, Wakeups, CpuTypes
<1> QED BY <1>5, <1>6, Zenon DEF Kept, IInv

(* ticks++ makes due a tick that no sleeper can be testing for, because     *)
(* testing needs the tickslock that the handler holds.                      *)
LEMMA tick_inv ==
  ASSUME IInv, NEW c \in CPU, tick(c)
  PROVE IInv'
<1>1. /\ Here(c) = "tick" /\ ~spin[c] /\ Goto(c, "tick_pt")
      /\ due' = [p \in Proc |-> TRUE]
      /\ UNCHANGED <<lock, IF_, ncli, intena, spin, cur, state, saved, panicked>>
  BY Zenon DEF tick, At, cpuVars
<1>2. CpuTypes' /\ OnlyCpu(c)
  BY <1>1, CpuFacts, Zenon DEF CpuTypes, OnlyCpu
<1>3. CpuAt(c, "tick_pt")'
  BY <1>1, CpuFacts
     DEF CpuTypes, CpuAt, holding, TickPcs, TablePcs, OnPcs, OffPcs, IrqPcs
<1>4. Onward(c, "tick_pt")
  BY <1>1, CpuFacts, HereFacts, AllPlaces, Zenon DEF Onward, IrqPcs, ProcPcs, SchedulerPcs
<1>5. Kept' /\ Here(c)' = "tick_pt" /\ \A d \in CPU \ {c} : Here(d)' = Here(d)
  BY <1>2, <1>3, <1>4, JumpKeeps, Zenon
<1>6. Wakeups'
  BY <1>1, <1>5, OneHolder, Zenon DEF Wakeups, TickPcs
<1> QED BY <1>5, <1>6, Zenon DEF Kept, IInv

(* Entering the system call holds nothing and is not due yet. *)
LEMMA sys_sleep_inv ==
  ASSUME IInv, NEW c \in CPU, sys_sleep(c)
  PROVE IInv'
<1>1. /\ Here(c) = "user" /\ ~spin[c] /\ Goto(c, "sleep_tl")
      /\ UNCHANGED <<lock, IF_, ncli, intena, spin, cur, state, saved, due, panicked>>
  BY Zenon DEF sys_sleep, At, cpuVars
<1>2. CpuTypes' /\ OnlyCpu(c)
  BY <1>1, CpuFacts, Zenon DEF CpuTypes, OnlyCpu
<1>3. CpuAt(c, "sleep_tl")'
  BY <1>1, CpuFacts
     DEF CpuTypes, CpuAt, holding, TickPcs, TablePcs, OnPcs, OffPcs, IrqPcs
<1>4. Onward(c, "sleep_tl")
  BY <1>1, CpuFacts, HereFacts, AllPlaces, Zenon DEF Onward, IrqPcs, ProcPcs, SchedulerPcs
<1>5. Kept' /\ Here(c)' = "sleep_tl" /\ \A d \in CPU \ {c} : Here(d)' = Here(d)
  BY <1>2, <1>3, <1>4, JumpKeeps, Zenon
<1>6. Wakeups'
  BY <1>1, <1>5, CpuFacts DEF IInv, Wakeups, CpuTypes
<1> QED BY <1>5, <1>6, Zenon DEF Kept, IInv

(* The return to user mode holds no lock and leaves interrupts on. *)
LEMMA trapret_inv ==
  ASSUME IInv, NEW c \in CPU, trapret(c)
  PROVE IInv'
<1>1. /\ Here(c) = "trapret" /\ ~spin[c] /\ Goto(c, "user")
      /\ IF_' = [IF_ EXCEPT ![c] = TRUE]
      /\ UNCHANGED <<lock, ncli, intena, spin, cur, state, saved, due, panicked>>
  BY Zenon DEF trapret, At, cpuVars
<1>2. CpuTypes' /\ OnlyCpu(c)
  BY <1>1, CpuFacts, Zenon DEF CpuTypes, OnlyCpu
<1>3. CpuAt(c, "user")'
  BY <1>1, CpuFacts
     DEF CpuTypes, CpuAt, holding, TickPcs, TablePcs, OnPcs, OffPcs, IrqPcs
<1>4. Onward(c, "user")
  BY <1>1, CpuFacts, HereFacts, AllPlaces, Zenon DEF Onward, IrqPcs, ProcPcs, SchedulerPcs
<1>5. Kept' /\ Here(c)' = "user" /\ \A d \in CPU \ {c} : Here(d)' = Here(d)
  BY <1>2, <1>3, <1>4, JumpKeeps, Zenon
<1>6. Wakeups'
  BY <1>1, <1>5, CpuFacts DEF IInv, Wakeups, CpuTypes
<1> QED BY <1>5, <1>6, Zenon DEF Kept, IInv

(* yield() makes the process RUNNABLE under ptable.lock, on the way to      *)
(* sched().                                                                 *)
LEMMA yield_inv ==
  ASSUME IInv, NEW c \in CPU, yield(c)
  PROVE IInv'
<1>1. /\ Here(c) = "yielding" /\ ~spin[c] /\ Goto(c, "sched_y")
      /\ cur[c] \in Proc /\ state' = [state EXCEPT ![cur[c]] = "RUNNABLE"]
      /\ UNCHANGED <<lock, IF_, ncli, intena, spin, cur, saved, due, panicked>>
  BY HereFacts, Zenon DEF yield, At, cpuVars, ProcPcs
<1>2. CpuTypes' /\ OnlyCpu(c)
  BY <1>1, CpuFacts DEF CpuTypes, OnlyCpu
<1>3. CpuAt(c, "sched_y")'
  BY <1>1, CpuFacts
     DEF CpuTypes, CpuAt, holding, TickPcs, TablePcs, OnPcs, OffPcs, IrqPcs
<1>4. Onward(c, "sched_y")
  BY <1>1, CpuFacts, HereFacts, AllPlaces DEF Onward, IrqPcs, ProcPcs, SchedulerPcs
<1>5. Kept' /\ Here(c)' = "sched_y" /\ \A d \in CPU \ {c} : Here(d)' = Here(d)
  BY <1>2, <1>3, <1>4, JumpKeeps, Zenon
<1>6. Wakeups'
  BY <1>1, <1>5, CpuFacts DEF IInv, Wakeups, CpuTypes
<1> QED BY <1>5, <1>6, Zenon DEF Kept, IInv

(* release(&ptable.lock) of scheduler(): the scheduler holds it, once. *)
LEMMA scan_end_inv ==
  ASSUME IInv, NEW c \in CPU, scan_end(c)
  PROVE IInv'
<1>0. CanRelease(c, "ptable")
  BY ReleaseFacts, Zenon DEF scan_end, At, TickPcs, TablePcs
<1>1. /\ Here(c) = "scan" /\ ~spin[c] /\ Goto(c, "idle")
      /\ CanRelease(c, "ptable") /\ release(c, "ptable", intena[c])
      /\ UNCHANGED <<spin, cur, state, saved, due, panicked>>
  BY <1>0, Zenon DEF scan_end, At
<1>2. CpuTypes' /\ OnlyCpu(c)
  BY <1>1, CpuFacts, SchedAssumption
     DEF CpuTypes, OnlyCpu, CanRelease, release, popcli, holding
<1>3. CpuAt(c, "idle")'
  BY <1>1, CpuFacts, SchedAssumption DEF CpuTypes, CpuAt, CanRelease, release, popcli,
     holding, TickPcs, TablePcs, OnPcs, OffPcs, IrqPcs
<1>4. Onward(c, "idle")
  BY <1>1, CpuFacts, HereFacts, AllPlaces, Zenon DEF Onward, IrqPcs, ProcPcs, SchedulerPcs
<1>5. Kept' /\ Here(c)' = "idle" /\ \A d \in CPU \ {c} : Here(d)' = Here(d)
  BY <1>2, <1>3, <1>4, JumpKeeps, Zenon
<1>6. Wakeups'
  BY <1>1, <1>5, CpuFacts DEF IInv, Wakeups, CpuTypes
<1> QED BY <1>5, <1>6, Zenon DEF Kept, IInv

(* forkret() releases the ptable.lock that scheduler() took for it. *)
LEMMA forkret_inv ==
  ASSUME IInv, NEW c \in CPU, forkret(c)
  PROVE IInv'
<1>0. CanRelease(c, "ptable")
  BY ReleaseFacts, Zenon DEF forkret, At, TickPcs, TablePcs
<1>1. /\ Here(c) = "forkret" /\ ~spin[c] /\ Goto(c, "trapret")
      /\ CanRelease(c, "ptable") /\ release(c, "ptable", intena[c])
      /\ UNCHANGED <<spin, cur, state, saved, due, panicked>>
  BY <1>0, Zenon DEF forkret, At
<1>2. CpuTypes' /\ OnlyCpu(c)
  BY <1>1, CpuFacts, SchedAssumption
     DEF CpuTypes, OnlyCpu, CanRelease, release, popcli, holding
<1>3. CpuAt(c, "trapret")'
  BY <1>1, CpuFacts, SchedAssumption DEF CpuTypes, CpuAt, CanRelease, release, popcli,
     holding, TickPcs, TablePcs, OnPcs, OffPcs, IrqPcs
<1>4. Onward(c, "trapret")
  BY <1>1, CpuFacts, HereFacts, AllPlaces, Zenon DEF Onward, IrqPcs, ProcPcs, SchedulerPcs
<1>5. Kept' /\ Here(c)' = "trapret" /\ \A d \in CPU \ {c} : Here(d)' = Here(d)
  BY <1>2, <1>3, <1>4, JumpKeeps, Zenon
<1>6. Wakeups'
  BY <1>1, <1>5, CpuFacts DEF IInv, Wakeups, CpuTypes
<1> QED BY <1>5, <1>6, Zenon DEF Kept, IInv

(* The loop ends and releases tickslock, the only lock held. *)
LEMMA test_due_inv ==
  ASSUME IInv, NEW c \in CPU, test_due(c)
  PROVE IInv'
<1>0. CanRelease(c, "tickslock")
  BY ReleaseFacts, Zenon DEF test_due, At, TickPcs, TablePcs
<1>1. /\ Here(c) = "test" /\ ~spin[c] /\ Goto(c, "trapret")
      /\ CanRelease(c, "tickslock") /\ release(c, "tickslock", intena[c])
      /\ UNCHANGED <<spin, cur, state, saved, due, panicked>>
  BY <1>0, Zenon DEF test_due, At
<1>2. CpuTypes' /\ OnlyCpu(c)
  BY <1>1, CpuFacts, SchedAssumption
     DEF CpuTypes, OnlyCpu, CanRelease, release, popcli, holding
<1>3. CpuAt(c, "trapret")'
  BY <1>1, CpuFacts, SchedAssumption DEF CpuTypes, CpuAt, CanRelease, release, popcli,
     holding, TickPcs, TablePcs, OnPcs, OffPcs, IrqPcs
<1>4. Onward(c, "trapret")
  BY <1>1, CpuFacts, HereFacts, AllPlaces, Zenon DEF Onward, IrqPcs, ProcPcs, SchedulerPcs
<1>5. Kept' /\ Here(c)' = "trapret" /\ \A d \in CPU \ {c} : Here(d)' = Here(d)
  BY <1>2, <1>3, <1>4, JumpKeeps
<1>6. Wakeups'
  BY <1>1, <1>5, CpuFacts DEF IInv, Wakeups, CpuTypes
<1> QED BY <1>5, <1>6 DEF Kept, IInv

(* sleep() gives tickslock back only after it has ptable.lock, and the      *)
(* process is SLEEPING before a wakeup() can run.                           *)
LEMMA sleep_inv ==
  ASSUME IInv, NEW c \in CPU, sleep(c)
  PROVE IInv'
<1>0. CanRelease(c, "tickslock")
  BY ReleaseFacts, Zenon DEF sleep, At, TickPcs, TablePcs
<1>1. /\ Here(c) = "asleep" /\ ~spin[c] /\ Goto(c, "sched_s")
      /\ CanRelease(c, "tickslock") /\ release(c, "tickslock", intena[c])
      /\ cur[c] \in Proc /\ state' = [state EXCEPT ![cur[c]] = "SLEEPING"]
      /\ UNCHANGED <<spin, cur, saved, due, panicked>>
  BY <1>0, HereFacts, Zenon DEF sleep, At, ProcPcs
<1>2. CpuTypes' /\ OnlyCpu(c)
  BY <1>1, CpuFacts, SchedAssumption
     DEF CpuTypes, OnlyCpu, CanRelease, release, popcli, holding
<1>3. CpuAt(c, "sched_s")'
  BY <1>1, CpuFacts, SchedAssumption DEF CpuTypes, CpuAt, CanRelease, release, popcli,
     holding, TickPcs, TablePcs, OnPcs, OffPcs, IrqPcs
<1>4. Onward(c, "sched_s")
  BY <1>1, CpuFacts, HereFacts, AllPlaces DEF Onward, IrqPcs, ProcPcs, SchedulerPcs
<1>5. Kept' /\ Here(c)' = "sched_s" /\ \A d \in CPU \ {c} : Here(d)' = Here(d)
  BY <1>2, <1>3, <1>4, JumpKeeps, Zenon
<1>6. Wakeups'
  BY <1>1, <1>5, CpuFacts DEF IInv, Wakeups, CpuTypes
<1> QED BY <1>5, <1>6, Zenon DEF Kept, IInv

(* wakeup() under both locks: every sleeper becomes RUNNABLE, so the tick   *)
(* is missed by none; a process on a CPU is not SLEEPING, since that CPU    *)
(* would hold ptable.lock in sched().                                       *)
LEMMA wakeup_inv ==
  ASSUME IInv, NEW c \in CPU, wakeup(c)
  PROVE IInv'
<1>0. CanRelease(c, "ptable")
  BY ReleaseFacts, Zenon DEF wakeup, At, TickPcs, TablePcs
<1>1. /\ Here(c) = "wake" /\ ~spin[c] /\ Goto(c, "tick_done")
      /\ CanRelease(c, "ptable") /\ release(c, "ptable", intena[c])
      /\ state' = [p \in Proc |-> IF state[p] = "SLEEPING" THEN "RUNNABLE" ELSE state[p]]
      /\ UNCHANGED <<spin, cur, saved, due, panicked>>
  BY <1>0, Zenon DEF wakeup, At, Woken
<1>2. CpuTypes' /\ OnlyCpu(c)
  BY <1>1, CpuFacts, OneHolder, SchedAssumption
     DEF CpuTypes, OnlyCpu, CanRelease, release, popcli, holding, TablePcs
<1>3. CpuAt(c, "tick_done")'
  BY <1>1, CpuFacts, SchedAssumption DEF CpuTypes, CpuAt, CanRelease, release, popcli,
     holding, TickPcs, TablePcs, OnPcs, OffPcs, IrqPcs
<1>4. Onward(c, "tick_done")
  BY <1>1, CpuFacts, HereFacts, AllPlaces, Zenon DEF Onward, IrqPcs, ProcPcs, SchedulerPcs
<1>5. Kept' /\ Here(c)' = "tick_done" /\ \A d \in CPU \ {c} : Here(d)' = Here(d)
  BY <1>2, <1>3, <1>4, JumpKeeps, Zenon
<1>6. Wakeups'
  BY <1>1, <1>5, CpuFacts, Zenon DEF IInv, Wakeups, CpuTypes
<1> QED BY <1>5, <1>6, Zenon DEF Kept, IInv

(* release(&tickslock) of the handler, with interrupts still off. *)
LEMMA tick_done_inv ==
  ASSUME IInv, NEW c \in CPU, tick_done(c)
  PROVE IInv'
<1>0. CanRelease(c, "tickslock")
  BY ReleaseFacts, Zenon DEF tick_done, At, TickPcs, TablePcs
<1>1. /\ Here(c) = "tick_done" /\ ~spin[c] /\ Goto(c, "after")
      /\ CanRelease(c, "tickslock") /\ release(c, "tickslock", intena[c])
      /\ UNCHANGED <<spin, cur, state, saved, due, panicked>>
  BY <1>0, Zenon DEF tick_done, At
<1>2. CpuTypes' /\ OnlyCpu(c)
  BY <1>1, CpuFacts, SchedAssumption
     DEF CpuTypes, OnlyCpu, CanRelease, release, popcli, holding
<1>3. CpuAt(c, "after")'
  BY <1>1, CpuFacts, SchedAssumption DEF CpuTypes, CpuAt, CanRelease, release, popcli,
     holding, TickPcs, TablePcs, OnPcs, OffPcs, IrqPcs
<1>4. Onward(c, "after")
  BY <1>1, CpuFacts, HereFacts, AllPlaces, Zenon DEF Onward, IrqPcs, ProcPcs, SchedulerPcs
<1>5. Kept' /\ Here(c)' = "after" /\ \A d \in CPU \ {c} : Here(d)' = Here(d)
  BY <1>2, <1>3, <1>4, JumpKeeps, Zenon
<1>6. Wakeups'
  BY <1>1, <1>5, CpuFacts DEF IInv, Wakeups, CpuTypes
<1> QED BY <1>5, <1>6, Zenon DEF Kept, IInv

(* The end of the handler: yield() only in a process that is RUNNING. *)
LEMMA after_inv ==
  ASSUME IInv, NEW c \in CPU, after(c)
  PROVE IInv'
<1> PICK l : l = IF cur[c] \in Proc /\ state[cur[c]] = "RUNNING" THEN "yield_pt" ELSE "iret"
  OBVIOUS
<1>1. /\ Here(c) = "after" /\ ~spin[c] /\ Goto(c, l)
      /\ l \in {"yield_pt", "iret"} /\ (l = "yield_pt" => cur[c] \in Proc)
      /\ UNCHANGED <<lock, IF_, ncli, intena, spin, cur, state, saved, due, panicked>>
  BY Zenon DEF after, At, cpuVars
<1>2. CpuTypes' /\ OnlyCpu(c)
  BY <1>1, CpuFacts, Zenon DEF CpuTypes, OnlyCpu
<1>3. CpuAt(c, l)'
  BY <1>1, CpuFacts, Zenon
     DEF CpuTypes, CpuAt, holding, TickPcs, TablePcs, OnPcs, OffPcs, IrqPcs
<1>4. Onward(c, l)
  BY <1>1, CpuFacts, HereFacts, AllPlaces, Zenon DEF Onward, IrqPcs, ProcPcs, SchedulerPcs
<1>5. Kept' /\ Here(c)' = l /\ \A d \in CPU \ {c} : Here(d)' = Here(d)
  BY <1>2, <1>3, <1>4, JumpKeeps, Zenon
<1>6. Wakeups'
  BY <1>1, <1>5, CpuFacts DEF IInv, Wakeups, CpuTypes
<1> QED BY <1>5, <1>6, Zenon DEF Kept, IInv

(* acquire() turns interrupts off and records, at depth zero, whether they  *)
(* were on.                                                                 *)
LEMMA pushcli_inv ==
  ASSUME IInv, NEW c \in CPU, pushcli(c)
  PROVE IInv'
<1>1. Here(c) \in DOMAIN Site /\ ~spin[c] /\ lock[Site[Here(c)][1]] # c
  BY CpuFacts, Sites DEF pushcli, At, CpuAt, holding, TickPcs, TablePcs
<1>2. /\ IF_' = [IF_ EXCEPT ![c] = FALSE]
      /\ ncli' = [ncli EXCEPT ![c] = @ + 1]
      /\ intena' = [intena EXCEPT ![c] = IF ncli[c] = 0 THEN IF_[c] ELSE @]
      /\ spin' = [spin EXCEPT ![c] = TRUE]
      /\ UNCHANGED <<lock, cur, pc, irq, state, saved, due, panicked>>
  BY <1>1, Zenon DEF pushcli, At, holding
<1>3. \A d \in CPU : Here(d)' = Here(d)
  BY <1>2, Zenon DEF Here
<1>4. CpuTypes' /\ OnlyCpu(c)
  BY <1>2, CpuFacts DEF CpuTypes, OnlyCpu
<1>5. CpuAt(c, Here(c))'
  BY <1>1, <1>2, <1>3, CpuFacts, Sites
     DEF CpuTypes, CpuAt, holding, TickPcs, TablePcs, OnPcs, OffPcs, IrqPcs
<1>6. Cpus'
  BY <1>3, <1>4, <1>5, CpusKept, Zenon
<1>7. TypeOK' /\ NoPanic' /\ Places' /\ Contexts' /\ Saved'
  BY <1>2, <1>4 DEF CpuTypes, IInv, TypeOK, NoPanic, Places, Contexts, Saved, Place
<1>8. Wakeups'
  BY <1>2, <1>3, Zenon DEF IInv, Wakeups
<1> QED BY <1>6, <1>7, <1>8, Zenon DEF IInv

(* The lock is taken only when free; every call of acquire() leads to the   *)
(* place at which that lock is held.                                        *)
LEMMA xchg_inv ==
  ASSUME IInv, NEW c \in CPU, xchg(c)
  PROVE IInv'
<1> PICK k, l : k = Site[Here(c)][1] /\ l = Site[Here(c)][2]
  OBVIOUS
<1>1. /\ \/ Here(c) = "sleep_tl" /\ k = "tickslock" /\ l = "enter"
         \/ Here(c) = "sleep_pt" /\ k = "ptable" /\ l = "asleep"
         \/ Here(c) = "sleep_re" /\ k = "tickslock" /\ l = "test"
         \/ Here(c) = "tick_tl" /\ k = "tickslock" /\ l = "tick"
         \/ Here(c) = "tick_pt" /\ k = "ptable" /\ l = "wake"
         \/ Here(c) = "yield_pt" /\ k = "ptable" /\ l = "yielding"
         \/ Here(c) = "sched_pt" /\ k = "ptable" /\ l = "scan"
      /\ spin[c]
  BY CpuFacts, Sites DEF xchg, CpuAt
<1>2. /\ lock[k] = Free /\ lock' = [lock EXCEPT ![k] = c] /\ Goto(c, l)
      /\ spin' = [spin EXCEPT ![c] = FALSE]
      /\ UNCHANGED <<IF_, ncli, intena, cur, state, saved, due, panicked>>
  BY Zenon DEF xchg, cpuVars
<1>3. CpuTypes' /\ OnlyCpu(c)
  BY <1>1, <1>2, CpuFacts, SchedAssumption DEF CpuTypes, OnlyCpu
<1>4. CpuAt(c, l)'
  BY <1>1, <1>2, CpuFacts
     DEF CpuTypes, CpuAt, holding, TickPcs, TablePcs, OnPcs, OffPcs, IrqPcs
<1>5. Onward(c, l)
  BY <1>1, <1>2, CpuFacts, HereFacts, AllPlaces, Zenon DEF Onward, IrqPcs, ProcPcs, SchedulerPcs
<1>6. Kept' /\ Here(c)' = l /\ \A d \in CPU \ {c} : Here(d)' = Here(d)
  BY <1>3, <1>4, <1>5, JumpKeeps, Zenon
<1>7. Wakeups'
  BY <1>1, <1>2, <1>6, Zenon DEF IInv, Wakeups
<1> QED BY <1>6, <1>7, Zenon DEF Kept, IInv

(* A process back from swtch() holds the ptable.lock it inherits, gets its  *)
(* own intena back and releases it.                                         *)
LEMMA resume_inv ==
  ASSUME IInv, NEW c \in CPU, resume(c)
  PROVE IInv'
<1> PICK l : l = IF Here(c) = "resume_s" THEN "sleep_re" ELSE "iret"
  OBVIOUS
<1>0. CanRelease(c, "ptable")
  BY ReleaseFacts, Zenon DEF resume, At, TablePcs
<1>1. /\ \/ Here(c) = "resume_s" /\ l = "sleep_re" /\ saved[cur[c]]
         \/ Here(c) = "resume_y" /\ l = "iret" /\ ~saved[cur[c]]
      /\ ~spin[c] /\ Goto(c, l)
      /\ release(c, "ptable", saved[cur[c]])
      /\ UNCHANGED <<spin, cur, state, saved, due, panicked>>
  BY <1>0, HereFacts, Zenon DEF resume, At, RestoredIntena, IInv, Saved, ProcPcs
<1>2. saved[cur[c]] \in BOOLEAN
  BY <1>1, HereFacts, Zenon DEF IInv, TypeOK, ProcPcs
<1>3. CpuTypes' /\ OnlyCpu(c)
  BY <1>0, <1>1, <1>2, CpuFacts, SchedAssumption
     DEF CpuTypes, OnlyCpu, CanRelease, release, popcli, holding
<1>4. CpuAt(c, l)'
  BY <1>0, <1>1, <1>2, CpuFacts, SchedAssumption DEF CpuTypes, CpuAt, CanRelease, release,
     popcli, holding, TickPcs, TablePcs, OnPcs, OffPcs, IrqPcs
<1>5. Onward(c, l)
  BY <1>1, HereFacts, AllPlaces, Zenon DEF Onward, IrqPcs, ProcPcs, SchedulerPcs
<1>6. Kept' /\ Here(c)' = l /\ \A d \in CPU \ {c} : Here(d)' = Here(d)
  BY <1>3, <1>4, <1>5, JumpKeeps, Zenon
<1>7. Wakeups'
  BY <1>1, <1>6, Zenon DEF IInv, Wakeups
<1> QED BY <1>6, <1>7, Zenon DEF Kept, IInv

(* An interrupt comes only with interrupts on, so with no lock held and no  *)
(* handler under way.                                                       *)
LEMMA timer_inv ==
  ASSUME IInv, NEW c \in CPU, timer(c)
  PROVE IInv'
<1> PICK l : l = IF c = BootCpu THEN "tick_tl" ELSE "after"
  OBVIOUS
<1>1. /\ IF_[c] /\ l \in {"tick_tl", "after"}
      /\ irq' = [irq EXCEPT ![cur[c]] = l]
      /\ IF_' = [IF_ EXCEPT ![c] = FALSE]
      /\ UNCHANGED <<lock, ncli, intena, spin, cur, pc, state, saved, due, panicked>>
  BY Zenon DEF timer
<1>2. /\ irq[cur[c]] = Free /\ ncli[c] = 0 /\ ~spin[c] /\ l \in Pcs \ {Free}
      /\ Here(c) \notin TickPcs \cup TablePcs /\ Here(c) = pc[cur[c]] /\ cur[c] \in Ctx
  <2>1. /\ Here(c) \notin IrqPcs \cup TickPcs \cup TablePcs
        /\ ncli[c] = 0 /\ ~spin[c]
    BY <1>1, CpuFacts DEF CpuTypes, CpuAt
  <2> QED BY <1>1, <2>1, HereFacts, AllPlaces, Zenon DEF Here, IrqPcs
<1>3. /\ Here(c)' = l
      /\ \A d \in CPU \ {c} : Here(d)' = Here(d)
      /\ \A x \in Ctx \ {cur[c]} : Place(x)' = Place(x) /\ irq'[x] = irq[x]
      /\ irq'[cur[c]] = l
  BY <1>1, <1>2, CpuFacts DEF IInv, TypeOK, Here, Place
<1>4. CpuTypes' /\ OnlyCpu(c) /\ CpuAt(c, l)'
  <2>1. CpuTypes' /\ OnlyCpu(c)
    BY <1>1, CpuFacts, Zenon DEF CpuTypes, OnlyCpu
  <2>2. CpuAt(c, l)'
    BY <1>1, <1>2, CpuFacts
       DEF CpuTypes, CpuAt, holding, TickPcs, TablePcs, OnPcs, OffPcs, IrqPcs
  <2> QED BY <2>1, <2>2, Zenon
<1>5. Cpus'
  BY <1>3, <1>4, CpusKept, Zenon
<1>6. TypeOK' /\ NoPanic'
  BY <1>1, <1>2, <1>4, Zenon DEF IInv, TypeOK, CpuTypes, NoPanic
<1>7. Places'
  <2>1. pc[cur[c]] \in OpenPcs
    BY <1>2, Zenon DEF IInv, Places, Ctx, ProcPcs, SchedulerPcs, OpenPcs, TickPcs, TablePcs
  <2> QED BY <1>1, <1>3, <2>1, Zenon DEF IInv, Places, Ctx, IrqPcs
<1>8. Contexts' /\ Saved'
  <2>1. Here(c) # "scan" /\ Here(c) \notin {"resume_s", "resume_y", "forkret"}
    BY <1>2, Zenon DEF TablePcs
  <2>2. Contexts'
    BY <1>1, <1>2, <1>3, <2>1 DEF IInv, Contexts, Ctx
  <2>3. Saved'
    BY <1>1, <1>2, <1>3 DEF IInv, Saved, Ctx, Place
  <2> QED BY <2>2, <2>3, Zenon
<1>9. Wakeups'
  BY <1>1, <1>2, <1>3 DEF IInv, Wakeups, TickPcs
<1> QED BY <1>5, <1>6, <1>7, <1>8, <1>9, Zenon DEF IInv

(* The handler returns, with nothing held, to the place it interrupted. *)
LEMMA iret_inv ==
  ASSUME IInv, NEW c \in CPU, iret(c)
  PROVE IInv'
<1>1. /\ Here(c) = "iret" /\ ~spin[c]
      /\ irq' = [irq EXCEPT ![cur[c]] = Free]
      /\ IF_' = [IF_ EXCEPT ![c] = TRUE]
      /\ UNCHANGED <<lock, ncli, intena, spin, cur, pc, state, saved, due, panicked>>
  BY Zenon DEF iret, At
<1>2. irq[cur[c]] # Free /\ ncli[c] = 0 /\ pc[cur[c]] \in OpenPcs /\ cur[c] \in Ctx
  <2>1. irq[cur[c]] # Free /\ cur[c] \in Ctx
    BY <1>1, HereFacts, Zenon DEF IrqPcs
  <2>2. ncli[c] = 0
    BY <1>1, CpuFacts DEF CpuAt, TickPcs, TablePcs
  <2> QED BY <2>1, <2>2, Zenon DEF IInv, Places
<1>3. /\ Here(c)' = pc[cur[c]]
      /\ \A d \in CPU \ {c} : Here(d)' = Here(d)
      /\ \A x \in Ctx \ {cur[c]} : Place(x)' = Place(x) /\ irq'[x] = irq[x]
      /\ irq'[cur[c]] = Free
  BY <1>1, <1>2, CpuFacts, Zenon DEF IInv, TypeOK, Here, Place
<1>4. CpuTypes' /\ OnlyCpu(c) /\ CpuAt(c, Here(c))'
  <2>1. CpuTypes' /\ OnlyCpu(c)
    BY <1>1, CpuFacts, Zenon DEF CpuTypes, OnlyCpu
  <2>2. CpuAt(c, Here(c))'
    BY <1>1, <1>2, <1>3, CpuFacts
       DEF CpuTypes, CpuAt, holding, TickPcs, TablePcs, IrqPcs, OpenPcs
  <2> QED BY <2>1, <2>2, Zenon
<1>5. Cpus'
  BY <1>3, <1>4, CpusKept, Zenon
<1>6. TypeOK' /\ NoPanic'
  BY <1>1, <1>2, <1>4, Zenon DEF IInv, TypeOK, CpuTypes, NoPanic
<1>7. Places'
  BY <1>1, <1>3, AllPlaces DEF IInv, Places, Ctx, IrqPcs
<1>8. Contexts' /\ Saved'
  <2>1. Contexts'
    BY <1>1, <1>2, <1>3 DEF IInv, Contexts, Ctx
  <2>2. Saved'
    BY <1>1, <1>2, <1>3 DEF IInv, Saved, Ctx, Place, OpenPcs
  <2> QED BY <2>1, <2>2, Zenon
<1>9. Wakeups'
  BY <1>1, <1>2, <1>3, Zenon DEF IInv, Wakeups, OpenPcs
<1> QED BY <1>5, <1>6, <1>7, <1>8, <1>9, Zenon DEF IInv

(* scheduler() switches to a RUNNABLE process, which no other CPU runs: a   *)
(* running process is RUNNABLE only in sched(), under ptable.lock.          *)
LEMMA pick_inv ==
  ASSUME IInv, NEW c \in CPU, NEW p \in Proc, pick(c, p)
  PROVE IInv'
<1>1. /\ Here(c) = "scan" /\ ~spin[c] /\ state[p] = "RUNNABLE"
      /\ state' = [state EXCEPT ![p] = "RUNNING"]
      /\ cur' = [cur EXCEPT ![c] = p]
      /\ UNCHANGED <<lock, IF_, ncli, intena, spin, pc, irq, saved, due, panicked>>
  BY Zenon DEF pick, At, cpuVars
<1>2. cur[c] = c /\ irq[c] = Free /\ pc[c] = "scan" /\ c \in Ctx /\ p \in Ctx /\ p # c
  BY <1>1, HereFacts, SchedAssumption, Zenon DEF SchedulerPcs, IrqPcs, Here, Ctx
<1>3. \A d \in CPU : cur[d] # p
  BY <1>1, <1>2, OneHolder, Zenon DEF TablePcs
<1>4. Place(p) \in {"forkret", "resume_s", "resume_y"}
  BY <1>3, Zenon DEF IInv, Contexts
<1>5. /\ Here(c)' = Place(p)
      /\ \A d \in CPU \ {c} : Here(d)' = Here(d) /\ cur'[d] = cur[d]
      /\ cur'[c] = p
      /\ \A x \in Ctx : Place(x)' = Place(x)
  BY <1>1, CpuFacts, Zenon DEF Here, Place
<1>6. CpuTypes' /\ OnlyCpu(c)
  BY <1>1, <1>3, <1>5, CpuFacts DEF CpuTypes, OnlyCpu
<1>7. CpuAt(c, Here(c))'
  BY <1>1, <1>4, <1>5, CpuFacts
     DEF CpuTypes, CpuAt, holding, TickPcs, TablePcs, OnPcs, OffPcs, IrqPcs
<1>8. Cpus'
  BY <1>5, <1>6, <1>7, CpusKept, Zenon
<1>9. TypeOK' /\ NoPanic' /\ Places' /\ Saved'
  BY <1>1, <1>2, <1>5, <1>6 DEF IInv, TypeOK, CpuTypes, NoPanic, Places, Saved, Ctx
<1>10. Contexts'
  BY <1>1, <1>2, <1>3, <1>5, SchedAssumption DEF IInv, TypeOK, Contexts, Ctx
<1>11. Wakeups'
  BY <1>1, <1>4, <1>5, <1>6, CpuFacts DEF IInv, Wakeups, CpuTypes
<1> QED BY <1>8, <1>9, <1>10, <1>11, Zenon DEF IInv

(* The assertions of sched() hold; the process leaves the CPU with its      *)
(* intena saved, and the scheduler goes on in its scan with ptable.lock.    *)
LEMMA sched_inv ==
  ASSUME IInv, NEW c \in CPU, sched(c)
  PROVE IInv'
<1> PICK l : l = IF Here(c) = "sched_s" THEN "resume_s" ELSE "resume_y"
  OBVIOUS
<1>0. cur[c] \in Proc /\ Here(c) \in {"sched_s", "sched_y"} /\ ~spin[c]
  BY HereFacts, Zenon DEF sched, At, ProcPcs
<1> PICK p \in Proc : p = cur[c]
  BY <1>0, Zenon
<1>1. SchedOk(c) /\ (intena[c] <=> Here(c) = "sched_s")
  BY <1>0, CpuFacts DEF CpuTypes, CpuAt, SchedOk, TickPcs, TablePcs, OnPcs, OffPcs, IrqPcs
<1>2. /\ saved' = [saved EXCEPT ![p] = intena[c]]
      /\ cur' = [cur EXCEPT ![c] = c]
      /\ Goto(c, l)
      /\ UNCHANGED <<lock, IF_, ncli, intena, spin, state, due, panicked>>
  BY <1>0, <1>1, Zenon DEF sched, At, cpuVars
<1>3. /\ l \in Pcs /\ p \in Ctx /\ c \in Ctx /\ p # c
      /\ \/ Here(c) = "sched_s" /\ l = "resume_s" /\ irq[p] = Free /\ state[p] = "SLEEPING"
         \/ Here(c) = "sched_y" /\ l = "resume_y" /\ irq[p] # Free /\ state[p] = "RUNNABLE"
      /\ pc[c] = "scan" /\ irq[c] = Free
  BY <1>0, CpuFacts, HereFacts, AllPlaces, SchedAssumption
     DEF IInv, Contexts, CpuAt, Ctx, IrqPcs, ProcPcs
<1>4. /\ \A x \in Ctx \ {p} : pc'[x] = pc[x] /\ irq'[x] = irq[x] /\ Place(x)' = Place(x)
      /\ irq[p] # Free => pc'[p] = pc[p] /\ irq'[p] = l
      /\ irq[p] = Free => pc'[p] = l /\ irq'[p] = Free
      /\ Place(p)' = l
  BY <1>2, <1>3, AllPlaces DEF Goto, IInv, TypeOK, Place
<1>5. /\ \A d \in CPU \ {c} : cur'[d] = cur[d] /\ cur[d] # p /\ Here(d)' = Here(d)
      /\ cur'[c] = c /\ Here(c)' = "scan"
  BY <1>2, <1>3, <1>4, CpuFacts DEF Here
<1>6. CpuTypes' /\ OnlyCpu(c) /\ CpuAt(c, Here(c))'
  <2>1. CpuTypes' /\ OnlyCpu(c)
    BY <1>2, <1>5, CpuFacts, Zenon DEF CpuTypes, OnlyCpu
  <2>2. CpuAt(c, Here(c))'
    BY <1>0, <1>2, <1>3, <1>5, CpuFacts, SchedAssumption
       DEF CpuTypes, CpuAt, holding, TickPcs, TablePcs, OnPcs, OffPcs, IrqPcs
  <2> QED BY <2>1, <2>2, Zenon
<1>7. Cpus'
  BY <1>5, <1>6, CpusKept, Zenon
<1>8. TypeOK' /\ NoPanic'
  BY <1>2, <1>3, <1>6 DEF IInv, TypeOK, CpuTypes, NoPanic, Goto
<1>9. Places'
  BY <1>3, <1>4, AllPlaces, SchedAssumption DEF IInv, Places, Ctx, IrqPcs, ProcPcs
<1>10. Contexts'
  <2>1. \A q \in Proc \ {p} : (\A d \in CPU : cur'[d] # q) => \A d \in CPU : cur[d] # q
    BY <1>5, Zenon
  <2> QED BY <1>2, <1>3, <1>4, <1>5, <2>1, SchedAssumption DEF IInv, Contexts, Ctx
<1>11. Saved'
  BY <1>1, <1>2, <1>3, <1>4 DEF IInv, TypeOK, Saved, Ctx
<1>12. Wakeups'
  BY <1>2, <1>3, <1>5, Zenon DEF IInv, Wakeups
<1> QED BY <1>7, <1>8, <1>9, <1>10, <1>11, <1>12, Zenon DEF IInv

(* A step that changes nothing keeps the invariant. *)
LEMMA stutter_inv ==
  ASSUME IInv, UNCHANGED vars
  PROVE IInv'
<1>1. TypeOK' /\ NoPanic' /\ Places' /\ Contexts' /\ Saved'
  BY DEF IInv, vars, cpuVars, TypeOK, NoPanic, Places, Contexts, Saved, Place
<1>2. Cpus' /\ Wakeups'
  BY DEF IInv, vars, cpuVars, Cpus, CpuAt, Wakeups, Here, holding
<1> QED BY <1>1, <1>2, Zenon DEF IInv

(* The schedulers start without locks, with every process at forkret(). *)
LEMMA Init_inv == Init => IInv
<1> SUFFICES ASSUME Init PROVE IInv
  OBVIOUS
<1> USE SchedAssumption DEF Init
<1>1. TypeOK /\ NoPanic
  BY AllPlaces, Zenon DEF TypeOK, NoPanic, Ctx, ProcPcs, SchedulerPcs
<1>2. Places
  BY AllPlaces, Zenon DEF Places, Ctx, ProcPcs, SchedulerPcs, IrqPcs
<1>3. Contexts /\ Saved
  BY Zenon DEF Contexts, Saved, Place, Ctx
<1>4. \A c \in CPU : Here(c) = "idle"
  BY Zenon DEF Here, Ctx
<1>5. Cpus
  BY <1>4 DEF Cpus, CpuAt, holding, Ctx, TickPcs, TablePcs, OnPcs, OffPcs, IrqPcs
<1>6. Wakeups
  BY <1>4, Zenon DEF Wakeups, Ctx
<1> QED BY <1>1, <1>2, <1>3, <1>5, <1>6, Zenon DEF IInv

(* Every step preserves the invariant: one case per action. *)
LEMMA Next_inv == IInv /\ [Next]_vars => IInv'
<1> SUFFICES ASSUME IInv, [Next]_vars PROVE IInv'
  OBVIOUS
<1>1. ASSUME NEW c \in CPU, Run(c) PROVE IInv'
  BY <1>1, pushcli_inv, idle_inv, scan_end_inv, sched_inv, resume_inv, forkret_inv,
     trapret_inv, enter_inv, test_due_inv, test_early_inv, sleep_inv, tick_inv,
     wakeup_inv, tick_done_inv, after_inv, yield_inv, iret_inv, Zenon DEF Run
<1>2. ASSUME NEW c \in CPU, xchg(c) \/ sys_sleep(c) \/ timer(c) PROVE IInv'
  BY <1>2, xchg_inv, sys_sleep_inv, timer_inv, Zenon
<1>3. ASSUME NEW c \in CPU, NEW p \in Proc, pick(c, p) PROVE IInv'
  BY <1>3, pick_inv, Zenon
<1>4. CASE UNCHANGED vars
  BY <1>4, stutter_inv, Zenon
<1> QED BY <1>1, <1>2, <1>3, <1>4, Zenon DEF Next

-----------------------------------------------------------------------------
(* IInv holds in every reachable state of the CPUs. *)
THEOREM Invariance == Spec => []IInv
  BY Init_inv, Next_inv, PTL DEF Spec

(* For any number of CPUs and processes: no assertion of spinlock.c or       *)
(* sched() fails, no tick is missed by a sleeper, no context runs on two     *)
(* CPUs, interrupts are on exactly where the locks allow, and handlers do    *)
(* not nest.                                                                 *)
THEOREM SchedIsSound == Spec => []SchedSound
<1>1. IInv => OneCpuPerContext
  <2> SUFFICES ASSUME IInv PROVE OneCpuPerContext
    OBVIOUS
  <2>1. \A c, d \in CPU : c # d => cur[c] # cur[d]
    BY Zenon DEF IInv, Contexts
  <2>2. ASSUME lock["ptable"] = Free, NEW p \in Proc
        PROVE state[p] = "RUNNING" <=> \E c \in CPU : cur[c] = p
    BY <2>2, SchedAssumption DEF IInv, Contexts, Cpus, CpuAt, TablePcs, holding
  <2> QED BY <2>1, <2>2, Zenon DEF OneCpuPerContext
<1>2. IInv => InterruptsMatchLocks
  BY DEF IInv, TypeOK, Cpus, CpuAt, InterruptsMatchLocks
<1>3. IInv => NoNesting
  BY HereFacts, Zenon DEF IInv, Cpus, CpuAt, NoNesting
<1>4. IInv => NoMissedWakeup
  BY Zenon DEF IInv, Wakeups, Cpus, CpuAt, NoMissedWakeup, TickPcs
<1>5. IInv => SchedSound
  BY <1>1, <1>2, <1>3, <1>4, Zenon DEF IInv, SchedSound
<1> QED BY <1>5, Invariance, PTL

(* No CPU spins for a lock that it holds itself, or that is held by a CPU   *)
(* that spins for one of its own: tickslock is always taken before          *)
(* ptable.lock, and interrupts are off while either is held.                *)
THEOREM NoCpuDeadlock == Spec => []NoSpinDeadlock
<1>1. IInv => NoSpinDeadlock
  <2> SUFFICES ASSUME IInv, NEW c \in CPU, NEW d \in CPU, WaitsFor(c, d)
               PROVE c # d /\ ~WaitsFor(d, c)
    BY Zenon DEF NoSpinDeadlock
  <2> USE Sites DEF IInv, Cpus, CpuAt, WaitsFor, holding, TickPcs, TablePcs
  <2>1. CASE Here(c) \in {"sleep_tl", "sleep_re", "tick_tl"}
    BY <2>1
  <2>2. CASE Here(c) \in {"sleep_pt", "tick_pt", "yield_pt", "sched_pt"}
    BY <2>2
  <2> QED BY <2>1, <2>2, Zenon
<1> QED BY <1>1, Invariance, PTL
=============================================================================
