------------------------------- MODULE Memory -------------------------------
(***************************************************************************)
(* Physical pages and address spaces: the page allocator (kalloc.c), page  *)
(* tables (vm.c), and the system calls that build, grow and drop address   *)
(* spaces (fork, exec, sbrk, exit and wait in proc.c and exec.c), with     *)
(* memory running out at every point.                                      *)
(*                                                                         *)
(* A step of a system call goes up to its next loop iteration: one page    *)
(* taken and mapped, or a whole address space given back (kfree does not   *)
(* fail, and nobody else looks at the pages).  kalloc takes the lowest     *)
(* free page: no code depends on which one it gets.                        *)
(***************************************************************************)
EXTENDS Integers, Sequences, FiniteSets, FiniteSetsExt

CONSTANTS NPROC,       \* slots; the first is init's
          NPAGES,      \* physical pages that kinit frees
          PGSIZE,      \* bytes of a page
          NPTENTRIES,  \* entries of a page table
          KERNBASE,    \* first kernel address, half of the address range
          KTABLES,     \* page tables of the kernel part of a directory
          PHNUM,       \* program headers of a file, at most
          MAXARG,      \* bound of exec's arguments
          SbrkSizes    \* amounts by which processes grow and shrink

ASSUME MemoryAssumption ==
    /\ {NPROC, NPAGES, PGSIZE, NPTENTRIES, KTABLES} \subseteq Nat \ {0}
    /\ {PHNUM, MAXARG} \subseteq Nat /\ SbrkSizes \subseteq 1..(KERNBASE - 1)
    /\ KERNBASE % (PGSIZE * NPTENTRIES) = 0 /\ NPAGES > 4 + KTABLES

VARIABLES free,      \* pages of the free list
          kstack,    \* kernel stack of a slot, 0: none
          st,        \* "unused", "embryo", "run", "zombie"
          mem,       \* address space proc->pgdir with proc->sz
          other,     \* address space that fork or exec builds, or exec drops
          call,      \* the system call a process is in: see Idle
          cpu,       \* what the CPU of the process has loaded: directory,
                     \* and pages given back that it may still have mapped
          crash      \* a panic, or a store through a bad pointer

vars == <<free, kstack, st, mem, other, call, cpu, crash>>

Proc == 1..NPROC
Pages == 1..NPAGES
UInt(x) == x % (2 * KERNBASE)
Vpn(a) == a \div PGSIZE
PGROUNDUP(a) == PGSIZE * Vpn(a + PGSIZE - 1)
Vpns == 0..(KERNBASE \div PGSIZE - 1)
Tables == 0..(KERNBASE \div (PGSIZE * NPTENTRIES) - 1)
TableOf(g) == g \div NPTENTRIES

NoImage == [dir |-> 0, ktab |-> {}, tab |-> [t \in Tables |-> 0], pte |-> [g \in Vpns |-> 0],
            user |-> {}, sz |-> 0, torn |-> FALSE]
UserPages(m) == Range(m.pte) \ {0}
FramesOf(m) == (({m.dir} \cup m.ktab \cup Range(m.tab)) \ {0}) \cup UserPages(m)

(* ------------------------ page tables (vm.c) --------------------------- *)
Lowest(S, n) == {f \in S : Cardinality({g \in S : g <= f}) <= n}
kalloc(fr) == IF fr = {} THEN 0 ELSE Min(fr)

(* setupkvm: a directory and the tables of the kernel part.  When the      *)
(* pages run out half way, those it has are neither returned nor freed.    *)
setupkvm(fr) ==
    LET got == Lowest(fr, 1 + KTABLES)
    IN [ok |-> Cardinality(got) = 1 + KTABLES, free |-> fr \ got,
        img |-> [NoImage EXCEPT !.dir = kalloc(got), !.ktab = got \ {kalloc(got)}]]

HasTable(m, g) == m.tab[TableOf(g)] # 0
Present(m, g) == HasTable(m, g) /\ m.pte[g] # 0
Remap(m, g) == Present(m, g)

(* mappages of page f at g: walkpgdir may have to take a page for the      *)
(* table, and fails when there is none.                                    *)
mappages(m, fr, g, f, user) ==
    LET t == TableOf(g)
        new == ~HasTable(m, g)
        tab == IF new THEN kalloc(fr) ELSE m.tab[t]
    IN IF new /\ fr = {} THEN [ok |-> FALSE, img |-> m, free |-> fr]
       ELSE [ok |-> TRUE, free |-> fr \ {tab},
             img |-> [m EXCEPT !.tab[t] = tab, !.pte[g] = f,
                               !.user = IF user THEN @ \cup {g} ELSE @]]

(* The pages deallocuvm comes to: where there is no table it skips as many *)
(* pages as a table has, wherever in the table it is.                      *)
RoundStart_down(newsz) == PGSIZE * Vpn(newsz)
RoundStart(newsz) == PGROUNDUP(newsz)

Visited(m, oldsz, newsz) ==
    LET v[a \in 0..(KERNBASE + PGSIZE * (NPTENTRIES + 1))] ==
            IF a >= oldsz THEN {}
            ELSE IF HasTable(m, Vpn(a)) THEN {Vpn(a)} \cup v[a + PGSIZE]
            ELSE v[a + PGSIZE * NPTENTRIES]
    IN IF newsz >= oldsz THEN {} ELSE v[RoundStart(newsz)]
Freed(m, oldsz, newsz) == {m.pte[g] : g \in Visited(m, oldsz, newsz)} \ {0}
Unmapped_kept(m, gs) == m
Unmapped(m, gs) == [m EXCEPT !.pte = [g \in Vpns |-> IF g \in gs THEN 0 ELSE @[g]], !.user = @ \ gs]

deallocuvm(m, oldsz, newsz) == Unmapped(m, Visited(m, oldsz, newsz))
(* freevm: all user pages, then the tables and the directory.              *)
freevm(m) == Freed(m, KERNBASE, 0) \cup ((Range(m.tab) \cup m.ktab \cup {m.dir}) \ {0})

(* copyout of the bytes from va up to end: every page has to be mapped for *)
(* the user; where there is not even a table the entry is read at address  *)
(* 0 of the process that calls exec.                                       *)
VpnsOf(va, end) == {g \in Vpns : va < (g + 1) * PGSIZE /\ g * PGSIZE < end}
copyout(m, va, end) == \A g \in VpnsOf(va, end) : Present(m, g) /\ g \in m.user
NullEntry(m, va, end) == \E g \in VpnsOf(va, end) : ~HasTable(m, g)

(* -------------------------- initial state ------------------------------ *)
(* userinit with kinit and inituvm: init has one page.                     *)
InitImage == [NoImage EXCEPT !.dir = 1, !.ktab = 4..(3 + KTABLES), !.tab[0] = 2, !.pte[0] = 3,
                             !.user = {0}, !.sz = PGSIZE]
InitStack == 4 + KTABLES
Idle == [pc |-> "user",
         to |-> 0,         \* newsz of the current allocuvm
         at |-> 0,         \* the address its loop, or copyuvm's, has come to
         segs |-> 0,       \* program headers that exec has read
         seg |-> 0,        \* the segment of the last one
         child |-> 0,      \* the slot fork fills
         ip |-> FALSE,     \* exec holds its inode
         ops |-> 0]        \* file system operations that are open
Loads(m) == [cr3 |-> m.dir, stale |-> {}]
First(x, y) == [p \in Proc |-> IF p = 1 THEN x ELSE y]
Init ==
    /\ free = Pages \ (FramesOf(InitImage) \cup {InitStack})
    /\ kstack = First(InitStack, 0) /\ st = First("run", "unused")
    /\ mem = First(InitImage, NoImage) /\ other = [p \in Proc |-> NoImage]
    /\ call = [p \in Proc |-> Idle]
    /\ cpu = First(Loads(InitImage), Loads(NoImage))
    /\ crash = FALSE

(* ------------------------------ steps ---------------------------------- *)
InUser(p) == st[p] = "run" /\ call[p].pc = "user"
At(p, l) == st[p] = "run" /\ call[p].pc = l
Goto(p, l) == call' = [call EXCEPT ![p].pc = l]
Return(p) == call' = [call EXCEPT ![p] = [Idle EXCEPT !.ops = call[p].ops]]
Crash == crash' = TRUE /\ UNCHANGED <<free, kstack, st, mem, other, call, cpu>>

(* The CPU switches to another process and back: switchuvm.                *)
Resume(p) == /\ st[p] = "run"
             /\ cpu' = [cpu EXCEPT ![p] = Loads(mem[p])]
             /\ UNCHANGED <<free, kstack, st, mem, other, call, crash>>

(* What allocuvm returns for newsz = n when the pages suffice, 0 being an  *)
(* error; its loop goes up to that size.                                   *)
AllocTo(m, n) == IF n >= KERNBASE THEN 0 ELSE IF n < m.sz THEN m.sz ELSE n
AllocStart(sz) == PGROUNDUP(sz)

Loop(p, l, m, n) == [call EXCEPT ![p].pc = l, ![p].to = n, ![p].at = AllocStart(m.sz)]

(* One iteration of allocuvm on m in which a page is there: when mappages  *)
(* fails nobody notices, the page is lost and the address space torn.      *)
AllocPage(p, m) ==
    LET f == kalloc(free)
        r == mappages(m, free \ {f}, Vpn(call[p].at), f, TRUE)
    IN [free |-> r.free, img |-> IF r.ok THEN r.img ELSE [m EXCEPT !.torn = TRUE]]
Looping(p) == call[p].at < call[p].to
Iterated(p) == [call EXCEPT ![p].at = @ + PGSIZE]

(* ------------------------- sbrk (growproc) ----------------------------- *)
(* At or above KERNBASE allocuvm returns 0 at once, and nothing changes.   *)
Grow(p, n) ==
    /\ InUser(p) /\ n > 0 /\ AllocTo(mem[p], mem[p].sz + n) # 0
    /\ call' = Loop(p, "grow", mem[p], mem[p].sz + n)
    /\ UNCHANGED <<free, kstack, st, mem, other, cpu, crash>>

GrowStep(p) ==
    LET m == mem[p]
    IN /\ At(p, "grow")
       /\ IF ~Looping(p)
          THEN /\ mem' = [mem EXCEPT ![p].sz = call[p].to]
               /\ cpu' = [cpu EXCEPT ![p] = Loads(m)]
               /\ Return(p)
               /\ UNCHANGED <<free, crash>>
          ELSE IF free = {}
          THEN /\ mem' = [mem EXCEPT ![p] = deallocuvm(m, call[p].to, m.sz)]
               /\ free' = Freed(m, call[p].to, m.sz)
               /\ Return(p)
               /\ UNCHANGED <<cpu, crash>>
          ELSE /\ mem' = [mem EXCEPT ![p] = AllocPage(p, m).img]
               /\ free' = AllocPage(p, m).free
               /\ call' = Iterated(p)
               /\ crash' = Remap(m, Vpn(call[p].at))
               /\ UNCHANGED cpu
       /\ UNCHANGED <<kstack, st, other>>

(* A size of 0 is what growproc takes for an error: the pages are gone,    *)
(* but the size stays and the CPU goes on with what it has.  A size that   *)
(* wraps below 0 is no less than the old one: only switchuvm happens.      *)
Shrink(p, n) ==
    LET m == mem[p]
        new == UInt(m.sz - n)
        pages == Freed(m, m.sz, new)
        cut == deallocuvm(m, m.sz, new)
    IN /\ InUser(p) /\ n > 0 /\ new < m.sz
       /\ free' = free \cup pages
       /\ IF new = 0
          THEN /\ mem' = [mem EXCEPT ![p] = [cut EXCEPT !.torn = TRUE]]
               /\ cpu' = [cpu EXCEPT ![p].stale = @ \cup pages]
          ELSE /\ mem' = [mem EXCEPT ![p] = [cut EXCEPT !.sz = new]]
               /\ cpu' = [cpu EXCEPT ![p] = Loads(m)]
       /\ UNCHANGED <<kstack, st, other, call, crash>>

(* ------------------------------- exec ---------------------------------- *)
(* Loadable segments, with sizes in bytes: two that end in the first page, *)
(* one that starts on the second page, one that does not fit below         *)
(* KERNBASE, one whose file part is too large, one that starts inside a    *)
(* page, and one whose end wraps.                                          *)
Segment(vaddr, memsz, filesz) == [vaddr |-> vaddr, memsz |-> memsz, filesz |-> filesz]
Segments == { Segment(0, 1, 1), Segment(0, PGSIZE, 1), Segment(PGSIZE, 1, 1),
              Segment(0, KERNBASE, 1), Segment(0, 1, PGSIZE), Segment(1, 1, 1),
              Segment(2 * KERNBASE - PGSIZE, PGSIZE + 1, 1) }

(* begin_op and namei; with ilock the header is read, and good or not.     *)
(* Without an inode end_op follows at once.                                *)
Exec(p) ==
    /\ InUser(p)
    /\ \/ \E l \in {"exec_vm", "exec_bad"} :
             call' = [call EXCEPT ![p].pc = l, ![p].ip = TRUE, ![p].ops = @ + 1]
       \/ call' = [call EXCEPT ![p].ops = (@ + 1) - 1]
    /\ UNCHANGED <<free, kstack, st, mem, other, cpu, crash>>

ExecVm(p) ==
    LET r == setupkvm(free)
    IN /\ At(p, "exec_vm")
       /\ free' = r.free
       /\ IF r.ok THEN other' = [other EXCEPT ![p] = r.img] /\ Goto(p, "load")
          ELSE UNCHANGED other /\ Goto(p, "exec_bad")
       /\ UNCHANGED <<kstack, st, mem, cpu, crash>>

(* The next program header, up to the loop of allocuvm; readi may fail.    *)
NextSegment(p) ==
    /\ At(p, "load") /\ call[p].segs < PHNUM
    /\ \/ \E seg \in Segments :
             LET sz == AllocTo(other[p], UInt(seg.vaddr + seg.memsz))
             IN IF seg.memsz < seg.filesz \/ sz = 0 THEN Goto(p, "exec_bad")
                ELSE call' = [Loop(p, "load_pages", other[p], sz) EXCEPT
                                  ![p].segs = @ + 1, ![p].seg = seg]
       \/ Goto(p, "exec_bad")
    /\ UNCHANGED <<free, kstack, st, mem, other, cpu, crash>>

(* The loop of allocuvm in exec, for a segment and for the stack.          *)
ExecPages(p) ==
    LET m == other[p]
    IN /\ At(p, "load_pages") \/ At(p, "stack_pages")
       /\ Looping(p)
       /\ IF free = {}
          THEN /\ other' = [other EXCEPT ![p] = deallocuvm(m, call[p].to, m.sz)]
               /\ free' = Freed(m, call[p].to, m.sz)
               /\ Goto(p, "exec_bad")
          ELSE /\ other' = [other EXCEPT ![p] = AllocPage(p, m).img]
               /\ free' = AllocPage(p, m).free
               /\ call' = Iterated(p)
       /\ UNCHANGED <<kstack, st, mem, cpu, crash>>

(* loaduvm: an address inside a page is a panic, and so is one without a   *)
(* table; an entry without a page, or one of the kernel, makes readi store *)
(* where no page of the image is.  The file may be too short for a page    *)
(* before that.                                                            *)
LoadAddrs(seg) == {UInt(seg.vaddr + i) : i \in {j \in 0..(seg.filesz - 1) : j % PGSIZE = 0}}
Mapped(m, a) == Vpn(a) \in Vpns /\ Present(m, Vpn(a))
Loaduvm(p) ==
    LET seg == call[p].seg
        aligned == seg.vaddr % PGSIZE = 0
        mapped == \A a \in LoadAddrs(seg) : Mapped(other[p], a)
    IN /\ At(p, "load_pages") /\ ~Looping(p)
       /\ \/ ~(aligned /\ mapped) /\ Crash
          \/ /\ aligned
             /\ other' = [other EXCEPT ![p].sz = call[p].to]
             /\ \/ mapped /\ Goto(p, "load")
                \/ seg.filesz > 0 /\ Mapped(other[p], seg.vaddr) /\ Goto(p, "exec_bad")
             /\ UNCHANGED <<free, kstack, st, mem, cpu, crash>>

Forgets(ip) == FALSE

(* iunlockput and end_op, and room for the stack.                          *)
ExecStack(p) ==
    LET sz == PGROUNDUP(other[p].sz)
    IN /\ At(p, "load")
       /\ call' = [call EXCEPT ![p].ip = Forgets(@), ![p].ops = @ - 1, ![p].at = sz,
                               ![p].to = sz + 2 * PGSIZE,
                               ![p].pc = IF AllocTo(other[p], sz + 2 * PGSIZE) = 0
                                         THEN "exec_bad" ELSE "stack_pages"]
       /\ other' = [other EXCEPT ![p].sz = sz]
       /\ UNCHANGED <<free, kstack, st, mem, cpu, crash>>

(* clearpteu, the arguments, the code that calls exit and the vector: n    *)
(* arguments of one byte, one byte for the code (whose copyout is not      *)
(* checked) and one for the vector.                                        *)
Pushed(m, top, n) ==
    n <= MAXARG /\ copyout(m, top - n, top) /\ copyout(m, top - n - 2, top - n - 1)
Arguments(p) ==
    LET top == call[p].to
        guard == Vpn(top - 2 * PGSIZE)
        m == [other[p] EXCEPT !.sz = top, !.user = @ \ {guard}]
    IN /\ At(p, "stack_pages") /\ ~Looping(p)
       /\ IF ~HasTable(m, guard) THEN Crash
          ELSE \E n \in 0..(MAXARG + 1) :
                 \/ /\ other' = [other EXCEPT ![p] = m]
                    /\ Goto(p, IF Pushed(m, top, n) THEN "commit" ELSE "exec_bad")
                    /\ UNCHANGED <<free, kstack, st, mem, cpu, crash>>
                 \/ NullEntry(m, top - n - 2, top) /\ Crash

(* proc->pgdir and sz are set and switchuvm loads them.                    *)
Commit_unswitched(p) ==
    /\ At(p, "commit")
    /\ mem' = [mem EXCEPT ![p] = other[p]] /\ other' = [other EXCEPT ![p] = mem[p]]
    /\ Goto(p, "drop")
    /\ UNCHANGED <<free, kstack, st, cpu, crash>>
Commit(p) ==
    /\ At(p, "commit")
    /\ mem' = [mem EXCEPT ![p] = other[p]] /\ other' = [other EXCEPT ![p] = mem[p]]
    /\ cpu' = [cpu EXCEPT ![p] = Loads(other[p])]
    /\ Goto(p, "drop")
    /\ UNCHANGED <<free, kstack, st, crash>>

DropOld(p) ==
    /\ At(p, "drop")
    /\ free' = free \cup freevm(other[p]) /\ other' = [other EXCEPT ![p] = NoImage]
    /\ Return(p)
    /\ UNCHANGED <<kstack, st, mem, cpu, crash>>

BadFrees_nothing(m) == {}
BadFrees(m) == IF m.dir = 0 THEN {} ELSE freevm(m)

ExecBad(p) ==
    /\ At(p, "exec_bad")
    /\ free' = free \cup BadFrees(other[p]) /\ other' = [other EXCEPT ![p] = NoImage]
    /\ call' = [call EXCEPT ![p] = [Idle EXCEPT !.ops = call[p].ops - (IF call[p].ip THEN 1 ELSE 0)]]
    /\ UNCHANGED <<kstack, st, mem, cpu, crash>>

(* ------------------------ fork, exit and wait -------------------------- *)
(* allocproc: a slot and its kernel stack; without a page the slot is free *)
(* again.                                                                  *)
Fork(p) ==
    /\ InUser(p) /\ free # {}
    /\ \E q \in Proc :
          /\ st[q] = "unused"
          /\ st' = [st EXCEPT ![q] = "embryo"]
          /\ kstack' = [kstack EXCEPT ![q] = kalloc(free)]
          /\ free' = free \ {kalloc(free)}
          /\ call' = [call EXCEPT ![p].pc = "fork_vm", ![p].child = q]
    /\ UNCHANGED <<mem, other, cpu, crash>>

ForkVm(p) ==
    LET r == setupkvm(free)
    IN /\ At(p, "fork_vm")
       /\ free' = r.free
       /\ IF r.ok THEN other' = [other EXCEPT ![p] = r.img] /\ Goto(p, "copy")
          ELSE UNCHANGED other /\ Goto(p, "fork_bad")
       /\ UNCHANGED <<kstack, st, mem, cpu, crash>>

(* One iteration of copyuvm; when mappages fails its page is lost.         *)
CopyPage(p) ==
    LET g == Vpn(call[p].at)
        f == kalloc(free)
        r == mappages(other[p], free \ {f}, g, f, g \in mem[p].user)
    IN /\ At(p, "copy") /\ call[p].at < mem[p].sz
       /\ IF ~Present(mem[p], g) THEN Crash
          ELSE /\ IF free = {} THEN Goto(p, "copy_bad") /\ UNCHANGED <<free, other>>
                  ELSE /\ free' = r.free /\ other' = [other EXCEPT ![p] = r.img]
                       /\ IF r.ok THEN call' = Iterated(p) ELSE Goto(p, "copy_bad")
               /\ UNCHANGED <<kstack, st, mem, cpu, crash>>

CopyBad(p) ==
    /\ At(p, "copy_bad")
    /\ free' = free \cup freevm(other[p]) /\ other' = [other EXCEPT ![p] = NoImage]
    /\ Goto(p, "fork_bad")
    /\ UNCHANGED <<kstack, st, mem, cpu, crash>>

ForkBad(p) ==
    LET q == call[p].child
    IN /\ At(p, "fork_bad")
       /\ free' = free \cup {kstack[q]} /\ kstack' = [kstack EXCEPT ![q] = 0]
       /\ st' = [st EXCEPT ![q] = "unused"]
       /\ Return(p)
       /\ UNCHANGED <<mem, other, cpu, crash>>

ForkDone(p) ==
    LET q == call[p].child
    IN /\ At(p, "copy") /\ call[p].at >= mem[p].sz
       /\ mem' = [mem EXCEPT ![q] = [other[p] EXCEPT !.sz = mem[p].sz, !.torn = mem[p].torn]]
       /\ other' = [other EXCEPT ![p] = NoImage]
       /\ st' = [st EXCEPT ![q] = "run"]
       /\ cpu' = [cpu EXCEPT ![q] = Loads(other[p])]
       /\ Return(p)
       /\ UNCHANGED <<free, kstack, crash>>

(* exit, and the scheduler's switchkvm: both hold ptable.lock.             *)
Exit(p) ==
    /\ InUser(p) /\ p # 1
    /\ st' = [st EXCEPT ![p] = "zombie"] /\ cpu' = [cpu EXCEPT ![p] = Loads(NoImage)]
    /\ UNCHANGED <<free, kstack, mem, other, call, crash>>

(* wait of the parent, whoever it is.                                      *)
Wait(p) ==
    /\ InUser(p)
    /\ \E q \in Proc :
          /\ st[q] = "zombie"
          /\ free' = free \cup freevm(mem[q]) \cup {kstack[q]}
          /\ kstack' = [kstack EXCEPT ![q] = 0] /\ mem' = [mem EXCEPT ![q] = NoImage]
          /\ st' = [st EXCEPT ![q] = "unused"]
    /\ UNCHANGED <<other, call, cpu, crash>>

Step(p) == \/ Resume(p) \/ GrowStep(p) \/ \E n \in SbrkSizes : Grow(p, n) \/ Shrink(p, n)
           \/ Exec(p) \/ ExecVm(p) \/ NextSegment(p) \/ ExecPages(p) \/ Loaduvm(p) \/ ExecStack(p)
           \/ Arguments(p) \/ Commit(p) \/ DropOld(p) \/ ExecBad(p)
           \/ Fork(p) \/ ForkVm(p) \/ CopyPage(p) \/ CopyBad(p) \/ ForkBad(p) \/ ForkDone(p)
           \/ Exit(p) \/ Wait(p)
Next == ~crash /\ \E p \in Proc : Step(p)
Spec == Init /\ [][Next]_vars
-----------------------------------------------------------------------------
Images == {mem[p] : p \in Proc} \cup {other[p] : p \in Proc}
Holders == {<<"mem", p>> : p \in Proc} \cup {<<"other", p>> : p \in Proc} \cup {<<"stack", p>> : p \in Proc}
FramesHeld(h) == CASE h[1] = "mem" -> FramesOf(mem[h[2]])
                   [] h[1] = "other" -> FramesOf(other[h[2]])
                   [] h[1] = "stack" -> {kstack[h[2]]} \ {0}
(* The number of entries of an image that hold a page.                     *)
Entries(m) == Cardinality({t \in Tables : m.tab[t] # 0}) + Cardinality({g \in Vpns : m.pte[g] # 0})
              + Cardinality(m.ktab) + (IF m.dir = 0 THEN 0 ELSE 1)

Known == free \cup UNION {FramesHeld(h) : h \in Holders}

(* Every physical page has one use: it is free, or it is one entry of one  *)
(* directory, table or kernel stack, whatever fork, exec, sbrk, exit and   *)
(* wait did and wherever they failed; so no page is freed twice or handed  *)
(* out while in use (kalloc.c, vm.c).  As many pages are free or held as   *)
(* there are free pages, entries that hold one and stacks.                 *)
PagesOwnedOnce ==
    Cardinality(Known) =
        Cardinality(free) + MapThenSumSet(LAMBDA p : Entries(mem[p]) + Entries(other[p])
                                                     + (IF kstack[p] = 0 THEN 0 ELSE 1), Proc)

(* A page is lost only in a step in which kalloc found no page: all other  *)
(* ways out of fork, exec and sbrk, and exit with wait, give back all they *)
(* took.                                                                   *)
Lost == Pages \ Known
LeaksOnlyWhenOut == [][Lost' # Lost => Lost \subseteq Lost' /\ free' = {}]_vars

(* A CPU runs on a page directory that is in use by the process it runs,   *)
(* and in user mode it has no page mapped that was given back, unless the  *)
(* process gave back all it had (growproc takes that for an error and does *)
(* not switch).                                                            *)
LoadedDirLive ==
    \A p \in Proc : st[p] = "run" =>
        /\ cpu[p].cr3 \notin free /\ cpu[p].cr3 \in {mem[p].dir, other[p].dir}
        /\ InUser(p) => /\ cpu[p].cr3 = mem[p].dir
                        /\ cpu[p].stale # {} => UserPages(mem[p]) = {}

(* A call that is over left everything in order: in user mode exactly the *)
(* pages below the size of the process are mapped, exec has ended its file *)
(* system operation once on every path, and the kernel neither panics nor  *)
(* follows a bad pointer, with two exceptions that the code has: a page    *)
(* table could not be allocated in allocuvm or a process gave back all its *)
(* pages (torn); and exec, which tests neither, is at a segment that does  *)
(* not begin at a page or whose end wraps.  For all others what allocuvm   *)
(* maps is what loaduvm asks for ("addr must be page-aligned and the pages *)
(* from addr to addr+sz must already be mapped").                          *)
Loadable(seg) == seg.vaddr % PGSIZE = 0 /\ seg.vaddr + seg.memsz < 2 * KERNBASE
CallsLeaveOrder ==
    /\ \A p \in Proc : InUser(p) /\ ~mem[p].torn =>
          {g \in Vpns : mem[p].pte[g] # 0} = {g \in Vpns : g * PGSIZE < mem[p].sz}
    /\ \A p \in Proc : call[p].ops >= 0 /\ (InUser(p) => call[p].ops = 0)
    /\ crash => \/ \E m \in Images : m.torn
                \/ \E p \in Proc : At(p, "load_pages") /\ ~Loadable(call[p].seg)

(* States that differ only in which physical pages are where, or in a part *)
(* of call that is set again before it is read, are the same for the code; *)
(* one of each kind is explored.                                           *)
Masked(c) ==
    [c EXCEPT !.at = IF c.pc \in {"grow", "load_pages", "stack_pages", "copy"} THEN @ ELSE 0,
              !.to = IF c.pc \in {"grow", "load_pages", "stack_pages"} THEN @ ELSE 0,
              !.segs = IF c.pc \in {"load", "load_pages"} THEN @ ELSE 0,
              !.seg = IF c.pc = "load_pages" THEN @ ELSE 0]
Shape(m) == [m EXCEPT !.dir = (@ # 0), !.ktab = Cardinality(@),
                      !.tab = [t \in Tables |-> @[t] # 0], !.pte = [g \in Vpns |-> @[g] # 0]]
UpToRenaming ==
    <<Cardinality(Known), Cardinality(free), st, [p \in Proc |-> Masked(call[p])], crash,
      [p \in Proc |-> <<Shape(mem[p]), Shape(other[p]), kstack[p] # 0>>],
      [p \in Proc |-> <<cpu[p].cr3 \in free, cpu[p].cr3 = mem[p].dir, cpu[p].cr3 = other[p].dir,
                        cpu[p].stale # {}>>]>>
=============================================================================
