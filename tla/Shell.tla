------------------------------- MODULE Shell -------------------------------
(***************************************************************************)
(* The shell's main loop, its job list, and the processes that runcmd      *)
(* makes of a command (sh.c).  The shell reads a line, drops finished jobs *)
(* from its list, hands the line to the foreground job if there is one,    *)
(* and otherwise starts a job: the processes of the job write their pids   *)
(* into a pipe that the shell reads until every write end is closed.       *)
(*                                                                         *)
(* A line is a sequence of tokens (module ShParse), one of the built-in    *)
(* commands of BuiltIns, or <<"fg", n>>.  A step of a process goes up to   *)
(* its next fork, write, wait or exit.                                     *)
(***************************************************************************)
EXTENDS ShParse, SequencesExt

CONSTANTS Commands,   \* numbers of the command lines that are typed
          MaxJobs,    \* bound: jobs started, and tokens of a line: the later
                      \* a job is started, the shorter its line
          NOFILE,     \* descriptors of a process
          NPROC,      \* entries of the process table
          Byte        \* values of a char

ASSUME ShellAssumption == /\ MaxJobs \in Nat /\ NOFILE \in Nat /\ NPROC \in Nat
                          /\ Byte \in Nat /\ Byte >= 4

VARIABLES jobs,      \* the list from jobsHead: id, type and recorded pids
          jobCount,
          state,     \* "prompt", "reading" the pids of the new job, "dead"
          fds,       \* descriptors the shell holds at its prompt
          proc,      \* all processes, by pid
          pidPipe    \* bytes in the pipe jobPids

vars == <<jobs, jobCount, state, fds, proc, pidPipe>>

(* The lines a command number stands for: a program in the foreground and  *)
(* in the background, a pipeline, a list, a redirection in the background, *)
(* an empty line and a line that does not parse.                           *)
LineOf == << <<"a">>, <<"a", "&">>, <<"a", "|", "a">>, <<"a", ";", "a">>,
             <<"a", "<", "a", "&">>, <<>>, <<")">> >>

ParsedLine == [n \in DOMAIN LineOf |-> parsecmd(LineOf[n])]

InitPid == 1
ShPid == 2
Pids == DOMAIN proc
Held == {p \in Pids : proc[p].st # "gone"}
Alive(pid) == pid \in Pids /\ proc[pid].st \in {"run", "wait"}
(* pstat fails or reports a ZOMBIE. *)
Finished(pid) == ~Alive(pid)

(* ------------------------- the pid protocol ---------------------------- *)
(* strcpy and strlen cut the bytes of the pid at the first that is 0; the  *)
(* shell takes the first byte of what one read returns as a signed char.   *)
BytesOf(pid) ==
    IF pid % Byte = 0 THEN <<>>
    ELSE IF pid \div Byte % Byte = 0 THEN <<pid % Byte>>
    ELSE <<pid % Byte, pid \div Byte % Byte>>
PidOf(byte) == IF byte < Byte \div 2 THEN byte ELSE byte - Byte
SizeofInt == 4

(* --------------------------- the job list ------------------------------ *)
(* The second loop of clearJobList and of clearZombieProcesses, on the     *)
(* indices of a list of which those in `gone' are to be removed: `kept'    *)
(* ends with prev, L is what prev points to, and the k-th of L is looked   *)
(* at.  After a removal the loop goes on with the successor of prev's new  *)
(* successor.  The result has what is left, what was looked at, and        *)
(* whether a removal left prev without a successor.                        *)
RECURSIVE Sweep(_, _, _, _, _)
Sweep(gone, kept, L, k, seen) ==
    IF k > Len(L) THEN [list |-> kept \o L, seen |-> seen, last |-> FALSE]
    ELSE LET rest == SubSeq(L, k + 1, Len(L))
             now == seen \cup {L[k]}
         IN IF L[k] \notin gone THEN Sweep(gone, kept \o SubSeq(L, 1, k), rest, 1, now)
            ELSE IF rest = <<>> THEN [list |-> kept, seen |-> now, last |-> TRUE]
            ELSE Sweep(gone, kept, rest, 2, now)

FirstLive_last(live) == CHOOSE k \in live : \A l \in live : k >= l
FirstLive(live) == CHOOSE k \in live : \A l \in live : k <= l
(* The first loop removes the leading entries that are gone.               *)
ClearList(n, gone) ==
    LET live == (1..n) \ gone
        h == FirstLive(live)
    IN IF live = {} THEN [list |-> <<>>, seen |-> 1..n, last |-> FALSE]
       ELSE Sweep(gone, <<h>>, [i \in 1..(n - h) |-> h + i], 1, 1..h)

SweepProcs(ps) == ClearList(Len(ps), {k \in DOMAIN ps : Finished(ps[k])})
clearZombieProcesses(ps) ==
    LET c == SweepProcs(ps).list IN [n \in DOMAIN c |-> ps[c[n]]]
clearJobList(js) ==
    LET Clean(j) == [j EXCEPT !.procs = clearZombieProcesses(@)]
        c == ClearList(Len(js), {k \in DOMAIN js : Clean(js[k]).procs = <<>>})
    IN [list |-> [n \in DOMAIN c.list |->
                     IF c.list[n] \in c.seen THEN Clean(js[c.list[n]]) ELSE js[c.list[n]]],
        \* the last process of a job is removed: a null pointer is followed
        faults |-> \E k \in c.seen : SweepProcs(js[k].procs).last]

IsForeground(j) == j.type = "FOREGROUND"
findForegroundJob_head(js) == {k \in DOMAIN js : k = 1 /\ IsForeground(js[k])}
findForegroundJob(js) == {k \in DOMAIN js : IsForeground(js[k])}

getJob(id, cmd) == [id |-> id, procs |-> <<>>,
                    type |-> IF cmd[1] = "BACK" THEN "BACKGROUND" ELSE "FOREGROUND"]

Process(cmd, parent) == [cmd |-> cmd, parent |-> parent, st |-> "run", writer |-> TRUE]
Resident(parent) == [cmd |-> <<"none">>, parent |-> parent, st |-> "run", writer |-> FALSE]

Init == /\ jobs = <<>> /\ jobCount = 0 /\ state = "prompt" /\ fds = 3
        /\ proc = <<Resident(0), Resident(InitPid)>> /\ pidPipe = <<>>

(* ----------------------- the shell's own steps ------------------------- *)
Spawn(p, cmds, pr) == pr \o [n \in DOMAIN cmds |-> Process(cmds[n], p)]
CanFork(n) == Cardinality(Held) + n <= NPROC

Die == state' = "dead"
(* The rest of the loop body for a line that is a command.                 *)
StartJob(js, n) ==
    LET r == ParsedLine[n]
    IN /\ jobCount < MaxJobs \/ fds + 4 > NOFILE
       /\ jobCount + Len(LineOf[n]) <= MaxJobs
       /\ IF fds + 4 > NOFILE \/ Failed(r) \/ ~CanFork(1)
          THEN Die /\ jobs' = js /\ UNCHANGED <<jobCount, fds, proc>>
          ELSE /\ jobCount' = jobCount + 1
               /\ jobs' = <<getJob(jobCount + 1, r.cmd)>> \o js
               /\ fds' = fds + 1      \* jobInput[1] stays open
               /\ proc' = Spawn(ShPid, <<r.cmd>>, proc)
               /\ state' = "reading"

(* fg and fg n; without such a job the store through the null pointer hits *)
(* a part of the shell's text that is not executed.                        *)
ToForeground(js, n) ==
    jobs' = [k \in DOMAIN js |-> IF (IF n = 0 THEN k = 1 ELSE js[k].id = n)
                                 THEN [js[k] EXCEPT !.type = "FOREGROUND"] ELSE js[k]]

(* Every line: the list is cleared, a foreground job is given the line,    *)
(* and only without one is it handled by the shell.  cd and jobs change    *)
(* nothing here.                                                           *)
GetLine ==
    LET c == clearJobList(jobs)
        js == c.list
    IN /\ state = "prompt"
       /\ UNCHANGED pidPipe
       /\ IF c.faults THEN Die /\ UNCHANGED <<jobs, jobCount, fds, proc>>
          ELSE \/ jobs' = js /\ UNCHANGED <<jobCount, state, fds, proc>>
               \/ /\ findForegroundJob(js) = {}
                  /\ \/ \E n \in Commands : StartJob(js, n)
                     \/ /\ \E n \in 0..MaxJobs : ToForeground(js, n)
                        /\ UNCHANGED <<jobCount, state, fds, proc>>
EndOfInput == /\ state = "prompt" /\ Die /\ jobs' = <<>>
              /\ UNCHANGED <<jobCount, fds, proc, pidPipe>>

Writers == {p \in Pids : proc[p].writer}
(* One read of the loop over jobPids: up to four bytes, of which the first *)
(* is the pid that is recorded, or the end of the pipe.                    *)
ReadPids ==
    /\ state = "reading"
    /\ \/ /\ pidPipe # <<>>
          /\ jobs' = [jobs EXCEPT ![1].procs = <<PidOf(Head(pidPipe))>> \o @]
          /\ pidPipe' = SubSeq(pidPipe, SizeofInt + 1, Len(pidPipe))
          /\ UNCHANGED state
       \/ /\ pidPipe = <<>> /\ Writers = {}
          /\ state' = "prompt"
          /\ UNCHANGED <<jobs, pidPipe>>
    /\ UNCHANGED <<jobCount, fds, proc>>

(* ------------------------- runcmd, by command -------------------------- *)
Child(argv) == <<"CHILD", argv>>
Program == <<"PROGRAM">>
Becomes(p, cmd, st, w) == [proc EXCEPT ![p].cmd = cmd, ![p].st = st, ![p].writer = w]
Exit(p) == [proc EXCEPT ![p].st = "zombie", ![p].writer = FALSE]

(* What process p forks, what it does after the last of its children is    *)
(* reaped (nothing: it exits), and whether it keeps its end of the pipe.   *)
Forks(cmd) == CASE cmd[1] = "EXEC" -> <<Child(cmd[2])>>
                [] cmd[1] = "LIST" -> <<cmd[2]>>
                [] cmd[1] = "PIPE" -> <<cmd[2], cmd[3]>>
                [] OTHER -> <<>>
Continue(cmd) == IF cmd[1] = "LIST" THEN cmd[3] ELSE <<"none">>
KeepsPipe_always(cmd) == TRUE
KeepsPipe(cmd) == cmd[1] = "LIST"

(* fork1 panics when the table is full; the children there are go to init. *)
RunFork(p) ==
    LET cmd == proc[p].cmd
    IN /\ proc[p].st = "run" /\ Forks(cmd) # <<>>
       /\ proc' = IF CanFork(Len(Forks(cmd)))
                  THEN Spawn(p, Forks(cmd), Becomes(p, Continue(cmd), "wait", KeepsPipe(cmd)))
                  ELSE IF CanFork(1) THEN Spawn(InitPid, <<Forks(cmd)[1]>>, Exit(p))
                  ELSE Exit(p)
       /\ UNCHANGED pidPipe

(* BACK runs its command itself; REDIR does when the file opens.           *)
RunInline(p) ==
    /\ proc[p].st = "run" /\ proc[p].cmd[1] \in {"BACK", "REDIR"}
    /\ \/ proc' = [proc EXCEPT ![p].cmd = @[2]]
       \/ proc[p].cmd[1] = "REDIR" /\ proc' = Exit(p)
    /\ UNCHANGED pidPipe

(* The process that is to be the program reports its pid, closes the pipe  *)
(* and calls exec.                                                         *)
RunChild(p) ==
    /\ proc[p].st = "run" /\ proc[p].cmd[1] = "CHILD"
    /\ IF proc[p].cmd[2] = <<>>
       THEN proc' = Exit(p) /\ UNCHANGED pidPipe
       ELSE /\ pidPipe' = pidPipe \o BytesOf(p)
            /\ proc' = Becomes(p, Program, "run", FALSE)

(* The program ends, or exec failed.                                       *)
Ends(p) == /\ proc[p].st = "run" /\ proc[p].cmd = Program
           /\ proc' = Exit(p) /\ UNCHANGED pidPipe

Children(p) == {c \in Pids : proc[c].parent = p /\ proc[c].st # "gone"}
(* wait returns for one zombie child; after the last one the process goes  *)
(* on with the right side of a list, or exits.  Init reaps its own; the    *)
(* shell never calls wait.                                                 *)
Reap(p) ==
    \E c \in Children(p) :
        /\ proc[p].st = "wait" \/ p = InitPid
        /\ proc[c].st = "zombie"
        /\ proc' = LET reaped == [proc EXCEPT ![c].st = "gone"]
                   IN IF p = InitPid \/ Children(p) # {c} THEN reaped
                      ELSE IF proc[p].cmd = <<"none">>
                      THEN [reaped EXCEPT ![p].st = "zombie", ![p].writer = FALSE]
                      ELSE [reaped EXCEPT ![p].st = "run"]
        /\ UNCHANGED pidPipe

Runs(p) == /\ RunFork(p) \/ RunInline(p) \/ RunChild(p) \/ Reap(p)
           /\ UNCHANGED <<jobs, jobCount, state, fds>>
ProgramEnds(p) == Ends(p) /\ UNCHANGED <<jobs, jobCount, state, fds>>

Next == \/ GetLine \/ EndOfInput \/ ReadPids
        \/ \E p \in Pids : Runs(p) \/ ProgramEnds(p)

(* The scheduler runs the shell and every process that can run; a program  *)
(* may run for ever.                                                       *)
Spec == /\ Init /\ [][Next]_vars
        /\ WF_vars(ReadPids) /\ WF_vars(\E p \in Pids : Runs(p))
-----------------------------------------------------------------------------
Done(j) == \A k \in DOMAIN j.procs : Finished(j.procs[k])

(* At most one job is in the foreground, and the list is in the order in   *)
(* which the jobs were started: a line that starts a job or moves one to   *)
(* the foreground is only handled when no listed job is there, whatever    *)
(* clearJobList removed or passed over before (sh.c main).                 *)
OneForeground ==
    /\ Cardinality({k \in DOMAIN jobs : IsForeground(jobs[k])}) <= 1
    /\ \A k, l \in DOMAIN jobs : k < l => jobs[k].id > jobs[l].id

(* clearJobList loses a job with a process that still runs only in one     *)
(* way: when the jobs before and after it in the list have both ended, so  *)
(* that its removal of the first passes over it and that of the second     *)
(* unlinks it (sh.c:422).                                                  *)
LostBetweenEnded ==
    [][\A k \in DOMAIN jobs :
          /\ state' # "dead"
          /\ ~Done(jobs[k])
          /\ \A l \in DOMAIN jobs' : jobs'[l].id # jobs[k].id
          => k > 1 /\ k < Len(jobs) /\ Done(jobs[k - 1]) /\ Done(jobs[k + 1])]_vars

(* The shell comes back from reading the pids of a new job, unless the job *)
(* is a list whose left side is still running: every process of the job    *)
(* and the shell itself close their write ends of the pipe.                *)
WaitsForLeft == \E p \in Pids : proc[p].st = "wait" /\ proc[p].cmd # <<"none">>
ShellReturns == state = "reading" ~> (state # "reading" \/ WaitsForLeft)

=============================================================================
