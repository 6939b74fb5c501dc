----------------------------- MODULE AtomicDisk -----------------------------
(* What the log promises: blocks written by operations reach the disk       *)
(* together, when no operation is under way, or not at all; a crash goes    *)
(* back to the last commit; and once every operation has ended, the next    *)
(* one starts on committed blocks.                                          *)
CONSTANTS Block, Val, Proc, Blank

VARIABLES mem,     \* the blocks as the running system sees them
          stable,  \* the blocks a crash leaves
          active   \* the operations under way

diskVars == <<mem, stable, active>>

Init ==
  /\ stable = [b \in Block |-> Blank]
  /\ mem = stable
  /\ active = {}

Begin(p) ==
  /\ p \notin active
  /\ active = {} => mem = stable
  /\ active' = active \cup {p}
  /\ UNCHANGED <<mem, stable>>

Write(p, b, v) ==
  /\ p \in active
  /\ mem' = [mem EXCEPT ![b] = v]
  /\ UNCHANGED <<stable, active>>

End(p) ==
  /\ p \in active
  /\ active' = active \ {p}
  /\ UNCHANGED <<mem, stable>>

Commit ==
  /\ active = {}
  /\ stable' = mem
  /\ UNCHANGED <<mem, active>>

Crash ==
  /\ mem' = stable
  /\ active' = {}
  /\ UNCHANGED stable

Next ==
  \/ \E p \in Proc : Begin(p) \/ End(p)
  \/ \E p \in Proc, b \in Block, v \in Val : Write(p, b, v)
  \/ Commit
  \/ Crash

Spec == Init /\ [][Next]_diskVars
=============================================================================
