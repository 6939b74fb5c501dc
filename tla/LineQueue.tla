----------------------------- MODULE LineQueue -----------------------------
(***************************************************************************)
(* What the console promises for its input: the line being typed can be    *)
(* edited until it is finished; finished lines wait in order, and what a   *)
(* reader gets are the characters taken from the front, all of them and    *)
(* nothing else.  The end-of-file mark reaches no reader: it is taken by   *)
(* one that returns nothing.  Finished lines and the one being typed have  *)
(* bounded room together, and a line that fills it counts as finished.     *)
(***************************************************************************)
EXTENDS Naturals, Sequences

CONSTANTS Chars,     \* what can be in a line
          Enders,    \* those that finish a line
          EofChar,   \* the one that stands for the end of the file
          Capacity, Reader

VARIABLES lines,     \* finished and not yet read
          edit,      \* the line being typed
          reading,   \* readers in a call
          got,       \* what a reader's last call has returned, or has so far
          killed     \* readers that were killed

vars == <<lines, edit, reading, got, killed>>

Init == /\ lines = <<>> /\ edit = <<>> /\ reading = {}
        /\ got = [p \in Reader |-> <<>>] /\ killed = [p \in Reader |-> FALSE]

(* ----------------------------- typing ---------------------------------- *)
Room == Len(lines) + Len(edit) < Capacity
Fills == Len(lines) + Len(edit) + 1 = Capacity
Finish(c) == lines' = lines \o Append(edit, c) /\ edit' = <<>>
Type(c) == /\ Room
           /\ IF c \in Enders \/ Fills THEN Finish(c)
              ELSE edit' = Append(edit, c) /\ UNCHANGED lines
Erase == edit # <<>> /\ edit' = SubSeq(edit, 1, Len(edit) - 1) /\ UNCHANGED lines
EraseAll == edit' = <<>> /\ UNCHANGED lines
Typing == /\ (\E c \in Chars : Type(c)) \/ Erase \/ EraseAll
          /\ UNCHANGED <<reading, got, killed>>

(* ----------------------------- reading --------------------------------- *)
Begin(p) ==
    /\ p \notin reading
    /\ reading' = reading \cup {p} /\ got' = [got EXCEPT ![p] = <<>>]
    /\ UNCHANGED <<lines, edit, killed>>
(* Some characters go over to the reader, which returns them or waits for  *)
(* more.                                                                   *)
Take(p) ==
    /\ p \in reading
    /\ \E k \in 0..Len(lines) :
          /\ \A j \in 1..k : lines[j] # EofChar
          /\ lines' = SubSeq(lines, k + 1, Len(lines))
          /\ got' = [got EXCEPT ![p] = @ \o SubSeq(lines, 1, k)]
    /\ \/ reading' = reading
       \/ reading' = reading \ {p} /\ got'[p] # <<>>
    /\ UNCHANGED <<edit, killed>>
TakeEof(p) ==
    /\ p \in reading /\ got[p] = <<>>
    /\ lines # <<>> /\ Head(lines) = EofChar
    /\ lines' = Tail(lines) /\ reading' = reading \ {p}
    /\ UNCHANGED <<edit, got, killed>>
(* Only a reader that was killed gives up, when there is nothing left, and *)
(* what it took is lost with it.                                           *)
GiveUp(p) ==
    /\ p \in reading /\ killed[p]
    /\ \A j \in 1..Len(lines) : lines[j] # EofChar
    /\ lines' = <<>> /\ reading' = reading \ {p}
    /\ got' = [got EXCEPT ![p] = <<>>] /\ killed' = [killed EXCEPT ![p] = FALSE]
    /\ UNCHANGED edit
Kill(p) == /\ killed' = [killed EXCEPT ![p] = TRUE]
           /\ UNCHANGED <<lines, edit, reading, got>>
(* A killed reader outside a call is replaced by another one.              *)
Replace(p) == /\ p \notin reading /\ killed[p]
              /\ killed' = [killed EXCEPT ![p] = FALSE] /\ got' = [got EXCEPT ![p] = <<>>]
              /\ UNCHANGED <<lines, edit, reading>>

Next == \/ Typing
        \/ \E p \in Reader : Begin(p) \/ Take(p) \/ TakeEof(p) \/ GiveUp(p) \/ Kill(p) \/ Replace(p)
Spec == Init /\ [][Next]_vars
=============================================================================
