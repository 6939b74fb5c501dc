------------------------------ MODULE Console ------------------------------
(***************************************************************************)
(* Console input (console.c, with the interrupt handlers of kbd.c and      *)
(* uart.c): a ring that the interrupt side fills and edits at its end and  *)
(* that several readers empty, with counters that wrap.                    *)
(*                                                                         *)
(* Everything runs under input.lock except kill, which can come between a  *)
(* reader's test of proc->killed and its sleep.  A step is one character   *)
(* of an interrupt, or a reader from where it has the lock to where it     *)
(* gives it up.                                                            *)
(***************************************************************************)
EXTENDS Integers, Sequences, FiniteSets

CONSTANTS Reader,      \* processes that read from the console
          INPUT_BUF,   \* characters of the ring
          Word,        \* values of an unsigned int, a multiple of INPUT_BUF
          MaxN         \* bound: bytes asked for in one read

ASSUME ConsoleAssumption ==
    /\ {INPUT_BUF, Word, MaxN} \subseteq Nat \ {0} /\ Word % INPUT_BUF = 0 /\ Word > INPUT_BUF

VARIABLES buf, r, w, e,   \* struct input
          holder,         \* who has input.lock between two steps
          rd,             \* the readers' calls
          killed

vars == <<buf, r, w, e, holder, rd, killed>>

NL == "\n"
CR == "\r"
EOT == "^D"
Chars == {"a", NL, EOT}
NoOne == "none"

ASSUME ReaderAssumption == NoOne \notin Reader

Minus(i, j) == (i - j) % Word
Plus(i, n) == (i + n) % Word
(* The characters from index i up to index j.                              *)
Window(i, j) == [k \in 1..Minus(j, i) |-> buf[Plus(i, k - 1) % INPUT_BUF]]

Idle == [pc |-> "idle", n |-> 0, got |-> <<>>]
Init == /\ buf = [k \in 0..(INPUT_BUF - 1) |-> NL] /\ r = 0 /\ w = 0 /\ e = 0
        /\ holder = NoOne /\ rd = [p \in Reader |-> Idle] /\ killed = [p \in Reader |-> FALSE]

(* ------------------------- consoleintr --------------------------------- *)
wakeup_one == LET asleep == {p \in Reader : rd[p].pc = "sleep"}
              IN [p \in Reader |-> IF asleep # {} /\ p = (CHOOSE q \in asleep : TRUE)
                                   THEN [rd[p] EXCEPT !.pc = "read"] ELSE rd[p]]
wakeup == [p \in Reader |-> IF rd[p].pc = "sleep" THEN [rd[p] EXCEPT !.pc = "read"] ELSE rd[p]]

Room == Minus(e, r) < INPUT_BUF

Store(c) ==
    LET full == Plus(e, 1) = Plus(r, INPUT_BUF)
    IN /\ Room
       /\ buf' = [buf EXCEPT ![e % INPUT_BUF] = c]
       /\ e' = Plus(e, 1)
       /\ IF c \in {NL, EOT} \/ full THEN w' = e' /\ rd' = wakeup ELSE UNCHANGED <<w, rd>>
       /\ UNCHANGED r

(* Control-U goes back to the write index or to a line end.                *)
Killed(n) == \/ Minus(e, n) = w
             \/ buf[Plus(Minus(e, n), -1) % INPUT_BUF] = NL
KillLine ==
    LET n == CHOOSE k \in 0..Minus(e, w) : Killed(k) /\ \A l \in 0..(k - 1) : ~Killed(l)
    IN e' = Minus(e, n) /\ UNCHANGED <<buf, r, w, rd>>
Backspace == e # w /\ e' = Minus(e, 1) /\ UNCHANGED <<buf, r, w, rd>>

consoleintr ==
    /\ holder = NoOne
    /\ (\E c \in Chars \cup {CR} : Store(IF c = CR THEN NL ELSE c)) \/ KillLine \/ Backspace
    /\ UNCHANGED <<holder, killed>>

(* ------------------------- consoleread --------------------------------- *)
Begin(p) ==
    /\ rd[p].pc \in {"idle", "done"} /\ ~killed[p]
    /\ \E n \in 1..MaxN : rd' = [rd EXCEPT ![p] = [pc |-> "read", n |-> n, got |-> <<>>]]
    /\ UNCHANGED <<buf, r, w, e, holder, killed>>

(* How many characters one pass of the loop takes: up to and with the      *)
(* first line end, up to the first control-D, or all that are wanted.      *)
Left(p) == rd[p].n - Len(rd[p].got)
Stops_eof(q) == {k \in DOMAIN q : q[k] = EOT}
Stops(q) == {k \in DOMAIN q : q[k] \in {NL, EOT}}

Take(p, q) ==
    LET want == Left(p)
        stop == {k \in Stops(q) : k <= want}
        first == CHOOSE k \in stop : \A l \in stop : k <= l
    IN IF stop = {} THEN (IF Len(q) < want THEN Len(q) ELSE want)
       ELSE IF q[first] = NL THEN first ELSE first - 1

KeepsEof_never(taken) == FALSE
KeepsEof(taken) == taken # <<>>

(* With control-D the reader goes past it only if it has nothing to        *)
(* return.  Without more characters it is killed or about to sleep.        *)
Read(p) ==
    LET q == Window(r, w)
        k == Take(p, q)
        got == rd[p].got \o SubSeq(q, 1, k)
        line == IF k = 0 THEN FALSE ELSE q[k] = NL
        full == line \/ Len(got) = rd[p].n
        eof == ~full /\ k < Len(q)     \* then the next one is control-D
    IN /\ rd[p].pc = "read" /\ holder = NoOne
       /\ r' = IF eof /\ ~KeepsEof(got) THEN Plus(r, k + 1) ELSE Plus(r, k)
       /\ \/ /\ full \/ eof
             /\ rd' = [rd EXCEPT ![p].pc = "done", ![p].got = got]
             /\ UNCHANGED <<holder, killed>>
          \/ /\ ~full /\ ~eof /\ killed[p]
             /\ rd' = [rd EXCEPT ![p] = Idle] /\ killed' = [killed EXCEPT ![p] = FALSE]
             /\ UNCHANGED holder
          \/ /\ ~full /\ ~eof /\ ~killed[p]
             /\ rd' = [rd EXCEPT ![p].pc = "tosleep", ![p].got = got] /\ holder' = p
             /\ UNCHANGED killed
       /\ UNCHANGED <<buf, w, e>>

sleep(p) == /\ rd[p].pc = "tosleep"
            /\ rd' = [rd EXCEPT ![p].pc = "sleep"] /\ holder' = NoOne
            /\ UNCHANGED <<buf, r, w, e, killed>>

kill(p) == /\ ~killed[p] /\ killed' = [killed EXCEPT ![p] = TRUE]
           /\ rd' = [rd EXCEPT ![p].pc = IF @ = "sleep" THEN "read" ELSE @]
           /\ UNCHANGED <<buf, r, w, e, holder>>
(* A killed process that is not reading ends; another one takes its place. *)
Ends(p) == /\ killed[p] /\ rd[p].pc \in {"idle", "done"}
           /\ killed' = [killed EXCEPT ![p] = FALSE] /\ rd' = [rd EXCEPT ![p] = Idle]
           /\ UNCHANGED <<buf, r, w, e, holder>>

Next == consoleintr \/ \E p \in Reader : Begin(p) \/ Read(p) \/ sleep(p) \/ kill(p) \/ Ends(p)
Spec == Init /\ [][Next]_vars
-----------------------------------------------------------------------------
InCall == {p \in Reader : rd[p].pc \in {"read", "tosleep", "sleep"}}
Results == [p \in Reader |-> rd[p].got]
Q == INSTANCE LineQueue WITH Enders <- {NL, EOT}, EofChar <- EOT, Capacity <- INPUT_BUF,
                             lines <- Window(r, w), edit <- Window(w, e),
                             reading <- InCall, got <- Results
(* The ring is an editable line behind a queue of finished lines: editing  *)
(* never reaches what was finished, typing never overwrites what was not   *)
(* read, a full ring finishes its line so that it can be read.  Each       *)
(* character that leaves the ring is the next one of the reader that took  *)
(* it, so that nothing is lost, repeated or reordered between readers that *)
(* take turns, when the counters wrap or when a control-D is put back; a   *)
(* control-D leaves it only for a read that returns nothing, and only a    *)
(* reader that was killed takes characters with it (consoleintr,           *)
(* consoleread).                                                           *)
ImplementsLineQueue == Q!Spec

(* A read returns part of one line: no control-D, nothing after a line     *)
(* end, less than it asked for only at a line end or before a control-D,   *)
(* and 0 bytes only by taking the control-D, so that a 0-byte result means *)
(* end of file even after a partial line.                                  *)
ReadsOneLine ==
    [][\A p \in Reader :
          rd[p].pc = "read" /\ rd'[p].pc = "done" =>
              LET g == rd'[p].got
                  q == Window(r, w)
              IN /\ \A k \in DOMAIN g : g[k] # EOT /\ (g[k] = NL => k = Len(g))
                 /\ g = <<>> => q # <<>> /\ Head(q) = EOT /\ r' = Plus(r, 1)
                 /\ g # <<>> /\ Len(g) < rd[p].n /\ g[Len(g)] # NL =>
                       r' # w /\ buf[r' % INPUT_BUF] = EOT]_vars

(* No reader sleeps while there is a finished line, even when another      *)
(* reader put a control-D back.                                            *)
NoSleepWithInput == \A p \in Reader : rd[p].pc \in {"tosleep", "sleep"} => r = w
=============================================================================
