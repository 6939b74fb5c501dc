----------------------------- MODULE FileBytes -----------------------------
(***************************************************************************)
(* What files are to those who use them: sequences of bytes, and handles   *)
(* with an offset each.  A write overwrites and extends the file at the    *)
(* handle's offset, a read returns what is asked for from there or all     *)
(* there is, both move the offset by what they transferred, and a file     *)
(* becomes empty only when no handle refers to it.                         *)
(***************************************************************************)
EXTENDS Naturals, Sequences

CONSTANTS Inum, Byte, Handle,
          MaxSize,    \* bytes a file can have
          MaxWrite,   \* bytes one step can write
          Asks        \* numbers of bytes that are asked for
VARIABLES contents,   \* the bytes of each file
          open,       \* file and offset of each handle, file 0: closed
          answer      \* the last read: what was asked for, what it returned

vars == <<contents, open, answer>>

Closed == [ip |-> 0, off |-> 0]
Init == /\ \A i \in Inum : /\ Len(contents[i]) <= MaxSize
                            /\ \A k \in DOMAIN contents[i] : contents[i][k] \in Byte
        /\ open = [h \in Handle |-> Closed]
        /\ answer = [asked |-> 0, got |-> <<>>]

Open(h, i) ==
    /\ open[h] = Closed
    /\ open' = [open EXCEPT ![h] = [ip |-> i, off |-> 0]]
    /\ UNCHANGED <<contents, answer>>
Close(h) ==
    /\ open' = [open EXCEPT ![h] = Closed]
    /\ UNCHANGED <<contents, answer>>

Overlay(s, off, n, v) ==
    [k \in 1..(IF off + n > Len(s) THEN off + n ELSE Len(s)) |->
        IF k > off /\ k <= off + n THEN v ELSE s[k]]
Write(h) ==
    LET i == open[h].ip
        off == open[h].off
    IN /\ i # 0
       /\ \E n \in 1..MaxWrite, v \in Byte :
             /\ off + n <= MaxSize
             /\ open' = [open EXCEPT ![h].off = off + n]
             /\ contents' = [contents EXCEPT ![i] = Overlay(@, off, n, v)]
       /\ answer' = answer
Read(h) ==
    LET s == contents[open[h].ip]
        off == open[h].off
    IN /\ open[h].ip # 0
       /\ \E n \in Asks :
             LET end == IF off + n > Len(s) THEN Len(s) ELSE off + n
             IN /\ open' = [open EXCEPT ![h].off = end]
                /\ answer' = [asked |-> n, got |-> SubSeq(s, off + 1, end)]
       /\ contents' = contents
Vanish(i) ==
    /\ \A h \in Handle : open[h].ip # i
    /\ UNCHANGED <<open, answer>>
    /\ contents' = [contents EXCEPT ![i] = <<>>]

Next == \/ \E h \in Handle : Close(h) \/ Write(h) \/ Read(h) \/ \E i \in Inum : Open(h, i)
        \/ \E i \in Inum : Vanish(i)
Spec == Init /\ [][Next]_vars
=============================================================================
