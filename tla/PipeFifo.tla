------------------------------ MODULE PipeFifo ------------------------------
(* What a pipe promises: a bounded queue of bytes, in order, none lost or   *)
(* doubled; nothing is written once the write side is closed.               *)
EXTENDS Naturals, Sequences

CONSTANTS Data, Capacity

VARIABLES queue, writeopen

fifoVars == <<queue, writeopen>>

Init == queue = <<>> /\ writeopen = TRUE

Put(v) ==
  /\ writeopen
  /\ Len(queue) < Capacity
  /\ queue' = Append(queue, v)
  /\ UNCHANGED writeopen

Get ==
  /\ queue # <<>>
  /\ queue' = Tail(queue)
  /\ UNCHANGED writeopen

CloseWrite ==
  /\ writeopen
  /\ writeopen' = FALSE
  /\ UNCHANGED queue

Next == (\E v \in Data : Put(v)) \/ Get \/ CloseWrite

Spec == Init /\ [][Next]_fifoVars
=============================================================================
