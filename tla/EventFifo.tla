----------------------------- MODULE EventFifo -----------------------------
(***************************************************************************)
(* What the multihal poll() promises the framework, without ring buffers,  *)
(* locks or condition variables: the events a sub-HAL hands over form one  *)
(* FIFO per sub-HAL; poll() takes the oldest event of some FIFO, drops it  *)
(* or adds it (with its handle made global) to the batch being built, and  *)
(* returns a batch of 1..MaxReads events.                                  *)
(***************************************************************************)
EXTENDS Integers, Sequences

CONSTANTS Subs,        \* indices of the sub-HAL devices
          Event,       \* events as a sub-HAL writes them
          MaxReads,    \* size of the buffer the framework passes to poll()
          Remap(_, _), \* Remap(s, e): e with global handles
          Dropped(_)   \* events that are not passed upstream

VARIABLES pending,  \* pending[s]: accepted from sub-HAL s, not yet read
          batch     \* events read by the current poll() call

vars == <<pending, batch>>

Init == /\ pending = [s \in Subs |-> <<>>]
        /\ batch = <<>>

\* A sub-HAL hands over some events at once.
Accept(s) ==
    /\ Len(pending'[s]) > Len(pending[s])
    /\ SubSeq(pending'[s], 1, Len(pending[s])) = pending[s]
    /\ pending' = [pending EXCEPT ![s] = pending'[s]]
    /\ UNCHANGED batch

\* poll() consumes the oldest event of one sub-HAL.
Take(s) ==
    /\ pending[s] # <<>>
    /\ Len(batch) < MaxReads
    /\ pending' = [pending EXCEPT ![s] = Tail(@)]
    /\ LET e == Remap(s, Head(pending[s]))
       IN  batch' = IF Dropped(e) THEN batch ELSE Append(batch, e)

\* poll() returns: never with an empty batch.
Return == /\ batch # <<>>
          /\ batch' = <<>>
          /\ UNCHANGED pending

Next == Return \/ \E s \in Subs : Accept(s) \/ Take(s)

Spec == Init /\ [][Next]_vars
=============================================================================
