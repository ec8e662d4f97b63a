-------------------------------- MODULE Fifo --------------------------------
\* What a pipe or the queue of an event promises: a bounded queue.  Once broken it
\* promises nothing.
EXTENDS Naturals, Sequences

CONSTANTS Bytes, Capacity

VARIABLES contents, last, broken   \* last: the byte taken last

vars == <<contents, last, broken>>

Init == contents = <<>> /\ last \in Bytes /\ broken = FALSE

Put(x) ==
  /\ Len(contents) < Capacity
  /\ contents' = Append(contents, x)
  /\ UNCHANGED <<last, broken>>

Get ==
  /\ contents # <<>>
  /\ contents' = Tail(contents) /\ last' = Head(contents)
  /\ UNCHANGED broken

Next == (\E x \in Bytes : Put(x)) \/ Get \/ broken'

Spec == Init /\ [][Next]_vars
=============================================================================
