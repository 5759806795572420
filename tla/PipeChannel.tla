---------------------------- MODULE PipeChannel ----------------------------
(***************************************************************************)
(* What a Pipe (userprog/Pipe.h) promises its two ends: a bounded FIFO of  *)
(* characters with a write end that can be opened and closed.  A read      *)
(* takes the oldest character; a read that finds the channel empty after   *)
(* the write end has closed delivers the end-of-stream sentinel instead.   *)
(* The detailed model of the ring buffer in Syscall is shown to implement  *)
(* this specification through a refinement mapping.                        *)
(***************************************************************************)
EXTENDS Naturals, Sequences

CONSTANTS
  Capacity,   \* how many characters the channel holds
  Chars,      \* the characters that can be written
  EOF         \* the end-of-stream sentinel a read can deliver

VARIABLES
  chan,       \* the characters written and not yet read, oldest first
  recvd,      \* everything reads have delivered, in order
  open        \* whether a writer is attached to the write end

vars == <<chan, recvd, open>>

Init == chan = <<>> /\ recvd = <<>> /\ open = FALSE

Put(c) == Len(chan) < Capacity /\ chan' = Append(chan, c) /\ UNCHANGED <<recvd, open>>

Get == chan # <<>> /\ recvd' = Append(recvd, Head(chan)) /\ chan' = Tail(chan)
       /\ UNCHANGED open

ReadEnd == chan = <<>> /\ ~open /\ recvd' = Append(recvd, EOF) /\ UNCHANGED <<chan, open>>

Attach == open' = TRUE /\ UNCHANGED <<chan, recvd>>

Detach == open' = FALSE /\ UNCHANGED <<chan, recvd>>

Next == (\E c \in Chars : Put(c)) \/ Get \/ ReadEnd \/ Attach \/ Detach

Spec == Init /\ [][Next]_vars
=============================================================================
