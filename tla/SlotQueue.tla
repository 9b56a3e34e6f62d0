----------------------------- MODULE SlotQueue -----------------------------
(***************************************************************************)
(* What the ring of AVPacketQueue promises about its buffers, without      *)
(* indexes: a bounded first-in first-out hand-over of buffers from one     *)
(* writer to one reader.  A buffer that the writer is given is neither     *)
(* waiting in the queue nor in the reader's hands at that moment.  What a  *)
(* buffer holds is not said here: the writer may still be filling one that *)
(* waits, and a reader that comes early takes it all the same (see         *)
(* OnlyAnEarlyDecoderMeetsTheDemuxer and ReadsThePacketNextToRead in       *)
(* MediaPlayer).                                                           *)
(***************************************************************************)
EXTENDS Sequences, Naturals, Functions

CONSTANTS Buffer,       \* the packet buffers of one ring
          Capacity      \* how many may wait at once

VARIABLES queue,        \* buffers handed over and not yet taken, oldest first
          held          \* the buffer in the reader's hands, as a set of at most one

vars == <<queue, held>>

Init == queue = <<>> /\ held = {}

Put(b) ==
    /\ Len(queue) < Capacity
    /\ b \notin Range(queue) \union held
    /\ queue' = Append(queue, b)
    /\ UNCHANGED held

Take ==
    /\ queue # <<>>
    /\ held = {}
    /\ held' = {Head(queue)}
    /\ queue' = Tail(queue)

GiveBack ==
    /\ held # {}
    /\ held' = {}
    /\ UNCHANGED queue

Next == Take \/ GiveBack \/ \E b \in Buffer : Put(b)

Spec == Init /\ [][Next]_vars
=============================================================================
