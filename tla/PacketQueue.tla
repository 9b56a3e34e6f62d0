---------------------------- MODULE PacketQueue ----------------------------
(***************************************************************************)
(* The index arithmetic of AVPacketQueue (packet_queue.cpp): a ring of     *)
(* Size packet buffers, allocated once, with a write index and a read      *)
(* index.  Equal indexes mean empty, so the ring never holds more than     *)
(* Size - 1 published buffers.  The blocking half of queue_push and        *)
(* queue_pop needs the player's mutex and condition variable and is in     *)
(* MediaPlayer.                                                            *)
(***************************************************************************)
EXTENDS Integers

CONSTANT Size           \* AVPacketQueue.size; PACKET_SIZE (50) in the player

ASSUME SizeAssumption == Size \in Nat /\ Size >= 2

Slot == 0 .. Size - 1   \* an index into AVPacketQueue.packets

\* Mutated form of queue_next: the index is never taken back to 0.
NextUnwrapped(k) == k + 1

queue_next(k) == (k + 1) % Size

\* Mutated form of Full: queue_push does not wait for room.
NeverFull(w, r) == FALSE

\* The condition on which queue_push waits.
Full(w, r) == queue_next(w) = r

\* The condition on which queue_pop waits.
Empty(w, r) == w = r

\* How many buffers are published: from the read index up to the write index.
Occupancy(w, r) == IF r <= w THEN w - r ELSE w + Size - r
=============================================================================
