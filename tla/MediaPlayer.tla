---------------------------- MODULE MediaPlayer ----------------------------
(***************************************************************************)
(* The software player of media_player.cpp from play() on: the thread that *)
(* demultiplexes the file (write_packet_to_queue), one decoding thread per *)
(* stream (decode_func), and the caller of play(), which creates them and  *)
(* joins them.  Each stream has a ring of packet buffers (PacketQueue);    *)
(* all threads share one mutex and one condition variable, also used by    *)
(* player_wait_for_frame to pace the output.                               *)
(*                                                                         *)
(* A section under the mutex is one step, since every access to the        *)
(* indexes is inside one; the mutex is a variable only for the case in     *)
(* which player_wait_for_frame goes round its loop without releasing it.   *)
(* What is done to a packet buffer outside the mutex is a step of its own. *)
(***************************************************************************)
EXTENDS PacketQueue, Sequences, FiniteSets

CONSTANTS Video, Audio,   \* the two streams, each also naming its decoding thread
          Demuxer,        \* the thread of write_packet_to_queue
          MaxPackets      \* bound: packets of each stream that the file yields at most

ASSUME ThreadAssumption == Video # Audio /\ Demuxer \notin {Video, Audio}
Stream == {Video, Audio}

ASSUME BoundAssumption == MaxPackets \in [Stream -> Nat]

Thread == Stream \union {Demuxer}

\* A buffer that holds no packet: as malloc'ed, or blanked by av_packet_unref.
\* A packet is the ordinal it has within its stream, from 1.
Blank == 0

VARIABLES
    play,           \* where the caller of play() is
    pc,             \* where each thread is
    mutex,          \* {} or the singleton of the decoder that spins holding it
    waiting,        \* the threads asleep on player->cond without a timeout
    next_to_write,  \* of each stream's ring
    next_to_read,
    packets,        \* what each stream's buffers hold
    pkt,            \* the packet the demuxer has read: its stream and ordinal
    data,           \* the buffer queue_push gave the demuxer
    packet,         \* the buffer queue_pop gave each decoder
    ret,            \* the result of each decoder's last decode call
    read,           \* history: packets of each stream read from the file
    pushed,         \* history: returns of queue_push for each stream
    popped,         \* history: returns of queue_pop for each stream
    decoded,        \* history: the packets each decoder has decoded, in order
    freed           \* history: the packets each decoder has given to av_packet_unref

queueVars == <<next_to_write, next_to_read, pushed, popped>>
demuxVars == <<pkt, data, read>>
decodeVars == <<packet, ret, decoded, freed>>
vars == <<play, pc, mutex, waiting, queueVars, packets, demuxVars, decodeVars>>

Goto(t, label) == pc' = [pc EXCEPT ![t] = label]

\* play(): the demuxer first; a second's sleep, which orders nothing; then the
\* video and the audio decoder.
Init ==
    /\ play = "create demuxer"
    /\ pc = [t \in Thread |-> "not created"]
    /\ mutex = {}
    /\ waiting = {}
    /\ next_to_write = [s \in Stream |-> 0]
    /\ next_to_read = [s \in Stream |-> 0]
    /\ packets = [s \in Stream |-> [k \in Slot |-> Blank]]
    /\ pkt = [stream |-> Video, number |-> Blank]
    /\ data = 0
    /\ packet = [s \in Stream |-> 0]
    /\ ret = [s \in Stream |-> 0]
    /\ read = [s \in Stream |-> 0]
    /\ pushed = [s \in Stream |-> 0]
    /\ popped = [s \in Stream |-> 0]
    /\ decoded = [s \in Stream |-> <<>>]
    /\ freed = [s \in Stream |-> {}]

Create(t, entry, at, next) ==
    /\ play = at
    /\ play' = next
    /\ Goto(t, entry)
    /\ UNCHANGED <<mutex, waiting, queueVars, packets, demuxVars, decodeVars>>

Play ==
    \/ Create(Demuxer, "read", "create demuxer", "create video")
    \/ Create(Video, "pop", "create video", "create audio")
    \/ Create(Audio, "pop", "create audio", "join")

\* The three pthread_join calls; play() returns after the last.
Join ==
    /\ play = "join"
    /\ \A t \in Thread : pc[t] = "exited"
    /\ play' = "returned"
    /\ UNCHANGED <<pc, mutex, waiting, queueVars, packets, demuxVars, decodeVars>>
-----------------------------------------------------------------------------
(* The demuxer.  A packet of a third stream is read and dropped: no step.   *)

ReadFrame(s) ==
    /\ pc[Demuxer] = "read"
    /\ read[s] < MaxPackets[s]
    /\ read' = [read EXCEPT ![s] = @ + 1]
    /\ pkt' = [stream |-> s, number |-> read[s] + 1]
    /\ Goto(Demuxer, "push")
    /\ UNCHANGED <<play, mutex, waiting, queueVars, packets, data, decodeVars>>

\* av_read_frame fails: end of the file or an error, and the thread ends.
EndOfFile ==
    /\ pc[Demuxer] = "read"
    /\ Goto(Demuxer, "exited")
    /\ UNCHANGED <<play, mutex, waiting, queueVars, packets, demuxVars, decodeVars>>

\* Mutated form of Broadcast: pthread_cond_signal, which wakes one of the threads.
Signal ==
    \/ waiting = {} /\ UNCHANGED waiting
    \/ \E t \in waiting : waiting' = waiting \ {t}

\* pthread_cond_broadcast: everyone asleep competes for the mutex again.
Broadcast == waiting' = {}

\* pthread_cond_wait.
Sleep(t) ==
    /\ waiting' = waiting \union {t}
    /\ UNCHANGED <<play, pc, mutex, queueVars, packets, demuxVars, decodeVars>>

\* The mutex is free and t is not asleep on the condition variable.
CanLock(t) == mutex = {} /\ t \notin waiting

PushWaits ==
    /\ pc[Demuxer] = "push"
    /\ CanLock(Demuxer)
    /\ Full(next_to_write[pkt.stream], next_to_read[pkt.stream])
    /\ Sleep(Demuxer)

\* queue_push returns the buffer at the old write index after it has moved the
\* index on: the buffer is published before Fill puts the packet in it.
Push(s) ==
    /\ pc[Demuxer] = "push"
    /\ pkt.stream = s
    /\ CanLock(Demuxer)
    /\ ~Full(next_to_write[s], next_to_read[s])
    /\ data' = next_to_write[s]
    /\ next_to_write' = [next_to_write EXCEPT ![s] = queue_next(@)]
    /\ pushed' = [pushed EXCEPT ![s] = @ + 1]
    /\ Broadcast
    /\ Goto(Demuxer, "fill")
    /\ UNCHANGED <<play, mutex, next_to_read, popped, packets, pkt, read, decodeVars>>

\* Mutated form of Fill: the index is read again after the mutex was released.
FillAtWriteIndex(s) ==
    /\ pc[Demuxer] = "fill"
    /\ pkt.stream = s
    /\ packets' = [packets EXCEPT ![s][next_to_write[s]] = pkt.number]
    /\ Goto(Demuxer, "read")
    /\ UNCHANGED <<play, mutex, waiting, queueVars, demuxVars, decodeVars>>

\* "*data = packet", after the mutex was released.
Fill(s) ==
    /\ pc[Demuxer] = "fill"
    /\ pkt.stream = s
    /\ packets' = [packets EXCEPT ![s][data] = pkt.number]
    /\ Goto(Demuxer, "read")
    /\ UNCHANGED <<play, mutex, waiting, queueVars, demuxVars, decodeVars>>
-----------------------------------------------------------------------------
(* A decoding thread.                                                       *)

PopWaits(s) ==
    /\ pc[s] = "pop"
    /\ CanLock(s)
    /\ Empty(next_to_write[s], next_to_read[s])
    /\ Sleep(s)

Pop(s) ==
    /\ pc[s] = "pop"
    /\ CanLock(s)
    /\ ~Empty(next_to_write[s], next_to_read[s])
    /\ packet' = [packet EXCEPT ![s] = next_to_read[s]]
    /\ next_to_read' = [next_to_read EXCEPT ![s] = queue_next(@)]
    /\ popped' = [popped EXCEPT ![s] = @ + 1]
    /\ Broadcast
    /\ Goto(s, "decode")
    /\ UNCHANGED <<play, mutex, next_to_write, pushed, packets, demuxVars, ret, decoded, freed>>

\* decode_video or decode_audio up to the call of player_wait_for_frame, which
\* is made when the decoder has produced a frame.  A decoder may reject any
\* packet; what it makes of a blank one is its own affair.
Decode(s) ==
    /\ pc[s] = "decode"
    /\ LET content == packets[s][packet[s]] IN
         decoded' = [decoded EXCEPT ![s] = IF content = Blank THEN @
                                           ELSE Append(@, content)]
    /\ \/ ret' = [ret EXCEPT ![s] = -1] /\ Goto(s, "unref")
       \/ ret' = [ret EXCEPT ![s] = 0] /\ \/ Goto(s, "unref")   \* no frame yet
                                          \/ Goto(s, "pace")
    /\ UNCHANGED <<play, mutex, waiting, queueVars, packets, demuxVars, packet, freed>>

\* player_wait_for_frame, one round of its loop, time abstracted to its three
\* outcomes.  The frame is due, or so late that start_time is moved and the
\* others are told ...
FrameDue(s) ==
    /\ \/ pc[s] = "pace" /\ mutex = {}
       \/ pc[s] = "spin" /\ mutex = {s}
    /\ mutex' = {}
    /\ Broadcast \/ UNCHANGED waiting
    /\ Goto(s, "unref")
    /\ UNCHANGED <<play, queueVars, packets, demuxVars, decodeVars>>

\* ... it is not, and the thread waits for at most half a second or for a
\* broadcast: either way it comes back to the loop ...
FrameEarly(s) ==
    /\ pc[s] = "spin"
    /\ mutex = {s}
    /\ mutex' = {}
    /\ Goto(s, "pace")
    /\ UNCHANGED <<play, waiting, queueVars, packets, demuxVars, decodeVars>>

\* ... or the nanoseconds computed for the timeout reach 10^9, the wait fails
\* at once and the loop goes on without having released the mutex.
FrameSpins(s) ==
    /\ pc[s] = "pace"
    /\ mutex = {}
    /\ mutex' = {s}
    /\ Goto(s, "spin")
    /\ UNCHANGED <<play, waiting, queueVars, packets, demuxVars, decodeVars>>

\* The packet in the decoder's buffer, if there is one, is released.
Release(s) ==
    freed' = [freed EXCEPT ![s] = @ \union ({packets[s][packet[s]]} \ {Blank})]

\* Mutated form of Unref: what is unreferenced is a copy of the buffer's AVPacket.
UnrefCopy(s) ==
    /\ pc[s] = "unref"
    /\ Release(s)
    /\ Goto(s, IF ret[s] < 0 THEN "exited" ELSE "pop")
    /\ UNCHANGED <<play, mutex, waiting, queueVars, packets, demuxVars, packet, ret, decoded>>

\* av_packet_unref releases what the buffer holds by now and blanks it, then out of
\* the loop if the decode call failed.
Unref(s) ==
    /\ pc[s] = "unref"
    /\ Release(s)
    /\ packets' = [packets EXCEPT ![s][packet[s]] = Blank]
    /\ Goto(s, IF ret[s] < 0 THEN "exited" ELSE "pop")
    /\ UNCHANGED <<play, mutex, waiting, queueVars, demuxVars, packet, ret, decoded>>
-----------------------------------------------------------------------------
\* POSIX allows a wait to end for no reason; both loops check again.
SpuriousWakeup(t) ==
    /\ t \in waiting
    /\ waiting' = waiting \ {t}
    /\ UNCHANGED <<play, pc, mutex, queueVars, packets, demuxVars, decodeVars>>

Demux == PushWaits \/ EndOfFile \/ \E s \in Stream : ReadFrame(s) \/ Push(s) \/ Fill(s)

Decoder(s) ==
    \/ PopWaits(s) \/ Pop(s) \/ Decode(s)
    \/ FrameDue(s) \/ FrameEarly(s) \/ FrameSpins(s) \/ Unref(s)

Next ==
    \/ Play \/ Join \/ Demux
    \/ \E s \in Stream : Decoder(s)
    \/ \E t \in Thread : SpuriousWakeup(t)

Spec == Init /\ [][Next]_vars
-----------------------------------------------------------------------------
(* Fairness.  Every thread runs, and one that keeps finding the mutex free  *)
(* gets it in the end; play() goes on; a frame's time comes, since time     *)
(* passes while its thread waits or spins.  Nothing is assumed of spurious  *)
(* wake-ups.                                                                *)

FairSpec ==
    /\ Spec
    /\ WF_vars(Play)
    /\ SF_vars(Demux)
    /\ \A s \in Stream : SF_vars(Decoder(s)) /\ SF_vars(FrameDue(s))
-----------------------------------------------------------------------------
\* The decoder has a buffer: from queue_pop to av_packet_unref.
Using(s) == pc[s] \in {"decode", "pace", "spin", "unref"}

\* The demuxer has a buffer of stream s: from queue_push to the copy into it.
Filling(s) == pc[Demuxer] = "fill" /\ pkt.stream = s

TypeOK ==
    /\ play \in {"create demuxer", "create video", "create audio", "join", "returned"}
    /\ pc \in [Thread -> {"not created", "read", "push", "fill", "pop", "decode", "pace",
                          "spin", "unref", "exited"}]
    /\ pc[Demuxer] \in {"not created", "read", "push", "fill", "exited"}
    /\ \A s \in Stream : pc[s] \notin {"read", "push", "fill"}
    /\ mutex \in SUBSET Stream
    /\ waiting \in SUBSET Thread
    /\ next_to_write \in [Stream -> Slot]
    /\ next_to_read \in [Stream -> Slot]
    /\ packets \in [Stream -> [Slot -> Nat]]
    /\ pkt \in [stream : Stream, number : Nat]
    /\ data \in Slot
    /\ packet \in [Stream -> Slot]
    /\ ret \in [Stream -> {0, -1}]
    /\ read \in [Stream -> Nat]
    /\ \A s \in Stream : read[s] <= MaxPackets[s]
    /\ pushed \in [Stream -> Nat]
    /\ popped \in [Stream -> Nat]
    /\ decoded \in [Stream -> Seq(Nat)]
    /\ freed \in [Stream -> SUBSET Nat]

\* The demuxer copies a packet into its buffer without the lock, while the decoder has
\* its own buffer without the lock.  The two are at one buffer only if the decoder came
\* early for that very packet and has not got it: a decoder that has the packet of its
\* turn has the buffer to itself until av_packet_unref.  What an early decoder may have
\* instead, a packet of an earlier lap, is not safe: the copy goes over it even while
\* it is being decoded.
OnlyAnEarlyDecoderMeetsTheDemuxer ==
    \A s \in Stream :
        Filling(s) /\ Using(s) /\ data = packet[s] =>
            pushed[s] = popped[s] /\ packets[s][packet[s]] # popped[s]

\* The condition variable is shared by both rings and by the pacing of frames,
\* yet no wake-up is missed: the demuxer sleeps only while the ring it wants to
\* write is full, a decoder only while its own ring is empty.
NoMissedWakeup ==
    /\ Demuxer \in waiting =>
           /\ pc[Demuxer] = "push"
           /\ Full(next_to_write[pkt.stream], next_to_read[pkt.stream])
    /\ \A s \in Stream \intersect waiting :
           pc[s] = "pop" /\ Empty(next_to_write[s], next_to_read[s])

\* No packet is decoded twice, although a decoder may take a buffer before the demuxer
\* has filled it and find an old packet in it.
DecodedAtMostOnce ==
    \A s \in Stream : \A i, j \in DOMAIN decoded[s] :
        decoded[s][i] = decoded[s][j] => i = j

\* A packet that av_packet_unref has released is never again in a decoder's hands: it
\* is not decoded any more, nor released a second time, although the demuxer may put
\* the packet behind a decoder that has already looked at the buffer.
ReleasedPacketsAreNotUsed ==
    \A s \in Stream : Using(s) => packets[s][packet[s]] \notin freed[s]

\* What a decoder finds in the buffer it popped is nothing, or the packet it
\* expects, or one left behind there whole laps of the ring ago.
FindsItsPacketOrOneOfAnEarlierLap ==
    \A s \in Stream :
        Using(s) /\ packets[s][packet[s]] # Blank =>
            /\ packets[s][packet[s]] <= popped[s]
            /\ (popped[s] - packets[s][packet[s]]) % Size = 0

\* packet_queue.h:21 calls the buffer that queue_pop returns "the packet next to
\* read": when a decoder comes to decode, its buffer holds the next packet.
ReadsThePacketNextToRead ==
    \A s \in Stream : pc[s] = "decode" => packets[s][packet[s]] = popped[s]

\* A ring hands its buffers over as SlotQueue says, whatever its threads and those of
\* the other ring do.  The audio ring is the same by definition.
Published(s) ==
    [i \in 1 .. Occupancy(next_to_write[s], next_to_read[s]) |->
        (next_to_read[s] + i - 1) % Size]
InHand(s) == IF Using(s) THEN {packet[s]} ELSE {}

VideoRing == INSTANCE SlotQueue WITH
    Buffer <- Slot, Capacity <- Size - 1, queue <- Published(Video), held <- InHand(Video)

VideoHandOver == VideoRing!Spec

\* A buffer that was pushed is popped, whatever the other stream does, unless the
\* stream's decoder has given up after a decode error.
EveryPacketIsTaken ==
    \A s \in Stream : \A n \in 1 .. MaxPackets[s] :
        pushed[s] >= n ~> popped[s] >= n \/ pc[s] = "exited"

\* A demuxer that waits for room in one ring gets it, unless that ring's decoder
\* has given up: then it waits for good, and the other stream starves with it.
RoomIsMade ==
    \A s \in Stream :
        pc[Demuxer] = "push" /\ pkt.stream = s ~> pc[Demuxer] = "fill" \/ pc[s] = "exited"
-----------------------------------------------------------------------------
(* The inductive invariant.  OnlyAnEarlyDecoderMeetsTheDemuxer says nothing *)
(* of the indexes and so is not inductive; what makes it true is where each *)
(* of the three parties stands on the ring, and what the buffers hold.      *)

\* The slot n places after k, for n of at most one lap.
Along(k, n) == IF k + n < Size THEN k + n ELSE k + n - Size

\* play() creates every thread once, so none starts over while it is asleep.
CreatedOnce ==
    /\ play = "create demuxer" => pc[Demuxer] = "not created"
    /\ play \in {"create demuxer", "create video"} => pc[Video] = "not created"
    /\ play \in {"create demuxer", "create video", "create audio"} =>
           pc[Audio] = "not created"

\* The write index is ahead of the read index by the buffers published and not
\* yet taken, and never by a whole lap.
Ahead(s) ==
    /\ pushed[s] - popped[s] \in 0 .. Size - 1
    /\ next_to_write[s] = Along(next_to_read[s], pushed[s] - popped[s])

\* A buffer being filled is the one just before the write index, a buffer in use
\* the one just before the read index.
FillsBehindWriteIndex(s) == Filling(s) => queue_next(data) = next_to_write[s]
UsesBehindReadIndex(s) == Using(s) => queue_next(packet[s]) = next_to_read[s]

IInv ==
    /\ TypeOK
    /\ CreatedOnce
    /\ NoMissedWakeup
    /\ \A s \in Stream : Ahead(s) /\ FillsBehindWriteIndex(s) /\ UsesBehindReadIndex(s)

(* What the buffers hold.  Packets are numbered as they are pushed, so a    *)
(* packet has its place: from the first buffer on, round the ring.          *)

\* n buffers on from the first one, whatever laps that takes, comes buffer k.
LapsTo(n, k) == \E lap \in 0 .. n : n = Size * lap + k

\* Indexes, and the buffers in hand, are where the counts of pushes and pops say.
CountsAlong(s) ==
    /\ LapsTo(pushed[s], next_to_write[s])
    /\ LapsTo(popped[s], next_to_read[s])
    /\ Filling(s) => pushed[s] >= 1 /\ LapsTo(pushed[s] - 1, data)
    /\ Using(s) => popped[s] >= 1 /\ LapsTo(popped[s] - 1, packet[s])

\* The packet in the demuxer's hands is the last one read, and the next or the last one
\* pushed.
ReadsInOrder(s) ==
    /\ read[s] = pushed[s] + (IF pc[Demuxer] = "push" /\ pkt.stream = s THEN 1 ELSE 0)
    /\ pc[Demuxer] \in {"push", "fill"} /\ pkt.stream = s => pkt.number = read[s]

\* The packets pushed whose copy into their buffer is over.
Copied(s) == IF Filling(s) THEN pushed[s] - 1 ELSE pushed[s]

\* A packet in a buffer has been copied there and is in its place.
PacketsInPlace(s) ==
    \A k \in Slot : packets[s][k] # Blank =>
        packets[s][k] \in 1 .. Copied(s) /\ LapsTo(packets[s][k] - 1, k)

\* A packet that has been decoded is in no buffer, but for the one about to be unreferenced.
HasDecoded(s) == pc[s] \in {"pace", "spin", "unref"}
DecodedAreGone(s) ==
    /\ \A i \in DOMAIN decoded[s] :
           /\ decoded[s][i] \in 1 .. Copied(s)
           /\ \A k \in Slot :
                  packets[s][k] = decoded[s][i] => HasDecoded(s) /\ k = packet[s]
    /\ \A i, j \in DOMAIN decoded[s] : decoded[s][i] = decoded[s][j] => i = j

\* A packet that has been released is in no buffer.
FreedAreGone(s) ==
    /\ freed[s] \subseteq 1 .. Copied(s)
    /\ \A k \in Slot : packets[s][k] \notin freed[s]

Contents(s) ==
    /\ CountsAlong(s) /\ ReadsInOrder(s)
    /\ PacketsInPlace(s) /\ DecodedAreGone(s) /\ FreedAreGone(s)

IInvOfContents == IInv /\ \A s \in Stream : Contents(s)
=============================================================================
