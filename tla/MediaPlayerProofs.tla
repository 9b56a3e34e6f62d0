------------------------- MODULE MediaPlayerProofs -------------------------
(***************************************************************************)
(* What holds of MediaPlayer for rings of any size and files of any        *)
(* length: that it is well typed, that no wake-up of the shared condition  *)
(* variable is missed; from what the buffers hold, that only an early      *)
(* decoder shares a buffer with the demuxer, that no packet is decoded     *)
(* twice or used once it is released, and that an early decoder finds      *)
(* nothing but packets of whole laps ago; and that the video ring          *)
(* implements SlotQueue.                                                   *)
(***************************************************************************)
EXTENDS MediaPlayer, SequenceTheorems, TLAPS

\* queue_next steps along the ring and from its last index back to 0.
LEMMA QueueNext ==
    ASSUME NEW k \in Slot
    PROVE  /\ queue_next(k) = IF k = Size - 1 THEN 0 ELSE k + 1
           /\ queue_next(k) \in Slot
<1>1. CASE k = Size - 1
  BY <1>1, SizeAssumption DEF queue_next, Slot
<1>2. CASE k # Size - 1
  BY <1>2, SizeAssumption DEF queue_next, Slot
<1> QED
  BY <1>1, <1>2

LEMMA Threads ==
    /\ Video \in Stream /\ Audio \in Stream
    /\ Stream \subseteq Thread
    /\ Demuxer \in Thread
    /\ Demuxer \notin Stream
    /\ Thread = Stream \union {Demuxer}
<1>1. Thread = Stream \union {Demuxer}
  BY DEF Thread
<1>2. Video \in Stream /\ Audio \in Stream /\ Demuxer \notin Stream
  BY ThreadAssumption DEF Stream
<1> QED
  BY <1>1, <1>2

-----------------------------------------------------------------------------
(* Type correctness.                                                        *)

LEMMA TypeInit == Init => TypeOK
<1> SUFFICES ASSUME Init PROVE TypeOK
  OBVIOUS
<1>1. 0 \in Slot
  BY SizeAssumption DEF Slot
<1>2. decoded \in [Stream -> Seq(Nat)]
  <2>1. <<>> \in Seq(Nat)
    OBVIOUS
  <2>2. decoded = [s \in Stream |-> <<>>]
    BY DEF Init
  <2> QED
    BY <2>1, <2>2
<1>3. \A s \in Stream : read[s] <= MaxPackets[s]
  <2>1. \A s \in Stream : MaxPackets[s] \in Nat /\ read[s] = 0
    BY BoundAssumption DEF Init
  <2> QED
    BY <2>1
<1>4. packets \in [Stream -> [Slot -> Nat]]
  BY DEF Init, Blank
<1>5. freed \in [Stream -> SUBSET Nat]
  BY DEF Init
<1> QED
  BY <1>1, <1>2, <1>3, <1>4, <1>5, Threads DEF Init, TypeOK, Blank

\* Whatever buffer a decoder has, it holds a number, which may end its history.
LEMMA ContentType ==
    ASSUME NEW s \in Stream, TypeOK
    PROVE  Append(decoded[s], packets[s][packet[s]]) \in Seq(Nat)
<1>1. packets[s] \in [Slot -> Nat] /\ packet[s] \in Slot /\ decoded[s] \in Seq(Nat)
  BY DEF TypeOK
<1>2. packets[s][packet[s]] \in Nat
  BY <1>1
<1> QED
  BY <1>1, <1>2

LEMMA CounterType ==
    ASSUME NEW s \in Stream, TypeOK
    PROVE  /\ read[s] \in Nat /\ read[s] + 1 \in Nat
           /\ pushed[s] \in Nat /\ pushed[s] + 1 \in Nat
           /\ popped[s] \in Nat /\ popped[s] + 1 \in Nat
           /\ MaxPackets[s] \in Nat
<1>1. read[s] \in Nat /\ pushed[s] \in Nat /\ popped[s] \in Nat
  BY DEF TypeOK
<1>2. MaxPackets[s] \in Nat
  BY BoundAssumption
<1> QED
  BY <1>1, <1>2

\* What is released is the number of a packet.
LEMMA FreedType ==
    ASSUME NEW s \in Stream, TypeOK, Release(s)
    PROVE  freed' \in [Stream -> SUBSET Nat]
<1>1. packets[s] \in [Slot -> Nat] /\ packet[s] \in Slot /\ freed[s] \in SUBSET Nat
  BY DEF TypeOK
<1>2. freed[s] \union ({packets[s][packet[s]]} \ {Blank}) \in SUBSET Nat
  BY <1>1
<1> QED
  BY <1>2 DEF TypeOK, Release

LEMMA PacketsType ==
    ASSUME NEW s \in Stream, NEW k \in Slot, NEW n \in Nat, TypeOK
    PROVE  [packets EXCEPT ![s][k] = n] \in [Stream -> [Slot -> Nat]]
<1>1. [packets[s] EXCEPT ![k] = n] \in [Slot -> Nat]
  BY DEF TypeOK
<1> QED
  BY <1>1 DEF TypeOK

LEMMA TypeStep == TypeOK /\ [Next]_vars => TypeOK'
<1> SUFFICES ASSUME TypeOK, [Next]_vars PROVE TypeOK'
  OBVIOUS
<1> USE Threads DEF queueVars, demuxVars, decodeVars
<1>1. CASE UNCHANGED vars
  BY <1>1 DEF TypeOK, vars
<1>2. CASE Play
  <2>1. /\ play' \in {"create video", "create audio", "join"}
        /\ UNCHANGED <<mutex, waiting, queueVars, packets, demuxVars, decodeVars>>
    BY <1>2 DEF Play, Create
  <2>2. \/ Goto(Demuxer, "read")
        \/ \E s \in Stream : Goto(s, "pop")
    BY <1>2 DEF Play, Create
  <2>3. /\ pc' \in [Thread -> {"not created", "read", "push", "fill", "pop", "decode", "pace",
                              "spin", "unref", "exited"}]
        /\ pc'[Demuxer] \in {"not created", "read", "push", "fill", "exited"}
        /\ \A s \in Stream : pc'[s] \notin {"read", "push", "fill"}
    BY <2>2 DEF Goto, TypeOK
  <2> QED
    BY <2>1, <2>3 DEF TypeOK
<1>3. CASE Join
  BY <1>3 DEF TypeOK, Join
<1>4. CASE PushWaits
  BY <1>4 DEF TypeOK, PushWaits, Sleep
<1>5. CASE EndOfFile
  BY <1>5 DEF TypeOK, EndOfFile, Goto
<1>6. ASSUME NEW s \in Stream, ReadFrame(s) PROVE TypeOK'
  <2>1. read' \in [Stream -> Nat] /\ \A r \in Stream : read'[r] <= MaxPackets[r]
    <3>1. MaxPackets[s] \in Nat /\ read[s] \in Nat /\ read[s] + 1 \in Nat
      BY CounterType
    <3>2. read' = [read EXCEPT ![s] = read[s] + 1] /\ read[s] + 1 <= MaxPackets[s]
      BY <1>6, <3>1 DEF ReadFrame
    <3> QED
      BY <3>1, <3>2 DEF TypeOK
  <2>2. pkt' \in [stream : Stream, number : Nat]
    BY <1>6, CounterType DEF ReadFrame, TypeOK
  <2> QED
    BY <1>6, <2>1, <2>2 DEF TypeOK, ReadFrame, Goto
<1>7. ASSUME NEW s \in Stream, Push(s) PROVE TypeOK'
  <2>1. next_to_write' \in [Stream -> Slot]
    BY <1>7, QueueNext DEF Push, TypeOK
  <2>2. pushed' \in [Stream -> Nat]
    BY <1>7, CounterType DEF Push, TypeOK
  <2> QED
    BY <1>7, <2>1, <2>2 DEF TypeOK, Push, Broadcast, Goto
<1>8. ASSUME NEW s \in Stream, Fill(s) PROVE TypeOK'
  <2>1. packets' \in [Stream -> [Slot -> Nat]]
    BY <1>8, PacketsType DEF Fill, TypeOK
  <2> QED
    BY <1>8, <2>1 DEF TypeOK, Fill, Goto
<1>9. ASSUME NEW s \in Stream, PopWaits(s) PROVE TypeOK'
  BY <1>9 DEF TypeOK, PopWaits, Sleep
<1>10. ASSUME NEW s \in Stream, Pop(s) PROVE TypeOK'
  <2>1. next_to_read' \in [Stream -> Slot]
    BY <1>10, QueueNext DEF Pop, TypeOK
  <2>2. popped' \in [Stream -> Nat]
    BY <1>10, CounterType DEF Pop, TypeOK
  <2> QED
    BY <1>10, <2>1, <2>2 DEF TypeOK, Pop, Broadcast, Goto
<1>11. ASSUME NEW s \in Stream, Decode(s) PROVE TypeOK'
  <2>1. decoded' \in [Stream -> Seq(Nat)]
    <3>1. decoded' = [decoded EXCEPT ![s] =
                        IF packets[s][packet[s]] = Blank THEN decoded[s]
                        ELSE Append(decoded[s], packets[s][packet[s]])]
      BY <1>11 DEF Decode
    <3> QED
      BY <3>1, ContentType DEF TypeOK
  <2>2. ret' \in [Stream -> {0, -1}]
    BY <1>11 DEF Decode, TypeOK
  <2>3. /\ pc' \in [Thread -> {"not created", "read", "push", "fill", "pop", "decode", "pace",
                              "spin", "unref", "exited"}]
        /\ pc'[Demuxer] = pc[Demuxer]
        /\ \A r \in Stream : pc'[r] \notin {"read", "push", "fill"}
    BY <1>11 DEF Decode, Goto, TypeOK
  <2>4. UNCHANGED <<play, mutex, waiting, queueVars, packets, demuxVars, packet, freed>>
    BY <1>11 DEF Decode
  <2> QED
    BY <2>1, <2>2, <2>3, <2>4 DEF TypeOK
<1>12. ASSUME NEW s \in Stream, FrameDue(s) PROVE TypeOK'
  BY <1>12 DEF TypeOK, FrameDue, Broadcast, Goto
<1>13. ASSUME NEW s \in Stream, FrameEarly(s) PROVE TypeOK'
  BY <1>13 DEF TypeOK, FrameEarly, Goto
<1>14. ASSUME NEW s \in Stream, FrameSpins(s) PROVE TypeOK'
  BY <1>14 DEF TypeOK, FrameSpins, Goto
<1>15. ASSUME NEW s \in Stream, Unref(s) PROVE TypeOK'
  <2>1. packets' \in [Stream -> [Slot -> Nat]]
    BY <1>15, PacketsType DEF Unref, TypeOK, Blank
  <2>2. freed' \in [Stream -> SUBSET Nat]
    BY <1>15, FreedType DEF Unref
  <2> QED
    BY <1>15, <2>1, <2>2 DEF TypeOK, Unref, Goto
<1>16. ASSUME NEW t \in Thread, SpuriousWakeup(t) PROVE TypeOK'
  BY <1>16 DEF TypeOK, SpuriousWakeup
<1> QED
  BY <1>1, <1>2, <1>3, <1>4, <1>5, <1>6, <1>7, <1>8, <1>9, <1>10, <1>11, <1>12, <1>13, <1>14, <1>15, <1>16 DEF Next, Demux, Decoder

\* The player's state is well typed: every index stays within its ring.
THEOREM TypeCorrect == Spec => []TypeOK
  BY TypeInit, TypeStep, PTL DEF Spec
-----------------------------------------------------------------------------
(* No wake-up is missed.                                                    *)

LEMMA CreatedOnceStep == TypeOK /\ CreatedOnce /\ [Next]_vars => CreatedOnce'
<1> SUFFICES ASSUME TypeOK, CreatedOnce, [Next]_vars PROVE CreatedOnce'
  OBVIOUS
<1> USE Threads, ThreadAssumption
<1>1. CASE UNCHANGED vars
  BY <1>1 DEF TypeOK, CreatedOnce, vars
<1>2. CASE Play
  BY <1>2 DEF TypeOK, CreatedOnce, Play, Create, Goto
<1>3. CASE Join
  BY <1>3 DEF TypeOK, CreatedOnce, Join
<1>4. CASE PushWaits
  BY <1>4 DEF TypeOK, CreatedOnce, PushWaits, CanLock, Sleep
<1>5. CASE EndOfFile
  BY <1>5 DEF TypeOK, CreatedOnce, EndOfFile, Goto
<1>6. ASSUME NEW r \in Stream, ReadFrame(r) PROVE CreatedOnce'
  BY <1>6 DEF TypeOK, CreatedOnce, ReadFrame, Goto
<1>7. ASSUME NEW r \in Stream, Push(r) PROVE CreatedOnce'
  BY <1>7 DEF TypeOK, CreatedOnce, Push, Broadcast, Goto
<1>8. ASSUME NEW r \in Stream, Fill(r) PROVE CreatedOnce'
  BY <1>8 DEF TypeOK, CreatedOnce, Fill, Goto
<1>9. ASSUME NEW r \in Stream, PopWaits(r) PROVE CreatedOnce'
  BY <1>9 DEF TypeOK, CreatedOnce, PopWaits, CanLock, Sleep
<1>10. ASSUME NEW r \in Stream, Pop(r) PROVE CreatedOnce'
  BY <1>10 DEF TypeOK, CreatedOnce, Pop, Broadcast, Goto
<1>11. ASSUME NEW r \in Stream, Decode(r) PROVE CreatedOnce'
  BY <1>11 DEF TypeOK, CreatedOnce, Decode, Goto
<1>12. ASSUME NEW r \in Stream, FrameDue(r) PROVE CreatedOnce'
  BY <1>12 DEF TypeOK, CreatedOnce, FrameDue, Broadcast, Goto
<1>13. ASSUME NEW r \in Stream, FrameEarly(r) PROVE CreatedOnce'
  BY <1>13 DEF TypeOK, CreatedOnce, FrameEarly, Goto
<1>14. ASSUME NEW r \in Stream, FrameSpins(r) PROVE CreatedOnce'
  BY <1>14 DEF TypeOK, CreatedOnce, FrameSpins, Goto
<1>15. ASSUME NEW r \in Stream, Unref(r) PROVE CreatedOnce'
  BY <1>15 DEF TypeOK, CreatedOnce, Unref, Goto
<1>16. ASSUME NEW t \in Thread, SpuriousWakeup(t) PROVE CreatedOnce'
  BY <1>16 DEF TypeOK, CreatedOnce, SpuriousWakeup
<1> QED
  BY <1>1, <1>2, <1>3, <1>4, <1>5, <1>6, <1>7, <1>8, <1>9, <1>10, <1>11, <1>12, <1>13, <1>14, <1>15, <1>16 DEF Next, Demux, Decoder

\* Whoever falls asleep has just found the ring full or empty; whoever moves an
\* index wakes everyone; and a thread asleep does nothing until it is woken.
LEMMA WakeStep ==
    TypeOK /\ CreatedOnce /\ NoMissedWakeup /\ [Next]_vars => NoMissedWakeup'
<1> SUFFICES ASSUME TypeOK, CreatedOnce, NoMissedWakeup, [Next]_vars PROVE NoMissedWakeup'
  OBVIOUS
<1> USE Threads, ThreadAssumption DEF queueVars, demuxVars, decodeVars
<1>1. CASE UNCHANGED vars
  BY <1>1 DEF TypeOK, CreatedOnce, NoMissedWakeup, vars
<1>2. CASE Play
  BY <1>2 DEF TypeOK, CreatedOnce, NoMissedWakeup, Play, Create, Goto
<1>3. CASE Join
  BY <1>3 DEF TypeOK, CreatedOnce, NoMissedWakeup, Join
<1>4. CASE PushWaits
  BY <1>4 DEF TypeOK, CreatedOnce, NoMissedWakeup, PushWaits, CanLock, Sleep
<1>5. CASE EndOfFile
  BY <1>5 DEF TypeOK, CreatedOnce, NoMissedWakeup, EndOfFile, Goto
<1>6. ASSUME NEW r \in Stream, ReadFrame(r) PROVE NoMissedWakeup'
  BY <1>6 DEF TypeOK, CreatedOnce, NoMissedWakeup, ReadFrame, Goto
<1>7. ASSUME NEW r \in Stream, Push(r) PROVE NoMissedWakeup'
  BY <1>7 DEF TypeOK, CreatedOnce, NoMissedWakeup, Push, Broadcast, Goto
<1>8. ASSUME NEW r \in Stream, Fill(r) PROVE NoMissedWakeup'
  BY <1>8 DEF TypeOK, CreatedOnce, NoMissedWakeup, Fill, Goto
<1>9. ASSUME NEW r \in Stream, PopWaits(r) PROVE NoMissedWakeup'
  BY <1>9 DEF TypeOK, CreatedOnce, NoMissedWakeup, PopWaits, CanLock, Sleep
<1>10. ASSUME NEW r \in Stream, Pop(r) PROVE NoMissedWakeup'
  BY <1>10 DEF TypeOK, CreatedOnce, NoMissedWakeup, Pop, Broadcast, Goto
<1>11. ASSUME NEW r \in Stream, Decode(r) PROVE NoMissedWakeup'
  BY <1>11 DEF TypeOK, CreatedOnce, NoMissedWakeup, Decode, Goto
<1>12. ASSUME NEW r \in Stream, FrameDue(r) PROVE NoMissedWakeup'
  BY <1>12 DEF TypeOK, CreatedOnce, NoMissedWakeup, FrameDue, Broadcast, Goto
<1>13. ASSUME NEW r \in Stream, FrameEarly(r) PROVE NoMissedWakeup'
  BY <1>13 DEF TypeOK, CreatedOnce, NoMissedWakeup, FrameEarly, Goto
<1>14. ASSUME NEW r \in Stream, FrameSpins(r) PROVE NoMissedWakeup'
  BY <1>14 DEF TypeOK, CreatedOnce, NoMissedWakeup, FrameSpins, Goto
<1>15. ASSUME NEW r \in Stream, Unref(r) PROVE NoMissedWakeup'
  BY <1>15 DEF TypeOK, CreatedOnce, NoMissedWakeup, Unref, Goto
<1>16. ASSUME NEW t \in Thread, SpuriousWakeup(t) PROVE NoMissedWakeup'
  BY <1>16 DEF TypeOK, CreatedOnce, NoMissedWakeup, SpuriousWakeup
<1> QED
  BY <1>1, <1>2, <1>3, <1>4, <1>5, <1>6, <1>7, <1>8, <1>9, <1>10, <1>11, <1>12, <1>13, <1>14, <1>15, <1>16 DEF Next, Demux, Decoder
-----------------------------------------------------------------------------
(* The ring.                                                                *)

LEMMA OnePushed ==
    ASSUME NEW w \in Slot, NEW r \in Slot, NEW n \in 0 .. Size - 1,
           w = Along(r, n), ~Full(w, r)
    PROVE  n + 1 \in 0 .. Size - 1 /\ queue_next(w) = Along(r, n + 1)
<1>1. queue_next(w) = IF w = Size - 1 THEN 0 ELSE w + 1
  BY QueueNext
<1> QED
  BY <1>1, SizeAssumption DEF Along, Full, Slot

LEMMA OnePopped ==
    ASSUME NEW w \in Slot, NEW r \in Slot, NEW n \in 0 .. Size - 1,
           w = Along(r, n), ~Empty(w, r)
    PROVE  n - 1 \in 0 .. Size - 1 /\ w = Along(queue_next(r), n - 1)
<1>1. queue_next(r) = IF r = Size - 1 THEN 0 ELSE r + 1
  BY QueueNext
<1> QED
  BY <1>1, SizeAssumption DEF Along, Empty, Slot

\* Less than a lap ahead and at the same place is not ahead at all.
LEMMA SamePlace ==
    ASSUME NEW r \in Slot, NEW n \in 0 .. Size - 1, Along(r, n) = r
    PROVE  n = 0
  BY SizeAssumption DEF Along, Slot

Position(s) == Ahead(s) /\ FillsBehindWriteIndex(s) /\ UsesBehindReadIndex(s)

LEMMA PositionStep ==
    ASSUME TypeOK, [Next]_vars, NEW s \in Stream, Position(s)
    PROVE  Position(s)'
<1> USE Threads DEF queueVars, demuxVars, decodeVars
<1> DEFINE n == pushed[s] - popped[s]
<1>1. CASE UNCHANGED vars
  BY <1>1 DEF TypeOK, Position, Ahead, FillsBehindWriteIndex, UsesBehindReadIndex, Filling, Using, vars
<1>2. CASE Play
  BY <1>2 DEF TypeOK, Position, Ahead, FillsBehindWriteIndex, UsesBehindReadIndex, Filling, Using, Play, Create, Goto
<1>3. CASE Join
  BY <1>3 DEF TypeOK, Position, Ahead, FillsBehindWriteIndex, UsesBehindReadIndex, Filling, Using, Join
<1>4. CASE PushWaits
  BY <1>4 DEF TypeOK, Position, Ahead, FillsBehindWriteIndex, UsesBehindReadIndex, Filling, Using, PushWaits, CanLock, Sleep
<1>5. CASE EndOfFile
  BY <1>5 DEF TypeOK, Position, Ahead, FillsBehindWriteIndex, UsesBehindReadIndex, Filling, Using, EndOfFile, Goto
<1>6. ASSUME NEW r \in Stream, ReadFrame(r) PROVE Position(s)'
  BY <1>6 DEF TypeOK, Position, Ahead, FillsBehindWriteIndex, UsesBehindReadIndex, Filling, Using, ReadFrame, Goto
<1>7. ASSUME NEW r \in Stream, Push(r) PROVE Position(s)'
  <2>1. CASE r = s
    <3>1. n + 1 \in 0 .. Size - 1 /\ queue_next(next_to_write[s]) = Along(next_to_read[s], n + 1)
      <4>1. /\ next_to_write[s] \in Slot /\ next_to_read[s] \in Slot
            /\ n \in 0 .. Size - 1 /\ next_to_write[s] = Along(next_to_read[s], n)
        BY DEF TypeOK, Position, Ahead
      <4>2. ~Full(next_to_write[s], next_to_read[s])
        BY <1>7, <2>1 DEF Push
      <4> QED
        BY ONLY <4>1, <4>2, OnePushed
    <3>2. /\ next_to_write'[s] = queue_next(next_to_write[s])
          /\ pushed'[s] = pushed[s] + 1
          /\ data' = next_to_write[s]
          /\ UNCHANGED <<next_to_read, popped, packet>>
          /\ pc'[s] = pc[s]
      BY <1>7, <2>1 DEF Push, TypeOK, Goto
    <3>3. pushed'[s] - popped'[s] = n + 1
      BY <3>2, CounterType
    <3> QED
      BY <3>1, <3>2, <3>3
      DEF Position, Ahead, FillsBehindWriteIndex, UsesBehindReadIndex, Using
  <2>2. CASE r # s
    <3>1. ~Filling(s)'
      BY <1>7, <2>2 DEF Push, Filling
    <3>2. /\ next_to_write'[s] = next_to_write[s]
          /\ pushed'[s] = pushed[s]
          /\ UNCHANGED <<next_to_read, popped, packet>>
          /\ pc'[s] = pc[s]
      BY <1>7, <2>2 DEF Push, TypeOK, Goto
    <3> QED
      BY <3>1, <3>2 DEF Position, Ahead, FillsBehindWriteIndex, UsesBehindReadIndex, Using
  <2> QED
    BY <2>1, <2>2
<1>8. ASSUME NEW r \in Stream, Fill(r) PROVE Position(s)'
  BY <1>8 DEF TypeOK, Position, Ahead, FillsBehindWriteIndex, UsesBehindReadIndex, Filling, Using, Fill, Goto
<1>9. ASSUME NEW r \in Stream, PopWaits(r) PROVE Position(s)'
  BY <1>9 DEF TypeOK, Position, Ahead, FillsBehindWriteIndex, UsesBehindReadIndex, Filling, Using, PopWaits, CanLock, Sleep
<1>10. ASSUME NEW r \in Stream, Pop(r) PROVE Position(s)'
  <2>1. UNCHANGED <<next_to_write, pushed, pkt, data>> /\ pc'[Demuxer] = pc[Demuxer]
    BY <1>10 DEF Pop, TypeOK, Goto
  <2>2. CASE r = s
    <3>1. n - 1 \in 0 .. Size - 1 /\ next_to_write[s] = Along(queue_next(next_to_read[s]), n - 1)
      <4>1. /\ next_to_write[s] \in Slot /\ next_to_read[s] \in Slot
            /\ n \in 0 .. Size - 1 /\ next_to_write[s] = Along(next_to_read[s], n)
        BY DEF TypeOK, Position, Ahead
      <4>2. ~Empty(next_to_write[s], next_to_read[s])
        BY <1>10, <2>2 DEF Pop
      <4> QED
        BY ONLY <4>1, <4>2, OnePopped
    <3>2. /\ next_to_read'[s] = queue_next(next_to_read[s])
          /\ popped'[s] = popped[s] + 1
          /\ packet'[s] = next_to_read[s]
      BY <1>10, <2>2 DEF Pop, TypeOK
    <3>3. pushed'[s] - popped'[s] = n - 1
      BY <2>1, <3>2, CounterType
    <3> QED
      BY <2>1, <3>1, <3>2, <3>3
      DEF Position, Ahead, FillsBehindWriteIndex, UsesBehindReadIndex, Filling
  <2>3. CASE r # s
    <3>1. /\ next_to_read'[s] = next_to_read[s]
          /\ popped'[s] = popped[s]
          /\ packet'[s] = packet[s]
          /\ pc'[s] = pc[s]
      BY <1>10, <2>3 DEF Pop, TypeOK, Goto
    <3> QED
      BY <2>1, <3>1
      DEF Position, Ahead, FillsBehindWriteIndex, UsesBehindReadIndex, Filling, Using
  <2> QED
    BY <2>2, <2>3
<1>11. ASSUME NEW r \in Stream, Decode(r) PROVE Position(s)'
  BY <1>11 DEF TypeOK, Position, Ahead, FillsBehindWriteIndex, UsesBehindReadIndex, Filling, Using, Decode, Goto
<1>12. ASSUME NEW r \in Stream, FrameDue(r) PROVE Position(s)'
  BY <1>12 DEF TypeOK, Position, Ahead, FillsBehindWriteIndex, UsesBehindReadIndex, Filling, Using, FrameDue, Broadcast, Goto
<1>13. ASSUME NEW r \in Stream, FrameEarly(r) PROVE Position(s)'
  BY <1>13 DEF TypeOK, Position, Ahead, FillsBehindWriteIndex, UsesBehindReadIndex, Filling, Using, FrameEarly, Goto
<1>14. ASSUME NEW r \in Stream, FrameSpins(r) PROVE Position(s)'
  BY <1>14 DEF TypeOK, Position, Ahead, FillsBehindWriteIndex, UsesBehindReadIndex, Filling, Using, FrameSpins, Goto
<1>15. ASSUME NEW r \in Stream, Unref(r) PROVE Position(s)'
  BY <1>15 DEF TypeOK, Position, Ahead, FillsBehindWriteIndex, UsesBehindReadIndex, Filling, Using, Unref, Goto
<1>16. ASSUME NEW t \in Thread, SpuriousWakeup(t) PROVE Position(s)'
  BY <1>16 DEF TypeOK, Position, Ahead, FillsBehindWriteIndex, UsesBehindReadIndex, Filling, Using, SpuriousWakeup
<1> QED
  BY <1>1, <1>2, <1>3, <1>4, <1>5, <1>6, <1>7, <1>8, <1>9, <1>10, <1>11, <1>12, <1>13, <1>14, <1>15, <1>16 DEF Next, Demux, Decoder

-----------------------------------------------------------------------------
LEMMA InductiveInit == Init => IInv
<1> SUFFICES ASSUME Init PROVE IInv
  OBVIOUS
<1>1. TypeOK
  BY TypeInit
<1>2. CreatedOnce /\ NoMissedWakeup
  BY Threads DEF Init, CreatedOnce, NoMissedWakeup
<1>3. ASSUME NEW s \in Stream PROVE Ahead(s)
  <2>1. pushed[s] = 0 /\ popped[s] = 0 /\ next_to_write[s] = 0 /\ next_to_read[s] = 0
    BY DEF Init
  <2> QED
    BY <2>1, SizeAssumption DEF Ahead, Along
<1>4. ASSUME NEW s \in Stream PROVE ~Filling(s) /\ ~Using(s)
  BY Threads DEF Init, Filling, Using
<1> QED
  BY <1>1, <1>2, <1>3, <1>4 DEF IInv, FillsBehindWriteIndex, UsesBehindReadIndex

LEMMA InductiveStep == IInv /\ [Next]_vars => IInv'
<1> SUFFICES ASSUME IInv, [Next]_vars PROVE IInv'
  OBVIOUS
<1>1. TypeOK' /\ CreatedOnce' /\ NoMissedWakeup'
  BY TypeStep, CreatedOnceStep, WakeStep DEF IInv
<1>2. ASSUME NEW s \in Stream PROVE Position(s)'
  BY PositionStep DEF IInv, Position
<1> QED
  BY <1>1, <1>2 DEF IInv, Position

\* The demuxer and a decoder at one buffer have pushed and popped as many.
LEMMA SharedBuffer ==
    ASSUME IInv, NEW s \in Stream, Filling(s), Using(s), data = packet[s]
    PROVE  pushed[s] = popped[s]
<1>1. next_to_write[s] = next_to_read[s]
  BY DEF IInv, FillsBehindWriteIndex, UsesBehindReadIndex
<1>2. next_to_read[s] \in Slot /\ pushed[s] - popped[s] \in 0 .. Size - 1
  BY DEF IInv, TypeOK, Ahead
<1>3. Along(next_to_read[s], pushed[s] - popped[s]) = next_to_read[s]
  BY <1>1 DEF IInv, Ahead
<1>4. pushed[s] - popped[s] = 0
  BY <1>2, <1>3, SamePlace
<1> QED
  BY <1>4, CounterType DEF IInv

\* No broadcast is missed by a thread that needs it: whatever the sizes and the
\* schedule, the demuxer sleeps only on a full ring and a decoder only on an
\* empty one.
THEOREM WakeupsReachSleepers == Spec => []NoMissedWakeup
<1>1. IInv => NoMissedWakeup
  BY DEF IInv
<1> QED
  BY InductiveInit, InductiveStep, <1>1, PTL DEF Spec
-----------------------------------------------------------------------------
(* What the buffers hold.                                                   *)

\* LapsTo is division with remainder.
LEMMA Remainders ==
    ASSUME NEW n \in Nat, NEW k \in Slot, NEW q \in Int, n = Size * q + k
    PROVE  n % Size = k
  BY SizeAssumption DEF Slot

LEMMA LapsOn ==
    ASSUME NEW n \in Nat, NEW k \in Slot, LapsTo(n, k)
    PROVE  LapsTo(n + 1, queue_next(k))
<1>1. PICK lap \in 0 .. n : n = Size * lap + k
  BY DEF LapsTo
<1>2. CASE k = Size - 1
  <2>1. queue_next(k) = 0 /\ lap + 1 \in 0 .. n + 1
    BY <1>2, QueueNext
  <2>2. n + 1 = Size * (lap + 1) + 0
    BY <1>1, <1>2, SizeAssumption
  <2> QED
    BY <2>1, <2>2 DEF LapsTo
<1>3. CASE k # Size - 1
  <2>1. queue_next(k) = k + 1 /\ lap \in 0 .. n + 1
    BY <1>3, QueueNext
  <2>2. n + 1 = Size * lap + (k + 1)
    BY <1>1, SizeAssumption DEF Slot
  <2> QED
    BY <2>1, <2>2 DEF LapsTo
<1> QED
  BY <1>2, <1>3

LEMMA LapsToOne ==
    ASSUME NEW n \in Nat, NEW j \in Slot, NEW k \in Slot, LapsTo(n, j), LapsTo(n, k)
    PROVE  j = k
<1>1. \A i \in Slot : LapsTo(n, i) => n % Size = i
  BY Remainders DEF LapsTo
<1> QED
  BY <1>1

LEMMA LapsApart ==
    ASSUME NEW m \in Nat, NEW n \in Nat, m <= n, NEW k \in Slot, LapsTo(m, k), LapsTo(n, k)
    PROVE  /\ (n - m) % Size = 0
           /\ n - m < Size => n = m
<1>1. PICK p \in 0 .. m : m = Size * p + k
  BY DEF LapsTo
<1>2. PICK q \in 0 .. n : n = Size * q + k
  BY DEF LapsTo
<1>3. n - m = Size * (q - p) + 0 /\ q - p \in Int /\ 0 \in Slot /\ n - m \in Nat
  BY <1>1, <1>2, SizeAssumption DEF Slot
<1>4. (n - m) % Size = 0
  BY <1>3, Remainders
<1>5. ASSUME n - m < Size PROVE n = m
  <2>1. n - m = Size * 0 + (n - m) /\ n - m \in Slot
    BY <1>3, <1>5, SizeAssumption DEF Slot
  <2>2. (n - m) % Size = n - m
    BY <2>1, <1>3, Remainders
  <2> QED
    BY <1>4, <2>2
<1> QED
  BY <1>4, <1>5

\* A step that leaves what Contents(s) is about alone.
LeavesContents(s) ==
    /\ pushed'[s] = pushed[s] /\ popped'[s] = popped[s] /\ read'[s] = read[s]
    /\ next_to_write'[s] = next_to_write[s] /\ next_to_read'[s] = next_to_read[s]
    /\ packets'[s] = packets[s] /\ packet'[s] = packet[s]
    /\ decoded'[s] = decoded[s] /\ freed'[s] = freed[s]
    /\ \/ UNCHANGED <<pkt, data>> /\ pc'[Demuxer] = pc[Demuxer]
       \/ pkt'.stream # s /\ (pkt.stream # s \/ pc[Demuxer] \notin {"push", "fill"})
       \/ pkt'.stream = s /\ {pc[Demuxer], pc'[Demuxer]} \cap {"push", "fill"} = {}
    /\ \/ pc'[s] = pc[s]
       \/ HasDecoded(s) /\ HasDecoded(s)'
       \/ {pc[s], pc'[s]} \cap {"decode", "pace", "spin", "unref"} = {}

LEMMA ContentsLeft ==
    ASSUME NEW s \in Stream, Contents(s), LeavesContents(s)
    PROVE  Contents(s)'
<1>1. Filling(s)' <=> Filling(s)
  BY DEF LeavesContents, Filling
<1>2. Filling(s) => data' = data
  BY DEF LeavesContents, Filling
<1>3. (Using(s)' <=> Using(s)) /\ (HasDecoded(s)' <=> HasDecoded(s))
  BY DEF LeavesContents, Using, HasDecoded
<1>4. CountsAlong(s)'
  BY <1>1, <1>2, <1>3 DEF LeavesContents, Contents, CountsAlong
<1>5. ReadsInOrder(s)'
  BY DEF LeavesContents, Contents, ReadsInOrder
<1>6. Copied(s)' = Copied(s)
  BY <1>1 DEF LeavesContents, Copied
<1>7. PacketsInPlace(s)'
  BY <1>6 DEF LeavesContents, Contents, PacketsInPlace
<1>8. DecodedAreGone(s)'
  BY <1>3, <1>6 DEF LeavesContents, Contents, DecodedAreGone
<1>9. FreedAreGone(s)'
  BY <1>6 DEF LeavesContents, Contents, FreedAreGone
<1> QED
  BY <1>4, <1>5, <1>7, <1>8, <1>9 DEF Contents

\* The type of what Contents(s) is about.
LEMMA ContentsType ==
    ASSUME NEW s \in Stream, TypeOK
    PROVE  /\ pushed[s] \in Nat /\ popped[s] \in Nat /\ read[s] \in Nat
           /\ next_to_write[s] \in Slot /\ next_to_read[s] \in Slot
           /\ packets[s] \in [Slot -> Nat] /\ packet[s] \in Slot
           /\ decoded[s] \in Seq(Nat) /\ freed[s] \subseteq Nat
           /\ pkt.stream \in Stream /\ pkt.number \in Nat /\ data \in Slot
  BY DEF TypeOK

LEMMA ReadFrameContents ==
    ASSUME NEW s \in Stream, TypeOK, Contents(s), ReadFrame(s)
    PROVE  Contents(s)'
<1>1. /\ pc[Demuxer] = "read" /\ pc'[Demuxer] = "push" /\ pc'[s] = pc[s]
      /\ read'[s] = read[s] + 1 /\ pkt' = [stream |-> s, number |-> read[s] + 1]
      /\ UNCHANGED <<queueVars, packets, data, decodeVars>>
  BY Threads DEF ReadFrame, Goto, TypeOK
<1>2. ~Filling(s) /\ ~Filling(s)' /\ (Using(s)' <=> Using(s)) /\ (HasDecoded(s)' <=> HasDecoded(s))
  BY <1>1 DEF Filling, Using, HasDecoded
<1>3. CountsAlong(s)'
  BY <1>1, <1>2 DEF Contents, CountsAlong, queueVars, decodeVars
<1>4. ReadsInOrder(s)'
  BY <1>1, ContentsType DEF Contents, ReadsInOrder, queueVars
<1>5. Copied(s)' = Copied(s)
  BY <1>1, <1>2 DEF Copied, queueVars
<1>6. PacketsInPlace(s)' /\ DecodedAreGone(s)'
  BY <1>1, <1>2, <1>5 DEF Contents, PacketsInPlace, DecodedAreGone, decodeVars
<1>7. FreedAreGone(s)'
  BY <1>1, <1>5 DEF Contents, FreedAreGone, decodeVars
<1> QED
  BY <1>3, <1>4, <1>6, <1>7 DEF Contents

\* A push makes room for one more: what was pushed before it is in its buffer.
LEMMA PushContents ==
    ASSUME NEW s \in Stream, TypeOK, Contents(s), Push(s)
    PROVE  Contents(s)'
<1>1. /\ pc[Demuxer] = "push" /\ pkt.stream = s /\ pc'[Demuxer] = "fill" /\ pc'[s] = pc[s]
      /\ data' = next_to_write[s] /\ next_to_write'[s] = queue_next(next_to_write[s])
      /\ pushed'[s] = pushed[s] + 1
      /\ UNCHANGED <<next_to_read, popped, packets, pkt, read, decodeVars>>
  BY Threads DEF Push, Goto, TypeOK
<1>2. ~Filling(s) /\ Filling(s)' /\ (Using(s)' <=> Using(s)) /\ (HasDecoded(s)' <=> HasDecoded(s))
  BY <1>1 DEF Filling, Using, HasDecoded
<1>3. CountsAlong(s)'
  <2>1. pushed'[s] >= 1 /\ pushed'[s] - 1 = pushed[s]
    BY <1>1, CounterType
  <2>2. LapsTo(pushed[s], next_to_write[s])
    BY DEF Contents, CountsAlong
  <2>3. LapsTo(pushed'[s], next_to_write'[s])
    BY <1>1, <2>2, LapsOn, ContentsType
  <2> QED
    BY <1>1, <1>2, <2>1, <2>2, <2>3 DEF Contents, CountsAlong, decodeVars
<1>4. ReadsInOrder(s)'
  BY <1>1, ContentsType DEF Contents, ReadsInOrder
<1>5. Copied(s)' = Copied(s)
  BY <1>1, <1>2, ContentsType DEF Copied
<1>6. PacketsInPlace(s)' /\ DecodedAreGone(s)'
  BY <1>1, <1>2, <1>5 DEF Contents, PacketsInPlace, DecodedAreGone, decodeVars
<1>7. FreedAreGone(s)'
  BY <1>1, <1>5 DEF Contents, FreedAreGone, decodeVars
<1> QED
  BY <1>3, <1>4, <1>6, <1>7 DEF Contents

\* The copy puts the last packet pushed in its place; it has not been decoded.
LEMMA FillContents ==
    ASSUME NEW s \in Stream, TypeOK, Contents(s), Fill(s)
    PROVE  Contents(s)'
<1>1. /\ pc[Demuxer] = "fill" /\ pkt.stream = s /\ pc'[Demuxer] = "read" /\ pc'[s] = pc[s]
      /\ packets'[s] = [packets[s] EXCEPT ![data] = pkt.number]
      /\ UNCHANGED <<queueVars, demuxVars, decodeVars>>
  BY Threads DEF Fill, Goto, TypeOK
<1>2. Filling(s) /\ ~Filling(s)' /\ (Using(s)' <=> Using(s)) /\ (HasDecoded(s)' <=> HasDecoded(s))
  BY <1>1 DEF Filling, Using, HasDecoded
<1>3. CountsAlong(s)'
  BY <1>1, <1>2 DEF Contents, CountsAlong, queueVars, demuxVars, decodeVars
<1>4. ReadsInOrder(s)'
  BY <1>1 DEF Contents, ReadsInOrder, queueVars, demuxVars
<1>5. pkt.number = pushed[s] /\ pushed[s] >= 1 /\ LapsTo(pkt.number - 1, data)
  <2>1. pkt.number = pushed[s]
    BY <1>1, ContentsType DEF Contents, ReadsInOrder
  <2> QED
    BY <1>2, <2>1 DEF Contents, CountsAlong
<1>6. Copied(s) = pushed[s] - 1 /\ Copied(s)' = pushed[s]
  BY <1>1, <1>2 DEF Copied, queueVars
<1>7. PacketsInPlace(s)'
  <2> SUFFICES ASSUME NEW k \in Slot, packets'[s][k] # Blank
               PROVE  packets'[s][k] \in 1 .. pushed[s] /\ LapsTo(packets'[s][k] - 1, k)
    BY <1>6 DEF PacketsInPlace
  <2>1. CASE k = data
    <3>1. packets'[s][k] = pkt.number
      BY <1>1, <2>1, ContentsType
    <3> QED
      BY <1>5, <2>1, <3>1, ContentsType
  <2>2. CASE k # data
    <3>1. packets'[s][k] = packets[s][k]
      BY <1>1, <2>2, ContentsType
    <3>2. packets[s][k] \in 1 .. Copied(s) /\ LapsTo(packets[s][k] - 1, k)
      BY <2>2, <3>1 DEF Contents, PacketsInPlace
    <3> QED
      BY <1>6, <3>1, <3>2, ContentsType
  <2> QED
    BY <2>1, <2>2
<1>8. DecodedAreGone(s)'
  <2>1. ASSUME NEW i \in DOMAIN decoded[s], NEW k \in Slot, packets'[s][k] = decoded[s][i]
        PROVE  HasDecoded(s)' /\ k = packet'[s]
    <3>1. k # data
      <4>1. decoded[s][i] \in 1 .. pushed[s] - 1
        BY <1>6 DEF Contents, DecodedAreGone
      <4>2. k = data => packets'[s][k] = pushed[s]
        BY <1>1, <1>5, ContentsType
      <4> QED
        BY <2>1, <4>1, <4>2, ContentsType
    <3>2. packets'[s][k] = packets[s][k]
      BY <1>1, <3>1, ContentsType
    <3>3. packets[s][k] = decoded[s][i]
      BY <2>1, <3>2
    <3>4. HasDecoded(s) /\ k = packet[s]
      BY <3>3 DEF Contents, DecodedAreGone
    <3> QED
      BY <1>1, <1>2, <3>4 DEF decodeVars
  <2>2. \A i \in DOMAIN decoded[s] : decoded[s][i] \in 1 .. pushed[s]
    BY <1>6, ContentsType DEF Contents, DecodedAreGone
  <2> QED
    BY <1>1, <1>6, <2>1, <2>2 DEF Contents, DecodedAreGone, decodeVars
<1>9. FreedAreGone(s)'
  <2>1. freed'[s] = freed[s] /\ freed[s] \subseteq 1 .. pushed[s] - 1
    BY <1>1, <1>6 DEF Contents, FreedAreGone, decodeVars
  <2>2. ASSUME NEW k \in Slot PROVE packets'[s][k] \notin freed[s]
    <3>1. k = data => packets'[s][k] = pushed[s]
      BY <1>1, <1>5, ContentsType
    <3>2. k # data => packets'[s][k] = packets[s][k]
      BY <1>1, ContentsType
    <3>3. packets[s][k] \notin freed[s]
      BY DEF Contents, FreedAreGone
    <3> QED
      BY <2>1, <3>1, <3>2, <3>3, ContentsType
  <2>3. freed[s] \subseteq 1 .. pushed[s]
    BY <2>1, ContentsType
  <2> QED
    BY <1>6, <2>1, <2>2, <2>3 DEF FreedAreGone
<1> QED
  BY <1>3, <1>4, <1>7, <1>8, <1>9 DEF Contents

LEMMA PopContents ==
    ASSUME NEW s \in Stream, TypeOK, Contents(s), Pop(s)
    PROVE  Contents(s)'
<1>1. /\ pc[s] = "pop" /\ pc'[s] = "decode" /\ pc'[Demuxer] = pc[Demuxer]
      /\ packet'[s] = next_to_read[s] /\ next_to_read'[s] = queue_next(next_to_read[s])
      /\ popped'[s] = popped[s] + 1
      /\ UNCHANGED <<next_to_write, pushed, packets, demuxVars, decoded, freed>>
  BY Threads DEF Pop, Goto, TypeOK
<1>2. (Filling(s)' <=> Filling(s)) /\ ~HasDecoded(s) /\ ~HasDecoded(s)'
  BY <1>1 DEF Filling, HasDecoded, demuxVars
<1>3. CountsAlong(s)'
  <2>1. popped'[s] >= 1 /\ popped'[s] - 1 = popped[s]
    BY <1>1, CounterType
  <2>2. LapsTo(popped[s], next_to_read[s])
    BY DEF Contents, CountsAlong
  <2>3. LapsTo(popped'[s], next_to_read'[s])
    BY <1>1, <2>2, LapsOn, ContentsType
  <2> QED
    BY <1>1, <1>2, <2>1, <2>2, <2>3 DEF Contents, CountsAlong, demuxVars
<1>4. ReadsInOrder(s)'
  BY <1>1 DEF Contents, ReadsInOrder, demuxVars
<1>5. Copied(s)' = Copied(s)
  BY <1>1, <1>2 DEF Copied
<1>6. PacketsInPlace(s)' /\ DecodedAreGone(s)'
  BY <1>1, <1>2, <1>5 DEF Contents, PacketsInPlace, DecodedAreGone
<1>7. FreedAreGone(s)'
  BY <1>1, <1>5 DEF Contents, FreedAreGone
<1> QED
  BY <1>3, <1>4, <1>6, <1>7 DEF Contents

\* A decoder finds its buffer blank, or a packet that is in no other buffer and was not
\* decoded before.
LEMMA DecodeContents ==
    ASSUME NEW s \in Stream, TypeOK, Contents(s), Decode(s)
    PROVE  Contents(s)'
<1> DEFINE content == packets[s][packet[s]]
<1>1. /\ pc[s] = "decode" /\ pc'[s] \in {"unref", "pace"} /\ pc'[Demuxer] = pc[Demuxer]
      /\ decoded'[s] = IF content = Blank THEN decoded[s] ELSE Append(decoded[s], content)
      /\ UNCHANGED <<queueVars, packets, demuxVars, packet, freed>>
  BY Threads DEF Decode, Goto, TypeOK
<1>2. (Filling(s)' <=> Filling(s)) /\ Using(s) /\ ~HasDecoded(s) /\ HasDecoded(s)'
  BY <1>1 DEF Filling, HasDecoded, Using, demuxVars
<1>3. CountsAlong(s)'
  BY <1>1, <1>2 DEF Contents, CountsAlong, queueVars, demuxVars
<1>4. ReadsInOrder(s)'
  BY <1>1 DEF Contents, ReadsInOrder, queueVars, demuxVars
<1>5. Copied(s)' = Copied(s)
  BY <1>1, <1>2 DEF Copied, queueVars
<1>6. PacketsInPlace(s)' /\ FreedAreGone(s)'
  BY <1>1, <1>5 DEF Contents, PacketsInPlace, FreedAreGone
<1>7. CASE content = Blank
  <2>1. DecodedAreGone(s)'
    BY <1>1, <1>2, <1>5, <1>7 DEF Contents, DecodedAreGone
  <2> QED
    BY <1>3, <1>4, <1>6, <2>1 DEF Contents
<1>8. CASE content # Blank
  <2>1. content \in Nat /\ packet[s] \in Slot /\ decoded[s] \in Seq(Nat)
    BY ContentsType
  <2>2. content \in 1 .. Copied(s) /\ LapsTo(content - 1, packet[s]) /\ content - 1 \in Nat
    <3>1. content \in 1 .. Copied(s) /\ LapsTo(content - 1, packet[s])
      BY <1>8, <2>1 DEF Contents, PacketsInPlace
    <3> HIDE DEF content
    <3> QED
      BY <2>1, <3>1
  <2>3. \A i \in DOMAIN decoded[s] : decoded[s][i] # content
    BY <1>2, <2>1 DEF Contents, DecodedAreGone
  <2>4. \A k \in Slot : packets[s][k] = content => k = packet[s]
    <3> SUFFICES ASSUME NEW k \in Slot, packets[s][k] = content PROVE k = packet[s]
      OBVIOUS
    <3>1. LapsTo(content - 1, k)
      BY <1>8 DEF Contents, PacketsInPlace
    <3> HIDE DEF content
    <3> QED
      BY <2>1, <2>2, <3>1, LapsToOne
  <2>5. decoded'[s] = Append(decoded[s], content)
    BY <1>1, <1>8
  <2>6. /\ DOMAIN decoded'[s] = DOMAIN decoded[s] \union {Len(decoded[s]) + 1}
        /\ \A i \in DOMAIN decoded[s] : decoded'[s][i] = decoded[s][i]
        /\ decoded'[s][Len(decoded[s]) + 1] = content
        /\ Len(decoded[s]) + 1 \notin DOMAIN decoded[s]
    <3> HIDE DEF content
    <3> QED
      BY <2>1, <2>5
  <2>7. DecodedAreGone(s)'
    <3>1. ASSUME NEW i \in DOMAIN decoded'[s]
          PROVE  /\ decoded'[s][i] \in 1 .. Copied(s)'
                 /\ \A k \in Slot : packets'[s][k] = decoded'[s][i] =>
                        HasDecoded(s)' /\ k = packet'[s]
      <4>1. CASE i \in DOMAIN decoded[s]
        BY <1>1, <1>2, <1>5, <2>6, <4>1 DEF Contents, DecodedAreGone
      <4>2. CASE i = Len(decoded[s]) + 1
        BY <1>1, <1>2, <1>5, <2>2, <2>4, <2>6, <4>2
      <4> QED
        BY <2>6, <4>1, <4>2
    <3>2. \A i, j \in DOMAIN decoded'[s] : decoded'[s][i] = decoded'[s][j] => i = j
      BY <2>3, <2>6 DEF Contents, DecodedAreGone
    <3> QED
      BY <3>1, <3>2 DEF DecodedAreGone
  <2> QED
    BY <1>3, <1>4, <1>6, <2>7 DEF Contents
<1> QED
  BY <1>7, <1>8

\* av_packet_unref empties the one buffer whose packet may have been decoded; no other
\* buffer has the packet it releases.
LEMMA UnrefContents ==
    ASSUME NEW s \in Stream, TypeOK, Contents(s), Unref(s)
    PROVE  Contents(s)'
<1>1. /\ pc[s] = "unref" /\ pc'[s] \in {"exited", "pop"} /\ pc'[Demuxer] = pc[Demuxer]
      /\ packets'[s] = [packets[s] EXCEPT ![packet[s]] = Blank]
      /\ freed'[s] = freed[s] \union ({packets[s][packet[s]]} \ {Blank})
      /\ UNCHANGED <<queueVars, demuxVars, packet, decoded>>
  BY Threads DEF Unref, Release, Goto, TypeOK
<1>2. (Filling(s)' <=> Filling(s)) /\ HasDecoded(s) /\ ~Using(s)'
  BY <1>1 DEF Filling, HasDecoded, Using, demuxVars
<1>3. CountsAlong(s)' /\ ReadsInOrder(s)'
  BY <1>1, <1>2 DEF Contents, CountsAlong, ReadsInOrder, queueVars, demuxVars
<1>4. Copied(s)' = Copied(s)
  BY <1>1, <1>2 DEF Copied, queueVars
<1>5. \A k \in Slot : packets'[s][k] = IF k = packet[s] THEN Blank ELSE packets[s][k]
  BY <1>1, ContentsType
<1>6. PacketsInPlace(s)'
  BY <1>4, <1>5 DEF Contents, PacketsInPlace
<1>7. DecodedAreGone(s)'
  <2>1. \A i \in DOMAIN decoded[s] : decoded[s][i] # Blank
    BY ContentsType DEF Contents, DecodedAreGone, Copied, Blank
  <2>2. ASSUME NEW i \in DOMAIN decoded[s], NEW k \in Slot PROVE packets'[s][k] # decoded[s][i]
    BY <1>5, <2>1 DEF Contents, DecodedAreGone
  <2> QED
    BY <1>1, <1>4, <2>2 DEF Contents, DecodedAreGone
<1>8. FreedAreGone(s)'
  <2> DEFINE content == packets[s][packet[s]]
  <2>1. content \in Nat /\ packet[s] \in Slot
    BY ContentsType
  <2>2. content # Blank => content \in 1 .. Copied(s)
    BY <2>1 DEF Contents, PacketsInPlace
  <2>3. freed'[s] \subseteq 1 .. Copied(s)
    BY <1>1, <2>2 DEF Contents, FreedAreGone
  <2>4. ASSUME NEW k \in Slot, packets[s][k] = content, content # Blank PROVE k = packet[s]
    <3>1. LapsTo(content - 1, k) /\ LapsTo(content - 1, packet[s])
      BY <2>1, <2>4 DEF Contents, PacketsInPlace
    <3>2. content - 1 \in Nat
      BY <2>1, <2>4 DEF Blank
    <3> HIDE DEF content
    <3> QED
      BY <2>1, <3>1, <3>2, LapsToOne
  <2>5. Blank \notin freed[s] /\ \A k \in Slot : packets[s][k] \notin freed[s]
    BY ContentsType DEF Contents, FreedAreGone, Copied, Blank
  <2>6. ASSUME NEW k \in Slot PROVE packets'[s][k] \notin freed'[s]
    BY <1>1, <1>5, <2>4, <2>5
  <2> QED
    BY <1>4, <2>3, <2>6 DEF FreedAreGone
<1> QED
  BY <1>3, <1>6, <1>7, <1>8 DEF Contents

LEMMA ContentsStep ==
    ASSUME TypeOK, CreatedOnce, [Next]_vars, NEW s \in Stream, Contents(s)
    PROVE  Contents(s)'
<1> USE DEF queueVars, demuxVars, decodeVars
<1>threads. s \in Thread /\ Demuxer \in Thread /\ s # Demuxer
  BY Threads
<1>pcs. DOMAIN pc = Thread /\ \A x \in Thread : \A y : [pc EXCEPT ![x] = y][x] = y
  BY DEF TypeOK
<1>1. CASE UNCHANGED vars
  <2>1. LeavesContents(s)
    BY <1>1 DEF LeavesContents, vars
  <2> QED
    BY <2>1, ContentsLeft
<1>2. CASE Play
  <2>1. LeavesContents(s)
    <3>1. UNCHANGED <<queueVars, packets, demuxVars, decodeVars>>
      BY <1>2 DEF Play, Create
    <3>2. CASE play = "create demuxer"
      <4>1. pc[s] = "not created"
        BY <3>2, ThreadAssumption DEF Stream, CreatedOnce
      <4>3. pc'[s] = pc[s]
        BY <1>2, <1>threads, <1>pcs, <3>2 DEF Play, Create, Goto
      <4>2. pc[Demuxer] = "not created" /\ pc'[Demuxer] = "read"
        BY <1>2, <1>threads, <1>pcs, <3>2 DEF CreatedOnce, Play, Create, Goto
      <4> QED
        BY <3>1, <4>1, <4>2, <4>3 DEF LeavesContents
    <3>3. ASSUME NEW r \in Stream, pc[r] = "not created", Goto(r, "pop") PROVE LeavesContents(s)
      <4>1. pc'[Demuxer] = pc[Demuxer]
        BY <1>threads, <1>pcs, <3>3, Threads DEF Goto
      <4>2. pc'[s] = pc[s] \/ (pc[s] = "not created" /\ pc'[s] = "pop")
        <5>1. r = s => pc[s] = "not created" /\ pc'[s] = "pop"
          BY <1>threads, <1>pcs, <3>3 DEF Goto
        <5>2. r # s => pc'[s] = pc[s]
          <6>1. pc' = [pc EXCEPT ![r] = "pop"]
            BY <3>3 DEF Goto
          <6> QED
            BY <1>threads, <1>pcs, <6>1
        <5> QED
          BY <5>1, <5>2
      <4> QED
        BY <3>1, <4>1, <4>2 DEF LeavesContents
    <3> QED
      BY <1>2, <3>2, <3>3, Threads DEF CreatedOnce, Play, Create
  <2> QED
    BY <2>1, ContentsLeft
<1>3. CASE Join
  <2>1. LeavesContents(s)
    BY <1>3 DEF LeavesContents, Join
  <2> QED
    BY <2>1, ContentsLeft
<1>4. CASE PushWaits
  <2>1. LeavesContents(s)
    BY <1>4 DEF LeavesContents, PushWaits, Sleep
  <2> QED
    BY <2>1, ContentsLeft
<1>5. CASE EndOfFile
  <2>1. LeavesContents(s)
    BY <1>5, <1>threads DEF LeavesContents, EndOfFile, Goto
  <2> QED
    BY <2>1, ContentsLeft
<1>6. ASSUME NEW r \in Stream, ReadFrame(r) PROVE Contents(s)'
  <2>1. CASE r # s
    <3>1. read'[s] = read[s]
      BY <1>6, <2>1 DEF TypeOK, ReadFrame
    <3>2. UNCHANGED <<pushed, popped, next_to_write, next_to_read, packets, packet, decoded, freed>>
      BY <1>6 DEF ReadFrame
    <3>3. pc'[s] = pc[s] /\ pc[Demuxer] = "read" /\ pkt'.stream = r
      BY <1>6, <1>threads, <1>pcs DEF ReadFrame, Goto
    <3> QED
      BY <2>1, <3>1, <3>2, <3>3, ContentsLeft DEF LeavesContents
  <2> QED
    BY <1>6, <2>1, ReadFrameContents
<1>7. ASSUME NEW r \in Stream, Push(r) PROVE Contents(s)'
  <2>1. CASE r # s
    <3>1. next_to_write'[s] = next_to_write[s] /\ pushed'[s] = pushed[s]
      BY <1>7, <2>1 DEF TypeOK, Push
    <3>2. UNCHANGED <<popped, read, next_to_read, packets, packet, decoded, freed>>
      BY <1>7 DEF Push
    <3>3. pc'[s] = pc[s] /\ pc[Demuxer] = "push" /\ pkt.stream = r /\ pkt' = pkt
      BY <1>7, <1>threads, <1>pcs DEF Push, Goto
    <3> QED
      BY <2>1, <3>1, <3>2, <3>3, ContentsLeft DEF LeavesContents
  <2> QED
    BY <1>7, <2>1, PushContents
<1>8. ASSUME NEW r \in Stream, Fill(r) PROVE Contents(s)'
  <2>1. CASE r # s
    <3>1. packets'[s] = packets[s]
      BY <1>8, <2>1 DEF TypeOK, Fill
    <3>2. UNCHANGED <<pushed, popped, read, next_to_write, next_to_read, packet, decoded, freed>>
      BY <1>8 DEF Fill
    <3>3. pc'[s] = pc[s] /\ pc[Demuxer] = "fill" /\ pkt.stream = r /\ pkt' = pkt
      BY <1>8, <1>threads, <1>pcs DEF Fill, Goto
    <3> QED
      BY <2>1, <3>1, <3>2, <3>3, ContentsLeft DEF LeavesContents
  <2> QED
    BY <1>8, <2>1, FillContents
<1>9. ASSUME NEW r \in Stream, PopWaits(r) PROVE Contents(s)'
  <2>1. LeavesContents(s)
    BY <1>9 DEF LeavesContents, PopWaits, Sleep
  <2> QED
    BY <2>1, ContentsLeft
<1>10. ASSUME NEW r \in Stream, Pop(r) PROVE Contents(s)'
  <2>1. CASE r # s
    <3>1. packet'[s] = packet[s] /\ next_to_read'[s] = next_to_read[s] /\ popped'[s] = popped[s]
      BY <1>10, <2>1 DEF TypeOK, Pop
    <3>2. UNCHANGED <<pushed, read, next_to_write, packets, decoded, freed>>
      BY <1>10 DEF Pop
    <3>3. pc'[s] = pc[s] /\ pc'[Demuxer] = pc[Demuxer] /\ UNCHANGED <<pkt, data>>
      BY <1>10, <1>threads, <1>pcs, <2>1, Threads DEF Pop, Goto
    <3> QED
      BY <2>1, <3>1, <3>2, <3>3, ContentsLeft DEF LeavesContents
  <2> QED
    BY <1>10, <2>1, PopContents
<1>11. ASSUME NEW r \in Stream, Decode(r) PROVE Contents(s)'
  <2>1. CASE r # s
    <3>1. decoded'[s] = decoded[s]
      BY <1>11, <2>1 DEF TypeOK, Decode
    <3>2. UNCHANGED <<pushed, popped, read, next_to_write, next_to_read, packets, packet, freed>>
      BY <1>11 DEF Decode
    <3>3. pc'[s] = pc[s] /\ pc'[Demuxer] = pc[Demuxer] /\ UNCHANGED <<pkt, data>>
      BY <1>11, <1>threads, <1>pcs, <2>1, Threads DEF Decode, Goto
    <3> QED
      BY <2>1, <3>1, <3>2, <3>3, ContentsLeft DEF LeavesContents
  <2> QED
    BY <1>11, <2>1, DecodeContents
<1>12. ASSUME NEW r \in Stream, FrameDue(r) PROVE Contents(s)'
  <2>1. LeavesContents(s)
    BY <1>12, <1>threads, Threads DEF LeavesContents, HasDecoded, FrameDue, Goto
  <2> QED
    BY <2>1, ContentsLeft
<1>13. ASSUME NEW r \in Stream, FrameEarly(r) PROVE Contents(s)'
  <2>1. LeavesContents(s)
    BY <1>13, <1>threads, Threads DEF LeavesContents, HasDecoded, FrameEarly, Goto
  <2> QED
    BY <2>1, ContentsLeft
<1>14. ASSUME NEW r \in Stream, FrameSpins(r) PROVE Contents(s)'
  <2>1. LeavesContents(s)
    BY <1>14, <1>threads, Threads DEF LeavesContents, HasDecoded, FrameSpins, Goto
  <2> QED
    BY <2>1, ContentsLeft
<1>15. ASSUME NEW r \in Stream, Unref(r) PROVE Contents(s)'
  <2>1. CASE r # s
    <3>1. packets'[s] = packets[s]
      BY <1>15, <2>1 DEF TypeOK, Unref
    <3>4. freed'[s] = freed[s]
      BY <1>15, <2>1 DEF TypeOK, Unref, Release
    <3>2. UNCHANGED <<pushed, popped, read, next_to_write, next_to_read, packet, decoded>>
      BY <1>15 DEF Unref
    <3>3. pc'[s] = pc[s] /\ pc'[Demuxer] = pc[Demuxer] /\ UNCHANGED <<pkt, data>>
      BY <1>15, <1>threads, <1>pcs, <2>1, Threads DEF Unref, Goto
    <3> QED
      BY <2>1, <3>1, <3>2, <3>3, <3>4, ContentsLeft DEF LeavesContents
  <2> QED
    BY <1>15, <2>1, UnrefContents
<1>16. ASSUME NEW t \in Thread, SpuriousWakeup(t) PROVE Contents(s)'
  <2>1. LeavesContents(s)
    BY <1>16 DEF LeavesContents, SpuriousWakeup
  <2> QED
    BY <2>1, ContentsLeft
<1> QED
  BY <1>1, <1>2, <1>3, <1>4, <1>5, <1>6, <1>7, <1>8, <1>9, <1>10, <1>11, <1>12, <1>13, <1>14,
     <1>15, <1>16 DEF Next, Demux, Decoder

LEMMA ContentsInit == ASSUME Init, NEW s \in Stream PROVE Contents(s)
<1>1. /\ pushed[s] = 0 /\ popped[s] = 0 /\ next_to_write[s] = 0 /\ next_to_read[s] = 0
      /\ read[s] = 0 /\ packets[s] = [k \in Slot |-> Blank] /\ decoded[s] = <<>>
      /\ freed[s] = {}
      /\ pc[s] = "not created" /\ pc[Demuxer] = "not created"
  BY Threads DEF Init
<1>2. LapsTo(0, 0)
  BY SizeAssumption DEF LapsTo
<1>3. CountsAlong(s) /\ ReadsInOrder(s)
  <2>1. CountsAlong(s)
    BY <1>1, <1>2 DEF CountsAlong, Filling, Using
  <2>2. ReadsInOrder(s)
    <3>1. pc[Demuxer] # "push" /\ pc[Demuxer] # "fill"
      BY <1>1
    <3>2. read[s] = 0 /\ pushed[s] = 0
      BY <1>1
    <3> QED
      BY <3>1, <3>2 DEF ReadsInOrder
  <2> QED
    BY <2>1, <2>2
<1>4. PacketsInPlace(s)
  BY <1>1 DEF PacketsInPlace
<1>5. DecodedAreGone(s)
  <2>1. DOMAIN <<>> = {}
    OBVIOUS
  <2>2. DOMAIN decoded[s] = {}
    BY <1>1, <2>1
  <2> QED
    BY <2>2 DEF DecodedAreGone
<1>6. FreedAreGone(s)
  BY <1>1 DEF FreedAreGone
<1> QED
  BY <1>3, <1>4, <1>5, <1>6 DEF Contents

LEMMA ContentsInvariance == Spec => []IInvOfContents
<1>1. Init => IInvOfContents
  BY InductiveInit, ContentsInit DEF IInvOfContents
<1>2. IInvOfContents /\ [Next]_vars => IInvOfContents'
  <2> SUFFICES ASSUME IInvOfContents, [Next]_vars PROVE IInvOfContents'
    OBVIOUS
  <2>1. IInv'
    BY InductiveStep DEF IInvOfContents
  <2>2. ASSUME NEW s \in Stream PROVE Contents(s)'
    BY ContentsStep DEF IInvOfContents, IInv
  <2> QED
    BY <2>1, <2>2 DEF IInvOfContents
<1> QED
  BY <1>1, <1>2, PTL DEF Spec

\* A ring's one spare buffer is enough for a decoder that has the packet of its turn: the
\* demuxer, which copies without the lock, is at its buffer only while that packet has
\* not got there.
THEOREM OnlyEarlyDecodersMeet == Spec => []OnlyAnEarlyDecoderMeetsTheDemuxer
<1>1. ASSUME IInvOfContents, NEW s \in Stream, Filling(s), Using(s), data = packet[s]
      PROVE  pushed[s] = popped[s] /\ packets[s][packet[s]] # popped[s]
  <2>1. TypeOK /\ IInv /\ PacketsInPlace(s) /\ CountsAlong(s)
    BY <1>1 DEF IInvOfContents, IInv, Contents
  <2>2. pushed[s] = popped[s]
    BY <1>1, <2>1, SharedBuffer
  <2>3. /\ packets[s][packet[s]] \in Nat /\ packet[s] \in Slot
        /\ pushed[s] \in Nat /\ pushed[s] >= 1
    BY <1>1, <2>1, ContentsType DEF CountsAlong
  <2>4. packets[s][packet[s]] # Blank => packets[s][packet[s]] <= pushed[s] - 1
    BY <1>1, <2>1, <2>3 DEF PacketsInPlace, Copied
  <2> QED
    BY <2>2, <2>3, <2>4 DEF Blank
<1>2. IInvOfContents => OnlyAnEarlyDecoderMeetsTheDemuxer
  BY <1>1 DEF OnlyAnEarlyDecoderMeetsTheDemuxer
<1> QED
  BY <1>2, ContentsInvariance, PTL

\* Whatever is left in a buffer for a lap or more, and whatever the demuxer puts there
\* while a decoder has it, what av_packet_unref has released no decoder has again.
THEOREM ReleasedIsGone == Spec => []ReleasedPacketsAreNotUsed
<1>1. ASSUME IInvOfContents, NEW s \in Stream, Using(s)
      PROVE  packets[s][packet[s]] \notin freed[s]
  BY <1>1, ContentsType DEF IInvOfContents, IInv, Contents, FreedAreGone
<1>2. IInvOfContents => ReleasedPacketsAreNotUsed
  BY <1>1 DEF ReleasedPacketsAreNotUsed
<1> QED
  BY <1>2, ContentsInvariance, PTL

\* However early a decoder pops a buffer, and whatever old packet it finds there, no
\* packet is decoded a second time.
THEOREM NothingIsDecodedTwice == Spec => []DecodedAtMostOnce
<1>1. IInvOfContents => DecodedAtMostOnce
  BY DEF IInvOfContents, Contents, DecodedAreGone, DecodedAtMostOnce
<1> QED
  BY <1>1, ContentsInvariance, PTL

\* For rings of any size, an early decoder finds nothing, its own packet, or one that is
\* whole laps old.
THEOREM FindsWholeLaps == Spec => []FindsItsPacketOrOneOfAnEarlierLap
<1>1. ASSUME IInvOfContents, NEW s \in Stream, Using(s), packets[s][packet[s]] # Blank
      PROVE  /\ packets[s][packet[s]] <= popped[s]
             /\ (popped[s] - packets[s][packet[s]]) % Size = 0
  <2> DEFINE content == packets[s][packet[s]]
  <2>1. /\ content \in Nat /\ packet[s] \in Slot /\ popped[s] \in Nat /\ pushed[s] \in Nat
        /\ pushed[s] - popped[s] \in 0 .. Size - 1
    BY <1>1, ContentsType DEF IInvOfContents, IInv, Ahead
  <2>2. content >= 1 /\ content <= pushed[s] /\ LapsTo(content - 1, packet[s])
    BY <1>1, <2>1 DEF IInvOfContents, Contents, PacketsInPlace, Copied
  <2>3. popped[s] >= 1 /\ LapsTo(popped[s] - 1, packet[s])
    BY <1>1 DEF IInvOfContents, Contents, CountsAlong
  <2> HIDE DEF content
  <2>4. content - 1 \in Nat /\ popped[s] - 1 \in Nat
    BY <2>1, <2>2, <2>3
  <2>5. content <= popped[s]
    <3> SUFFICES ASSUME popped[s] < content PROVE FALSE
      BY <2>1
    <3>1. popped[s] - 1 <= content - 1 /\ (content - 1) - (popped[s] - 1) < Size
      BY <2>1, <2>2, SizeAssumption
    <3>2. content - 1 = popped[s] - 1
      BY <2>1, <2>2, <2>3, <2>4, <3>1, LapsApart
    <3> QED
      BY <2>1, <3>2
  <2>6. content - 1 <= popped[s] - 1 /\ popped[s] - content = (popped[s] - 1) - (content - 1)
    BY <2>1, <2>5
  <2>7. ((popped[s] - 1) - (content - 1)) % Size = 0
    BY <2>1, <2>2, <2>3, <2>4, <2>6, LapsApart
  <2> QED
    BY <2>5, <2>6, <2>7 DEF content
<1>2. IInvOfContents => FindsItsPacketOrOneOfAnEarlierLap
  BY <1>1 DEF FindsItsPacketOrOneOfAnEarlierLap
<1> QED
  BY <1>2, ContentsInvariance, PTL
-----------------------------------------------------------------------------
(* The refinement: every step of the player is, to each ring, one of          *)
(* SlotQueue's steps or none.                                                 *)

\* Less than two laps on, the remainder is one subtraction.
LEMMA Remainder ==
    ASSUME NEW r \in Slot, NEW n \in 0 .. Size - 1
    PROVE  (r + n) % Size = Along(r, n) /\ Along(r, n) \in Slot
<1>1. CASE r + n < Size
  BY <1>1, SizeAssumption DEF Along, Slot
<1>2. CASE r + n >= Size
  <2>1. r + n - Size \in 0 .. Size - 1 /\ r + n = Size * 1 + (r + n - Size)
    BY <1>2, SizeAssumption DEF Slot
  <2>2. (r + n) % Size = r + n - Size
    BY <2>1, SizeAssumption
  <2> QED
    BY <1>2, <2>1, <2>2, SizeAssumption DEF Along, Slot
<1> QED
  BY <1>1, <1>2, SizeAssumption DEF Slot

\* The buffers waiting in a ring with a write index n places ahead of the read index.
LEMMA Waiting ==
    ASSUME NEW r \in Slot, NEW w \in Slot, NEW n \in 0 .. Size - 1, w = Along(r, n)
    PROVE  [i \in 1 .. Occupancy(w, r) |-> (r + i - 1) % Size] = [i \in 1 .. n |-> Along(r, i - 1)]
<1>1. Occupancy(w, r) = n
  BY SizeAssumption DEF Occupancy, Along, Slot
<1>2. \A i \in 1 .. n : (r + i - 1) % Size = Along(r, i - 1)
  <2> SUFFICES ASSUME NEW i \in 1 .. n PROVE (r + i - 1) % Size = Along(r, i - 1)
    OBVIOUS
  <2>1. i - 1 \in 0 .. Size - 1 /\ r + i - 1 = r + (i - 1)
    BY SizeAssumption DEF Slot
  <2> QED
    BY <2>1, Remainder
<1> QED
  BY <1>1, <1>2

\* They are distinct, none of them is the one n places on, and adding that or taking the
\* first gives what waits after a push or a pop.
LEMMA Distinct ==
    ASSUME NEW r \in Slot, NEW n \in 0 .. Size - 1, NEW i \in 1 .. n
    PROVE  Along(r, i - 1) # Along(r, n)
  BY SizeAssumption DEF Along, Slot

LEMMA OneMoreWaits ==
    ASSUME NEW r \in Slot, NEW n \in 0 .. Size - 1
    PROVE  [i \in 1 .. n + 1 |-> Along(r, i - 1)]
                = Append([i \in 1 .. n |-> Along(r, i - 1)], Along(r, n))
<1> DEFINE q == [i \in 1 .. n |-> Along(r, i - 1)]
<1>1. \A i \in 1 .. n + 1 : Along(r, i - 1) \in Slot
  <2> SUFFICES ASSUME NEW i \in 1 .. n + 1 PROVE Along(r, i - 1) \in Slot
    OBVIOUS
  <2> QED
    BY SizeAssumption DEF Along, Slot
<1>2. q \in Seq(Slot) /\ Len(q) = n /\ Along(r, n) \in Slot
  <2>1. n \in Nat /\ q \in [1 .. n -> Slot]
    BY <1>1, SizeAssumption
  <2>2. q \in Seq(Slot) /\ Len(q) = n
    BY <2>1, LenProperties
  <2> QED
    BY <2>2, Remainder
<1>3. /\ Append(q, Along(r, n)) \in Seq(Slot) /\ Len(Append(q, Along(r, n))) = n + 1
      /\ \A i \in 1 .. n : Append(q, Along(r, n))[i] = q[i]
      /\ Append(q, Along(r, n))[n + 1] = Along(r, n)
  BY <1>2, AppendProperties
<1>4. \A i \in 1 .. n + 1 : Append(q, Along(r, n))[i] = Along(r, i - 1)
  <2> SUFFICES ASSUME NEW i \in 1 .. n + 1 PROVE Append(q, Along(r, n))[i] = Along(r, i - 1)
    OBVIOUS
  <2>1. CASE i = n + 1
    BY <1>3, <2>1
  <2>2. CASE i \in 1 .. n
    BY <1>3, <2>2
  <2> QED
    BY <2>1, <2>2
<1>5. DOMAIN Append(q, Along(r, n)) = 1 .. n + 1
  BY <1>3, LenProperties
<1> QED
  BY <1>3, <1>4, <1>5

LEMMA OneLessWaits ==
    ASSUME NEW r \in Slot, NEW n \in 1 .. Size - 1
    PROVE  LET q == [i \in 1 .. n |-> Along(r, i - 1)] IN
           /\ q # <<>>
           /\ Head(q) = r
           /\ Tail(q) = [i \in 1 .. n - 1 |-> Along(queue_next(r), i - 1)]
<1> DEFINE q == [i \in 1 .. n |-> Along(r, i - 1)]
           t == [i \in 1 .. n - 1 |-> Along(queue_next(r), i - 1)]
<1>1. q \in Seq(Slot) /\ Len(q) = n /\ n \in Nat
  <2>1. n \in Nat
    BY SizeAssumption
  <2>2. \A i \in 1 .. n : Along(r, i - 1) \in Slot
    BY SizeAssumption DEF Along, Slot
  <2>3. q \in [1 .. n -> Slot]
    BY <2>2
  <2> QED
    BY <2>1, <2>3, LenProperties
<1>2. q # <<>> /\ Head(q) = q[1]
  BY <1>1, EmptySeq, HeadTailProperties
<1>3. q[1] = r
  BY <1>1 , SizeAssumption DEF Along, Slot
<1>4. /\ Tail(q) \in Seq(Slot) /\ Len(Tail(q)) = n - 1
      /\ \A i \in 1 .. n - 1 : Tail(q)[i] = q[i + 1]
  BY <1>1, <1>2, HeadTailProperties
<1>5. \A i \in 1 .. n - 1 : q[i + 1] = Along(queue_next(r), i - 1)
  <2> SUFFICES ASSUME NEW i \in 1 .. n - 1 PROVE Along(r, (i + 1) - 1) = Along(queue_next(r), i - 1)
    BY <1>1
  <2>1. queue_next(r) = IF r = Size - 1 THEN 0 ELSE r + 1
    BY QueueNext
  <2> QED
    BY <1>1, <2>1, SizeAssumption DEF Along, Slot
<1>6. DOMAIN Tail(q) = 1 .. n - 1
  BY <1>4, LenProperties
<1>7. t \in Seq(Slot) /\ Len(t) = n - 1
  <2>1. n - 1 \in Nat
    BY SizeAssumption
  <2>2. \A i \in 1 .. n - 1 : Along(queue_next(r), i - 1) \in Slot
    <3> SUFFICES ASSUME NEW i \in 1 .. n - 1 PROVE Along(queue_next(r), i - 1) \in Slot
      OBVIOUS
    <3>1. queue_next(r) = IF r = Size - 1 THEN 0 ELSE r + 1
      BY QueueNext
    <3> QED
      BY <3>1, SizeAssumption DEF Along, Slot
  <2>3. t \in [1 .. n - 1 -> Slot]
    BY <2>2
  <2> QED
    BY <2>1, <2>3, LenProperties
<1>8. \A i \in 1 .. n - 1 : Tail(q)[i] = t[i]
  <2> SUFFICES ASSUME NEW i \in 1 .. n - 1 PROVE Tail(q)[i] = t[i]
    OBVIOUS
  <2>1. Tail(q)[i] = q[i + 1] /\ q[i + 1] = Along(queue_next(r), i - 1)
    BY <1>4, <1>5
  <2>2. t[i] = Along(queue_next(r), i - 1)
    OBVIOUS
  <2> QED
    BY <2>1, <2>2
<1>9. Tail(q) = t
  <2> HIDE DEF q, t
  <2> QED
    BY <1>4, <1>7, <1>8, SeqEqual
<1> QED
  BY <1>2, <1>3, <1>9
-----------------------------------------------------------------------------
(* SlotQueue's steps, for either ring.                                      *)

PutStep(s) ==
    \E b \in Slot :
        /\ Len(Published(s)) < Size - 1
        /\ b \notin {Published(s)[i] : i \in DOMAIN Published(s)} \union InHand(s)
        /\ Published(s)' = Append(Published(s), b)
        /\ InHand(s)' = InHand(s)

TakeStep(s) ==
    /\ Published(s) # <<>>
    /\ InHand(s) = {}
    /\ InHand(s)' = {Head(Published(s))}
    /\ Published(s)' = Tail(Published(s))

GiveBackStep(s) ==
    /\ InHand(s) # {}
    /\ InHand(s)' = {}
    /\ Published(s)' = Published(s)

NoStep(s) == Published(s)' = Published(s) /\ InHand(s)' = InHand(s)

\* A ring sees nothing of a step that leaves its indexes and its decoder's place alone.
LEMMA Unseen ==
    ASSUME NEW s \in Stream,
           next_to_write'[s] = next_to_write[s], next_to_read'[s] = next_to_read[s],
           packet'[s] = packet[s], Using(s)' <=> Using(s)
    PROVE  NoStep(s)
  BY DEF NoStep, Published, InHand

\* queue_push hands over the buffer behind those that wait, which the decoder, one
\* behind the read index, has not got.
LEMMA PushPuts ==
    ASSUME NEW s \in Stream, IInv, Push(s)
    PROVE  PutStep(s)
<1> DEFINE r == next_to_read[s]
           w == next_to_write[s]
           n == pushed[s] - popped[s]
<1>1. TypeOK /\ Ahead(s) /\ UsesBehindReadIndex(s)
  BY DEF IInv
<1>2. /\ next_to_read' = next_to_read /\ packet' = packet /\ pc'[s] = pc[s]
      /\ next_to_write'[s] = queue_next(w) /\ ~Full(w, r)
  BY <1>1, Threads DEF Push, decodeVars, TypeOK, Goto
<1>3. r \in Slot /\ w \in Slot /\ n \in 0 .. Size - 1 /\ w = Along(r, n)
  BY <1>1 DEF Ahead, TypeOK
<1>4. n + 1 \in 0 .. Size - 1 /\ queue_next(w) = Along(r, n + 1) /\ queue_next(w) \in Slot
  <2> HIDE DEF r, w, n
  <2> QED
    BY <1>2, <1>3, OnePushed, QueueNext
<1>5. Published(s) = [i \in 1 .. n |-> Along(r, i - 1)]
  BY <1>3, Waiting DEF Published
<1>6. Published(s)' = [i \in 1 .. n + 1 |-> Along(r, i - 1)]
  <2>1. Published(s)' = [i \in 1 .. Occupancy(queue_next(w), r) |-> (r + i - 1) % Size]
    BY <1>2 DEF Published
  <2> HIDE DEF r, w, n
  <2> QED
    BY <1>3, <1>4, <2>1, Waiting
<1>7. InHand(s)' = InHand(s)
  BY <1>2 DEF InHand, Using
<1>8. Published(s)' = Append(Published(s), w)
  BY <1>3, <1>5, <1>6, OneMoreWaits
<1>9. Len(Published(s)) < Size - 1 /\ DOMAIN Published(s) = 1 .. n
  <2> HIDE DEF r, w, n
  <2> QED
    BY <1>3, <1>4, <1>5, SizeAssumption
<1>10. \A i \in DOMAIN Published(s) : Published(s)[i] # w
  <2> HIDE DEF r, w, n
  <2> QED
    BY <1>3, <1>5, <1>9, Distinct
<1>11. w \notin InHand(s)
  BY <1>1, <1>2 DEF InHand, UsesBehindReadIndex, Full
<1> QED
  BY <1>3, <1>7, <1>8, <1>9, <1>10, <1>11 DEF PutStep

\* queue_pop takes the first of those that wait.
LEMMA PopTakes ==
    ASSUME NEW s \in Stream, IInv, Pop(s)
    PROVE  TakeStep(s)
<1> DEFINE r == next_to_read[s]
           w == next_to_write[s]
           n == pushed[s] - popped[s]
<1>1. TypeOK /\ Ahead(s)
  BY DEF IInv
<1>2. /\ next_to_write' = next_to_write /\ next_to_read'[s] = queue_next(r) /\ ~Empty(w, r)
      /\ packet'[s] = r /\ pc[s] = "pop" /\ pc'[s] = "decode"
  BY <1>1, Threads DEF Pop, TypeOK, Goto
<1>3. r \in Slot /\ w \in Slot /\ n \in 0 .. Size - 1 /\ w = Along(r, n)
  BY <1>1 DEF Ahead, TypeOK
<1>4. /\ n - 1 \in 0 .. Size - 1 /\ n \in 1 .. Size - 1
      /\ w = Along(queue_next(r), n - 1) /\ queue_next(r) \in Slot
  <2> HIDE DEF r, w, n
  <2>1. n - 1 \in 0 .. Size - 1 /\ w = Along(queue_next(r), n - 1) /\ queue_next(r) \in Slot
    BY <1>2, <1>3, OnePopped, QueueNext
  <2> QED
    BY <1>3, <2>1, SizeAssumption
<1>5. Published(s) = [i \in 1 .. n |-> Along(r, i - 1)]
  BY <1>3, Waiting DEF Published
<1>6. Published(s)' = [i \in 1 .. n - 1 |-> Along(queue_next(r), i - 1)]
  <2>1. Published(s)' = [i \in 1 .. Occupancy(w, queue_next(r)) |-> (queue_next(r) + i - 1) % Size]
    BY <1>2 DEF Published
  <2> HIDE DEF r, w, n
  <2> QED
    BY <1>3, <1>4, <2>1, Waiting
<1>7. Published(s) # <<>> /\ Head(Published(s)) = r /\ Tail(Published(s)) = Published(s)'
  <2> HIDE DEF r, w, n
  <2> QED
    BY <1>3, <1>4, <1>5, <1>6, OneLessWaits
<1>8. InHand(s) = {} /\ InHand(s)' = {r}
  BY <1>2 DEF InHand, Using
<1> QED
  BY <1>7, <1>8 DEF TakeStep

\* av_packet_unref gives the buffer back.
LEMMA UnrefGivesBack ==
    ASSUME NEW s \in Stream, IInv, Unref(s)
    PROVE  GiveBackStep(s)
<1>1. /\ UNCHANGED <<next_to_write, next_to_read>>
      /\ pc[s] = "unref" /\ pc'[s] \in {"exited", "pop"}
  BY Threads DEF Unref, queueVars, IInv, TypeOK, Goto
<1> QED
  BY <1>1 DEF GiveBackStep, Published, InHand, Using

\* Every step is one of these for a ring, or nothing.
LEMMA RingStep ==
    ASSUME NEW s \in Stream, IInv, [Next]_vars
    PROVE  PutStep(s) \/ TakeStep(s) \/ GiveBackStep(s) \/ NoStep(s)
<1> USE Threads DEF queueVars, demuxVars, decodeVars
<1>0. TypeOK /\ CreatedOnce
  BY DEF IInv
<1>1. CASE UNCHANGED vars
  BY <1>1, Unseen DEF vars, Using
<1>2. CASE Play
  BY <1>2, <1>0, Unseen DEF Play, Create, Goto, Using, TypeOK, CreatedOnce
<1>3. CASE Join
  BY <1>3, Unseen DEF Join, Using
<1>4. CASE PushWaits
  BY <1>4, Unseen DEF PushWaits, Sleep, Using
<1>5. CASE EndOfFile
  BY <1>5, <1>0, Unseen DEF EndOfFile, Goto, Using, TypeOK
<1>6. ASSUME NEW r \in Stream, ReadFrame(r) PROVE NoStep(s)
  BY <1>6, <1>0, Unseen DEF ReadFrame, Goto, Using, TypeOK
<1>7. ASSUME NEW r \in Stream, Push(r), r # s PROVE NoStep(s)
  BY <1>7, <1>0, Unseen DEF Push, Goto, Using, TypeOK
<1>8. ASSUME NEW r \in Stream, Fill(r) PROVE NoStep(s)
  BY <1>8, <1>0, Unseen DEF Fill, Goto, Using, TypeOK
<1>9. ASSUME NEW r \in Stream, PopWaits(r) PROVE NoStep(s)
  BY <1>9, Unseen DEF PopWaits, Sleep, Using
<1>10. ASSUME NEW r \in Stream, Pop(r), r # s PROVE NoStep(s)
  BY <1>10, <1>0, Unseen DEF Pop, Goto, Using, TypeOK
<1>11. ASSUME NEW r \in Stream, Decode(r) PROVE NoStep(s)
  BY <1>11, <1>0, Unseen DEF Decode, Goto, Using, TypeOK
<1>12. ASSUME NEW r \in Stream, FrameDue(r) PROVE NoStep(s)
  BY <1>12, <1>0, Unseen DEF FrameDue, Goto, Using, TypeOK
<1>13. ASSUME NEW r \in Stream, FrameEarly(r) PROVE NoStep(s)
  BY <1>13, <1>0, Unseen DEF FrameEarly, Goto, Using, TypeOK
<1>14. ASSUME NEW r \in Stream, FrameSpins(r) PROVE NoStep(s)
  BY <1>14, <1>0, Unseen DEF FrameSpins, Goto, Using, TypeOK
<1>15. ASSUME NEW r \in Stream, Unref(r), r # s PROVE NoStep(s)
  BY <1>15, <1>0, Unseen DEF Unref, Goto, Using, TypeOK
<1>16. ASSUME NEW t \in Thread, SpuriousWakeup(t) PROVE NoStep(s)
  BY <1>16, Unseen DEF SpuriousWakeup, Using
<1>17. CASE Push(s) \/ Pop(s) \/ Unref(s)
  BY <1>17, PushPuts, PopTakes, UnrefGivesBack
<1> QED
  BY <1>1, <1>2, <1>3, <1>4, <1>5, <1>6, <1>7, <1>8, <1>9, <1>10, <1>11, <1>12, <1>13, <1>14,
     <1>15, <1>16, <1>17 DEF Next, Demux, Decoder

\* At first nothing waits and nobody has a buffer.
LEMMA RingInit ==
    ASSUME NEW s \in Stream, Init
    PROVE  Published(s) = <<>> /\ InHand(s) = {}
<1>1. next_to_write[s] = 0 /\ next_to_read[s] = 0 /\ pc[s] = "not created"
  BY Threads DEF Init
<1>2. Occupancy(next_to_write[s], next_to_read[s]) = 0
  <2>1. Occupancy(0, 0) = 0
    BY SizeAssumption DEF Occupancy
  <2> QED
    BY <1>1, <2>1
<1>3. Published(s) = <<>>
  <2>1. Published(s) = [i \in 1 .. 0 |-> (0 + i - 1) % Size]
    BY <1>1, <1>2 DEF Published
  <2>2. 1 .. 0 = {}
    OBVIOUS
  <2>3. [i \in 1 .. 0 |-> (0 + i - 1) % Size] \in [1 .. 0 -> Slot]
    BY <2>2
  <2>4. Published(s) \in Seq(Slot) /\ Len(Published(s)) = 0
    BY <2>1, <2>3, LenProperties
  <2> QED
    BY <2>4, EmptySeq
<1>4. ~ Using(s)
  BY <1>1 DEF Using
<1> QED
  BY <1>3, <1>4 DEF InHand
-----------------------------------------------------------------------------
\* The video ring hands its buffers over in order, never more than it may hold, and
\* gives the demuxer none that waits or is in use: queue_push, queue_pop and the
\* decoder's av_packet_unref are the three steps of SlotQueue.
THEOREM VideoRingImplements == Spec => VideoHandOver
<1>1. Init => VideoRing!Init
  BY RingInit, Threads DEF VideoRing!Init
<1>2. IInv /\ [Next]_vars => [VideoRing!Next]_VideoRing!vars
  <2> SUFFICES ASSUME IInv, [Next]_vars PROVE [VideoRing!Next]_VideoRing!vars
    OBVIOUS
  <2>1. PutStep(Video) \/ TakeStep(Video) \/ GiveBackStep(Video) \/ NoStep(Video)
    BY RingStep, Threads
  <2> QED
    BY <2>1 DEF PutStep, TakeStep, GiveBackStep, NoStep, VideoRing!Next, VideoRing!Put,
       VideoRing!Take, VideoRing!GiveBack, VideoRing!vars, VideoRing!Range
<1> QED
  BY <1>1, <1>2, InductiveInit, InductiveStep, PTL DEF Spec, VideoHandOver, VideoRing!Spec
=============================================================================
