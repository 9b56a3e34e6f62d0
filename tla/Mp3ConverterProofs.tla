------------------------ MODULE Mp3ConverterProofs ------------------------
(* Proofs about Mp3Converter, for queues and files of any length.           *)
EXTENDS Mp3Converter, SequenceTheorems, FiniteSetTheorems, TLAPS

(* The invariant.                                                           *)

\* Where each thread can be.
PlaceInv ==
    /\ pc[Caller] \in {"prepare", "read", "join", "returned", "threw"}
    /\ pc[Decoder] \in {"not started", "dequeue", "put", "release", "interrupt", "ended"}
    /\ pc[Encoder] \in {"check", "take", "encode", "put", "finish", "interrupt", "ended"}
    /\ pc[Writer] \in {"check", "take", "write", "ended"}
    /\ pc[Caller] = "prepare" => pc[Decoder] = "not started"

\* The end goes down the pipeline, and leaves nothing behind: a thread says that it is
\* done when the one before it is and there is nothing left to take.
EndInv ==
    /\ inputEnded => pc[Caller] \in {"join", "returned"}
    /\ last => inputEnded /\ inside = 0 /\ pc[Decoder] # "dequeue"
    /\ decodeFinished => last /\ pc[Decoder] \in {"interrupt", "ended"}
    /\ pc[Encoder] \in {"finish", "interrupt", "ended"} => decodeFinished /\ encodeQueue = 0
    /\ encodeFinished <=> pc[Encoder] \in {"interrupt", "ended"}
    /\ pc[Writer] = "ended" /\ ~writerFailed => AllEncoded
    /\ pc[Caller] = "returned" => pc[Writer] = "ended"

\* The encoder is interrupted once, and loses a piece to no other cause.
LossInv ==
    /\ Encoder \in interrupted \/ lost # {} => pc[Decoder] = "ended"
    /\ Encoder \in interrupted => lost = {}
    /\ lost = {} \/ \E m \in 1 .. made : lost = {m}

\* How many pieces are lost, and the piece that is the i-th of the others.
Losses == IF lost = {} THEN 0 ELSE 1
Kept(i) == IF \E m \in lost : m <= i THEN i + 1 ELSE i

\* What was written, the piece the writer has, those in writeQueue and the one the encoder
\* has are in this order all that was made, but for what was lost; not the last two when
\* a write has failed.
InHand == IF pc[Writer] = "write" THEN 1 ELSE 0
BeingPut == IF pc[Encoder] = "put" THEN 1 ELSE 0
OrderInv ==
    /\ writerFailed => pc[Writer] = "ended"
    /\ Len(written) + InHand + Len(writeQueue) + BeingPut + Losses <= made
    /\ ~writerFailed => Len(written) + InHand + Len(writeQueue) + BeingPut + Losses = made
    /\ \A i \in DOMAIN written : written[i].piece = Kept(i)
    /\ pc[Writer] = "write" => piece >= 1 /\ piece = Kept(Len(written) + 1)
    /\ ~writerFailed =>
           \A j \in DOMAIN writeQueue : writeQueue[j] = Kept(Len(written) + InHand + j)
    /\ pc[Encoder] = "put" => made >= 1 /\ made \notin lost

\* MP3BufRunsAheadByAQueue, with the number of pieces lost as above.
AheadInv ==
    \A i \in DOMAIN written :
        written[i].content \in written[i].piece .. written[i].piece + QueueSize + 1 + Losses

IInv == TypeOK /\ PlaceInv /\ EndInv /\ LossInv /\ OrderInv /\ AheadInv

(* TypeOK in parts, so that a step has to be looked at only where it acts. *)
Label == {"prepare", "read", "join", "returned", "threw", "not started", "dequeue", "release",
          "check", "take", "encode", "put", "write", "finish", "interrupt", "ended"}
PcType == pc \in [Thread -> Label]
CodecType ==
    /\ codec \in {"none", "running", "error"}
    /\ inside \in 0 .. InputBuffers /\ sampled \in 0 .. MaxSamples
FlagType ==
    /\ {inputEnded, last, decodeFinished, encodeFinished, writerFailed} \subseteq BOOLEAN
    /\ interrupted \subseteq {Encoder, Writer}
PieceType ==
    /\ made \in Nat /\ piece \in 0 .. made
    /\ writeQueue \in Seq(1 .. made) /\ Len(writeQueue) <= QueueSize
    /\ written \in Seq([piece : 1 .. made, content : 1 .. made])
    /\ lost \subseteq 1 .. made

\* What is made later is a piece too.
LEMMA Grows == ASSUME NEW m \in Nat, NEW n \in {m, m + 1} PROVE n \in Nat /\ 1 .. m \subseteq 1 .. n
  OBVIOUS

\* They are all of it.
LEMMA TypeParts ==
    TypeOK <=> PcType /\ CodecType /\ FlagType /\ encodeQueue \in 0 .. QueueSize /\ PieceType
  BY DEF TypeOK, PcType, Label, CodecType, FlagType, PieceType
-----------------------------------------------------------------------------
\* Every thread stays where it can be.
LEMMA PlaceStep == PcType /\ PlaceInv /\ [Next]_vars => PcType' /\ PlaceInv'
<1> SUFFICES ASSUME PcType, PlaceInv, [Next]_vars PROVE PcType' /\ PlaceInv'
    OBVIOUS
<1> USE ThreadAssumption DEF PcType, Label, PlaceInv, Thread, Step, Goto
<1>1. CASE Prepare
  <2>1. CASE pc' = [pc EXCEPT ![Caller] = "read", ![Decoder] = "dequeue"]
    BY <2>1
  <2>2. CASE pc' = [pc EXCEPT ![Caller] = "threw"]
    BY <2>2
  <2> QED
    BY <1>1, <2>1, <2>2 DEF Prepare
<1>2. CASE Read
  <2>1. CASE pc' = pc
    BY <2>1
  <2>2. CASE pc' = [pc EXCEPT ![Caller] = "join"]
    BY <2>2
  <2> QED
    BY <1>2, <2>1, <2>2 DEF Read
<1>3. CASE ReadThrows
    BY <1>3 DEF ReadThrows
<1>4. CASE Join
    BY <1>4 DEF Join
<1>5. CASE Dequeue
    BY <1>5 DEF Dequeue
<1>6. CASE PutDecoded
    BY <1>6 DEF PutDecoded, Full
<1>7. CASE ReleaseOutput
    BY <1>7 DEF ReleaseOutput
<1>8. CASE DecoderThrows
    BY <1>8 DEF DecoderThrows
<1>9. CASE InterruptEncoder
    BY <1>9 DEF InterruptEncoder, Interrupt
<1>10. CASE CheckDecoded
    BY <1>10 DEF CheckDecoded
<1>11. CASE TakeDecoded
    BY <1>11 DEF TakeDecoded
<1>12. CASE TakeDecodedInterrupted
    BY <1>12 DEF TakeDecodedInterrupted, Interrupted
<1>13. CASE Encode
  <2>1. CASE pc' = [pc EXCEPT ![Encoder] = "check"]
    BY <2>1
  <2>2. CASE pc' = [pc EXCEPT ![Encoder] = "put"]
    BY <2>2
  <2> QED
    BY <1>13, <2>1, <2>2 DEF Encode
<1>14. CASE PutEncoded
    BY <1>14 DEF PutEncoded, Full
<1>15. CASE PutEncodedInterrupted
    BY <1>15 DEF PutEncodedInterrupted, Interrupted, Full
<1>16. CASE Finish
    BY <1>16 DEF Finish
<1>17. CASE InterruptWriter
    BY <1>17 DEF InterruptWriter, Interrupt
<1>18. CASE CheckEncoded
    BY <1>18 DEF CheckEncoded, AllEncoded
<1>19. CASE TakeEncoded
    BY <1>19 DEF TakeEncoded
<1>20. CASE TakeEncodedInterrupted
    BY <1>20 DEF TakeEncodedInterrupted, Interrupted
<1>21. CASE Write
    BY <1>21 DEF Write
<1>22. CASE WriteFails
    BY <1>22 DEF WriteFails
<1>23. CASE CodecFails
    BY <1>23 DEF CodecFails
<1>24. CASE UNCHANGED vars
    BY <1>24 DEF vars
<1> QED
    BY <1>1, <1>2, <1>3, <1>4, <1>5, <1>6, <1>7, <1>8, <1>9, <1>10, <1>11, <1>12,
       <1>13, <1>14, <1>15, <1>16, <1>17, <1>18, <1>19, <1>20, <1>21, <1>22,
       <1>23, <1>24
       DEF Next, CallerRuns, DecoderRuns, EncoderRuns, WriterRuns

\* Steps that neither make nor move a piece.
Still ==
    /\ UNCHANGED <<made, writeQueue, written, piece, lost, writerFailed>>
    /\ pc'[Writer] = "write" <=> pc[Writer] = "write"
    /\ pc[Writer] = "ended" => pc'[Writer] = "ended"
    /\ pc'[Encoder] = "put" <=> pc[Encoder] = "put"

\* Every other step is one of six.
LEMMA StepKinds ==
    ASSUME PcType, PlaceInv, [Next]_vars
    PROVE  \/ Encode \/ PutEncoded \/ PutEncodedInterrupted \/ TakeEncoded \/ Write \/ WriteFails
           \/ Still
<1> USE ThreadAssumption DEF PcType, PlaceInv, Still, Thread, Step, Goto, queues, history
<1>1. CASE Prepare
    BY <1>1 DEF Prepare
<1>2. CASE Read
    BY <1>2 DEF Read
<1>3. CASE ReadThrows
    BY <1>3 DEF ReadThrows
<1>4. CASE Join
    BY <1>4 DEF Join
<1>5. CASE Dequeue
    BY <1>5 DEF Dequeue
<1>6. CASE PutDecoded
    BY <1>6 DEF PutDecoded, Full
<1>7. CASE ReleaseOutput
    BY <1>7 DEF ReleaseOutput
<1>8. CASE DecoderThrows
    BY <1>8 DEF DecoderThrows
<1>9. CASE InterruptEncoder
    BY <1>9 DEF InterruptEncoder, Interrupt
<1>10. CASE CheckDecoded
    BY <1>10 DEF CheckDecoded
<1>11. CASE TakeDecoded
    BY <1>11 DEF TakeDecoded
<1>12. CASE TakeDecodedInterrupted
    BY <1>12 DEF TakeDecodedInterrupted, Interrupted
<1>13. CASE Finish
    BY <1>13 DEF Finish
<1>14. CASE InterruptWriter
    BY <1>14 DEF InterruptWriter, Interrupt
<1>15. CASE CheckEncoded
    BY <1>15 DEF CheckEncoded, AllEncoded
<1>16. CASE TakeEncodedInterrupted
    BY <1>16 DEF TakeEncodedInterrupted, Interrupted
<1>17. CASE CodecFails
    BY <1>17 DEF CodecFails
<1>18. CASE UNCHANGED vars
    BY <1>18 DEF vars
<1> QED
    BY <1>1, <1>2, <1>3, <1>4, <1>5, <1>6, <1>7, <1>8, <1>9, <1>10, <1>11, <1>12,
       <1>13, <1>14, <1>15, <1>16, <1>17, <1>18
       DEF Next, CallerRuns, DecoderRuns, EncoderRuns, WriterRuns
-----------------------------------------------------------------------------
(* Every step keeps the types.                                              *)

\* MediaCodec holds as many samples as it has input buffers.
LEMMA CodecStep == CodecType /\ [Next]_vars => CodecType'
<1> SUFFICES ASSUME CodecType, [Next]_vars PROVE CodecType'
    OBVIOUS
<1> USE SizeAssumption DEF CodecType, codecVars
<1>1. CASE Prepare
    BY <1>1 DEF Prepare
<1>2. CASE Read
    BY <1>2 DEF Read
<1>3. CASE ReadThrows
    BY <1>3 DEF ReadThrows
<1>4. CASE Join
    BY <1>4 DEF Join
<1>5. CASE Dequeue
    BY <1>5 DEF Dequeue
<1>6. CASE PutDecoded
    BY <1>6 DEF PutDecoded, Full
<1>7. CASE ReleaseOutput
    BY <1>7 DEF ReleaseOutput
<1>8. CASE DecoderThrows
    BY <1>8 DEF DecoderThrows
<1>9. CASE InterruptEncoder
    BY <1>9 DEF InterruptEncoder, Interrupt
<1>10. CASE CheckDecoded
    BY <1>10 DEF CheckDecoded
<1>11. CASE TakeDecoded
    BY <1>11 DEF TakeDecoded
<1>12. CASE TakeDecodedInterrupted
    BY <1>12 DEF TakeDecodedInterrupted, Interrupted
<1>13. CASE Encode
    BY <1>13 DEF Encode
<1>14. CASE PutEncoded
    BY <1>14 DEF PutEncoded, Full
<1>15. CASE PutEncodedInterrupted
    BY <1>15 DEF PutEncodedInterrupted, Interrupted, Full
<1>16. CASE Finish
    BY <1>16 DEF Finish
<1>17. CASE InterruptWriter
    BY <1>17 DEF InterruptWriter, Interrupt
<1>18. CASE CheckEncoded
    BY <1>18 DEF CheckEncoded, AllEncoded
<1>19. CASE TakeEncoded
    BY <1>19 DEF TakeEncoded
<1>20. CASE TakeEncodedInterrupted
    BY <1>20 DEF TakeEncodedInterrupted, Interrupted
<1>21. CASE Write
    BY <1>21 DEF Write
<1>22. CASE WriteFails
    BY <1>22 DEF WriteFails
<1>23. CASE CodecFails
    BY <1>23 DEF CodecFails
<1>24. CASE UNCHANGED vars
    BY <1>24 DEF vars
<1> QED
    BY <1>1, <1>2, <1>3, <1>4, <1>5, <1>6, <1>7, <1>8, <1>9, <1>10, <1>11, <1>12,
       <1>13, <1>14, <1>15, <1>16, <1>17, <1>18, <1>19, <1>20, <1>21, <1>22,
       <1>23, <1>24
       DEF Next, CallerRuns, DecoderRuns, EncoderRuns, WriterRuns

\* The flags are flags, and only the encoder and the writer are interrupted.
LEMMA FlagStep == FlagType /\ [Next]_vars => FlagType'
<1> SUFFICES ASSUME FlagType, [Next]_vars PROVE FlagType'
    OBVIOUS
<1> USE DEF FlagType, codecVars, flags, history
<1>1. CASE Prepare
    BY <1>1 DEF Prepare
<1>2. CASE Read
    BY <1>2 DEF Read
<1>3. CASE ReadThrows
    BY <1>3 DEF ReadThrows
<1>4. CASE Join
    BY <1>4 DEF Join
<1>5. CASE Dequeue
    BY <1>5 DEF Dequeue
<1>6. CASE PutDecoded
    BY <1>6 DEF PutDecoded, Full
<1>7. CASE ReleaseOutput
    BY <1>7 DEF ReleaseOutput
<1>8. CASE DecoderThrows
    BY <1>8 DEF DecoderThrows
<1>9. CASE InterruptEncoder
    BY <1>9 DEF InterruptEncoder, Interrupt
<1>10. CASE CheckDecoded
    BY <1>10 DEF CheckDecoded
<1>11. CASE TakeDecoded
    BY <1>11 DEF TakeDecoded
<1>12. CASE TakeDecodedInterrupted
    BY <1>12 DEF TakeDecodedInterrupted, Interrupted
<1>13. CASE Encode
    BY <1>13 DEF Encode
<1>14. CASE PutEncoded
    BY <1>14 DEF PutEncoded, Full
<1>15. CASE PutEncodedInterrupted
    BY <1>15 DEF PutEncodedInterrupted, Interrupted, Full
<1>16. CASE Finish
    BY <1>16 DEF Finish
<1>17. CASE InterruptWriter
    BY <1>17 DEF InterruptWriter, Interrupt
<1>18. CASE CheckEncoded
    BY <1>18 DEF CheckEncoded, AllEncoded
<1>19. CASE TakeEncoded
    BY <1>19 DEF TakeEncoded
<1>20. CASE TakeEncodedInterrupted
    BY <1>20 DEF TakeEncodedInterrupted, Interrupted
<1>21. CASE Write
    BY <1>21 DEF Write
<1>22. CASE WriteFails
    BY <1>22 DEF WriteFails
<1>23. CASE CodecFails
    BY <1>23 DEF CodecFails
<1>24. CASE UNCHANGED vars
    BY <1>24 DEF vars
<1> QED
    BY <1>1, <1>2, <1>3, <1>4, <1>5, <1>6, <1>7, <1>8, <1>9, <1>10, <1>11, <1>12,
       <1>13, <1>14, <1>15, <1>16, <1>17, <1>18, <1>19, <1>20, <1>21, <1>22,
       <1>23, <1>24
       DEF Next, CallerRuns, DecoderRuns, EncoderRuns, WriterRuns

\* put waits for room in encodeQueue, take for a buffer.
LEMMA EncodeQueueStep ==
    encodeQueue \in 0 .. QueueSize /\ [Next]_vars => encodeQueue' \in 0 .. QueueSize
<1> SUFFICES ASSUME encodeQueue \in 0 .. QueueSize, [Next]_vars
             PROVE  encodeQueue' \in 0 .. QueueSize
    OBVIOUS
<1> USE SizeAssumption DEF queues
<1>1. CASE Prepare
    BY <1>1 DEF Prepare
<1>2. CASE Read
    BY <1>2 DEF Read
<1>3. CASE ReadThrows
    BY <1>3 DEF ReadThrows
<1>4. CASE Join
    BY <1>4 DEF Join
<1>5. CASE Dequeue
    BY <1>5 DEF Dequeue
<1>6. CASE PutDecoded
    BY <1>6 DEF PutDecoded, Full
<1>7. CASE ReleaseOutput
    BY <1>7 DEF ReleaseOutput
<1>8. CASE DecoderThrows
    BY <1>8 DEF DecoderThrows
<1>9. CASE InterruptEncoder
    BY <1>9 DEF InterruptEncoder, Interrupt
<1>10. CASE CheckDecoded
    BY <1>10 DEF CheckDecoded
<1>11. CASE TakeDecoded
    BY <1>11 DEF TakeDecoded
<1>12. CASE TakeDecodedInterrupted
    BY <1>12 DEF TakeDecodedInterrupted, Interrupted
<1>13. CASE Encode
    BY <1>13 DEF Encode
<1>14. CASE PutEncoded
    BY <1>14 DEF PutEncoded, Full
<1>15. CASE PutEncodedInterrupted
    BY <1>15 DEF PutEncodedInterrupted, Interrupted, Full
<1>16. CASE Finish
    BY <1>16 DEF Finish
<1>17. CASE InterruptWriter
    BY <1>17 DEF InterruptWriter, Interrupt
<1>18. CASE CheckEncoded
    BY <1>18 DEF CheckEncoded, AllEncoded
<1>19. CASE TakeEncoded
    BY <1>19 DEF TakeEncoded
<1>20. CASE TakeEncodedInterrupted
    BY <1>20 DEF TakeEncodedInterrupted, Interrupted
<1>21. CASE Write
    BY <1>21 DEF Write
<1>22. CASE WriteFails
    BY <1>22 DEF WriteFails
<1>23. CASE CodecFails
    BY <1>23 DEF CodecFails
<1>24. CASE UNCHANGED vars
    BY <1>24 DEF vars
<1> QED
    BY <1>1, <1>2, <1>3, <1>4, <1>5, <1>6, <1>7, <1>8, <1>9, <1>10, <1>11, <1>12,
       <1>13, <1>14, <1>15, <1>16, <1>17, <1>18, <1>19, <1>20, <1>21, <1>22,
       <1>23, <1>24
       DEF Next, CallerRuns, DecoderRuns, EncoderRuns, WriterRuns

\* The queue of references, the file and the writer hold pieces that were made.
LEMMA PieceStep ==
    PcType /\ PlaceInv /\ PieceType /\ OrderInv /\ [Next]_vars => PieceType'
<1> SUFFICES ASSUME PcType, PlaceInv, PieceType, OrderInv, [Next]_vars PROVE PieceType'
    OBVIOUS
<1> USE SizeAssumption
<1>1. CASE Still
    BY <1>1 DEF Still, PieceType
<1>2. CASE Encode
  <2>1. made \in Nat /\ made' \in {made, made + 1} /\ UNCHANGED <<piece, writeQueue, written, lost>>
    BY <1>2 DEF Encode, PieceType, queues, history
  <2>2. made' \in Nat /\ 1 .. made \subseteq 1 .. made' /\ 0 .. made \subseteq 0 .. made'
    BY <2>1
  <2>3. [piece : 1 .. made, content : 1 .. made]
            \subseteq [piece : 1 .. made', content : 1 .. made']
    BY <2>2
  <2>4. writeQueue \in Seq(1 .. made')
    BY <2>2, SeqMonotonic DEF PieceType
  <2>5. written \in Seq([piece : 1 .. made', content : 1 .. made'])
    BY <2>3, SeqMonotonic DEF PieceType
  <2> QED
    BY <2>1, <2>2, <2>4, <2>5 DEF PieceType
<1>3. CASE PutEncoded
  <2>1. made \in Nat /\ made \in 1 .. made /\ UNCHANGED <<made, piece, written, lost>>
    BY <1>3 DEF PutEncoded, OrderInv, PieceType, Step, history
  <2>2. Len(writeQueue) \in Nat /\ Len(writeQueue) < QueueSize
    BY <1>3, LenProperties DEF PutEncoded, Full, PieceType
  <2>3. writeQueue' \in Seq(1 .. made) /\ Len(writeQueue') = Len(writeQueue) + 1
    BY <1>3, <2>1, AppendProperties DEF PutEncoded, PieceType
  <2> QED
    BY <2>1, <2>2, <2>3 DEF PieceType
<1>4. CASE PutEncodedInterrupted
  <2>1. made \in Nat /\ made \in 1 .. made /\ UNCHANGED <<made, piece, written, writeQueue>>
    BY <1>4 DEF PutEncodedInterrupted, OrderInv, PieceType, Step, queues
  <2>2. lost' = lost \union {made}
    BY <1>4 DEF PutEncodedInterrupted
  <2> QED
    BY <2>1, <2>2 DEF PieceType
<1>5. CASE TakeEncoded
  <2>1. made \in Nat /\ UNCHANGED <<made, written, lost>>
    BY <1>5 DEF TakeEncoded, PieceType, history
  <2>2. /\ piece' \in 1 .. made /\ writeQueue' \in Seq(1 .. made)
        /\ Len(writeQueue') = Len(writeQueue) - 1
    BY <1>5, HeadTailProperties DEF TakeEncoded, PieceType
  <2>3. Len(writeQueue') <= QueueSize
    BY <2>2, LenProperties DEF PieceType
  <2> QED
    BY <2>1, <2>2, <2>3 DEF PieceType
<1>6. CASE Write
  <2>1. /\ made \in Nat /\ piece \in 1 .. made /\ made \in 1 .. made
        /\ UNCHANGED <<made, piece, writeQueue, lost>>
    BY <1>6 DEF Write, OrderInv, PieceType, Step, queues
  <2>2. [piece |-> piece, content |-> made] \in [piece : 1 .. made, content : 1 .. made]
    BY <2>1
  <2>3. written' \in Seq([piece : 1 .. made, content : 1 .. made])
    BY <1>6, <2>2, AppendProperties DEF Write, PieceType
  <2> QED
    BY <2>1, <2>3 DEF PieceType
<1>7. CASE WriteFails
    BY <1>7 DEF WriteFails, PieceType, queues
<1> QED
    BY <1>1, <1>2, <1>3, <1>4, <1>5, <1>6, <1>7, StepKinds

\* Together.
LEMMA TypeStep == TypeOK /\ PlaceInv /\ OrderInv /\ [Next]_vars => TypeOK'
<1> SUFFICES ASSUME TypeOK, PlaceInv, OrderInv, [Next]_vars PROVE TypeOK'
    OBVIOUS
<1>1. PcType /\ CodecType /\ FlagType /\ encodeQueue \in 0 .. QueueSize /\ PieceType
    BY TypeParts
<1>2. PcType' /\ CodecType' /\ FlagType' /\ encodeQueue' \in 0 .. QueueSize /\ PieceType'
    BY <1>1, PlaceStep, CodecStep, FlagStep, EncodeQueueStep, PieceStep
<1> QED
    BY <1>2 DEF TypeOK, PcType, Label, CodecType, FlagType, PieceType
-----------------------------------------------------------------------------
\* The end goes down the pipeline.
LEMMA EndStep ==
    PcType /\ CodecType /\ FlagType /\ PlaceInv /\ EndInv /\ OrderInv /\ [Next]_vars => EndInv'
<1> SUFFICES ASSUME PcType, CodecType, FlagType, PlaceInv, EndInv, writerFailed => pc[Writer] = "ended",
                    [Next]_vars
             PROVE  EndInv'
    BY DEF OrderInv
<1> USE ThreadAssumption
        DEF PcType, CodecType, FlagType, PlaceInv, EndInv, Thread, Step, Goto, codecVars, flags,
            queues, history, AllEncoded
<1>1. CASE Prepare
    BY <1>1 DEF Prepare
<1>2. CASE Read
  <2>1. CASE pc[Caller] = "read" /\ UNCHANGED <<pc, inputEnded>> /\ inside' = inside + 1
    BY <1>2, <2>1 DEF Read
  <2>2. CASE Step(Caller, "read", "join") /\ inputEnded' = TRUE /\ UNCHANGED <<sampled, inside>>
    <3>1. pc'[Caller] = "join" /\ \A t \in {Decoder, Encoder, Writer} : pc'[t] = pc[t]
        BY <2>2
    <3>2. UNCHANGED <<last, decodeFinished, encodeFinished, encodeQueue, writeQueue, writerFailed>>
        BY <1>2 DEF Read
    <3> QED
        BY <2>2, <3>1, <3>2
  <2> QED
    BY <1>2, <2>1, <2>2 DEF Read
<1>3. CASE ReadThrows
    BY <1>3 DEF ReadThrows
<1>4. CASE Join
    BY <1>4 DEF Join
<1>5. CASE Dequeue
    BY <1>5 DEF Dequeue
<1>6. CASE PutDecoded
    BY <1>6 DEF PutDecoded, Full
<1>7. CASE ReleaseOutput
    BY <1>7 DEF ReleaseOutput
<1>8. CASE DecoderThrows
    BY <1>8 DEF DecoderThrows
<1>9. CASE InterruptEncoder
    BY <1>9 DEF InterruptEncoder, Interrupt
<1>10. CASE CheckDecoded
    BY <1>10 DEF CheckDecoded
<1>11. CASE TakeDecoded
    BY <1>11 DEF TakeDecoded
<1>12. CASE TakeDecodedInterrupted
    BY <1>12 DEF TakeDecodedInterrupted, Interrupted
<1>13. CASE Encode
    BY <1>13 DEF Encode
<1>14. CASE PutEncoded
    BY <1>14 DEF PutEncoded, Full
<1>15. CASE PutEncodedInterrupted
    BY <1>15 DEF PutEncodedInterrupted, Interrupted, Full
<1>16. CASE Finish
    BY <1>16 DEF Finish
<1>17. CASE InterruptWriter
    BY <1>17 DEF InterruptWriter, Interrupt
<1>18. CASE CheckEncoded
    BY <1>18 DEF CheckEncoded, AllEncoded
<1>19. CASE TakeEncoded
    BY <1>19 DEF TakeEncoded
<1>20. CASE TakeEncodedInterrupted
    BY <1>20 DEF TakeEncodedInterrupted, Interrupted
<1>21. CASE Write
    BY <1>21 DEF Write
<1>22. CASE WriteFails
    BY <1>22 DEF WriteFails
<1>23. CASE CodecFails
    BY <1>23 DEF CodecFails
<1>24. CASE UNCHANGED vars
    BY <1>24 DEF vars
<1> QED
    BY <1>1, <1>2, <1>3, <1>4, <1>5, <1>6, <1>7, <1>8, <1>9, <1>10, <1>11, <1>12,
       <1>13, <1>14, <1>15, <1>16, <1>17, <1>18, <1>19, <1>20, <1>21, <1>22,
       <1>23, <1>24
       DEF Next, CallerRuns, DecoderRuns, EncoderRuns, WriterRuns

\* The encoder is interrupted once.
LEMMA LossStep ==
    PcType /\ PlaceInv /\ PieceType /\ LossInv /\ OrderInv /\ [Next]_vars => LossInv'
<1> SUFFICES ASSUME PcType, PlaceInv, made \in Nat, LossInv, pc[Encoder] = "put" => made >= 1,
                    [Next]_vars
             PROVE  LossInv'
    BY DEF OrderInv, PieceType
<1> USE ThreadAssumption
        DEF PcType, PlaceInv, LossInv, Thread, Step, Goto, history
<1>1. CASE Prepare
  <2>1. pc'[Decoder] = "ended" <=> pc[Decoder] = "ended"
    <3>1. CASE pc' = [pc EXCEPT ![Caller] = "read", ![Decoder] = "dequeue"]
        BY <1>1, <3>1 DEF Prepare
    <3>2. CASE pc' = [pc EXCEPT ![Caller] = "threw"]
        BY <3>2
    <3> QED
        BY <1>1, <3>1, <3>2 DEF Prepare
  <2> QED
    BY <1>1, <2>1 DEF Prepare
<1>2. CASE Read
    BY <1>2 DEF Read
<1>3. CASE ReadThrows
    BY <1>3 DEF ReadThrows
<1>4. CASE Join
    BY <1>4 DEF Join
<1>5. CASE Dequeue
    BY <1>5 DEF Dequeue
<1>6. CASE PutDecoded
    BY <1>6 DEF PutDecoded, Full
<1>7. CASE ReleaseOutput
    BY <1>7 DEF ReleaseOutput
<1>8. CASE DecoderThrows
    BY <1>8 DEF DecoderThrows
<1>9. CASE InterruptEncoder
    BY <1>9 DEF InterruptEncoder, Interrupt
<1>10. CASE CheckDecoded
    BY <1>10 DEF CheckDecoded
<1>11. CASE TakeDecoded
    BY <1>11 DEF TakeDecoded
<1>12. CASE TakeDecodedInterrupted
    BY <1>12 DEF TakeDecodedInterrupted, Interrupted
<1>13. CASE Encode
  <2>1. made' \in {made, made + 1} /\ UNCHANGED <<lost, interrupted>> /\ pc'[Decoder] = pc[Decoder]
    BY <1>13 DEF Encode
  <2>2. 1 .. made \subseteq 1 .. made'
    BY <2>1, Grows
  <2> QED
    BY <2>1, <2>2
<1>14. CASE PutEncoded
    BY <1>14 DEF PutEncoded, Full
<1>15. CASE PutEncodedInterrupted
  <2>1. /\ Encoder \in interrupted /\ interrupted' = interrupted \ {Encoder}
        /\ pc'[Decoder] = pc[Decoder]
    BY <1>15 DEF PutEncodedInterrupted, Interrupted
  <2>2. lost' = {made} /\ made' = made /\ made \in 1 .. made
    BY <1>15, <2>1 DEF PutEncodedInterrupted
  <2> QED
    BY <2>1, <2>2
<1>16. CASE Finish
    BY <1>16 DEF Finish
<1>17. CASE InterruptWriter
    BY <1>17 DEF InterruptWriter, Interrupt
<1>18. CASE CheckEncoded
    BY <1>18 DEF CheckEncoded, AllEncoded
<1>19. CASE TakeEncoded
    BY <1>19 DEF TakeEncoded
<1>20. CASE TakeEncodedInterrupted
    BY <1>20 DEF TakeEncodedInterrupted, Interrupted
<1>21. CASE Write
    BY <1>21 DEF Write
<1>22. CASE WriteFails
    BY <1>22 DEF WriteFails
<1>23. CASE CodecFails
    BY <1>23 DEF CodecFails
<1>24. CASE UNCHANGED vars
    BY <1>24 DEF vars
<1> QED
    BY <1>1, <1>2, <1>3, <1>4, <1>5, <1>6, <1>7, <1>8, <1>9, <1>10, <1>11, <1>12,
       <1>13, <1>14, <1>15, <1>16, <1>17, <1>18, <1>19, <1>20, <1>21, <1>22,
       <1>23, <1>24
       DEF Next, CallerRuns, DecoderRuns, EncoderRuns, WriterRuns
-----------------------------------------------------------------------------
(* The order of the pieces.                                                 *)

\* The pieces stay in order: each step moves one from one place to the next.
LEMMA OrderStep ==
    PcType /\ PieceType /\ PlaceInv /\ LossInv /\ OrderInv /\ [Next]_vars => OrderInv'
<1> SUFFICES ASSUME PcType, PieceType, PlaceInv, LossInv, OrderInv, [Next]_vars PROVE OrderInv'
    OBVIOUS
<1> USE ThreadAssumption
<1>0. /\ Len(written) \in Nat /\ Len(writeQueue) \in Nat /\ made \in Nat
      /\ DOMAIN written = 1 .. Len(written) /\ DOMAIN writeQueue = 1 .. Len(writeQueue)
      /\ InHand \in {0, 1} /\ BeingPut \in {0, 1} /\ Losses \in {0, 1}
    BY LenProperties DEF PieceType, InHand, BeingPut, Losses
<1>1. CASE Still
    BY <1>1 DEF Still, OrderInv, InHand, BeingPut, Losses, Kept
\* One more piece, which the encoder has.
<1>2. CASE Encode
  <2>1. UNCHANGED <<writeQueue, written, piece, lost, writerFailed>> /\ pc'[Writer] = pc[Writer]
    BY <1>2 DEF Encode, Step, Goto, PcType, Thread, history, queues
  <2>2. \/ made' = made /\ pc'[Encoder] # "put"
        \/ made' = made + 1 /\ pc'[Encoder] = "put"
    BY <1>2 DEF Encode, Step, Goto, PcType, Thread
  <2>3. pc[Encoder] # "put"
    BY <1>2 DEF Encode, Step
  <2>4. made + 1 \notin lost
    BY <1>0 DEF PieceType
  <2>5. InHand' = InHand /\ BeingPut = 0 /\ Losses' = Losses /\ \A i : Kept(i)' = Kept(i)
    BY <2>1, <2>3 DEF InHand, BeingPut, Losses, Kept
  <2>6. made' = made + BeingPut' /\ BeingPut' \in {0, 1}
    BY <1>0, <2>2 DEF BeingPut
  <2>7. writerFailed' => pc'[Writer] = "ended"
    BY <2>1 DEF OrderInv
  <2>8. Len(written') + InHand' + Len(writeQueue') + BeingPut' + Losses' <= made'
    BY <1>0, <2>1, <2>5, <2>6 DEF OrderInv
  <2>9. ~writerFailed' => Len(written') + InHand' + Len(writeQueue') + BeingPut' + Losses' = made'
    BY <1>0, <2>1, <2>5, <2>6 DEF OrderInv
  <2>10. \A i \in DOMAIN written' : written'[i].piece = Kept(i)'
    BY <2>1, <2>5 DEF OrderInv
  <2>11. pc'[Writer] = "write" => piece' >= 1 /\ piece' = Kept(Len(written) + 1)'
    BY <2>1, <2>5 DEF OrderInv
  <2>12. ~writerFailed' =>
            \A j \in DOMAIN writeQueue' : writeQueue'[j] = Kept(Len(written) + InHand + j)'
    BY <2>1, <2>5 DEF OrderInv
  <2>13. pc'[Encoder] = "put" => made' >= 1 /\ made' \notin lost'
    BY <1>0, <2>1, <2>2, <2>4
  <2> QED
    BY <2>7, <2>8, <2>9, <2>10, <2>11, <2>12, <2>13 DEF OrderInv
\* It goes behind the others.
<1>3. CASE PutEncoded
  <2>1. UNCHANGED <<made, written, piece, lost, writerFailed>> /\ pc'[Writer] = pc[Writer]
    BY <1>3 DEF PutEncoded, Step, Goto, PcType, Thread, history
  <2>2. pc[Encoder] = "put" /\ pc'[Encoder] # "put"
    BY <1>3 DEF PutEncoded, Step, Goto, PcType, Thread
  <2>3. /\ Len(writeQueue') = Len(writeQueue) + 1
        /\ DOMAIN writeQueue' = 1 .. Len(writeQueue) + 1
        /\ \A j \in DOMAIN writeQueue : writeQueue'[j] = writeQueue[j]
        /\ writeQueue'[Len(writeQueue) + 1] = made
    BY <1>3, <1>0, AppendProperties, LenProperties DEF PutEncoded, PieceType
  <2>4. ~writerFailed => made = Kept(Len(written) + InHand + Len(writeQueue) + 1)
    <3>1. CASE lost = {}
        BY <1>0, <2>2, <3>1 DEF OrderInv, BeingPut, Losses, Kept
    <3>2. ASSUME NEW m \in 1 .. made, lost = {m}, ~writerFailed
          PROVE  made = Kept(Len(written) + InHand + Len(writeQueue) + 1)
      <4>1. Len(written) + InHand + Len(writeQueue) + 1 = made - 1
        BY <1>0, <2>2, <3>2 DEF OrderInv, BeingPut, Losses
      <4>2. m <= made - 1
        BY <1>0, <2>2, <3>2 DEF OrderInv
      <4> QED
        BY <1>0, <3>2, <4>1, <4>2 DEF Kept
    <3> QED
        BY <3>1, <3>2 DEF LossInv
  <2>5. /\ InHand' = InHand /\ BeingPut' = 0 /\ BeingPut = 1 /\ Losses' = Losses
        /\ \A i : Kept(i)' = Kept(i)
    BY <2>1, <2>2 DEF InHand, BeingPut, Losses, Kept
  <2>6. writerFailed' => pc'[Writer] = "ended"
    BY <2>1 DEF OrderInv
  <2>7. Len(written') + InHand' + Len(writeQueue') + BeingPut' + Losses' <= made'
    BY <1>0, <2>1, <2>3, <2>5 DEF OrderInv
  <2>8. ~writerFailed' => Len(written') + InHand' + Len(writeQueue') + BeingPut' + Losses' = made'
    BY <1>0, <2>1, <2>3, <2>5 DEF OrderInv
  <2>9. \A i \in DOMAIN written' : written'[i].piece = Kept(i)'
    BY <2>1, <2>5 DEF OrderInv
  <2>10. pc'[Writer] = "write" => piece' >= 1 /\ piece' = Kept(Len(written) + 1)'
    BY <2>1, <2>5 DEF OrderInv
  <2>11. ~writerFailed' =>
            \A j \in DOMAIN writeQueue' : writeQueue'[j] = Kept(Len(written) + InHand + j)'
    <3> SUFFICES ASSUME ~writerFailed, NEW j \in DOMAIN writeQueue'
                 PROVE  writeQueue'[j] = Kept(Len(written) + InHand + j)
        BY <2>1, <2>5
    <3>1. CASE j = Len(writeQueue) + 1
        BY <1>0, <2>3, <2>4, <3>1
    <3>2. CASE j \in DOMAIN writeQueue
        BY <2>3, <3>2 DEF OrderInv
    <3> QED
        BY <1>0, <2>3, <3>1, <3>2
  <2>12. pc'[Encoder] = "put" => made' >= 1 /\ made' \notin lost'
    BY <2>2
  <2> QED
    BY <2>6, <2>7, <2>8, <2>9, <2>10, <2>11, <2>12 DEF OrderInv
\* It is lost, which moves none of the others: they are all before it.
<1>4. CASE PutEncodedInterrupted
  <2>1. /\ UNCHANGED <<made, writeQueue, written, piece, writerFailed>> /\ pc'[Writer] = pc[Writer]
        /\ lost' = lost \union {made} /\ lost = {}
    BY <1>4 DEF PutEncodedInterrupted, Interrupted, LossInv, Step, Goto, PcType, Thread, queues
  <2>2. pc[Encoder] = "put" /\ pc'[Encoder] # "put"
    BY <1>4 DEF PutEncodedInterrupted, Step, Goto, PcType, Thread
  <2>3. InHand' = InHand /\ BeingPut' = 0 /\ BeingPut = 1 /\ Losses' = 1 /\ Losses = 0
    BY <2>1, <2>2 DEF InHand, BeingPut, Losses
  <2>4. \A i \in Nat : Kept(i) = i /\ (i < made => Kept(i)' = i)
    BY <1>0, <2>1 DEF Kept
  <2>5. \A i \in DOMAIN written : written[i].piece = i /\ i < made
    <3> SUFFICES ASSUME NEW i \in DOMAIN written PROVE written[i].piece = i /\ i < made
        OBVIOUS
    <3>1. written[i] \in [piece : 1 .. made, content : 1 .. made]
        BY <1>0, ElementOfSeq DEF PieceType
    <3>2. written[i].piece = i /\ i \in 1 .. made
        BY <1>0, <2>4, <3>1 DEF OrderInv
    <3>3. i <= made - 1
        BY <1>0, <2>3, <3>2 DEF OrderInv
    <3> QED
        BY <1>0, <3>2, <3>3
  <2>6. writerFailed' => pc'[Writer] = "ended"
    BY <2>1 DEF OrderInv
  <2>7. Len(written') + InHand' + Len(writeQueue') + BeingPut' + Losses' <= made'
    BY <1>0, <2>1, <2>3 DEF OrderInv
  <2>8. ~writerFailed' => Len(written') + InHand' + Len(writeQueue') + BeingPut' + Losses' = made'
    BY <1>0, <2>1, <2>3 DEF OrderInv
  <2>9. \A i \in DOMAIN written' : written'[i].piece = Kept(i)'
    BY <1>0, <2>1, <2>4, <2>5
  <2>10. pc'[Writer] = "write" => piece' >= 1 /\ piece' = Kept(Len(written) + 1)'
    BY <1>0, <2>1, <2>3, <2>4 DEF OrderInv, InHand
  <2>11. ~writerFailed' =>
            \A j \in DOMAIN writeQueue' : writeQueue'[j] = Kept(Len(written) + InHand + j)'
    BY <1>0, <2>1, <2>3, <2>4 DEF OrderInv
  <2>12. pc'[Encoder] = "put" => made' >= 1 /\ made' \notin lost'
    BY <2>2
  <2> QED
    BY <2>6, <2>7, <2>8, <2>9, <2>10, <2>11, <2>12 DEF OrderInv
\* The writer takes the first.
<1>5. CASE TakeEncoded
  <2>1. UNCHANGED <<made, written, lost, writerFailed>> /\ pc'[Encoder] = pc[Encoder]
    BY <1>5 DEF TakeEncoded, Step, Goto, PcType, Thread, history
  <2>2. pc[Writer] = "take" /\ pc'[Writer] = "write" /\ ~writerFailed
    BY <1>5 DEF TakeEncoded, Step, Goto, PcType, Thread, OrderInv
  <2>3. /\ Len(writeQueue) >= 1
        /\ piece' = writeQueue[1]
        /\ Len(writeQueue') = Len(writeQueue) - 1
        /\ DOMAIN writeQueue' = 1 .. Len(writeQueue) - 1
        /\ \A j \in 1 .. Len(writeQueue) - 1 : writeQueue'[j] = writeQueue[j + 1]
    BY <1>5, <1>0, HeadTailProperties, EmptySeq DEF TakeEncoded, PieceType
  <2>4. writeQueue[1] \in 1 .. made
    BY <1>0, <2>3, ElementOfSeq DEF PieceType
  <2>5. /\ InHand' = 1 /\ InHand = 0 /\ BeingPut' = BeingPut /\ Losses' = Losses
        /\ \A i : Kept(i)' = Kept(i)
    BY <2>1, <2>2 DEF InHand, BeingPut, Losses, Kept
  <2>6. writerFailed' => pc'[Writer] = "ended"
    BY <2>2, <2>1
  <2>7. Len(written') + InHand' + Len(writeQueue') + BeingPut' + Losses' <= made'
    BY <1>0, <2>1, <2>2, <2>3, <2>5 DEF OrderInv
  <2>8. ~writerFailed' => Len(written') + InHand' + Len(writeQueue') + BeingPut' + Losses' = made'
    <3>1. Len(written) + 0 + Len(writeQueue) + BeingPut + Losses = made
        BY <2>2, <2>5 DEF OrderInv
    <3>2. Len(written') = Len(written) /\ Len(writeQueue') = Len(writeQueue) - 1
        BY <2>1, <2>3
    <3>3. Len(written') + InHand' + Len(writeQueue') + BeingPut' + Losses' = made
        BY <1>0, <2>5, <3>1, <3>2
    <3> QED
        BY <2>1, <3>3
  <2>9. \A i \in DOMAIN written' : written'[i].piece = Kept(i)'
    BY <2>1, <2>5 DEF OrderInv
  <2>10. pc'[Writer] = "write" => piece' >= 1 /\ piece' = Kept(Len(written) + 1)'
    BY <1>0, <2>1, <2>2, <2>3, <2>4, <2>5 DEF OrderInv
  <2>11. ~writerFailed' =>
            \A j \in DOMAIN writeQueue' : writeQueue'[j] = Kept(Len(written) + InHand + j)'
    <3> SUFFICES ASSUME NEW j \in DOMAIN writeQueue'
                 PROVE  writeQueue'[j] = Kept(Len(written) + 1 + j)
        BY <2>1, <2>5
    <3>1. writeQueue'[j] = writeQueue[j + 1] /\ j + 1 \in DOMAIN writeQueue /\ j \in Nat
        BY <1>0, <2>3
    <3>2. writeQueue[j + 1] = Kept(Len(written) + 0 + (j + 1))
        BY <2>2, <2>5, <3>1 DEF OrderInv
    <3>3. Len(written) + 0 + (j + 1) = Len(written) + 1 + j
        BY <1>0, <3>1
    <3> QED
        BY <3>1, <3>2, <3>3
  <2>12. pc'[Encoder] = "put" => made' >= 1 /\ made' \notin lost'
    BY <2>1 DEF OrderInv
  <2> QED
    BY <2>6, <2>7, <2>8, <2>9, <2>10, <2>11, <2>12 DEF OrderInv
\* And writes it.
<1>6. CASE Write
  <2>1. UNCHANGED <<made, writeQueue, lost, writerFailed>> /\ pc'[Encoder] = pc[Encoder]
    BY <1>6 DEF Write, Step, Goto, PcType, Thread, queues
  <2>2. pc[Writer] = "write" /\ pc'[Writer] = "check" /\ ~writerFailed
    BY <1>6 DEF Write, Step, Goto, PcType, Thread, OrderInv
  <2>3. /\ Len(written') = Len(written) + 1 /\ DOMAIN written' = 1 .. Len(written) + 1
        /\ \A i \in DOMAIN written : written'[i] = written[i]
        /\ written'[Len(written) + 1].piece = piece
    BY <1>6, <1>0, AppendProperties DEF Write, PieceType
  <2>4. /\ InHand' = 0 /\ InHand = 1 /\ BeingPut' = BeingPut /\ Losses' = Losses
        /\ \A i : Kept(i)' = Kept(i)
    BY <2>1, <2>2 DEF InHand, BeingPut, Losses, Kept
  <2> QED
    BY <1>0, <2>1, <2>2, <2>3, <2>4 DEF OrderInv
<1>7. CASE WriteFails
  <2>1. /\ UNCHANGED <<made, writeQueue, written, piece, lost>> /\ pc'[Encoder] = pc[Encoder]
        /\ writerFailed' /\ pc'[Writer] = "ended"
    BY <1>7 DEF WriteFails, Step, Goto, PcType, Thread, queues
  <2>2. InHand' = 0 /\ BeingPut' = BeingPut /\ Losses' = Losses /\ \A i : Kept(i)' = Kept(i)
    BY <2>1 DEF InHand, BeingPut, Losses, Kept
  <2>3. Len(written') + InHand' + Len(writeQueue') + BeingPut' + Losses' <= made'
    BY <1>0, <2>1, <2>2 DEF OrderInv
  <2> QED
    BY <2>1, <2>2, <2>3 DEF OrderInv
<1> QED
    BY <1>1, <1>2, <1>3, <1>4, <1>5, <1>6, <1>7, StepKinds

\* What was made since the piece being written was is in the queue or with the encoder.
LEMMA AheadStep ==
    PcType /\ PieceType /\ PlaceInv /\ LossInv /\ OrderInv /\ AheadInv /\ [Next]_vars => AheadInv'
<1> SUFFICES ASSUME PcType, PieceType, PlaceInv, LossInv, OrderInv, AheadInv, [Next]_vars
             PROVE  AheadInv'
    OBVIOUS
<1> USE SizeAssumption, ThreadAssumption
<1>0. /\ Len(written) \in Nat /\ Len(writeQueue) \in 0 .. QueueSize /\ made \in Nat
      /\ DOMAIN written = 1 .. Len(written) /\ QueueSize \in Nat
      /\ InHand \in {0, 1} /\ BeingPut \in {0, 1} /\ Losses \in {0, 1}
    BY LenProperties DEF PieceType, InHand, BeingPut, Losses
<1>1. \A i \in DOMAIN written : written[i].piece \in Nat /\ written[i].content \in Nat
  <2>1. ASSUME NEW i \in DOMAIN written
        PROVE  written[i] \in [piece : 1 .. made, content : 1 .. made]
    BY <1>0, ElementOfSeq DEF PieceType
  <2> QED
    BY <1>0, <2>1
<1>2. CASE Write
  <2>1. UNCHANGED <<made, lost>>
    BY <1>2 DEF Write
  <2>2. /\ DOMAIN written' = 1 .. Len(written) + 1
        /\ \A i \in DOMAIN written : written'[i] = written[i]
        /\ written'[Len(written) + 1] = [piece |-> piece, content |-> made]
    BY <1>2, <1>0, AppendProperties DEF Write, PieceType
  <2>3. pc[Writer] = "write" /\ ~writerFailed /\ InHand = 1
    BY <1>2 DEF Write, Step, OrderInv, InHand
  <2>4. /\ made = Len(written) + 1 + Len(writeQueue) + BeingPut + Losses
        /\ piece \in Nat /\ piece <= made /\ piece = Kept(Len(written) + 1)
    BY <1>0, <2>3 DEF OrderInv, PieceType
  <2>5. piece >= Len(written) + 1
    BY <1>0, <2>4 DEF Kept
  <2>6. made \in piece .. piece + QueueSize + 1 + Losses
    BY <1>0, <2>4, <2>5
  <2> QED
    BY <1>0, <2>1, <2>2, <2>6 DEF AheadInv, Losses
<1>3. CASE UNCHANGED written /\ lost \subseteq lost'
  <2>1. Losses' \in {0, 1} /\ Losses' >= Losses
    BY <1>3 DEF Losses
  <2> QED
    BY <1>0, <1>1, <1>3, <2>1 DEF AheadInv
<1>4. Write \/ (UNCHANGED written /\ lost \subseteq lost')
  <2>1. Encode \/ PutEncoded \/ TakeEncoded => UNCHANGED <<written, lost>>
    BY DEF Encode, PutEncoded, TakeEncoded, history
  <2>2. PutEncodedInterrupted => UNCHANGED written /\ lost \subseteq lost'
    BY DEF PutEncodedInterrupted
  <2>3. WriteFails => UNCHANGED <<written, lost>>
    BY DEF WriteFails
  <2> QED
    BY <2>1, <2>2, <2>3, StepKinds DEF Still
<1> QED
    BY <1>2, <1>3, <1>4
-----------------------------------------------------------------------------
\* The invariant holds of every behaviour.
THEOREM Invariance == Spec => []IInv
<1>1. Init => IInv
  <2> SUFFICES ASSUME Init PROVE IInv
    OBVIOUS
  <2>1. PcType /\ PlaceInv
    BY ThreadAssumption DEF Init, PcType, Label, PlaceInv, Thread
  <2>2. FlagType
    BY DEF Init, FlagType
  <2>3. QueueSize \in Nat /\ InputBuffers \in Nat /\ MaxSamples \in Nat
    BY SizeAssumption
  <2>4. codec = "none" /\ inside = 0 /\ sampled = 0 /\ encodeQueue = 0
    BY DEF Init
  <2>5. CodecType /\ encodeQueue \in 0 .. QueueSize
    BY <2>3, <2>4 DEF CodecType
  <2>6. /\ written = <<>> /\ writeQueue = <<>> /\ lost = {} /\ made = 0 /\ piece = 0 /\ ~writerFailed
        /\ pc[Writer] = "check" /\ pc[Encoder] = "check"
    BY ThreadAssumption DEF Init, Thread
  <2>7. Len(<<>>) = 0 /\ DOMAIN <<>> = {}
    OBVIOUS
  <2>8. PieceType
    BY <2>6, <2>7, SizeAssumption, EmptySeq DEF PieceType
  <2>9. OrderInv /\ AheadInv
    BY <2>6, <2>7 DEF OrderInv, AheadInv, InHand, BeingPut, Losses, Kept
  <2>10. EndInv /\ LossInv
    BY <2>6, ThreadAssumption DEF Init, EndInv, LossInv, AllEncoded, Thread
  <2> QED
    BY <2>1, <2>8, <2>5, <2>2, <2>9, <2>10, TypeParts DEF IInv
<1>2. IInv /\ [Next]_vars => IInv'
    BY TypeParts, PlaceStep, TypeStep, EndStep, LossStep, OrderStep, AheadStep DEF IInv
<1> QED
    BY <1>1, <1>2, PTL DEF Spec

\* The pipeline keeps its types, and no queue is overfull.
THEOREM TypeCorrect == Spec => []TypeOK
<1>1. IInv => TypeOK
    BY DEF IInv
<1> QED
    BY <1>1, Invariance, PTL

\* At most one piece is lost, so counting is simple.
LEMMA CountLosses ==
    ASSUME LossInv
    PROVE  Cardinality(lost) = Losses
<1>1. CASE lost = {}
    BY <1>1, FS_EmptySet DEF Losses
<1>2. ASSUME NEW m \in 1 .. made, lost = {m} PROVE Cardinality(lost) = Losses
    BY <1>2, FS_Singleton DEF Losses
<1> QED
    BY <1>1, <1>2 DEF LossInv

\* The same for those before a piece.
LEMMA CountLossesUpTo ==
    ASSUME LossInv, NEW i \in Nat
    PROVE  i + Cardinality({n \in lost : n <= i}) = Kept(i)
<1>1. CASE \E m \in lost : m <= i
  <2>1. PICK m \in lost : m <= i
    BY <1>1
  <2>2. {n \in lost : n <= i} = {m}
    BY <2>1 DEF LossInv
  <2> QED
    BY <1>1, <2>2, FS_Singleton DEF Kept
<1>2. CASE ~\E m \in lost : m <= i
  <2>1. {n \in lost : n <= i} = {}
    BY <1>2
  <2> QED
    BY <1>2, <2>1, FS_EmptySet DEF Kept
<1> QED
    BY <1>1, <1>2

\* BufferEncoded.buffer = mp3buf: the array runs at most a queue and a piece ahead of the
\* writer, whatever the size of the queue.
THEOREM BufferRunsAheadByAQueue == Spec => []MP3BufRunsAheadByAQueue
<1>1. IInv => MP3BufRunsAheadByAQueue
  <2> SUFFICES ASSUME IInv, NEW i \in DOMAIN written
               PROVE  /\ written[i].piece <= written[i].content
                      /\ written[i].content <= written[i].piece + QueueSize + 1 + Cardinality(lost)
    BY DEF MP3BufRunsAheadByAQueue
  <2> QED
    BY CountLosses DEF IInv, AheadInv
<1> QED
    BY <1>1, Invariance, PTL

\* encodeToMp3 and the interrupts at the end: all pieces are written, once and in order,
\* but for one at most.
THEOREM PiecesInOrder == Spec => []PiecesAreWrittenInOrder
<1>1. IInv => PiecesAreWrittenInOrder
  <2> SUFFICES ASSUME IInv, pc[Caller] = "returned", ~writerFailed
               PROVE  /\ inside = 0 /\ encodeQueue = 0 /\ writeQueue = <<>>
                      /\ Cardinality(lost) <= 1
                      /\ Len(written) = made - Cardinality(lost)
                      /\ \A i \in DOMAIN written :
                            written[i].piece = i + Cardinality({n \in lost : n <= i})
    BY DEF PiecesAreWrittenInOrder
  <2>1. encodeFinished /\ writeQueue = <<>> /\ pc[Writer] = "ended"
    BY DEF IInv, EndInv, AllEncoded
  <2>2. pc[Encoder] \in {"interrupt", "ended"} /\ encodeQueue = 0 /\ inside = 0
    BY <2>1 DEF IInv, EndInv
  <2>3. Cardinality(lost) = Losses /\ Losses \in {0, 1}
    BY CountLosses DEF IInv, Losses
  <2>4. Len(written) \in Nat /\ made \in Nat /\ DOMAIN written = 1 .. Len(written)
    BY LenProperties DEF IInv, TypeOK
  <2>5. Len(written) = made - Losses
    BY <2>1, <2>2, <2>3, <2>4, EmptySeq DEF IInv, OrderInv, InHand, BeingPut
  <2>6. \A i \in DOMAIN written : written[i].piece = i + Cardinality({n \in lost : n <= i})
    BY <2>4, CountLossesUpTo DEF IInv, OrderInv
  <2> QED
    BY <2>1, <2>2, <2>3, <2>5, <2>6
<1> QED
    BY <1>1, Invariance, PTL
=============================================================================
