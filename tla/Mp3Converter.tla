--------------------------- MODULE Mp3Converter ---------------------------
(***************************************************************************)
(* Mp3Converter.kt: a pipeline of four threads.  The caller of             *)
(* convertToMp3 feeds MediaCodec and then joins the writer; the decoder    *)
(* moves what MediaCodec puts out to encodeQueue; the encoder makes MP3 of *)
(* it and puts it in writeQueue; the writer writes it.  A thread tells the *)
(* next one that it is done by a flag, and, since that thread may be       *)
(* asleep on its queue, by an interrupt.                                   *)
(*                                                                         *)
(* Every piece of MP3 is made in the one array mp3buf, and writeQueue only *)
(* holds references to it.  A step that reads or fills the array is taken  *)
(* to be atomic.                                                           *)
(*                                                                         *)
(* LinkedBlockingDeque's put and take throw InterruptedException only if   *)
(* they would have to wait.  A failure that nobody catches, such as that   *)
(* of the writer to open its file, ends the process: no step.              *)
(***************************************************************************)
EXTENDS Integers, Sequences, FiniteSets

CONSTANTS QueueSize,                        \* DEFAULT_QUEUE_SIZE
          InputBuffers,                     \* input buffers of MediaCodec
          MaxSamples,                       \* bound: samples in the file
          Caller, Decoder, Encoder, Writer

ASSUME SizeAssumption ==
    /\ {QueueSize, InputBuffers} \subseteq Nat \ {0}
    /\ MaxSamples \in Nat
ASSUME ThreadAssumption ==
    /\ Caller \notin {Decoder, Encoder, Writer}
    /\ Decoder \notin {Encoder, Writer} /\ Encoder # Writer

Thread == {Caller, Decoder, Encoder, Writer}

VARIABLES
    pc,
    codec,            \* MediaCodec: "none", "running" or "error"
    inside,           \* samples queued in it and not yet put out
    sampled,          \* samples read from the file
    inputEnded,       \* whether it has been given BUFFER_FLAG_END_OF_STREAM
    last,             \* whether the decoder's buffer has that flag
    decodeFinished,
    encodeFinished,
    interrupted,      \* the threads whose interrupt status is set
    encodeQueue,      \* how many buffers are in it
    made,             \* pieces of MP3 made: 1 .. made; the last one is in mp3buf
    writeQueue,       \* the pieces whose reference is in it
    piece,            \* the piece the writer has taken
    written,          \* history: for each write, the piece it was for and what
                      \* was in mp3buf
    lost,             \* history: the pieces whose put was interrupted
    writerFailed      \* history: whether a write has failed

codecVars == <<codec, inside, sampled, inputEnded>>
flags == <<decodeFinished, encodeFinished>>
queues == <<encodeQueue, writeQueue>>
history == <<written, lost, writerFailed>>
vars == <<pc, codecVars, last, flags, interrupted, queues, made, piece, history>>

Goto(t, label) == pc' = [pc EXCEPT ![t] = label]
Step(t, from, to) == pc[t] = from /\ Goto(t, to)

\* convertToMp3 has started the encoder and the writer.
Init ==
    /\ pc = [t \in Thread |-> CASE t = Caller -> "prepare"
                                [] t = Decoder -> "not started"
                                [] t \in {Encoder, Writer} -> "check"]
    /\ codec = "none" /\ inside = 0 /\ sampled = 0 /\ inputEnded = FALSE
    /\ last = FALSE
    /\ decodeFinished = FALSE /\ encodeFinished = FALSE
    /\ interrupted = {}
    /\ encodeQueue = 0 /\ writeQueue = <<>>
    /\ made = 0 /\ piece = 0
    /\ written = <<>> /\ lost = {} /\ writerFailed = FALSE
-----------------------------------------------------------------------------
(* The caller, and MediaCodec.                                               *)

\* prepareDecode, and the start of the decoder.  An IOException is caught and leaves the
\* converter without a codec; any other exception leaves convertToMp3.
Prepare ==
    /\ pc[Caller] = "prepare"
    /\ \/ pc' = [pc EXCEPT ![Caller] = "read", ![Decoder] = "dequeue"] /\ codec' = "running"
       \/ pc' = [pc EXCEPT ![Caller] = "read", ![Decoder] = "dequeue"] /\ UNCHANGED codec
       \/ Goto(Caller, "threw") /\ UNCHANGED codec
    /\ UNCHANGED <<inside, sampled, inputEnded, last, flags, interrupted, queues, made,
                   piece, history>>

\* One input buffer of readSampleData.
Read ==
    /\ codec = "running" /\ inside < InputBuffers
    /\ \/ /\ sampled < MaxSamples
          /\ pc[Caller] = "read"
          /\ sampled' = sampled + 1
          /\ inside' = inside + 1
          /\ UNCHANGED <<pc, inputEnded>>
       \/ /\ Step(Caller, "read", "join")
          /\ inputEnded' = TRUE
          /\ UNCHANGED <<sampled, inside>>
    /\ UNCHANGED <<codec, last, flags, interrupted, queues, made, piece, history>>

\* No codec, or one in an error state, is an exception that leaves convertToMp3.
ReadThrows ==
    /\ codec # "running"
    /\ Step(Caller, "read", "threw")
    /\ UNCHANGED <<codecVars, last, flags, interrupted, queues, made, piece, history>>

Join ==
    /\ pc[Writer] = "ended"
    /\ Step(Caller, "join", "returned")
    /\ UNCHANGED <<codecVars, last, flags, interrupted, queues, made, piece, history>>

CodecFails ==
    /\ codec = "running"
    /\ codec' = "error"
    /\ UNCHANGED <<pc, inside, sampled, inputEnded, last, flags, interrupted, queues, made,
                   piece, history>>
-----------------------------------------------------------------------------
(* The decoder.                                                              *)

\* Mutated form of Full: the queue takes one more.
FullLate(n) == n > QueueSize

Full(n) == n = QueueSize

Dequeue ==
    /\ codec = "running"
    /\ Step(Decoder, "dequeue", "put")
    /\ \/ inside > 0 /\ inside' = inside - 1 /\ last' = FALSE
       \/ inside = 0 /\ inputEnded /\ last' = TRUE /\ UNCHANGED inside
    /\ UNCHANGED <<codec, sampled, inputEnded, flags, interrupted, queues, made, piece,
                   history>>

PutDecoded ==
    /\ ~Full(encodeQueue)
    /\ Step(Decoder, "put", "release")
    /\ encodeQueue' = encodeQueue + 1
    /\ UNCHANGED <<codecVars, last, flags, interrupted, writeQueue, made, piece, history>>

\* Releases the output buffer, and is done if it was the last one.
ReleaseOutput ==
    /\ codec = "running"
    /\ Step(Decoder, "release", IF last THEN "interrupt" ELSE "dequeue")
    /\ decodeFinished' = last
    /\ UNCHANGED <<codecVars, last, encodeFinished, interrupted, queues, made, piece, history>>

\* An exception is caught, and decodeFinished stays as it is.
DecoderThrows ==
    /\ codec # "running"
    /\ pc[Decoder] \in {"dequeue", "release"}
    /\ Goto(Decoder, "interrupt")
    /\ UNCHANGED <<codecVars, last, flags, interrupted, queues, made, piece, history>>

\* An interrupt for a thread that has ended has no effect.
Interrupt(t) == interrupted' = interrupted \union {u \in {t} : pc[u] # "ended"}

InterruptEncoder ==
    /\ Step(Decoder, "interrupt", "ended")
    /\ Interrupt(Encoder)
    /\ UNCHANGED <<codecVars, last, flags, queues, made, piece, history>>
-----------------------------------------------------------------------------
(* The encoder.                                                              *)

CheckDecoded ==
    /\ Step(Encoder, "check", IF decodeFinished /\ encodeQueue = 0 THEN "finish" ELSE "take")
    /\ UNCHANGED <<codecVars, last, flags, interrupted, queues, made, piece, history>>

TakeDecoded ==
    /\ encodeQueue > 0
    /\ Step(Encoder, "take", "encode")
    /\ encodeQueue' = encodeQueue - 1
    /\ UNCHANGED <<codecVars, last, flags, interrupted, writeQueue, made, piece, history>>

\* A wait, or one about to begin, is interrupted: the status is cleared.
Interrupted(t) == t \in interrupted /\ interrupted' = interrupted \ {t}

TakeDecodedInterrupted ==
    /\ encodeQueue = 0
    /\ Interrupted(Encoder)
    /\ Step(Encoder, "take", "check")
    /\ UNCHANGED <<codecVars, last, flags, queues, made, piece, history>>

\* encodeToMp3 makes a piece of MP3 in mp3buf, or nothing: the buffer's time stamp is the
\* one before, it is empty, or LAME fails or wants more.
Encode ==
    /\ \/ Step(Encoder, "encode", "check") /\ UNCHANGED made
       \/ Step(Encoder, "encode", "put") /\ made' = made + 1
    /\ UNCHANGED <<codecVars, last, flags, interrupted, queues, piece, history>>

\* Mutated form of PutEncoded: the reference to mp3buf is queued ahead of its content.
PutNext ==
    /\ ~Full(Len(writeQueue))
    /\ Step(Encoder, "put", "check")
    /\ writeQueue' = Append(writeQueue, made + 1)
    /\ UNCHANGED <<codecVars, last, flags, interrupted, encodeQueue, made, piece, history>>

PutEncoded ==
    /\ ~Full(Len(writeQueue))
    /\ Step(Encoder, "put", "check")
    /\ writeQueue' = Append(writeQueue, made)
    /\ UNCHANGED <<codecVars, last, flags, interrupted, encodeQueue, made, piece, history>>

\* The exception is caught, and the piece forgotten.
PutEncodedInterrupted ==
    /\ Full(Len(writeQueue))
    /\ Interrupted(Encoder)
    /\ Step(Encoder, "put", "check")
    /\ lost' = lost \union {made}
    /\ UNCHANGED <<codecVars, last, flags, queues, made, piece, written, writerFailed>>

Finish ==
    /\ Step(Encoder, "finish", "interrupt")
    /\ encodeFinished' = TRUE
    /\ UNCHANGED <<codecVars, last, decodeFinished, interrupted, queues, made, piece, history>>

\* Mutated form of InterruptWriter: the writer is not interrupted.
LeaveWriterAlone ==
    /\ Step(Encoder, "interrupt", "ended")
    /\ UNCHANGED <<codecVars, last, flags, interrupted, queues, made, piece, history>>

InterruptWriter ==
    /\ Step(Encoder, "interrupt", "ended")
    /\ Interrupt(Writer)
    /\ UNCHANGED <<codecVars, last, flags, queues, made, piece, history>>
-----------------------------------------------------------------------------
(* The writer.                                                               *)

\* Mutated form of AllEncoded: the writer does not look at its queue.
EncoderIsDone == encodeFinished

AllEncoded == encodeFinished /\ writeQueue = <<>>

CheckEncoded ==
    /\ Step(Writer, "check", IF AllEncoded THEN "ended" ELSE "take")
    /\ UNCHANGED <<codecVars, last, flags, interrupted, queues, made, piece, history>>

TakeEncoded ==
    /\ writeQueue # <<>>
    /\ Step(Writer, "take", "write")
    /\ piece' = Head(writeQueue)
    /\ writeQueue' = Tail(writeQueue)
    /\ UNCHANGED <<codecVars, last, flags, interrupted, encodeQueue, made, history>>

TakeEncodedInterrupted ==
    /\ writeQueue = <<>>
    /\ Interrupted(Writer)
    /\ Step(Writer, "take", "check")
    /\ UNCHANGED <<codecVars, last, flags, queues, made, piece, history>>

\* bos.write(buffer.buffer, 0, buffer.length): what is now in mp3buf.
Write ==
    /\ Step(Writer, "write", "check")
    /\ written' = Append(written, [piece |-> piece, content |-> made])
    /\ UNCHANGED <<codecVars, last, flags, interrupted, queues, made, piece, lost,
                   writerFailed>>

\* An IOException is caught, and the writer ends.
WriteFails ==
    /\ Step(Writer, "write", "ended")
    /\ writerFailed' = TRUE
    /\ UNCHANGED <<codecVars, last, flags, interrupted, queues, made, piece, written, lost>>
-----------------------------------------------------------------------------
CallerRuns == Prepare \/ Read \/ ReadThrows \/ Join

DecoderRuns == Dequeue \/ PutDecoded \/ ReleaseOutput \/ DecoderThrows \/ InterruptEncoder

EncoderRuns ==
    \/ CheckDecoded \/ TakeDecoded \/ TakeDecodedInterrupted
    \/ Encode \/ PutEncoded \/ PutEncodedInterrupted
    \/ Finish \/ InterruptWriter

WriterRuns ==
    CheckEncoded \/ TakeEncoded \/ TakeEncodedInterrupted \/ Write \/ WriteFails

Next == CallerRuns \/ DecoderRuns \/ EncoderRuns \/ WriterRuns \/ CodecFails

Spec == Init /\ [][Next]_vars

\* Every thread that can run does, and MediaCodec puts out what it is given.
FairSpec ==
    /\ Spec
    /\ WF_vars(CallerRuns)
    /\ WF_vars(DecoderRuns)
    /\ WF_vars(EncoderRuns)
    /\ WF_vars(WriterRuns)
-----------------------------------------------------------------------------
(* Properties.                                                               *)

\* Every variable holds a value of its type, and no queue more than it may.
TypeOK ==
    /\ pc \in [Thread -> {"prepare", "read", "join", "returned", "threw", "not started",
                          "dequeue", "release", "check", "take", "encode", "put", "write",
                          "finish", "interrupt", "ended"}]
    /\ codec \in {"none", "running", "error"}
    /\ inside \in 0 .. InputBuffers /\ sampled \in 0 .. MaxSamples
    /\ {inputEnded, last, decodeFinished, encodeFinished, writerFailed} \subseteq BOOLEAN
    /\ interrupted \subseteq {Encoder, Writer}
    /\ encodeQueue \in 0 .. QueueSize /\ made \in Nat /\ piece \in 0 .. made
    /\ writeQueue \in Seq(1 .. made) /\ Len(writeQueue) <= QueueSize
    /\ written \in Seq([piece : 1 .. made, content : 1 .. made])
    /\ lost \subseteq 1 .. made

\* When convertToMp3 has returned and no write has failed, every sample has been through
\* the encoder, and every piece it made was written, once and in order, but for one at
\* most: the piece that was waiting for room in writeQueue when the decoder interrupted
\* the encoder to tell it the end (encodeToMp3, Mp3Converter.kt:317-321).
PiecesAreWrittenInOrder ==
    pc[Caller] = "returned" /\ ~writerFailed =>
        /\ inside = 0 /\ encodeQueue = 0 /\ writeQueue = <<>>
        /\ Cardinality(lost) <= 1
        /\ Len(written) = made - Cardinality(lost)
        /\ \A i \in DOMAIN written :
               written[i].piece = i + Cardinality({n \in lost : n <= i})

\* A write copies the piece it is for, or a later one that the encoder has made in the same
\* array meanwhile: the pieces queued behind it and the one the encoder waits to put, and
\* one more when a piece was lost, since the encoder then goes on without having put it
\* (BufferEncoded.buffer = mp3buf, Mp3Converter.kt:314-321).
MP3BufRunsAheadByAQueue ==
    \A i \in DOMAIN written :
        /\ written[i].piece <= written[i].content
        /\ written[i].content <= written[i].piece + QueueSize + 1 + Cardinality(lost)

\* Conversion comes to an end: the flags and interrupts reach threads that are asleep, about
\* to sleep or busy.  Not if MediaCodec fails, since decodeFinished is then never set, or if
\* a write fails, since the encoder and then everyone before it waits for room.
ConversionEnds ==
    <>(pc[Caller] \in {"returned", "threw"} \/ codec = "error" \/ writerFailed)
=============================================================================
