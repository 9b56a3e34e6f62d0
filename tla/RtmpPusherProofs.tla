------------------------- MODULE RtmpPusherProofs -------------------------
(* Proofs about RtmpPusher, for any number of pushes and of packets.        *)
EXTENDS RtmpPusher, SequenceTheorems, FiniteSetTheorems, TLAPS

(* Steps that leave the queue and what it owns alone, sorted by their       *)
(* thread: those of the UI and the audio thread, which no worker sees in    *)
(* its own state, and those that move a worker within the part of start()   *)
(* that isStart guards or within its epilogue.                              *)
QuietUI(t) ==
    \/ CallStop \/ ReleasePusher \/ PushVideo \/ PushAudio \/ StartVideo \/ StartAudio
    \/ BeginTask \/ EndTask \/ EncodingDone(t)
    \/ t = UI /\ (StopVideo(t) \/ StopAudio(t) \/ StopReady(t))

QuietWorker(w) ==
    \/ Connect(w) \/ SetupFails(w) \/ ConnectFails(w) \/ SetReady(w) \/ WhileReady(w)
    \/ Popped(w) \/ StopVideo(w) \/ StopAudio(w) \/ StopReady(w) \/ JoinWorker(w)
    \/ ClearReady(w)

\* Every step is of one of these kinds.
LEMMA StepKinds ==
    [Next]_vars =>
        \/ \E t \in {UI, Audio} : QuietUI(t) \/ EncodedPacket(t)
        \/ \E t \in Thread : StopQueue(t)
        \/ \E w \in Worker :
            \/ QuietWorker(w) \/ PushAudioTag(w) \/ StartQueue(w) \/ Waits(w) \/ Pop(w)
            \/ Send(w) \/ DropLast(w) \/ ClearIsStart(w) \/ ClearWork(w) \/ ClearQueue(w)
        \/ NativeStart \/ JoinUI \/ Wakes
        \/ UNCHANGED vars
  BY DEF Next, UIContinues, AudioContinues, WorkerContinues, StopPush, QuietUI, QuietWorker,
         Thread
-----------------------------------------------------------------------------
(* The invariant.                                                           *)

\* Workers are created in order, and a packet is held only where start() has one.
WorkerInv ==
    /\ pid = created
    /\ \A w \in Worker :
        /\ w > created => pc[w] = "not created"
        /\ packet[w] # NoPacket => pc[w] \in {"popped", "send", "drop"}

\* A thread asleep is in pop, and the queue is at work only as long as a worker has yet
\* to stop it, and holds packets only as long as one has yet to clear it.
ToStop == {"tag", "loop", "pop", "popped", "send", "drop", "clear isStart", "clear ready",
           "clear work"} \union StopLabels
QueueInv ==
    /\ \A w \in blocked : pc[w] = "pop"
    /\ work => \E w \in Worker : pc[w] \in ToStop
    /\ q # <<>> => \E w \in Worker : pc[w] \in ToStop \union {"clear queue"}

\* Who owns a packet: one place in the queue, one worker, or nobody once it is freed.
InQueue(p) == \E i \in DOMAIN q : q[i] = p
Held(p) == \E w \in Worker : packet[w] = p
OwnerInv ==
    /\ \A i, j \in DOMAIN q : q[i] = q[j] => i = j
    /\ \A v, w \in Worker : packet[v] = packet[w] /\ packet[v] # NoPacket => v = w
    /\ \A p \in Packet :
        /\ ~(InQueue(p) /\ Held(p))
        /\ InQueue(p) \/ Held(p) => p <= made /\ freed[p] = 0
        /\ p > made => freed[p] = 0
        /\ p <= made /\ ~InQueue(p) /\ ~Held(p) => freed[p] = 1

(* TypeOK in parts, so that a step has to be looked at only where it acts. *)
Label == MainPart \union Epilogue \union
            {"not created", "ended", "idle", "start video", "start audio", "encode", "task"}
PcType == pc \in [Thread -> Label]
FlagType ==
    {isStart, readyPushing, videoLiving, audioLiving, encoders, stopped, work} \subseteq BOOLEAN
CountType ==
    /\ pid \in Worker \union {NoWorker} /\ created \in 0 .. MaxWorkers
    /\ tasks \in 0 .. MaxWorkers
WorkerType ==
    /\ packet \in [Worker -> Packet \union {NoPacket}]
    /\ failure \in [Worker -> {"none", "setup", "connect", "send"}]
QueueType ==
    /\ q \in Seq(Packet) /\ blocked \subseteq Worker
    /\ made \in 0 .. MaxMade /\ freed \in [Packet -> Nat]

IInv ==
    TypeOK /\ WorkerInv /\ OneWorkerPushes /\ StoppedMeansStopped /\ QueueInv
        /\ NoMissedWakeup /\ OwnerInv
-----------------------------------------------------------------------------
\* Every thread stays at one of its labels.
LEMMA PcStep == PcType /\ [Next]_vars => PcType'
<1> SUFFICES ASSUME PcType, [Next]_vars PROVE PcType'
    OBVIOUS
<1> USE WorkerAssumption DEF PcType, Label, Thread, MainPart, Epilogue, StopLabels, Step, Goto
<1>1. ASSUME NEW t \in {UI, Audio}, QuietUI(t) PROVE PcType'
    BY <1>1 DEF QuietUI, StopVideo, StopAudio, StopReady, CallStop, ReleasePusher,
       PushVideo, PushAudio, StartVideo, StartAudio, BeginTask, EndTask, EncodingDone
<1>2. ASSUME NEW w \in Worker, QuietWorker(w) PROVE PcType'
    BY <1>2 DEF QuietWorker, Connect, SetupFails, ConnectFails, SetReady, WhileReady,
       Popped, StopVideo, StopAudio, StopReady, JoinWorker, ClearReady
<1>3. ASSUME NativeStart PROVE PcType'
    BY <1>3 DEF NativeStart
<1>4. ASSUME JoinUI PROVE PcType'
    BY <1>4 DEF JoinUI, Joined
<1>5. ASSUME NEW t \in Thread, StopQueue(t) PROVE PcType'
    BY <1>5 DEF StopQueue, SetWork, Signal
<1>6. ASSUME NEW t \in {UI, Audio}, EncodedPacket(t) PROVE PcType'
    BY <1>6 DEF EncodedPacket, PushNew, Signal, Free
<1>7. ASSUME NEW w \in Worker, PushAudioTag(w) PROVE PcType'
    BY <1>7 DEF PushAudioTag, PushNew, Signal, Free
<1>8. ASSUME NEW w \in Worker, StartQueue(w) PROVE PcType'
    BY <1>8 DEF StartQueue, SetWork, Signal
<1>9. ASSUME NEW w \in Worker, Waits(w) PROVE PcType'
    BY <1>9 DEF Waits, PopBlocks
<1>10. ASSUME NEW w \in Worker, Pop(w) PROVE PcType'
    BY <1>10 DEF Pop, PopReturns
<1>11. ASSUME NEW w \in Worker, Send(w) \/ DropLast(w) PROVE PcType'
    BY <1>11 DEF Send, DropLast, Drop, Release, Free
<1>12. ASSUME NEW w \in Worker, ClearIsStart(w) PROVE PcType'
    BY <1>12 DEF ClearIsStart
<1>13. ASSUME NEW w \in Worker, ClearWork(w) PROVE PcType'
    BY <1>13 DEF ClearWork, SetWork, Signal
<1>14. ASSUME NEW w \in Worker, ClearQueue(w) PROVE PcType'
    BY <1>14 DEF ClearQueue, Clear
<1>15. ASSUME Wakes PROVE PcType'
    BY <1>15 DEF Wakes, SpuriousWakeup
<1>16. ASSUME UNCHANGED vars PROVE PcType'
    BY <1>16 DEF vars
<1> QED
    BY <1>1, <1>2, <1>3, <1>4, <1>5, <1>6, <1>7, <1>8, <1>9, <1>10, <1>11, <1>12, <1>13,
       <1>14, <1>15, <1>16, StepKinds

\* The flags stay Boolean.
LEMMA FlagStep == FlagType /\ [Next]_vars => FlagType'
<1> SUFFICES ASSUME FlagType, [Next]_vars PROVE FlagType'
    OBVIOUS
<1> USE DEF FlagType, startVars, javaVars, workerVars, queueVars
<1>1. ASSUME NEW t \in {UI, Audio}, QuietUI(t) PROVE FlagType'
    BY <1>1 DEF QuietUI, StopVideo, StopAudio, StopReady, CallStop, ReleasePusher,
       PushVideo, PushAudio, StartVideo, StartAudio, BeginTask, EndTask, EncodingDone
<1>2. ASSUME NEW w \in Worker, QuietWorker(w) PROVE FlagType'
    BY <1>2 DEF QuietWorker, Connect, SetupFails, ConnectFails, SetReady, WhileReady,
       Popped, StopVideo, StopAudio, StopReady, JoinWorker, ClearReady
<1>3. ASSUME NativeStart PROVE FlagType'
    BY <1>3 DEF NativeStart
<1>4. ASSUME JoinUI PROVE FlagType'
    BY <1>4 DEF JoinUI, Joined
<1>5. ASSUME NEW t \in Thread, StopQueue(t) PROVE FlagType'
    BY <1>5 DEF StopQueue, SetWork, Signal
<1>6. ASSUME NEW t \in {UI, Audio}, EncodedPacket(t) PROVE FlagType'
    BY <1>6 DEF EncodedPacket, PushNew, Signal, Free
<1>7. ASSUME NEW w \in Worker, PushAudioTag(w) PROVE FlagType'
    BY <1>7 DEF PushAudioTag, PushNew, Signal, Free
<1>8. ASSUME NEW w \in Worker, StartQueue(w) PROVE FlagType'
    BY <1>8 DEF StartQueue, SetWork, Signal
<1>9. ASSUME NEW w \in Worker, Waits(w) PROVE FlagType'
    BY <1>9 DEF Waits, PopBlocks
<1>10. ASSUME NEW w \in Worker, Pop(w) PROVE FlagType'
    BY <1>10 DEF Pop, PopReturns
<1>11. ASSUME NEW w \in Worker, Send(w) \/ DropLast(w) PROVE FlagType'
    BY <1>11 DEF Send, DropLast, Drop, Release, Free
<1>12. ASSUME NEW w \in Worker, ClearIsStart(w) PROVE FlagType'
    BY <1>12 DEF ClearIsStart
<1>13. ASSUME NEW w \in Worker, ClearWork(w) PROVE FlagType'
    BY <1>13 DEF ClearWork, SetWork, Signal
<1>14. ASSUME NEW w \in Worker, ClearQueue(w) PROVE FlagType'
    BY <1>14 DEF ClearQueue, Clear
<1>15. ASSUME Wakes PROVE FlagType'
    BY <1>15 DEF Wakes, SpuriousWakeup
<1>16. ASSUME UNCHANGED vars PROVE FlagType'
    BY <1>16 DEF vars
<1> QED
    BY <1>1, <1>2, <1>3, <1>4, <1>5, <1>6, <1>7, <1>8, <1>9, <1>10, <1>11, <1>12, <1>13,
       <1>14, <1>15, <1>16, StepKinds

\* The number the next worker gets.
LEMMA NextWorker ==
    ASSUME CountType, created < MaxWorkers
    PROVE  /\ created + 1 \in Worker /\ created + 1 > created
           /\ \A v \in Worker : v > created + 1 => v > created /\ v # created + 1
<1>1. MaxWorkers \in Nat /\ created \in 0 .. MaxWorkers /\ Worker = 1 .. MaxWorkers
    BY WorkerAssumption DEF CountType
<1> QED
    BY ONLY <1>1, created < MaxWorkers

\* pid, the number of workers created and that of tasks stay in their ranges.
LEMMA CountStep == CountType /\ [Next]_vars => CountType'
<1> SUFFICES ASSUME CountType, [Next]_vars PROVE CountType'
    OBVIOUS
<1> USE WorkerAssumption DEF CountType, NoWorker, startVars, javaVars, workerVars, queueVars
<1>1. ASSUME NEW t \in {UI, Audio}, QuietUI(t) PROVE CountType'
  <2>1. UNCHANGED <<pid, created>> /\ (tasks' = tasks \/ StartAudio \/ BeginTask)
    BY <1>1 DEF QuietUI, StopVideo, StopAudio, StopReady, CallStop, ReleasePusher,
           PushVideo, PushAudio, StartVideo, StartAudio, BeginTask, EndTask, EncodingDone
  <2>2. CASE tasks' = tasks
    BY <2>1, <2>2
  <2>3. CASE StartAudio
    <3>1. MaxWorkers \in Nat /\ tasks \in 0 .. MaxWorkers
      OBVIOUS
    <3>2. tasks' = IF tasks = MaxWorkers THEN tasks ELSE tasks + 1
      BY <2>3 DEF StartAudio
    <3>3. tasks' \in 0 .. MaxWorkers
      BY ONLY <3>1, <3>2
    <3> QED
      BY <2>1, <3>3
  <2>4. CASE BeginTask
    BY <2>1, <2>4 DEF BeginTask
  <2> QED
    BY <2>1, <2>2, <2>3, <2>4
<1>2. ASSUME NEW w \in Worker, QuietWorker(w) PROVE CountType'
    BY <1>2 DEF QuietWorker, Connect, SetupFails, ConnectFails, SetReady, WhileReady,
       Popped, StopVideo, StopAudio, StopReady, JoinWorker, ClearReady
<1>3. ASSUME NativeStart PROVE CountType'
  <2>1. tasks' = tasks
    BY <1>3 DEF NativeStart
  <2>2. CASE isStart
    BY <1>3, <2>1, <2>2 DEF NativeStart
  <2>3. CASE ~isStart
    <3>1. created < MaxWorkers /\ created' = created + 1 /\ pid' = created + 1
      BY <1>3, <2>3 DEF NativeStart
    <3> QED
      BY <2>1, <3>1
  <2> QED
    BY <2>2, <2>3
<1>4. ASSUME JoinUI PROVE CountType'
    BY <1>4 DEF JoinUI, Joined
<1>5. ASSUME NEW t \in Thread, StopQueue(t) PROVE CountType'
    BY <1>5 DEF StopQueue, SetWork, Signal
<1>6. ASSUME NEW t \in {UI, Audio}, EncodedPacket(t) PROVE CountType'
    BY <1>6 DEF EncodedPacket, PushNew, Signal, Free
<1>7. ASSUME NEW w \in Worker, PushAudioTag(w) PROVE CountType'
    BY <1>7 DEF PushAudioTag, PushNew, Signal, Free
<1>8. ASSUME NEW w \in Worker, StartQueue(w) PROVE CountType'
    BY <1>8 DEF StartQueue, SetWork, Signal
<1>9. ASSUME NEW w \in Worker, Waits(w) PROVE CountType'
    BY <1>9 DEF Waits, PopBlocks
<1>10. ASSUME NEW w \in Worker, Pop(w) PROVE CountType'
    BY <1>10 DEF Pop, PopReturns
<1>11. ASSUME NEW w \in Worker, Send(w) \/ DropLast(w) PROVE CountType'
    BY <1>11 DEF Send, DropLast, Drop, Release, Free
<1>12. ASSUME NEW w \in Worker, ClearIsStart(w) PROVE CountType'
    BY <1>12 DEF ClearIsStart
<1>13. ASSUME NEW w \in Worker, ClearWork(w) PROVE CountType'
    BY <1>13 DEF ClearWork, SetWork, Signal
<1>14. ASSUME NEW w \in Worker, ClearQueue(w) PROVE CountType'
    BY <1>14 DEF ClearQueue, Clear
<1>15. ASSUME Wakes PROVE CountType'
    BY <1>15 DEF Wakes, SpuriousWakeup
<1>16. ASSUME UNCHANGED vars PROVE CountType'
    BY <1>16 DEF vars
<1> QED
    BY <1>1, <1>2, <1>3, <1>4, <1>5, <1>6, <1>7, <1>8, <1>9, <1>10, <1>11, <1>12, <1>13,
       <1>14, <1>15, <1>16, StepKinds

\* The workers' own variables keep their types.
LEMMA WorkerTypeStep == WorkerType /\ [Next]_vars => WorkerType'
<1> SUFFICES ASSUME WorkerType, [Next]_vars PROVE WorkerType'
    OBVIOUS
<1> USE DEF WorkerType, NoPacket, startVars, javaVars, workerVars, queueVars
<1>1. ASSUME NEW t \in {UI, Audio}, QuietUI(t) PROVE WorkerType'
    BY <1>1 DEF QuietUI, StopVideo, StopAudio, StopReady, CallStop, ReleasePusher,
       PushVideo, PushAudio, StartVideo, StartAudio, BeginTask, EndTask, EncodingDone
<1>2. ASSUME NEW w \in Worker, QuietWorker(w) PROVE WorkerType'
    BY <1>2 DEF QuietWorker, Connect, SetupFails, ConnectFails, SetReady, WhileReady,
       Popped, StopVideo, StopAudio, StopReady, JoinWorker, ClearReady
<1>3. ASSUME NativeStart PROVE WorkerType'
    BY <1>3 DEF NativeStart
<1>4. ASSUME JoinUI PROVE WorkerType'
    BY <1>4 DEF JoinUI, Joined
<1>5. ASSUME NEW t \in Thread, StopQueue(t) PROVE WorkerType'
    BY <1>5 DEF StopQueue, SetWork, Signal
<1>6. ASSUME NEW t \in {UI, Audio}, EncodedPacket(t) PROVE WorkerType'
    BY <1>6 DEF EncodedPacket, PushNew, Signal, Free
<1>7. ASSUME NEW w \in Worker, PushAudioTag(w) PROVE WorkerType'
    BY <1>7 DEF PushAudioTag, PushNew, Signal, Free
<1>8. ASSUME NEW w \in Worker, StartQueue(w) PROVE WorkerType'
    BY <1>8 DEF StartQueue, SetWork, Signal
<1>9. ASSUME NEW w \in Worker, Waits(w) PROVE WorkerType'
    BY <1>9 DEF Waits, PopBlocks
<1>10. ASSUME NEW w \in Worker, Pop(w) PROVE WorkerType'
    BY <1>10 DEF Pop, PopReturns
<1>11. ASSUME NEW w \in Worker, Send(w) \/ DropLast(w) PROVE WorkerType'
    BY <1>11 DEF Send, DropLast, Drop, Release, Free
<1>12. ASSUME NEW w \in Worker, ClearIsStart(w) PROVE WorkerType'
    BY <1>12 DEF ClearIsStart
<1>13. ASSUME NEW w \in Worker, ClearWork(w) PROVE WorkerType'
    BY <1>13 DEF ClearWork, SetWork, Signal
<1>14. ASSUME NEW w \in Worker, ClearQueue(w) PROVE WorkerType'
    BY <1>14 DEF ClearQueue, Clear
<1>15. ASSUME Wakes PROVE WorkerType'
    BY <1>15 DEF Wakes, SpuriousWakeup
<1>16. ASSUME UNCHANGED vars PROVE WorkerType'
    BY <1>16 DEF vars
<1> QED
    BY <1>1, <1>2, <1>3, <1>4, <1>5, <1>6, <1>7, <1>8, <1>9, <1>10, <1>11, <1>12, <1>13,
       <1>14, <1>15, <1>16, StepKinds

\* The operations of the queue keep its type.
LEMMA MaxMadeNat == MaxMade \in Nat
  BY WorkerAssumption

\* ... push,
LEMMA PushNewType == QueueType /\ PushNew => QueueType'
<1> SUFFICES ASSUME QueueType, PushNew PROVE QueueType'
    OBVIOUS
<1>1. made + 1 \in Packet /\ made' \in 0 .. MaxMade
    BY MaxMadeNat DEF QueueType, PushNew, Packet
<1>2. CASE work
  <2>1. q' = Append(q, made + 1) /\ freed' = freed /\ blocked' \subseteq blocked
    BY <1>2 DEF PushNew, Signal
  <2> QED
    BY <1>1, <2>1 DEF QueueType
<1>3. CASE ~work
  <2>1. q' = q /\ blocked' = blocked /\ freed' = [freed EXCEPT ![made + 1] = @ + 1]
    BY <1>3 DEF PushNew, Free
  <2>2. freed' \in [Packet -> Nat]
    BY <1>1, <2>1 DEF QueueType
  <2> QED
    BY <1>1, <2>1, <2>2 DEF QueueType
<1> QED
    BY <1>2, <1>3

\* ... pop,
LEMMA PopType ==
    ASSUME QueueType, NEW w, NEW got, NEW got1, PopReturns(w, got, got1)
    PROVE  QueueType'
<1>1. q' = q \/ (q # <<>> /\ q' = Tail(q))
    BY DEF PopReturns
<1>2. q' \in Seq(Packet)
    BY <1>1, HeadTailProperties DEF QueueType
<1> QED
    BY <1>2 DEF PopReturns, QueueType

\* ... releasePackets,
LEMMA ReleaseType ==
    ASSUME QueueType, NEW p \in Packet \union {NoPacket}, Release(p)
    PROVE  QueueType'
<1>1. freed' = freed \/ (p \in Packet /\ freed' = [freed EXCEPT ![p] = @ + 1])
    BY DEF Release, Free
<1>2. freed' \in [Packet -> Nat]
    BY <1>1 DEF QueueType
<1> QED
    BY <1>2 DEF Release, QueueType

\* ... and clear.
LEMMA ClearType == QueueType /\ Clear => QueueType'
<1> SUFFICES ASSUME QueueType, Clear PROVE QueueType'
    OBVIOUS
<1>1. freed' \in [Packet -> Nat]
    BY DEF Clear, QueueType
<1>2. q' \in Seq(Packet)
    BY DEF Clear
<1> QED
    BY <1>1, <1>2 DEF Clear, QueueType

\* The queue keeps its type.
LEMMA QueueTypeStep == QueueType /\ WorkerType /\ [Next]_vars => QueueType'
<1> SUFFICES ASSUME QueueType, WorkerType, [Next]_vars PROVE QueueType'
    OBVIOUS
<1> USE DEF queueVars
<1>1. ASSUME NEW t \in {UI, Audio}, QuietUI(t) PROVE QueueType'
  <2>1. UNCHANGED queueVars
      BY <1>1 DEF QuietUI, StopVideo, StopAudio, StopReady, CallStop, ReleasePusher,
         PushVideo, PushAudio, StartVideo, StartAudio, BeginTask, EndTask, EncodingDone
  <2> QED
    BY <2>1 DEF QueueType
<1>2. ASSUME NEW w \in Worker, QuietWorker(w) PROVE QueueType'
  <2>1. UNCHANGED queueVars
      BY <1>2 DEF QuietWorker, Connect, SetupFails, ConnectFails, SetReady, WhileReady,
         Popped, StopVideo, StopAudio, StopReady, JoinWorker, ClearReady
  <2> QED
    BY <2>1 DEF QueueType
<1>3. ASSUME NativeStart PROVE QueueType'
    BY <1>3 DEF NativeStart, QueueType
<1>4. ASSUME JoinUI PROVE QueueType'
    BY <1>4 DEF JoinUI, Joined, QueueType
<1>5. ASSUME NEW t \in Thread, StopQueue(t) PROVE QueueType'
    BY <1>5 DEF StopQueue, SetWork, Signal, QueueType
<1>6. ASSUME NEW t \in {UI, Audio}, EncodedPacket(t) PROVE QueueType'
    BY <1>6, PushNewType DEF EncodedPacket
<1>7. ASSUME NEW w \in Worker, PushAudioTag(w) PROVE QueueType'
    BY <1>7, PushNewType DEF PushAudioTag
<1>8. ASSUME NEW w \in Worker, StartQueue(w) PROVE QueueType'
    BY <1>8 DEF StartQueue, SetWork, Signal, QueueType
<1>9. ASSUME NEW w \in Worker, Waits(w) PROVE QueueType'
    BY <1>9 DEF Waits, PopBlocks, QueueType
<1>10. ASSUME NEW w \in Worker, Pop(w) PROVE QueueType'
  <2>1. PICK p \in Packet \union {NoPacket} : PopReturns(w, packet[w], p)
    BY <1>10 DEF Pop
  <2> QED
    BY <2>1, PopType
<1>11. ASSUME NEW w \in Worker, Send(w) \/ DropLast(w) PROVE QueueType'
  <2>1. Release(packet[w]) /\ packet[w] \in Packet \union {NoPacket}
    BY <1>11 DEF Send, DropLast, Drop, WorkerType
  <2> QED
    BY <2>1, ReleaseType
<1>12. ASSUME NEW w \in Worker, ClearIsStart(w) PROVE QueueType'
    BY <1>12 DEF ClearIsStart, QueueType
<1>13. ASSUME NEW w \in Worker, ClearWork(w) PROVE QueueType'
    BY <1>13 DEF ClearWork, SetWork, Signal, QueueType
<1>14. ASSUME NEW w \in Worker, ClearQueue(w) PROVE QueueType'
    BY <1>14, ClearType DEF ClearQueue
<1>15. ASSUME Wakes PROVE QueueType'
    BY <1>15 DEF Wakes, SpuriousWakeup, QueueType
<1>16. ASSUME UNCHANGED vars PROVE QueueType'
    BY <1>16 DEF vars, QueueType
<1> QED
    BY <1>1, <1>2, <1>3, <1>4, <1>5, <1>6, <1>7, <1>8, <1>9, <1>10, <1>11, <1>12, <1>13,
       <1>14, <1>15, <1>16, StepKinds

\* What the steps of the UI and the audio thread leave alone.
LEMMA UIMoves ==
    ASSUME NEW t \in {UI, Audio}, QuietUI(t), PcType
    PROVE  /\ UNCHANGED <<startVars, packet, queueVars>>
           /\ \A w \in Worker : pc'[w] = pc[w]
<1> USE WorkerAssumption DEF PcType, Thread, Step, Goto, startVars, javaVars, workerVars
<1>1. CASE CallStop
    BY <1>1 DEF CallStop
<1>2. CASE ReleasePusher
    BY <1>2 DEF ReleasePusher
<1>3. CASE PushVideo
    BY <1>3 DEF PushVideo
<1>4. CASE PushAudio
    BY <1>4 DEF PushAudio
<1>5. CASE StartVideo
    BY <1>5 DEF StartVideo
<1>6. CASE StartAudio
    BY <1>6 DEF StartAudio
<1>7. CASE BeginTask
    BY <1>7 DEF BeginTask
<1>8. CASE EndTask
    BY <1>8 DEF EndTask
<1>9. CASE EncodingDone(t)
    BY <1>9 DEF EncodingDone
<1>10. CASE StopVideo(t)
    BY <1>10 DEF StopVideo
<1>11. CASE StopAudio(t)
    BY <1>11 DEF StopAudio
<1>12. CASE StopReady(t)
    BY <1>12 DEF StopReady
<1> QED
    BY <1>1, <1>2, <1>3, <1>4, <1>5, <1>6, <1>7, <1>8, <1>9, <1>10, <1>11, <1>12 DEF QuietUI

\* Where the quiet steps of a worker take it, and what they leave alone.
LEMMA WorkerMoves ==
    ASSUME NEW w \in Worker, QuietWorker(w), PcType
    PROVE  /\ UNCHANGED <<startVars, packet, queueVars>>
           /\ \A v \in Worker \ {w} : pc'[v] = pc[v]
           /\ pc[w] \notin {"not created", "pop", "clear queue"} /\ pc'[w] # "not created"
           /\ pc[w] \in ToStop => pc'[w] \in ToStop
           /\ pc[w] \in MainPart <=> pc'[w] \in MainPart
           /\ packet[w] # NoPacket /\ pc[w] \in {"popped", "send", "drop"}
                 => pc'[w] \in {"popped", "send", "drop"}
<1> USE DEF PcType, Thread, Step, Goto, startVars, javaVars, workerVars,
            ToStop, StopLabels, MainPart
<1>1. CASE Connect(w)
    BY <1>1 DEF Connect
<1>2. CASE SetupFails(w)
    BY <1>2 DEF SetupFails
<1>3. CASE ConnectFails(w)
    BY <1>3 DEF ConnectFails
<1>4. CASE SetReady(w)
    BY <1>4 DEF SetReady
<1>5. CASE WhileReady(w)
    BY <1>5 DEF WhileReady
<1>6. CASE Popped(w)
    BY <1>6 DEF Popped
<1>7. CASE StopVideo(w)
    BY <1>7 DEF StopVideo
<1>8. CASE StopAudio(w)
    BY <1>8 DEF StopAudio
<1>9. CASE StopReady(w)
    BY <1>9 DEF StopReady
<1>10. CASE JoinWorker(w)
    BY <1>10 DEF JoinWorker
<1>11. CASE ClearReady(w)
    BY <1>11 DEF ClearReady
<1> QED
    BY <1>1, <1>2, <1>3, <1>4, <1>5, <1>6, <1>7, <1>8, <1>9, <1>10, <1>11 DEF QuietWorker

\* Workers are numbered in order, and hold packets only where start() has one.
LEMMA WorkerStep ==
    PcType /\ CountType /\ WorkerType /\ WorkerInv /\ [Next]_vars
        => WorkerInv'
<1> SUFFICES ASSUME PcType, CountType, WorkerType, WorkerInv, [Next]_vars PROVE WorkerInv'
    OBVIOUS
<1> USE WorkerAssumption DEF PcType, CountType, WorkerType, WorkerInv, Thread, Step, Goto,
       NoPacket, startVars, javaVars, workerVars, queueVars
<1>1. ASSUME NEW t \in {UI, Audio}, QuietUI(t) PROVE WorkerInv'
    BY <1>1, UIMoves
<1>2. ASSUME NEW w \in Worker, QuietWorker(w) PROVE WorkerInv'
  <2>1. UNCHANGED <<pid, created, packet>> /\ \A v \in Worker \ {w} : pc'[v] = pc[v]
    BY <1>2, WorkerMoves
  <2>2. w > created' => pc'[w] = "not created"
    BY <1>2, <2>1, WorkerMoves
  <2>3. packet'[w] # NoPacket => pc'[w] \in {"popped", "send", "drop"}
    BY <1>2, <2>1, WorkerMoves
  <2> QED
    BY ONLY <2>1, <2>2, <2>3, WorkerInv DEF WorkerInv, NoPacket
<1>3. ASSUME NativeStart PROVE WorkerInv'
  <2>1. packet' = packet /\ \A v \in Worker : v # created + 1 => pc'[v] = pc[v]
    BY <1>3 DEF NativeStart
  <2>2. CASE isStart
    <3>1. UNCHANGED <<pid, created>> /\ \A v \in Worker : pc'[v] = pc[v]
      BY <1>3, <2>2 DEF NativeStart
    <3> QED
      BY <2>1, <3>1
  <2>3. CASE ~isStart
    <3>1. created' = created + 1 /\ pid' = created + 1 /\ created < MaxWorkers
      BY <1>3, <2>3 DEF NativeStart
    <3>2. created + 1 \in Worker /\ created + 1 > created
      BY ONLY <3>1, NextWorker, CountType
    <3>3. pc[created + 1] = "not created"
      BY ONLY <3>2, WorkerInv DEF WorkerInv
    <3>4. \A v \in Worker : v > created' => v > created /\ v # created + 1
      BY ONLY <3>1, NextWorker, CountType
    <3>5. \A v \in Worker : packet[v] # NoPacket => v # created + 1
      BY <3>3
    <3> QED
      BY <2>1, <3>1, <3>4, <3>5
  <2> QED
    BY <2>2, <2>3
<1>4. ASSUME JoinUI PROVE WorkerInv'
    BY <1>4 DEF JoinUI, Joined
<1>5. ASSUME NEW t \in Thread, StopQueue(t) PROVE WorkerInv'
    BY <1>5 DEF StopQueue, SetWork, Signal
<1>6. ASSUME NEW t \in {UI, Audio}, EncodedPacket(t) PROVE WorkerInv'
    BY <1>6 DEF EncodedPacket, PushNew, Signal, Free
<1>7. ASSUME NEW w \in Worker, PushAudioTag(w) PROVE WorkerInv'
    BY <1>7 DEF PushAudioTag, PushNew, Signal, Free
<1>8. ASSUME NEW w \in Worker, StartQueue(w) PROVE WorkerInv'
    BY <1>8 DEF StartQueue, SetWork, Signal
<1>9. ASSUME NEW w \in Worker, Waits(w) PROVE WorkerInv'
    BY <1>9 DEF Waits, PopBlocks
<1>10. ASSUME NEW w \in Worker, Pop(w) PROVE WorkerInv'
    BY <1>10 DEF Pop, PopReturns
<1>11. ASSUME NEW w \in Worker, Send(w) \/ DropLast(w) PROVE WorkerInv'
  <2>1. UNCHANGED <<pid, created>> /\ packet' = [packet EXCEPT ![w] = NoPacket]
    BY <1>11 DEF Send, DropLast, Drop
  <2>2. (\A v \in Worker \ {w} : pc'[v] = pc[v]) /\ pc[w] # "not created"
    BY <1>11 DEF Send, DropLast
  <2> QED
    BY <2>1, <2>2
<1>12. ASSUME NEW w \in Worker, ClearIsStart(w) PROVE WorkerInv'
    BY <1>12 DEF ClearIsStart
<1>13. ASSUME NEW w \in Worker, ClearWork(w) PROVE WorkerInv'
    BY <1>13 DEF ClearWork, SetWork, Signal
<1>14. ASSUME NEW w \in Worker, ClearQueue(w) PROVE WorkerInv'
    BY <1>14 DEF ClearQueue, Clear
<1>15. ASSUME Wakes PROVE WorkerInv'
    BY <1>15 DEF Wakes, SpuriousWakeup
<1>16. ASSUME UNCHANGED vars PROVE WorkerInv'
    BY <1>16 DEF vars
<1> QED
    BY <1>1, <1>2, <1>3, <1>4, <1>5, <1>6, <1>7, <1>8, <1>9, <1>10, <1>11, <1>12, <1>13,
       <1>14, <1>15, <1>16, StepKinds

\* A step that changes neither isStart, pid nor who is in the part isStart guards.
Kept ==
    /\ UNCHANGED startVars
    /\ \A w \in Worker : pc'[w] \in MainPart <=> pc[w] \in MainPart

\* Such a step keeps what isStart and the join establish.
LEMMA KeptPushing ==
    ASSUME Kept, OneWorkerPushes, StoppedMeansStopped
    PROVE  OneWorkerPushes' /\ StoppedMeansStopped'
<1>1. Pushing' = Pushing
    BY DEF Kept, Pushing
<1> QED
    BY <1>1 DEF Kept, startVars, OneWorkerPushes, StoppedMeansStopped

\* isStart lets no second worker in, and the join waits for the only one there is.
LEMMA PushingStep ==
    PcType /\ CountType /\ WorkerInv /\ OneWorkerPushes /\ StoppedMeansStopped /\ [Next]_vars
        => OneWorkerPushes' /\ StoppedMeansStopped'
<1> SUFFICES ASSUME PcType, CountType, WorkerInv, OneWorkerPushes, StoppedMeansStopped,
                    [Next]_vars
             PROVE  OneWorkerPushes' /\ StoppedMeansStopped'
    OBVIOUS
<1>1. ASSUME NEW t \in {UI, Audio}, QuietUI(t) PROVE OneWorkerPushes' /\ StoppedMeansStopped'
  <2>1. Kept
    BY <1>1, UIMoves DEF Kept
  <2> QED
    BY <2>1, KeptPushing
<1>2. ASSUME NEW w \in Worker, QuietWorker(w) PROVE OneWorkerPushes' /\ StoppedMeansStopped'
  <2>1. Kept
    BY <1>2, WorkerMoves DEF Kept
  <2> QED
    BY <2>1, KeptPushing
<1>3. ASSUME NativeStart PROVE OneWorkerPushes' /\ StoppedMeansStopped'
  <2>1. CASE isStart
    <3>1. UNCHANGED <<isStart, pid>> /\ (\A w \in Worker : pc'[w] = pc[w]) /\ ~stopped'
      BY <1>3, <2>1, WorkerAssumption DEF NativeStart, Goto, PcType, Thread
    <3>2. Pushing' = Pushing
      BY <3>1 DEF Pushing
    <3> QED
      BY <3>1, <3>2 DEF OneWorkerPushes, StoppedMeansStopped
  <2>2. CASE ~isStart
    <3>1. isStart' /\ ~stopped' /\ pid' = created + 1
      BY <1>3, <2>2 DEF NativeStart
    <3>2. created + 1 \in Worker
      BY <1>3, <2>2, NextWorker DEF NativeStart
    <3>3. pc'[created + 1] = "connect" /\ \A w \in Worker : w # created + 1 => pc'[w] = pc[w]
      BY <1>3, <2>2, <3>2, WorkerAssumption DEF NativeStart, PcType, Thread
    <3>4. Pushing = {}
      BY <2>2 DEF OneWorkerPushes
    <3>5. Pushing' = {created + 1}
      BY <3>2, <3>3, <3>4 DEF Pushing, MainPart
    <3> QED
      BY <3>1, <3>5 DEF OneWorkerPushes, StoppedMeansStopped
  <2> QED
    BY <2>1, <2>2
<1>4. ASSUME JoinUI PROVE OneWorkerPushes' /\ StoppedMeansStopped'
  <2>1. UNCHANGED <<isStart, pid>> /\ \A w \in Worker : pc'[w] = pc[w]
    BY <1>4, WorkerAssumption DEF JoinUI, Step, Goto, PcType, Thread
  <2>2. Pushing' = Pushing
    BY <2>1 DEF Pushing
  <2>3. \A w \in Worker : w = pid => pc[w] = "ended"
    BY <1>4, WorkerAssumption DEF JoinUI, Joined
  <2>4. Pushing = {}
    BY <2>3 DEF OneWorkerPushes, Pushing, MainPart, StopLabels
  <2> QED
    BY <2>1, <2>2, <2>4 DEF OneWorkerPushes, StoppedMeansStopped
<1>5. ASSUME NEW t \in Thread, StopQueue(t) PROVE OneWorkerPushes' /\ StoppedMeansStopped'
  <2>1. Kept
    BY <1>5 DEF Kept, PcType, Thread, Step, Goto, MainPart, StopLabels, startVars, StopQueue,
       SetWork, Signal
  <2> QED
    BY <2>1, KeptPushing
<1>6. ASSUME NEW t \in {UI, Audio}, EncodedPacket(t)
      PROVE  OneWorkerPushes' /\ StoppedMeansStopped'
  <2>1. Kept
    BY <1>6 DEF Kept, PcType, Thread, Step, Goto, MainPart, StopLabels, startVars,
       EncodedPacket, PushNew, Signal, Free
  <2> QED
    BY <2>1, KeptPushing
<1>7. ASSUME NEW w \in Worker, PushAudioTag(w) PROVE OneWorkerPushes' /\ StoppedMeansStopped'
  <2>1. Kept
    BY <1>7 DEF Kept, PcType, Thread, Step, Goto, MainPart, StopLabels, startVars,
       PushAudioTag, PushNew, Signal, Free
  <2> QED
    BY <2>1, KeptPushing
<1>8. ASSUME NEW w \in Worker, StartQueue(w) PROVE OneWorkerPushes' /\ StoppedMeansStopped'
  <2>1. Kept
    BY <1>8 DEF Kept, PcType, Thread, Step, Goto, MainPart, StopLabels, startVars, StartQueue,
       SetWork, Signal
  <2> QED
    BY <2>1, KeptPushing
<1>9. ASSUME NEW w \in Worker, Waits(w) PROVE OneWorkerPushes' /\ StoppedMeansStopped'
  <2>1. Kept
    BY <1>9 DEF Kept, PcType, Thread, Step, Goto, MainPart, StopLabels, startVars, Waits,
       PopBlocks
  <2> QED
    BY <2>1, KeptPushing
<1>10. ASSUME NEW w \in Worker, Pop(w) PROVE OneWorkerPushes' /\ StoppedMeansStopped'
  <2>1. Kept
    BY <1>10 DEF Kept, PcType, Thread, Step, Goto, MainPart, StopLabels, startVars, Pop,
       PopReturns
  <2> QED
    BY <2>1, KeptPushing
<1>11. ASSUME NEW w \in Worker, Send(w) \/ DropLast(w)
       PROVE  OneWorkerPushes' /\ StoppedMeansStopped'
  <2>1. UNCHANGED startVars /\ \A v \in Worker \ {w} : pc'[v] = pc[v]
    BY <1>11 DEF Send, DropLast, PcType, Thread, Step, Goto
  <2>2. pc[w] \in MainPart /\ pc'[w] \in MainPart
    BY <1>11 DEF Send, DropLast, PcType, Thread, Step, Goto, MainPart, StopLabels
  <2>3. Kept
    BY <2>1, <2>2 DEF Kept
  <2> QED
    BY <2>3, KeptPushing
<1>12. ASSUME NEW w \in Worker, ClearIsStart(w) PROVE OneWorkerPushes' /\ StoppedMeansStopped'
  <2>1. ~isStart' /\ UNCHANGED <<pid, stopped>>
    BY <1>12 DEF ClearIsStart
  <2>2. pc[w] = "clear isStart" /\ pc' = [pc EXCEPT ![w] = "clear ready"]
    BY <1>12 DEF ClearIsStart, Step, Goto
  <2>3. w \in Pushing
    BY <2>2 DEF Pushing, MainPart
  <2>4. Pushing = {w}
    BY <2>3 DEF OneWorkerPushes
  <2>5. \A v \in Worker \ {w} : pc'[v] = pc[v] /\ pc[v] \notin MainPart
    BY <2>2, <2>4 DEF Pushing, PcType, Thread
  <2>6. pc'[w] \notin MainPart
    BY <2>2 DEF PcType, Thread, MainPart, StopLabels
  <2>7. Pushing' = {}
    BY <2>5, <2>6 DEF Pushing
  <2> QED
    BY <2>1, <2>7 DEF OneWorkerPushes, StoppedMeansStopped
<1>13. ASSUME NEW w \in Worker, ClearWork(w) PROVE OneWorkerPushes' /\ StoppedMeansStopped'
  <2>1. Kept
    BY <1>13 DEF Kept, PcType, Thread, Step, Goto, MainPart, StopLabels, startVars, ClearWork,
       SetWork, Signal
  <2> QED
    BY <2>1, KeptPushing
<1>14. ASSUME NEW w \in Worker, ClearQueue(w) PROVE OneWorkerPushes' /\ StoppedMeansStopped'
  <2>1. Kept
    BY <1>14 DEF Kept, PcType, Thread, Step, Goto, MainPart, StopLabels, startVars, ClearQueue,
       Clear
  <2> QED
    BY <2>1, KeptPushing
<1>15. ASSUME Wakes PROVE OneWorkerPushes' /\ StoppedMeansStopped'
  <2>1. Kept
    BY <1>15 DEF Kept, PcType, Thread, Step, Goto, MainPart, StopLabels, startVars, Wakes,
       SpuriousWakeup
  <2> QED
    BY <2>1, KeptPushing
<1>16. ASSUME UNCHANGED vars PROVE OneWorkerPushes' /\ StoppedMeansStopped'
  <2>1. Kept
    BY <1>16 DEF Kept, PcType, Thread, Step, Goto, MainPart, StopLabels, startVars, vars
  <2> QED
    BY <2>1, KeptPushing
<1> QED
    BY <1>1, <1>2, <1>3, <1>4, <1>5, <1>6, <1>7, <1>8, <1>9, <1>10, <1>11, <1>12, <1>13,
       <1>14, <1>15, <1>16, StepKinds

\* At most one thread is ever asleep, so that one signal is enough.
LEMMA SignalIsEnough ==
    ASSUME QueueInv, OneWorkerPushes, QueueType, Signal
    PROVE  blocked' = {}
<1>1. blocked \subseteq Pushing
    BY DEF QueueInv, QueueType, Pushing, MainPart
<1>2. \A v, w \in blocked : v = w
    BY <1>1 DEF OneWorkerPushes
<1> QED
    BY <1>2 DEF Signal

\* The queue's invariant survives a step that leaves the queue alone, wakes nobody but
\* may wake someone, and takes no worker back.
LEMMA QueueKept ==
    ASSUME QueueInv, NoMissedWakeup, UNCHANGED <<q, work>>, blocked' \subseteq blocked,
           \A v \in blocked' : pc'[v] = pc[v],
           \A v \in Worker : /\ pc[v] \in ToStop => pc'[v] \in ToStop
                             /\ pc[v] = "clear queue" => pc'[v] = "clear queue"
    PROVE  QueueInv' /\ NoMissedWakeup'
  BY DEF QueueInv, NoMissedWakeup

\* An encoder's push keeps the queue's invariant: the one thread asleep is woken.
LEMMA PushKeeps ==
    ASSUME QueueInv, NoMissedWakeup, OneWorkerPushes, QueueType, PushNew, pc' = pc
    PROVE  QueueInv' /\ NoMissedWakeup'
<1>1. CASE work
  <2>1. Signal /\ work'
    BY <1>1 DEF PushNew
  <2>2. blocked' = {}
    BY <2>1, SignalIsEnough
  <2> QED
    BY <1>1, <2>1, <2>2 DEF QueueInv, NoMissedWakeup
<1>2. CASE ~work
    BY <1>2, QueueKept DEF PushNew
<1> QED
    BY <1>1, <1>2

\* The queue works, and holds packets, only as long as a worker has yet to stop and clear it.
LEMMA QueueStep ==
    PcType /\ CountType /\ WorkerInv /\ QueueType /\ OneWorkerPushes /\ QueueInv
        /\ NoMissedWakeup /\ [Next]_vars
        => QueueInv' /\ NoMissedWakeup'
<1> SUFFICES ASSUME PcType, CountType, WorkerInv, QueueType, OneWorkerPushes, QueueInv,
                    NoMissedWakeup, [Next]_vars
             PROVE  QueueInv' /\ NoMissedWakeup'
    OBVIOUS
<1>1. ASSUME NEW t \in {UI, Audio}, QuietUI(t) PROVE QueueInv' /\ NoMissedWakeup'
    BY <1>1, UIMoves, QueueKept DEF queueVars, QueueType
<1>2. ASSUME NEW w \in Worker, QuietWorker(w) PROVE QueueInv' /\ NoMissedWakeup'
  <2>1. w \notin blocked /\ UNCHANGED queueVars /\ \A v \in Worker \ {w} : pc'[v] = pc[v]
    BY <1>2, WorkerMoves DEF QueueInv
  <2>2. /\ pc[w] \in ToStop => pc'[w] \in ToStop
        /\ pc[w] # "clear queue"
    BY <1>2, WorkerMoves
  <2> QED
    BY <2>1, <2>2, QueueKept DEF queueVars, QueueType
<1>3. ASSUME NativeStart PROVE QueueInv' /\ NoMissedWakeup'
  <2>1. \A v \in Worker : pc[v] # "not created" => pc'[v] = pc[v]
    <3>1. CASE isStart
      BY <1>3, <3>1, WorkerAssumption DEF NativeStart, Goto, PcType, Thread
    <3>2. CASE ~isStart
      <4>1. created < MaxWorkers
            /\ pc' = [pc EXCEPT ![UI] = "start video", ![created + 1] = "connect"]
        BY <1>3, <3>2 DEF NativeStart
      <4>2. created + 1 \in Worker /\ pc[created + 1] = "not created"
        BY <4>1, NextWorker DEF WorkerInv
      <4> QED
        BY <4>1, <4>2, WorkerAssumption DEF PcType, Thread
    <3> QED
      BY <3>1, <3>2
  <2>2. UNCHANGED queueVars
    BY <1>3 DEF NativeStart
  <2>3. "not created" \notin ToStop
    BY DEF ToStop, StopLabels
  <2> QED
    BY <2>1, <2>2, <2>3, QueueKept DEF queueVars, QueueInv, QueueType
<1>4. ASSUME JoinUI PROVE QueueInv' /\ NoMissedWakeup'
  <2>1. UNCHANGED queueVars /\ \A v \in Worker : pc'[v] = pc[v]
    BY <1>4, WorkerAssumption DEF JoinUI, Step, Goto, PcType, Thread
  <2> QED
    BY <2>1, QueueKept DEF queueVars, QueueType
<1>5. ASSUME NEW t \in Thread, StopQueue(t) PROVE QueueInv' /\ NoMissedWakeup'
  <2>1. ~work' /\ q' = q /\ Signal
    BY <1>5 DEF StopQueue, SetWork
  <2>2. blocked' = {}
    BY <2>1, SignalIsEnough
  <2>3. \A v \in Worker : /\ pc[v] \in ToStop => pc'[v] \in ToStop
                          /\ pc[v] = "clear queue" => pc'[v] = "clear queue"
    BY <1>5 DEF StopQueue, PcType, Thread, Step, Goto, ToStop, StopLabels
  <2> QED
    BY <2>1, <2>2, <2>3 DEF QueueInv, NoMissedWakeup
<1>6. ASSUME NEW t \in {UI, Audio}, EncodedPacket(t) PROVE QueueInv' /\ NoMissedWakeup'
    BY <1>6, PushKeeps DEF EncodedPacket
<1>7. ASSUME NEW w \in Worker, PushAudioTag(w) PROVE QueueInv' /\ NoMissedWakeup'
  <2>1. CASE work
    <3>1. Signal /\ work'
      BY <1>7, <2>1 DEF PushAudioTag, PushNew
    <3>2. blocked' = {}
      BY <3>1, SignalIsEnough
    <3>3. pc'[w] \in ToStop
      BY <1>7 DEF PushAudioTag, PcType, Thread, Step, Goto, ToStop
    <3> QED
      BY <3>1, <3>2, <3>3 DEF QueueInv, NoMissedWakeup
  <2>2. CASE ~work
    <3>1. UNCHANGED <<q, work, blocked>> /\ w \notin blocked
      BY <1>7, <2>2 DEF PushAudioTag, PushNew, QueueInv, Step
    <3>2. pc[w] = "tag" /\ pc'[w] = "loop" /\ \A v \in Worker \ {w} : pc'[v] = pc[v]
      BY <1>7 DEF PushAudioTag, PcType, Thread, Step, Goto
    <3>3. "loop" \in ToStop
      BY DEF ToStop
    <3> QED
      BY <3>1, <3>2, <3>3, QueueKept DEF QueueType
  <2> QED
    BY <2>1, <2>2
<1>8. ASSUME NEW w \in Worker, StartQueue(w) PROVE QueueInv' /\ NoMissedWakeup'
  <2>1. work' /\ q' = q /\ Signal
    BY <1>8 DEF StartQueue, SetWork
  <2>2. blocked' = {}
    BY <2>1, SignalIsEnough
  <2>3. pc'[w] \in ToStop
    BY <1>8 DEF StartQueue, PcType, Thread, Step, Goto, ToStop
  <2> QED
    BY <2>1, <2>2, <2>3 DEF QueueInv, NoMissedWakeup
<1>9. ASSUME NEW w \in Worker, Waits(w) PROVE QueueInv' /\ NoMissedWakeup'
    BY <1>9 DEF Waits, PopBlocks, QueueInv, NoMissedWakeup
<1>10. ASSUME NEW w \in Worker, Pop(w) PROVE QueueInv' /\ NoMissedWakeup'
  <2>1. w \notin blocked /\ UNCHANGED <<work, blocked>> /\ (q' # <<>> => q # <<>>)
    BY <1>10 DEF Pop, PopReturns
  <2>2. pc[w] = "pop" /\ pc'[w] = "popped" /\ \A v \in Worker \ {w} : pc'[v] = pc[v]
    BY <1>10 DEF Pop, PcType, Thread, Step, Goto
  <2>3. "popped" \in ToStop
    BY DEF ToStop
  <2>4. blocked = {} \/ q' = q
    BY <1>10 DEF Pop, PopReturns, NoMissedWakeup
  <2> QED
    BY <2>1, <2>2, <2>3, <2>4 DEF QueueInv, NoMissedWakeup, QueueType
<1>11. ASSUME NEW w \in Worker, Send(w) \/ DropLast(w) PROVE QueueInv' /\ NoMissedWakeup'
  <2>1. UNCHANGED <<q, work, blocked>> /\ w \notin blocked
    BY <1>11 DEF Send, DropLast, Drop, Release, QueueInv, Step
  <2>2. pc[w] \in {"send", "drop"} /\ \A v \in Worker \ {w} : pc'[v] = pc[v]
    BY <1>11 DEF Send, DropLast, PcType, Thread, Step, Goto
  <2>3. pc'[w] \in ToStop
    BY <1>11 DEF Send, DropLast, PcType, Thread, Step, Goto, ToStop, StopLabels
  <2> QED
    BY <2>1, <2>2, <2>3, QueueKept DEF QueueType
<1>12. ASSUME NEW w \in Worker, ClearIsStart(w) PROVE QueueInv' /\ NoMissedWakeup'
  <2>1. UNCHANGED queueVars /\ w \notin blocked
    BY <1>12 DEF ClearIsStart, QueueInv, Step
  <2>2. /\ pc[w] = "clear isStart" /\ pc'[w] = "clear ready"
        /\ \A v \in Worker \ {w} : pc'[v] = pc[v]
    BY <1>12 DEF ClearIsStart, PcType, Thread, Step, Goto
  <2>3. "clear ready" \in ToStop
    BY DEF ToStop
  <2> QED
    BY <2>1, <2>2, <2>3, QueueKept DEF queueVars, QueueType
<1>13. ASSUME NEW w \in Worker, ClearWork(w) PROVE QueueInv' /\ NoMissedWakeup'
  <2>1. ~work' /\ q' = q /\ Signal
    BY <1>13 DEF ClearWork, SetWork
  <2>2. blocked' = {}
    BY <2>1, SignalIsEnough
  <2>3. pc'[w] = "clear queue"
    BY <1>13 DEF ClearWork, PcType, Thread, Step, Goto
  <2> QED
    BY <2>1, <2>2, <2>3 DEF QueueInv, NoMissedWakeup
<1>14. ASSUME NEW w \in Worker, ClearQueue(w) PROVE QueueInv' /\ NoMissedWakeup'
  <2>1. q' = <<>> /\ UNCHANGED <<work, blocked>>
    BY <1>14 DEF ClearQueue, Clear
  <2>2. pc[w] = "clear queue" /\ \A v \in Worker \ {w} : pc'[v] = pc[v]
    BY <1>14 DEF ClearQueue, PcType, Thread, Step, Goto
  <2>3. "clear queue" \notin ToStop
    BY DEF ToStop, StopLabels
  <2> QED
    BY <2>1, <2>2, <2>3 DEF QueueInv, NoMissedWakeup, QueueType
<1>15. ASSUME Wakes PROVE QueueInv' /\ NoMissedWakeup'
    BY <1>15, QueueKept DEF Wakes, SpuriousWakeup, QueueType
<1>16. ASSUME UNCHANGED vars PROVE QueueInv' /\ NoMissedWakeup'
    BY <1>16, QueueKept DEF vars, queueVars
<1> QED
    BY <1>1, <1>2, <1>3, <1>4, <1>5, <1>6, <1>7, <1>8, <1>9, <1>10, <1>11, <1>12, <1>13,
       <1>14, <1>15, <1>16, StepKinds

\* The four things that happen to packets keep every packet with one owner.
LEMMA OwnerPush ==
    ASSUME QueueType, WorkerType, OwnerInv, PushNew, packet' = packet
    PROVE  OwnerInv'
<1>1. /\ made + 1 \in Packet /\ made' = made + 1 /\ freed[made + 1] = 0
      /\ ~InQueue(made + 1) /\ ~Held(made + 1)
      /\ \A p \in Packet : p > made' => p > made /\ p # made + 1
      /\ \A p \in Packet : p <= made' <=> p <= made \/ p = made + 1
  <2>1. made \in Nat /\ MaxMade \in Nat /\ made < MaxMade /\ made' = made + 1
    BY MaxMadeNat DEF QueueType, PushNew
  <2>2. /\ made + 1 \in Packet /\ made + 1 > made /\ ~(made + 1 <= made)
        /\ \A p \in Packet : p > made + 1 => p > made /\ p # made + 1
        /\ \A p \in Packet : p <= made + 1 <=> p <= made \/ p = made + 1
    BY ONLY <2>1 DEF Packet
  <2> QED
    BY <2>1, <2>2 DEF OwnerInv
<1>2. \A p \in Packet : Held(p)' <=> Held(p)
    BY DEF Held
<1>3. CASE work
  <2>1. q' = Append(q, made + 1) /\ freed' = freed /\ q \in Seq(Packet)
    BY <1>3 DEF PushNew, QueueType
  <2>2. /\ DOMAIN q' = DOMAIN q \union {Len(q) + 1} /\ Len(q) + 1 \notin DOMAIN q
        /\ q'[Len(q) + 1] = made + 1
        /\ \A i \in DOMAIN q : q'[i] = q[i]
    BY ONLY <2>1, <1>1, AppendProperties, LenProperties
  <2>3. \A p \in Packet : InQueue(p)' <=> InQueue(p) \/ p = made + 1
    BY <2>2 DEF InQueue
  <2>4. \A i \in DOMAIN q : q[i] # made + 1
    BY <1>1 DEF InQueue
  <2>5. \A i, j \in DOMAIN q' : q'[i] = q'[j] => i = j
    BY <2>2, <2>4 DEF OwnerInv
  <2> QED
    BY <1>1, <1>2, <2>1, <2>3, <2>5 DEF OwnerInv, Held
<1>4. CASE ~work
  <2>1. q' = q /\ freed' = [freed EXCEPT ![made + 1] = @ + 1]
    BY <1>4 DEF PushNew, Free
  <2>2. \A p \in Packet : InQueue(p)' <=> InQueue(p)
    BY <2>1 DEF InQueue
  <2>3. freed'[made + 1] = 1 /\ \A p \in Packet : p # made + 1 => freed'[p] = freed[p]
    BY <1>1, <2>1 DEF QueueType
  <2> QED
    BY <1>1, <1>2, <2>1, <2>2, <2>3 DEF OwnerInv
<1> QED
    BY <1>3, <1>4

\* pop hands the packet over,
LEMMA OwnerPop ==
    ASSUME QueueType, WorkerType, OwnerInv, NEW w \in Worker, packet[w] = NoPacket,
           NEW p, PopReturns(w, packet[w], p), packet' = [packet EXCEPT ![w] = p]
    PROVE  OwnerInv'
<1>1. UNCHANGED <<made, freed>>
    BY DEF PopReturns
<1>2. CASE q # <<>>
  <2>1. p = Head(q) /\ q' = Tail(q) /\ q \in Seq(Packet)
    BY <1>2 DEF PopReturns, QueueType
  <2>2. /\ p = q[1] /\ 1 \in DOMAIN q /\ p \in Packet
        /\ \A i \in DOMAIN q' : i + 1 \in DOMAIN q /\ q'[i] = q[i + 1] /\ i + 1 # 1
        /\ \A i \in DOMAIN q : i # 1 => i - 1 \in DOMAIN q' /\ q'[i - 1] = q[i]
        /\ \A i, j \in DOMAIN q' : i + 1 = j + 1 => i = j
    BY ONLY <1>2, <2>1, EmptySeq, ElementOfSeq, LenProperties, HeadTailProperties
  <2>3. \A i, j \in DOMAIN q' : q'[i] = q'[j] => i = j
    BY <2>2 DEF OwnerInv
  <2>4. \A r \in Packet : InQueue(r)' <=> InQueue(r) /\ r # p
    BY <2>2 DEF InQueue, OwnerInv
  <2>5. InQueue(p) /\ ~Held(p)
    BY <2>2 DEF InQueue, OwnerInv
  <2>6. packet'[w] = p /\ \A v \in Worker \ {w} : packet'[v] = packet[v] /\ packet[v] # p
    BY <2>5 DEF WorkerType, Held
  <2>7. \A r \in Packet : Held(r)' <=> Held(r) \/ r = p
    BY <2>6 DEF Held, NoPacket, Packet
  <2>8. \A u, v \in Worker : packet'[u] = packet'[v] /\ packet'[v] # NoPacket => u = v
    BY <2>6 DEF OwnerInv
  <2> QED
    BY <1>1, <2>3, <2>4, <2>5, <2>7, <2>8 DEF OwnerInv
<1>3. CASE q = <<>>
  <2>1. q' = q /\ packet' = packet
    BY <1>3 DEF PopReturns, WorkerType
  <2> QED
    BY <1>1, <2>1 DEF OwnerInv, InQueue, Held
<1> QED
    BY <1>2, <1>3

\* releasePackets frees what the worker held,
LEMMA OwnerDrop ==
    ASSUME QueueType, WorkerType, OwnerInv, NEW w \in Worker, Drop(w)
    PROVE  OwnerInv'
<1> DEFINE r == packet[w]
<1>1. UNCHANGED <<q, made>> /\ packet' = [packet EXCEPT ![w] = NoPacket]
    BY DEF Drop, Release
<1>2. \A p \in Packet : InQueue(p)' <=> InQueue(p)
    BY <1>1 DEF InQueue
<1>3. \A u, v \in Worker : packet'[u] = packet'[v] /\ packet'[v] # NoPacket => u = v
    BY <1>1 DEF OwnerInv, WorkerType
<1>4. CASE r = NoPacket
  <2>1. packet' = packet /\ freed' = freed
    BY <1>1, <1>4 DEF Drop, Release, WorkerType
  <2> QED
    BY <1>1, <1>2, <2>1 DEF OwnerInv, Held
<1>5. CASE r # NoPacket
  <2>1. r \in Packet /\ freed' = [freed EXCEPT ![r] = @ + 1]
    BY <1>5 DEF Drop, Release, Free, WorkerType
  <2>2. Held(r) /\ freed[r] = 0 /\ ~InQueue(r) /\ r <= made
    BY <2>1 DEF Held, OwnerInv
  <2>3. \A p \in Packet : Held(p)' <=> Held(p) /\ p # r
    <3>1. \A v \in Worker \ {w} : packet'[v] = packet[v] /\ packet[v] # r
      BY <1>1, <1>5 DEF WorkerType, OwnerInv
    <3>2. packet'[w] = NoPacket
      BY <1>1 DEF WorkerType
    <3> QED
      BY <3>1, <3>2 DEF Held, NoPacket, Packet
  <2>4. freed'[r] = 1 /\ \A p \in Packet : p # r => freed'[p] = freed[p]
    BY <2>1, <2>2 DEF QueueType
  <2>5. ~(r > made)
    BY <2>1, <2>2, MaxMadeNat DEF QueueType, Packet
  <2> QED
    BY <1>1, <1>2, <1>3, <2>2, <2>3, <2>4, <2>5 DEF OwnerInv
<1> QED
    BY <1>4, <1>5

\* clear frees what the queue held,
LEMMA OwnerClear ==
    ASSUME QueueType, WorkerType, OwnerInv, Clear, packet' = packet
    PROVE  OwnerInv'
<1>1. q' = <<>> /\ made' = made
    BY DEF Clear
<1>2. \A p \in Packet : ~InQueue(p)' /\ (Held(p)' <=> Held(p))
    BY <1>1 DEF InQueue, Held
<1>3. \A p \in Packet : freed'[p] = IF InQueue(p) THEN freed[p] + 1 ELSE freed[p]
    BY DEF Clear, Contains, InQueue, QueueType
<1>4. \A p \in Packet : InQueue(p) => freed[p] = 0 /\ p <= made /\ ~(p > made)
  <2>1. made \in Nat /\ MaxMade \in Nat
    BY MaxMadeNat DEF QueueType
  <2>2. \A p \in Packet : p <= made => ~(p > made)
    BY ONLY <2>1 DEF Packet
  <2> QED
    BY <2>2 DEF OwnerInv
<1>5. \A p \in Packet : p > made => ~InQueue(p)
    BY <1>4
<1>6. \A i, j \in DOMAIN q' : q'[i] = q'[j] => i = j
    BY <1>1
<1> QED
    BY <1>1, <1>2, <1>3, <1>4, <1>5, <1>6 DEF OwnerInv, Held

\* and nothing else touches a packet.
LEMMA OwnerKept ==
    ASSUME OwnerInv, UNCHANGED <<q, packet, made, freed>>
    PROVE  OwnerInv'
  BY DEF OwnerInv, InQueue, Held

\* Every packet made has one owner, or has been freed once.
LEMMA OwnerStep ==
    PcType /\ WorkerType /\ QueueType /\ WorkerInv /\ OwnerInv /\ [Next]_vars
        => OwnerInv'
<1> SUFFICES ASSUME PcType, WorkerType, QueueType, WorkerInv, OwnerInv, [Next]_vars
             PROVE  OwnerInv'
    OBVIOUS
<1>1. ASSUME NEW t \in {UI, Audio}, QuietUI(t) PROVE OwnerInv'
    BY <1>1, UIMoves, OwnerKept DEF queueVars
<1>2. ASSUME NEW w \in Worker, QuietWorker(w) PROVE OwnerInv'
    BY <1>2, WorkerMoves, OwnerKept DEF queueVars
<1>3. ASSUME NativeStart PROVE OwnerInv'
    BY <1>3, OwnerKept DEF queueVars, workerVars, vars, NativeStart
<1>4. ASSUME JoinUI PROVE OwnerInv'
    BY <1>4, OwnerKept DEF queueVars, workerVars, vars, JoinUI, Joined
<1>5. ASSUME NEW t \in Thread, StopQueue(t) PROVE OwnerInv'
    BY <1>5, OwnerKept DEF queueVars, workerVars, vars, StopQueue, SetWork, Signal
<1>6. ASSUME NEW t \in {UI, Audio}, EncodedPacket(t) PROVE OwnerInv'
    BY <1>6, OwnerPush DEF EncodedPacket, workerVars
<1>7. ASSUME NEW w \in Worker, PushAudioTag(w) PROVE OwnerInv'
    BY <1>7, OwnerPush DEF PushAudioTag, workerVars
<1>8. ASSUME NEW w \in Worker, StartQueue(w) PROVE OwnerInv'
    BY <1>8, OwnerKept DEF queueVars, workerVars, vars, StartQueue, SetWork, Signal
<1>9. ASSUME NEW w \in Worker, Waits(w) PROVE OwnerInv'
    BY <1>9, OwnerKept DEF queueVars, workerVars, vars, Waits, PopBlocks
<1>10. ASSUME NEW w \in Worker, Pop(w) PROVE OwnerInv'
  <2>1. packet[w] = NoPacket
    BY <1>10 DEF Pop, Step, WorkerInv
  <2>2. PICK p \in Packet \union {NoPacket} :
            PopReturns(w, packet[w], p) /\ packet' = [packet EXCEPT ![w] = p]
    BY <1>10 DEF Pop
  <2> QED
    BY <2>1, <2>2, OwnerPop
<1>11. ASSUME NEW w \in Worker, Send(w) \/ DropLast(w) PROVE OwnerInv'
    BY <1>11, OwnerDrop DEF Send, DropLast
<1>12. ASSUME NEW w \in Worker, ClearIsStart(w) PROVE OwnerInv'
    BY <1>12, OwnerKept DEF queueVars, workerVars, vars, ClearIsStart
<1>13. ASSUME NEW w \in Worker, ClearWork(w) PROVE OwnerInv'
    BY <1>13, OwnerKept DEF queueVars, workerVars, vars, ClearWork, SetWork, Signal
<1>14. ASSUME NEW w \in Worker, ClearQueue(w) PROVE OwnerInv'
    BY <1>14, OwnerClear DEF ClearQueue, workerVars
<1>15. ASSUME Wakes PROVE OwnerInv'
    BY <1>15, OwnerKept DEF queueVars, workerVars, vars, Wakes, SpuriousWakeup
<1>16. ASSUME UNCHANGED vars PROVE OwnerInv'
    BY <1>16, OwnerKept DEF vars, queueVars, workerVars
<1> QED
    BY <1>1, <1>2, <1>3, <1>4, <1>5, <1>6, <1>7, <1>8, <1>9, <1>10, <1>11, <1>12, <1>13,
       <1>14, <1>15, <1>16, StepKinds

-----------------------------------------------------------------------------
\* The parts make up TypeOK.
LEMMA TypeParts == TypeOK <=> PcType /\ FlagType /\ CountType /\ WorkerType /\ QueueType
  BY DEF TypeOK, PcType, Label, FlagType, CountType, WorkerType, QueueType

\* The invariant holds at the start.
LEMMA InitInvariant == Init => IInv
<1> SUFFICES ASSUME Init PROVE IInv
    OBVIOUS
<1>1. CountType
  <2>1. MaxWorkers \in Nat
    BY WorkerAssumption
  <2>2. pid = NoWorker /\ created = 0 /\ tasks = 0
    BY DEF Init
  <2> QED
    BY <2>1, <2>2 DEF CountType
<1>2. PcType /\ FlagType /\ WorkerType
    BY DEF Init, QInit, PcType, Label, FlagType, WorkerType
<1>3. q = <<>> /\ blocked = {} /\ made = 0 /\ freed = [p \in Packet |-> 0] /\ ~work
    BY DEF Init, QInit
<1>4. QueueType
    BY <1>3, MaxMadeNat DEF QueueType
<1>5. \A w \in Worker : pc[w] = "not created" /\ packet[w] = NoPacket
    BY DEF Init, Thread
<1>6. WorkerInv
    BY <1>5 DEF Init, WorkerInv, NoWorker
<1>7. Pushing = {}
    BY <1>5 DEF Pushing, MainPart, StopLabels
<1>8. OneWorkerPushes /\ StoppedMeansStopped
    BY <1>7 DEF Init, OneWorkerPushes, StoppedMeansStopped
<1>9. QueueInv /\ NoMissedWakeup
    BY <1>3 DEF QueueInv, NoMissedWakeup
<1>10. OwnerInv
  <2>1. made = 0 /\ \A p \in Packet : freed[p] = 0 /\ ~(p <= made)
    BY <1>3, MaxMadeNat DEF Packet
  <2>2. DOMAIN q = {}
    BY <1>3
  <2>3. \A p \in Packet : p # NoPacket
    BY MaxMadeNat DEF Packet, NoPacket
  <2>4. \A p \in Packet : ~InQueue(p) /\ ~Held(p)
    BY <1>5, <2>2, <2>3 DEF InQueue, Held
  <2> QED
    BY <1>5, <2>1, <2>2, <2>4 DEF OwnerInv
<1> QED
    BY <1>1, <1>2, <1>4, <1>6, <1>8, <1>9, <1>10, TypeParts DEF IInv

\* The invariant, for any number of pushes, of packets and of encoded packets.
THEOREM Invariance == Spec => []IInv
<1>1. Init => IInv
    BY InitInvariant
<1>2. IInv /\ [Next]_vars => IInv'
  <2> SUFFICES ASSUME IInv, [Next]_vars PROVE IInv'
    OBVIOUS
  <2>1. PcType /\ FlagType /\ CountType /\ WorkerType /\ QueueType
    BY TypeParts DEF IInv
  <2>2. (PcType /\ FlagType /\ CountType /\ WorkerType /\ QueueType)'
    BY <2>1, PcStep, FlagStep, CountStep, WorkerTypeStep, QueueTypeStep
  <2>3. TypeOK'
    BY <2>2 DEF TypeOK, PcType, Label, FlagType, CountType, WorkerType, QueueType
  <2>4. WorkerInv' /\ OneWorkerPushes' /\ StoppedMeansStopped'
    BY <2>1, WorkerStep, PushingStep DEF IInv
  <2>5. QueueInv' /\ NoMissedWakeup' /\ OwnerInv'
    BY <2>1, QueueStep, OwnerStep DEF IInv
  <2> QED
    BY <2>3, <2>4, <2>5 DEF IInv
<1> QED
    BY <1>1, <1>2, PTL DEF Spec

\* Every variable of the live pusher keeps its type, whatever the threads do.
THEOREM TypeCorrect == Spec => []TypeOK
<1>1. IInv => TypeOK
    BY DEF IInv
<1> QED
    BY <1>1, Invariance, PTL

\* At most one worker is in the part of start() that sends, it is the one native_stop
\* joins, and isStart tells whether there is one.
THEOREM OneWorker == Spec => []OneWorkerPushes
<1>1. IInv => OneWorkerPushes
    BY DEF IInv
<1> QED
    BY <1>1, Invariance, PTL

\* A stopPush that has returned has stopped the push: release() may delete the encoders.
THEOREM StopsForGood == Spec => []StoppedMeansStopped
<1>1. IInv => StoppedMeansStopped
    BY DEF IInv
<1> QED
    BY <1>1, Invariance, PTL

\* Nobody sleeps in pop while there is a packet to take or a stop to see.
THEOREM NoWakeupIsMissed == Spec => []NoMissedWakeup
<1>1. IInv => NoMissedWakeup
    BY DEF IInv
<1> QED
    BY <1>1, Invariance, PTL

\* Once every worker created has ended, the queue has been emptied.
THEOREM Drained == Spec => []QueueIsDrained
<1>1. IInv => QueueIsDrained
  <2> SUFFICES ASSUME IInv, \A w \in 1 .. created : pc[w] = "ended" PROVE q = <<>>
    BY DEF QueueIsDrained
  <2>1. CountType /\ WorkerInv /\ QueueInv
    BY TypeParts DEF IInv
  <2>2. \A w \in Worker : w \in 1 .. created \/ w > created
    <3>1. MaxWorkers \in Nat /\ created \in 0 .. MaxWorkers /\ Worker = 1 .. MaxWorkers
      BY <2>1, WorkerAssumption DEF CountType
    <3> QED
      BY ONLY <3>1
  <2>3. \A w \in Worker : pc[w] \in {"ended", "not created"}
    BY <2>1, <2>2 DEF WorkerInv
  <2> QED
    BY <2>1, <2>3 DEF QueueInv, ToStop, StopLabels
<1> QED
    BY <1>1, Invariance, PTL

\* How many elements there are where there is at most one.
LEMMA AtMostOne ==
    ASSUME NEW S, \A x, y \in S : x = y
    PROVE  Cardinality(S) = IF S = {} THEN 0 ELSE 1
<1>1. CASE S = {}
    BY <1>1, FS_EmptySet
<1>2. CASE S # {}
  <2>1. PICK x : S = {x}
    BY <1>2
  <2> QED
    BY <2>1, FS_Singleton
<1> QED
    BY <1>1, <1>2

\* Every packet made is in the queue, in the hands of one worker, or freed, and only one
\* of these, and freed once.
THEOREM OneOwner == Spec => []EachPacketHasOneOwner
<1>1. IInv => EachPacketHasOneOwner
  <2> SUFFICES ASSUME IInv, NEW p \in 1 .. made
               PROVE  freed[p] + Cardinality({i \in DOMAIN q : q[i] = p})
                            + Cardinality({w \in Worker : packet[w] = p}) = 1
    BY DEF EachPacketHasOneOwner
  <2>1. QueueType /\ OwnerInv
    BY TypeParts DEF IInv
  <2>2. p \in Packet /\ p <= made /\ p # NoPacket
    BY <2>1, MaxMadeNat DEF QueueType, Packet, NoPacket
  <2> DEFINE I == {i \in DOMAIN q : q[i] = p}
             H == {w \in Worker : packet[w] = p}
  <2>3. Cardinality(I) = IF I = {} THEN 0 ELSE 1
    <3>1. \A x, y \in I : x = y
      BY <2>1 DEF OwnerInv
    <3> QED
      BY <3>1, AtMostOne
  <2>4. Cardinality(H) = IF H = {} THEN 0 ELSE 1
    <3>1. \A x, y \in H : x = y
      BY <2>1, <2>2 DEF OwnerInv
    <3> QED
      BY <3>1, AtMostOne
  <2>5. (InQueue(p) <=> I # {}) /\ (Held(p) <=> H # {})
    BY DEF InQueue, Held
  <2>6. freed[p] = IF InQueue(p) \/ Held(p) THEN 0 ELSE 1
    BY <2>1, <2>2 DEF OwnerInv
  <2>7. ~(InQueue(p) /\ Held(p))
    BY <2>1, <2>2 DEF OwnerInv
  <2> HIDE DEF I, H
  <2>8. freed[p] + Cardinality(I) + Cardinality(H) = 1
    BY <2>3, <2>4, <2>5, <2>6, <2>7
  <2> QED
    BY <2>8 DEF I, H
<1> QED
    BY <1>1, Invariance, PTL
=============================================================================
