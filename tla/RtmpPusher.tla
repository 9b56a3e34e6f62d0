---------------------------- MODULE RtmpPusher ----------------------------
(***************************************************************************)
(* The live pusher: LivePusherNew.java, its VideoStream and AudioStream,   *)
(* and the native RtmpPusher.cpp, which share three variables without a    *)
(* lock (isStart, readyPushing, pid) and the packet queue.                 *)
(*                                                                         *)
(*   UI      startPush, stopPush and release, and, the camera having been  *)
(*           opened on this thread, every preview frame                    *)
(*   Audio   the single-thread executor that runs AudioTask                *)
(*   Worker  start(): one thread for each native_start that gets past      *)
(*           isStart                                                       *)
(*                                                                         *)
(* A worker that fails calls errorFromNative, so stopPush also runs on the *)
(* worker's own thread.                                                    *)
(***************************************************************************)
EXTENDS SafeQueue, FiniteSets

CONSTANTS MaxWorkers,     \* bound: pushes started in all
          UI, Audio,
          MaxEncoded      \* bound: no encoder yields a packet beyond this many

\* Workers are numbered in the order of creation; 0 is the pid no native_start has set.
ASSUME WorkerAssumption ==
    /\ MaxWorkers \in Nat /\ Worker = 1 .. MaxWorkers
    /\ UI # Audio /\ UI \notin Worker /\ Audio \notin Worker
    /\ MaxEncoded \in Nat /\ MaxMade = MaxEncoded + MaxWorkers

Thread == Worker \union {UI, Audio}
NoWorker == 0

VARIABLES
    pc,             \* where each thread is
    isStart,
    readyPushing,
    pid,            \* the worker native_stop joins: the last one created
    created,        \* how many workers have been created
    videoLiving,    \* VideoStream.isLiving
    audioLiving,    \* AudioStream.isLiving
    tasks,          \* AudioTasks submitted to the executor and not yet begun
    encoders,       \* whether videoStream and audioStream exist
    packet,         \* each worker's local packet
    failure,        \* each worker's: how it failed, or "none"
    stopped         \* history: the UI's last startPush, if any, has been stopped

startVars == <<isStart, pid, created, stopped>>
javaVars == <<videoLiving, audioLiving, tasks, encoders>>
workerVars == <<packet, failure>>
vars == <<pc, startVars, readyPushing, javaVars, workerVars, queueVars>>

Goto(t, label) == pc' = [pc EXCEPT ![t] = label]
Step(t, from, to) == pc[t] = from /\ Goto(t, to)

Init ==
    /\ pc = [t \in Thread |-> IF t \in Worker THEN "not created" ELSE "idle"]
    /\ isStart = FALSE
    /\ readyPushing = FALSE
    /\ pid = NoWorker
    /\ created = 0
    /\ videoLiving = FALSE
    /\ audioLiving = FALSE
    /\ tasks = 0
    /\ encoders = TRUE
    /\ packet = [w \in Worker |-> NoPacket]
    /\ failure = [w \in Worker |-> "none"]
    /\ stopped = TRUE
    /\ QInit
-----------------------------------------------------------------------------
(* startPush, on the UI thread.                                             *)

\* Mutated form of NativeStart: isStart is not looked at.
NativeStartAlways ==
    /\ encoders
    /\ pc[UI] = "idle"
    /\ created < MaxWorkers
    /\ isStart' = TRUE
    /\ created' = created + 1
    /\ pid' = created + 1
    /\ pc' = [pc EXCEPT ![UI] = "start video", ![created + 1] = "connect"]
    /\ stopped' = FALSE
    /\ UNCHANGED <<readyPushing, javaVars, workerVars, queueVars>>

\* native_start creates a worker, unless isStart is set, whoever set it.
NativeStart ==
    /\ encoders
    /\ pc[UI] = "idle"
    /\ \/ /\ ~isStart
          /\ created < MaxWorkers
          /\ isStart' = TRUE
          /\ created' = created + 1
          /\ pid' = created + 1
          /\ pc' = [pc EXCEPT ![UI] = "start video", ![created + 1] = "connect"]
       \/ /\ isStart
          /\ Goto(UI, "start video")
          /\ UNCHANGED <<isStart, created, pid>>
    /\ stopped' = FALSE
    /\ UNCHANGED <<readyPushing, javaVars, workerVars, queueVars>>

StartVideo ==
    /\ Step(UI, "start video", "start audio")
    /\ videoLiving' = TRUE
    /\ UNCHANGED <<startVars, readyPushing, audioLiving, tasks, encoders, workerVars,
                   queueVars>>

\* Bound: tasks beyond one per worker are not told apart.
StartAudio ==
    /\ Step(UI, "start audio", "idle")
    /\ audioLiving' = TRUE
    /\ tasks' = IF tasks = MaxWorkers THEN tasks ELSE tasks + 1
    /\ UNCHANGED <<startVars, readyPushing, videoLiving, encoders, workerVars, queueVars>>
-----------------------------------------------------------------------------
(* stopPush, on the UI thread, or on a worker's from errorFromNative.       *)

CallStop ==
    /\ encoders
    /\ Step(UI, "idle", "stop video")
    /\ UNCHANGED <<startVars, readyPushing, javaVars, workerVars, queueVars>>

StopVideo(t) ==
    /\ Step(t, "stop video", "stop audio")
    /\ videoLiving' = FALSE
    /\ UNCHANGED <<startVars, readyPushing, audioLiving, tasks, encoders, workerVars,
                   queueVars>>

StopAudio(t) ==
    /\ Step(t, "stop audio", "stop ready")
    /\ audioLiving' = FALSE
    /\ UNCHANGED <<startVars, readyPushing, videoLiving, tasks, encoders, workerVars,
                   queueVars>>

\* native_stop: two steps, then the join.
StopReady(t) ==
    /\ Step(t, "stop ready", "stop queue")
    /\ readyPushing' = FALSE
    /\ UNCHANGED <<startVars, javaVars, workerVars, queueVars>>

StopQueue(t) ==
    /\ Step(t, "stop queue", "join")
    /\ SetWork(FALSE)
    /\ UNCHANGED <<startVars, readyPushing, javaVars, workerVars>>

StopPush(t) == StopVideo(t) \/ StopAudio(t) \/ StopReady(t) \/ StopQueue(t)

\* Mutated form of Joined: native_stop does not join.
DoesNotJoin(t) == TRUE

\* pthread_join fails at once on no thread and on the caller itself; otherwise it
\* waits for the last worker created.  (Joining a thread for the second time is
\* undefined: it returns, or the process aborts and takes no further step.)
Joined(t) == \A w \in Worker \ {t} : w = pid => pc[w] = "ended"

JoinUI ==
    /\ Joined(UI)
    /\ Step(UI, "join", "idle")
    /\ stopped' = TRUE
    /\ UNCHANGED <<isStart, pid, created, readyPushing, javaVars, workerVars, queueVars>>

\* Back in errorFromNative, the listener is told; then start() breaks out of its loop,
\* past the last releasePackets unless it was sending.
JoinWorker(w) ==
    /\ Joined(w)
    /\ Step(w, "join", IF failure[w] = "send" THEN "drop" ELSE "clear isStart")
    /\ UNCHANGED <<startVars, readyPushing, javaVars, workerVars, queueVars>>

\* release(), which the app calls on a pusher it has stopped: deletes both encoders.
ReleasePusher ==
    /\ pc[UI] = "idle"
    /\ stopped
    /\ encoders
    /\ encoders' = FALSE
    /\ UNCHANGED <<pc, startVars, readyPushing, videoLiving, audioLiving, tasks,
                   workerVars, queueVars>>
-----------------------------------------------------------------------------
(* The producers.  pushVideo and pushAudio look at readyPushing, encode, and  *)
(* only then push.                                                            *)

PushVideo ==
    /\ videoLiving /\ encoders /\ readyPushing
    /\ Step(UI, "idle", "encode")
    /\ UNCHANGED <<startVars, readyPushing, javaVars, workerVars, queueVars>>

\* Mutated form of BeginTask: a task is begun whether or not one was submitted.
BeginUnsubmitted ==
    /\ tasks' = tasks - 1
    /\ Step(Audio, "idle", "task")
    /\ UNCHANGED <<startVars, readyPushing, videoLiving, audioLiving, encoders,
                   workerVars, queueVars>>

\* The executor takes the next task; isLiving is only looked at in the task.
BeginTask ==
    /\ tasks > 0
    /\ tasks' = tasks - 1
    /\ Step(Audio, "idle", "task")
    /\ UNCHANGED <<startVars, readyPushing, videoLiving, audioLiving, encoders,
                   workerVars, queueVars>>

EndTask ==
    /\ ~audioLiving
    /\ Step(Audio, "task", "idle")
    /\ UNCHANGED <<startVars, readyPushing, javaVars, workerVars, queueVars>>

\* read may take as long as it likes, and isMute skips it.
PushAudio ==
    /\ audioLiving /\ encoders /\ readyPushing
    /\ Step(Audio, "task", "encode")
    /\ UNCHANGED <<startVars, readyPushing, javaVars, workerVars, queueVars>>

\* encodeData yields no packet, one or several, each given to callback().  Should the
\* encoders have been deleted in the meantime, the process crashes and takes no step.
EncodedPacket(t) ==
    /\ encoders
    /\ pc[t] = "encode"
    /\ made < MaxEncoded
    /\ PushNew
    /\ UNCHANGED <<pc, startVars, readyPushing, javaVars, workerVars>>

EncodingDone(t) ==
    /\ encoders
    /\ Step(t, "encode", IF t = UI THEN "idle" ELSE "task")
    /\ UNCHANGED <<startVars, readyPushing, javaVars, workerVars, queueVars>>
-----------------------------------------------------------------------------
(* start(), on a worker's thread.                                           *)

Connect(w) ==
    /\ Step(w, "connect", "ready")
    /\ UNCHANGED <<startVars, readyPushing, javaVars, workerVars, queueVars>>

\* RTMP_Alloc or RTMP_SetupURL fails: nobody is told.
SetupFails(w) ==
    /\ Step(w, "connect", "clear isStart")
    /\ failure' = [failure EXCEPT ![w] = "setup"]
    /\ UNCHANGED <<startVars, readyPushing, javaVars, packet, queueVars>>

\* RTMP_Connect or RTMP_ConnectStream fails: throwErrToJava.
ConnectFails(w) ==
    /\ Step(w, "connect", "stop video")
    /\ failure' = [failure EXCEPT ![w] = "connect"]
    /\ UNCHANGED <<startVars, readyPushing, javaVars, packet, queueVars>>

SetReady(w) ==
    /\ Step(w, "ready", "work")
    /\ readyPushing' = TRUE
    /\ UNCHANGED <<startVars, javaVars, workerVars, queueVars>>

StartQueue(w) ==
    /\ Step(w, "work", "tag")
    /\ SetWork(TRUE)
    /\ UNCHANGED <<startVars, readyPushing, javaVars, workerVars>>

PushAudioTag(w) ==
    /\ encoders
    /\ Step(w, "tag", "loop")
    /\ PushNew
    /\ UNCHANGED <<startVars, readyPushing, javaVars, workerVars>>

\* The test at the head of the loop.
WhileReady(w) ==
    /\ Step(w, "loop", IF readyPushing THEN "pop" ELSE "drop")
    /\ UNCHANGED <<startVars, readyPushing, javaVars, workerVars, queueVars>>

Waits(w) ==
    /\ pc[w] = "pop"
    /\ PopBlocks(w)
    /\ UNCHANGED <<pc, startVars, readyPushing, javaVars, workerVars>>

Pop(w) ==
    /\ Step(w, "pop", "popped")
    /\ \E p \in Packet \union {NoPacket} :
          /\ PopReturns(w, packet[w], p)
          /\ packet' = [packet EXCEPT ![w] = p]
    /\ UNCHANGED <<startVars, readyPushing, javaVars, failure>>

\* A stop drops the packet just popped; no packet, no sending.
Popped(w) ==
    /\ Step(w, "popped", IF ~readyPushing THEN "drop"
                         ELSE IF packet[w] = NoPacket THEN "loop" ELSE "send")
    /\ UNCHANGED <<startVars, readyPushing, javaVars, workerVars, queueVars>>

\* releasePackets(packet).
Drop(w) ==
    /\ Release(packet[w])
    /\ packet' = [packet EXCEPT ![w] = NoPacket]

Send(w) ==
    /\ \/ Step(w, "send", "loop") /\ UNCHANGED failure
       \/ Step(w, "send", "stop video") /\ failure' = [failure EXCEPT ![w] = "send"]
    /\ Drop(w)
    /\ UNCHANGED <<startVars, readyPushing, javaVars>>

DropLast(w) ==
    /\ Step(w, "drop", "clear isStart")
    /\ Drop(w)
    /\ UNCHANGED <<startVars, readyPushing, javaVars, failure>>

ClearIsStart(w) ==
    /\ Step(w, "clear isStart", "clear ready")
    /\ isStart' = FALSE
    /\ UNCHANGED <<pid, created, stopped, readyPushing, javaVars, workerVars, queueVars>>

ClearReady(w) ==
    /\ Step(w, "clear ready", "clear work")
    /\ readyPushing' = FALSE
    /\ UNCHANGED <<startVars, javaVars, workerVars, queueVars>>

ClearWork(w) ==
    /\ Step(w, "clear work", "clear queue")
    /\ SetWork(FALSE)
    /\ UNCHANGED <<startVars, readyPushing, javaVars, workerVars>>

ClearQueue(w) ==
    /\ Step(w, "clear queue", "ended")
    /\ Clear
    /\ UNCHANGED <<startVars, readyPushing, javaVars, workerVars>>

Wakes ==
    /\ SpuriousWakeup
    /\ UNCHANGED <<pc, startVars, readyPushing, javaVars, workerVars>>
-----------------------------------------------------------------------------
UIContinues ==
    \/ StartVideo \/ StartAudio \/ StopPush(UI) \/ JoinUI
    \/ EncodedPacket(UI) \/ EncodingDone(UI)

AudioContinues == BeginTask \/ EndTask \/ EncodedPacket(Audio) \/ EncodingDone(Audio)

WorkerContinues(w) ==
    \/ Connect(w) \/ SetupFails(w) \/ ConnectFails(w)
    \/ SetReady(w) \/ StartQueue(w) \/ PushAudioTag(w)
    \/ WhileReady(w) \/ Waits(w) \/ Pop(w) \/ Popped(w) \/ Send(w) \/ DropLast(w)
    \/ StopPush(w) \/ JoinWorker(w)
    \/ ClearIsStart(w) \/ ClearReady(w) \/ ClearWork(w) \/ ClearQueue(w)

Next ==
    \/ NativeStart \/ CallStop \/ ReleasePusher \/ PushVideo \/ PushAudio
    \/ UIContinues
    \/ AudioContinues
    \/ \E w \in Worker : WorkerContinues(w)
    \/ Wakes

Spec == Init /\ [][Next]_vars

\* Threads that can run do; the app may never call, the camera and the microphone
\* never deliver, and a condition variable never wake anyone for nothing.
FairSpec ==
    /\ Spec
    /\ WF_vars(UIContinues)
    /\ WF_vars(AudioContinues)
    /\ \A w \in Worker : WF_vars(WorkerContinues(w))
-----------------------------------------------------------------------------
(* Properties.                                                               *)

StopLabels == {"stop video", "stop audio", "stop ready", "stop queue", "join"}
Epilogue == {"clear ready", "clear work", "clear queue"}
MainPart == {"connect", "ready", "work", "tag", "loop", "pop", "popped", "send", "drop",
             "clear isStart"} \union StopLabels

\* The workers still within the part of start() that isStart guards.
Pushing == {w \in Worker : pc[w] \in MainPart}

\* Every variable holds a value of its type.
TypeOK ==
    /\ pc \in [Thread -> MainPart \union Epilogue \union
                  {"not created", "ended", "idle", "start video", "start audio",
                   "encode", "task"}]
    /\ {isStart, readyPushing, videoLiving, audioLiving, encoders, stopped, work}
          \subseteq BOOLEAN
    /\ pid \in Worker \union {NoWorker} /\ created \in 0 .. MaxWorkers
    /\ tasks \in 0 .. MaxWorkers
    /\ packet \in [Worker -> Packet \union {NoPacket}]
    /\ failure \in [Worker -> {"none", "setup", "connect", "send"}]
    /\ q \in Seq(Packet) /\ blocked \subseteq Worker
    /\ made \in 0 .. MaxMade /\ freed \in [Packet -> Nat]

\* However starts, stops, failures and late epilogues interleave, at most one worker is
\* in the part of start() that sends, it is the one native_stop joins, and isStart is
\* set exactly while it is there (native_start, RtmpPusher.cpp:163-174).
OneWorkerPushes ==
    /\ isStart <=> Pushing # {}
    /\ Pushing \subseteq {pid}

\* Each packet made by an encoder or as the audio tag is in the queue, or in the hands
\* of one worker, or has been freed, and only one of these, once: no packet is lost,
\* freed twice or used after it was freed (push, clear, releasePackets and the loop of
\* start()).
EachPacketHasOneOwner ==
    \A p \in 1 .. made :
        freed[p] + Cardinality({i \in DOMAIN q : q[i] = p})
                 + Cardinality({w \in Worker : packet[w] = p}) = 1

\* Once every worker created has ended, no packet is left in the queue: a restarted
\* push starts with an empty queue, and what an encoder still pushes is freed
\* (the epilogue, RtmpPusher.cpp:134-137).
QueueIsDrained == (\A w \in 1 .. created : pc[w] = "ended") => q = <<>>

\* A thread asleep in pop has nothing to take and has not been told to stop.
NoMissedWakeup == blocked # {} => work /\ q = <<>>

\* When stopPush has returned on the UI thread, no worker pushes, until the next
\* startPush: release() may delete the encoders (stopPush, release,
\* LivePusherNew.java:81-91).
StoppedMeansStopped == stopped => Pushing = {}

\* stopPush called on a push that is past its start (readyPushing has been set before
\* the stop) comes back: the worker sees the flag or is woken, and ends.
StopOfARunningPushCompletes ==
    (pc[UI] = "join" /\ ~readyPushing /\ pid # NoWorker /\ pc[pid] \notin {"connect", "ready"})
        ~> pc[UI] = "idle"

\* stopPush stops the push: "stop pushing stream" (LivePusherNew.java:99).  It does not
\* when it comes before the worker has set readyPushing.
StopPushStops == pc[UI] = "join" ~> pc[UI] = "idle"
=============================================================================
