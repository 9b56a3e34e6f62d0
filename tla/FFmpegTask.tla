---------------------------- MODULE FFmpegTask ----------------------------
(***************************************************************************)
(* The execution of FFmpeg commands: FFmpegHandler and FFmpegCmd on the UI *)
(* thread, the single-thread executor of ThreadPoolUtil, the native run()  *)
(* with its process-wide cancel flag, and the messages by which a task's   *)
(* listener tells the activity that it has begun and finished.             *)
(*                                                                         *)
(* Two things are shared by all tasks: the static mProgressListener, which *)
(* execute() sets before it submits the task, and cancel_execute.          *)
(*                                                                         *)
(* A task is one of                                                        *)
(*   "cmd"    FFmpegHandler.executeFFmpegCmd                               *)
(*   "cmds"   FFmpegHandler.executeFFmpegCmds, of several commands         *)
(*   "probe"  FFmpegHandler.executeFFprobeCmd                              *)
(*   "trans"  FFmpegCmd.execute with a callback of the app's own           *)
(*   "dub"    mediaDubbing or mediaMux, Runnables that call executeSync    *)
(* and the messages of all but "trans" go to the same activity.            *)
(***************************************************************************)
EXTENDS Integers, Sequences

CONSTANTS MaxTasks,      \* bound: tasks submitted in all
          MaxCommands    \* bound: commands in a list

ASSUME BoundAssumption == MaxTasks \in Nat /\ MaxCommands \in Nat \ {0}

Kind == {"cmd", "cmds", "probe", "trans", "dub"}
Id == 1 .. MaxTasks
NoId == 0
Task == [id : Id, kind : Kind]
NoTask == [id |-> NoId, kind |-> "none"]

VARIABLES
    submitted,     \* how many tasks have been submitted
    ui,            \* where the UI thread is in execute, or "idle"
    asked,         \* the kind of task it is submitting
    queue,         \* tasks the executor has not begun
    current,       \* the task it runs
    at,            \* where it is in that task
    left,          \* commands of the task still to run, the one running included
    listener,      \* mProgressListener: the id of the task whose listener it is
    cancel,        \* cancel_execute
    inbox,         \* messages the activity's Handler has not handled
    shown,         \* whether the progress layout is shown
    aim,           \* history: the task transcoding when cancel was last requested, if any
    dubFailed      \* history: whether a dubbing has given up

uiVars == <<submitted, ui, asked, shown>>
execVars == <<current, at, left>>
history == <<aim, dubFailed>>
vars == <<uiVars, queue, execVars, listener, cancel, inbox, history>>

Init ==
    /\ submitted = 0 /\ ui = "idle" /\ asked = "none" /\ shown = FALSE
    /\ queue = <<>>
    /\ current = NoTask /\ at = "idle" /\ left = 0
    /\ listener = NoId
    /\ cancel = FALSE
    /\ inbox = <<>>
    /\ aim = NoTask /\ dubFailed = FALSE

HasListener(k) == k \in {"cmd", "cmds", "trans"}
PostsMessages(k) == k # "trans"
-----------------------------------------------------------------------------
(* The UI thread.                                                           *)

\* executeFFmpegCmd first removes every message of the Handler.
Ask(k) ==
    /\ ui = "idle" /\ submitted < MaxTasks
    /\ asked' = k
    /\ ui' = IF HasListener(k) THEN "listener" ELSE "submit"
    /\ \/ k = "cmd" /\ inbox' = <<>>
       \/ k # "cmd" /\ UNCHANGED inbox

Execute ==
    /\ \E k \in Kind : Ask(k)
    /\ UNCHANGED <<submitted, shown, queue, execVars, listener, cancel, history>>

SetListener ==
    /\ ui = "listener"
    /\ ui' = "submit"
    /\ listener' = submitted + 1
    /\ UNCHANGED <<submitted, asked, shown, queue, execVars, cancel, inbox, history>>

Submit ==
    /\ ui = "submit"
    /\ ui' = "idle"
    /\ asked' = "none"
    /\ submitted' = submitted + 1
    /\ queue' = Append(queue, [id |-> submitted + 1, kind |-> asked])
    /\ UNCHANGED <<shown, execVars, listener, cancel, inbox, history>>

\* The task that is in transcode(), in its loop or behind it, if there is one.
Transcoding == IF at \in {"loop", "closing"} THEN current ELSE NoTask

\* cancelExecute(cancel), at any time.
CancelExecute(on) ==
    /\ ui = "idle"
    /\ cancel' = on
    /\ aim' = IF on THEN Transcoding ELSE aim
    /\ UNCHANGED <<uiVars, queue, execVars, listener, inbox, dubFailed>>

\* handleMessage: MSG_BEGIN shows the progress layout, MSG_FINISH hides it.
HandleMessage ==
    /\ ui = "idle"
    /\ inbox # <<>>
    /\ shown' = (Head(inbox) = "MSG_BEGIN")
    /\ inbox' = Tail(inbox)
    /\ UNCHANGED <<submitted, ui, asked, queue, execVars, listener, cancel, history>>
-----------------------------------------------------------------------------
(* The executor.                                                            *)

Goto(label) == at' = label

\* Mutated form of Post: sendMessageAtFrontOfQueue.
PostAtFront(m) == inbox' = IF PostsMessages(current.kind) THEN <<m>> \o inbox ELSE inbox

Post(m) == inbox' = IF PostsMessages(current.kind) THEN Append(inbox, m) ELSE inbox

TakeTask ==
    /\ at = "idle" /\ queue # <<>>
    /\ current' = Head(queue)
    /\ queue' = Tail(queue)
    /\ Goto("begin")
    /\ UNCHANGED <<uiVars, left, listener, cancel, inbox, history>>

\* onBegin, or the MSG_BEGIN a Runnable sends itself.  A dubbing runs an extraction
\* and one or two muxings; a muxing starts with the second of the three.
Begin ==
    /\ at = "begin"
    /\ Post("MSG_BEGIN")
    /\ \/ current.kind = "probe" /\ left' = 0 /\ Goto("end")
       \/ current.kind \in {"cmd", "trans"} /\ left' = 1 /\ Goto("handle")
       \/ current.kind = "cmds" /\ left' \in 1 .. MaxCommands /\ Goto("handle")
       \/ current.kind = "dub" /\ left' \in {2, 3} /\ Goto("handle")
    /\ UNCHANGED <<uiVars, current, queue, listener, cancel, history>>

\* handle: run() reads the options and enters the loop of transcode(), or fails.
Handle ==
    /\ at = "handle"
    /\ \/ Goto("loop")
       \/ Goto("failed")
    /\ UNCHANGED <<uiVars, current, left, queue, listener, cancel, inbox, history>>

\* The loop of transcode() comes to its end, or exit_program leaves it and run(),
\* whether or not a cancel has been requested since the flag was looked at.
LoopEnds ==
    /\ at = "loop"
    /\ \/ Goto("closing")
       \/ Goto("failed")
    /\ UNCHANGED <<uiVars, current, left, queue, listener, cancel, inbox, history>>

\* Mutated form of TakeCancel: the flag is not looked at.
IgnoreCancel == FALSE /\ UNCHANGED cancel

TakeCancel == cancel /\ cancel' = FALSE

\* The head of the loop takes a cancel, and breaks as if all were done.  Otherwise the
\* loop transcodes and reports progress, which ReportsTo is about.
Cancelled ==
    /\ at = "loop"
    /\ TakeCancel
    /\ Goto("closing")
    /\ UNCHANGED <<uiVars, current, left, queue, listener, inbox, history>>

\* What follows the loop, with a last report of progress; the flag is not looked at.
Close ==
    /\ at = "closing"
    /\ \/ Goto("done")
       \/ Goto("failed")
    /\ UNCHANGED <<uiVars, current, left, queue, listener, cancel, inbox, history>>

\* Mutated form of NextOfList: one command too many.
NextOfListOrOneMore ==
    /\ at \in {"done", "failed"}
    /\ current.kind # "dub"
    /\ left' = left - 1
    /\ Goto(IF left >= 0 THEN "handle" ELSE "end")
    /\ UNCHANGED <<uiVars, current, queue, listener, cancel, inbox, history>>

\* The commands of a list are run one after the other, whatever their results.
NextOfList ==
    /\ at \in {"done", "failed"}
    /\ current.kind # "dub"
    /\ left' = left - 1
    /\ Goto(IF left > 1 THEN "handle" ELSE "end")
    /\ UNCHANGED <<uiVars, current, queue, listener, cancel, inbox, history>>

\* mediaDubbing goes from the extraction to the muxing, and from a failed muxing to the
\* second way of muxing.
NextOfDubbing ==
    /\ at \in {"done", "failed"}
    /\ current.kind = "dub"
    /\ \/ at = "done" /\ left = 3 /\ left' = 2 /\ Goto("handle")
       \/ at = "failed" /\ left = 2 /\ left' = 1 /\ Goto("handle")
       \/ at = "done" /\ left < 3 /\ left' = 0 /\ Goto("end")
       \/ at = "failed" /\ left = 1 /\ left' = 0 /\ Goto("end")
    /\ UNCHANGED <<uiVars, current, queue, listener, cancel, inbox, history>>

\* The extraction failed: mediaDubbing returns, and nobody is told.
DubbingGivesUp ==
    /\ at = "failed"
    /\ current.kind = "dub" /\ left = 3
    /\ Goto("idle")
    /\ current' = NoTask
    /\ left' = 0
    /\ dubFailed' = TRUE
    /\ UNCHANGED <<uiVars, queue, listener, cancel, inbox, aim>>

\* onEnd, whatever the result.  The handler's isContinue, which makes it MSG_CONTINUE, is
\* false: nothing in the repository sets it.
End ==
    /\ at = "end"
    /\ Post("MSG_FINISH")
    /\ \/ HasListener(current.kind) /\ Goto("forget") /\ UNCHANGED current
       \/ ~HasListener(current.kind) /\ Goto("idle") /\ current' = NoTask
    /\ UNCHANGED <<uiVars, left, queue, listener, cancel, history>>

\* Mutated form of Forget: the listener is kept.
ForgetNothing == UNCHANGED listener

Forget == listener' = NoId

ForgetListener ==
    /\ at = "forget"
    /\ Forget
    /\ Goto("idle")
    /\ current' = NoTask
    /\ UNCHANGED <<uiVars, left, queue, cancel, inbox, history>>
-----------------------------------------------------------------------------
UIContinues == SetListener \/ Submit \/ HandleMessage

\* Every step of the executor but the end of a loop: a live input may never end.
Executes ==
    \/ TakeTask \/ Begin \/ Handle \/ Cancelled \/ Close
    \/ NextOfList \/ NextOfDubbing \/ DubbingGivesUp
    \/ End \/ ForgetListener

Next ==
    \/ Execute
    \/ \E on \in BOOLEAN : CancelExecute(on)
    \/ UIContinues
    \/ Executes
    \/ LoopEnds

Spec == Init /\ [][Next]_vars
FairSpec == Spec /\ WF_vars(UIContinues) /\ WF_vars(Executes)
-----------------------------------------------------------------------------
(* Properties.                                                               *)

\* Every variable holds a value of its type.
TypeOK ==
    /\ submitted \in 0 .. MaxTasks
    /\ ui \in {"idle", "listener", "submit"} /\ asked \in Kind \union {"none"}
    /\ queue \in Seq(Task)
    /\ {current, aim} \subseteq Task \union {NoTask} /\ listener \in Id \union {NoId}
    /\ at \in {"idle", "begin", "handle", "loop", "closing", "done", "failed", "end", "forget"}
    /\ left \in Nat
    /\ {cancel, shown, dubFailed} \subseteq BOOLEAN
    /\ inbox \in Seq({"MSG_BEGIN", "MSG_FINISH"})

\* transcode() calls progress_callback at any turn of its loop and once behind it, and
\* that the listener.
ReportsTo(id) == at \in {"loop", "closing"} /\ listener = id /\ id # NoId

\* Progress is never reported to the listener of an earlier task, one that has had its
\* onEnd: whatever the order of submissions and ends, mProgressListener has been cleared
\* by then (FFmpegCmd.execute and onProgressCallback).
NoProgressAfterTheEnd == \A id \in Id : ReportsTo(id) => id >= current.id

\* When all tasks and messages are done with, the progress layout is hidden again,
\* although executeFFmpegCmd removes messages of earlier tasks, their MSG_FINISH
\* included; the exception is a dubbing whose extraction failed
\* (MediaHandleActivity.kt:174-177), after which nothing more is sent.
LayoutIsHiddenInTheEnd ==
    ui = "idle" /\ queue = <<>> /\ at = "idle" /\ inbox = <<>> /\ ~dubFailed => ~shown

\* A cancel requested while a task is in the loop of transcode() breaks the loop, even if
\* the input never ends, unless it is taken back.
CancelIsTaken == (cancel /\ at = "loop") ~> (~cancel \/ at # "loop")

\* cancelExecute is to "cancel the running task" (FFmpegHandler.java:88): a cancel
\* requested while a task transcodes is not left to stop another.  It is, when that task's
\* loop is over, or left by an error, before it looks at the flag again: nothing resets
\* the flag and the next task takes it.  A cancel requested while nothing transcodes is
\* not counted here.
CancelStopsTheRunningTask == cancel /\ at = "loop" /\ aim # NoTask => aim = current
-----------------------------------------------------------------------------
(* The inductive invariant of NoProgressAfterTheEnd: where the task whose   *)
(* listener is kept can still be.                                           *)

\* The executor has a task exactly while it is not idle.
HasATask == at = "idle" <=> current = NoTask

\* A task that runs commands has one left.
HasACommand == at \in {"handle", "loop", "closing", "done", "failed"} => left >= 1

\* While execute() is under way there is a task to submit; only one with a listener
\* sets it.
Asking ==
    /\ ui # "idle" => asked \in Kind /\ submitted < MaxTasks
    /\ ui = "listener" => HasListener(asked)

\* Tasks are numbered and run in the order they were submitted.
Consecutive ==
    /\ Len(queue) <= submitted
    /\ \A i \in 1 .. Len(queue) : queue[i].id = submitted - Len(queue) + i
    /\ current # NoTask => current.id = submitted - Len(queue)

\* The listener kept is that of a task which is being submitted, is queued or runs.
ListenerOfATaskToEnd ==
    listener # NoId =>
        \/ listener = submitted + 1 /\ ui = "submit" /\ HasListener(asked)
        \/ \E i \in 1 .. Len(queue) : queue[i].id = listener /\ HasListener(queue[i].kind)
        \/ current.id = listener /\ HasListener(current.kind)

IInv ==
    /\ TypeOK
    /\ HasATask /\ HasACommand /\ Asking
    /\ Consecutive
    /\ ListenerOfATaskToEnd

(* That of LayoutIsHiddenInTheEnd: the layout is shown, or about to be by   *)
(* the last message, only while a MSG_FINISH is still to be sent.           *)

\* Whether the layout is shown when all messages sent so far have been handled.
Showing == IF inbox = <<>> THEN shown ELSE inbox[Len(inbox)] = "MSG_BEGIN"

\* A task that is being submitted, is queued or runs will post its MSG_FINISH.
FinishIsToCome ==
    \/ ui # "idle" /\ PostsMessages(asked)
    \/ \E i \in 1 .. Len(queue) : PostsMessages(queue[i].kind)
    \/ at \notin {"idle", "forget"} /\ PostsMessages(current.kind)

WillBeHidden == dubFailed \/ ~Showing \/ FinishIsToCome

IInvOfLayout == IInv /\ WillBeHidden
=============================================================================
