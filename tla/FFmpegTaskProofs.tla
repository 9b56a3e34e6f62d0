-------------------------- MODULE FFmpegTaskProofs --------------------------
(***************************************************************************)
(* What holds of FFmpegTask for any number of tasks and commands: that it  *)
(* is well typed, that progress never goes to the listener of a task that  *)
(* has had its end, and that the progress layout is not shown for good.    *)
(***************************************************************************)
EXTENDS FFmpegTask, TLAPS

\* A queue whose first element is taken.
LEMMA Taken ==
    ASSUME NEW S, NEW s \in Seq(S), s # <<>>
    PROVE  /\ Len(s) >= 1
           /\ Head(s) = s[1]
           /\ Head(s) \in S
           /\ Tail(s) \in Seq(S)
           /\ Len(Tail(s)) = Len(s) - 1
           /\ \A i \in 1 .. Len(s) - 1 : Tail(s)[i] = s[i + 1]
  OBVIOUS

\* A queue to which an element is added.
LEMMA Added ==
    ASSUME NEW S, NEW s \in Seq(S), NEW e \in S
    PROVE  /\ Append(s, e) \in Seq(S)
           /\ Len(Append(s, e)) = Len(s) + 1
           /\ Append(s, e)[Len(s) + 1] = e
           /\ \A i \in 1 .. Len(s) : Append(s, e)[i] = s[i]
  OBVIOUS

LEMMA Tasks ==
    /\ NoTask \notin Task
    /\ NoTask.id = 0 /\ ~HasListener(NoTask.kind)
    /\ \A t \in Task : t.id \in Id /\ t.kind \in Kind /\ t # NoTask
    /\ \A i \in Id, kd \in Kind :
          /\ [id |-> i, kind |-> kd] \in Task
          /\ [id |-> i, kind |-> kd].id = i
          /\ [id |-> i, kind |-> kd].kind = kd
  BY DEF NoTask, NoId, Task, Id, Kind, HasListener

Message == {"MSG_BEGIN", "MSG_FINISH"}

LEMMA PostType ==
    ASSUME inbox \in Seq(Message), NEW m \in Message, Post(m)
    PROVE  inbox' \in Seq(Message)
  BY DEF Post

-----------------------------------------------------------------------------
(* The initial state.                                                       *)

LEMMA InductiveInit == Init => IInv
<1> SUFFICES ASSUME Init PROVE IInv
  OBVIOUS
<1>1. TypeOK
  <2>1. queue \in Seq(Task) /\ inbox \in Seq(Message)
    <3>1. queue = <<>> /\ inbox = <<>>
      BY DEF Init
    <3> QED
      BY <3>1
  <2>2. submitted \in 0 .. MaxTasks /\ left \in Nat
    BY BoundAssumption DEF Init
  <2>3. listener \in Id \union {NoId} /\ {current, aim} \subseteq Task \union {NoTask}
    BY DEF Init, NoId
  <2>4. {cancel, shown, dubFailed} \subseteq BOOLEAN
    BY DEF Init
  <2>5. /\ ui = "idle" /\ at = "idle" /\ asked = "none"
    BY DEF Init
  <2> QED
    BY <2>1, <2>2, <2>3, <2>4, <2>5 DEF TypeOK, Message
<1>2. HasATask /\ HasACommand /\ Asking /\ ListenerOfATaskToEnd
  BY DEF Init, HasATask, HasACommand, Asking, ListenerOfATaskToEnd
<1>3. Consecutive
  BY DEF Init, Consecutive
<1> QED
  BY <1>1, <1>2, <1>3 DEF IInv

-----------------------------------------------------------------------------
(* The steps of the executor within a task, and those of the UI thread that *)
(* do not touch the queue or the listener.                                  *)

\* What the invariant is about besides the types, left as it was.
Frame == UNCHANGED <<submitted, ui, asked, queue, current, listener>>

LEMMA FrameStep ==
    ASSUME IInv, Frame
    PROVE  Asking' /\ Consecutive' /\ ListenerOfATaskToEnd'
  BY DEF IInv, Frame, Asking, Consecutive, ListenerOfATaskToEnd

LEMMA UIStep ==
    ASSUME IInv, HandleMessage \/ \E on \in BOOLEAN : CancelExecute(on)
    PROVE  IInv'
<1>1. Frame /\ UNCHANGED <<at, left>>
  BY DEF HandleMessage, CancelExecute, execVars, uiVars, Frame
<1>2. CASE HandleMessage
  <2>1. inbox' \in Seq(Message)
    BY <1>2, Taken DEF IInv, TypeOK, HandleMessage, Message
  <2>2. TypeOK'
    BY <1>2, <1>1, <2>1 DEF IInv, TypeOK, HandleMessage, Message, Frame, history
  <2> QED
    BY <1>1, <2>2, FrameStep DEF IInv, HasATask, HasACommand, Frame
<1>3. ASSUME NEW on \in BOOLEAN, CancelExecute(on) PROVE IInv'
  <2>1. TypeOK'
    BY <1>3, <1>1 DEF IInv, TypeOK, CancelExecute, Transcoding, Frame, uiVars
  <2> QED
    BY <1>1, <2>1, FrameStep DEF IInv, HasATask, HasACommand, Frame
<1> QED
  BY <1>2, <1>3

LEMMA TaskStep ==
    ASSUME IInv, Begin \/ Handle \/ LoopEnds \/ Cancelled \/ Close \/ NextOfList \/ NextOfDubbing
    PROVE  IInv'
<1>1. Frame
  BY DEF Begin, Handle, LoopEnds, Cancelled, Close, NextOfList, NextOfDubbing, uiVars, Frame
<1>2. UNCHANGED <<shown, history>>
  BY DEF Begin, Handle, LoopEnds, Cancelled, Close, NextOfList, NextOfDubbing, uiVars
<1>3. /\ at' \in {"handle", "loop", "closing", "done", "failed", "end"}
      /\ at # "idle"
  BY DEF Begin, Handle, LoopEnds, Cancelled, Close, NextOfList, NextOfDubbing, Goto
<1>4. left' \in Nat /\ HasACommand'
  <2>1. CASE Begin
    BY <2>1, BoundAssumption DEF IInv, TypeOK, HasACommand, Begin, Goto
  <2>2. CASE Handle \/ LoopEnds \/ Cancelled \/ Close
    BY <2>2 DEF IInv, TypeOK, HasACommand, Handle, LoopEnds, Cancelled, Close, Goto
  <2>3. CASE NextOfList \/ NextOfDubbing
    BY <2>3 DEF IInv, TypeOK, HasACommand, NextOfList, NextOfDubbing, Goto
  <2> QED
    BY <2>1, <2>2, <2>3
<1>5. cancel' \in BOOLEAN /\ inbox' \in Seq(Message)
  <2>1. CASE Begin
    BY <2>1, PostType DEF IInv, TypeOK, Begin, Message
  <2>2. CASE ~Begin
    BY <2>2 DEF IInv, TypeOK, Message, Handle, LoopEnds, Cancelled, TakeCancel, Close,
                NextOfList, NextOfDubbing
  <2> QED
    BY <2>1, <2>2
<1>6. TypeOK'
  BY <1>1, <1>2, <1>3, <1>4, <1>5 DEF IInv, TypeOK, Frame, history, Message
<1>7. HasATask'
  BY <1>1, <1>3 DEF IInv, HasATask, Frame
<1> QED
  BY <1>1, <1>4, <1>6, <1>7, FrameStep DEF IInv

-----------------------------------------------------------------------------
(* Submission.                                                              *)

LEMMA ExecuteStep == ASSUME IInv, Execute PROVE IInv'
<1> PICK kd \in Kind : Ask(kd)
  BY DEF Execute
<1>1. /\ UNCHANGED <<submitted, shown, queue, execVars, listener, cancel, history>>
      /\ ui = "idle" /\ submitted < MaxTasks
      /\ asked' = kd
      /\ ui' = IF HasListener(kd) THEN "listener" ELSE "submit"
  BY DEF Execute, Ask
<1>2. inbox' \in Seq(Message)
  <2>1. CASE kd = "cmd"
    <3>1. inbox' = <<>>
      BY <2>1 DEF Ask
    <3> QED
      BY <3>1
  <2>2. CASE kd # "cmd"
    BY <2>2 DEF Ask, IInv, TypeOK, Message
  <2> QED
    BY <2>1, <2>2
<1>3. TypeOK'
  BY <1>1, <1>2 DEF IInv, TypeOK, execVars, history, Message
<1>4. Asking' /\ HasATask' /\ HasACommand' /\ Consecutive'
  BY <1>1 DEF IInv, Asking, HasATask, HasACommand, Consecutive, execVars
<1>5. ListenerOfATaskToEnd'
  BY <1>1 DEF IInv, ListenerOfATaskToEnd, execVars
<1> QED
  BY <1>3, <1>4, <1>5 DEF IInv

LEMMA SetListenerStep == ASSUME IInv, SetListener PROVE IInv'
<1>1. /\ UNCHANGED <<submitted, asked, shown, queue, execVars, cancel, inbox, history>>
      /\ ui = "listener" /\ ui' = "submit"
      /\ listener' = submitted + 1
  BY DEF SetListener
<1>2. submitted < MaxTasks /\ HasListener(asked) /\ asked \in Kind
  BY <1>1 DEF IInv, Asking
<1>3. listener' \in Id
  BY <1>1, <1>2, BoundAssumption DEF IInv, TypeOK, Id
<1>4. TypeOK'
  BY <1>1, <1>3 DEF IInv, TypeOK, execVars, history
<1>5. Asking' /\ HasATask' /\ HasACommand' /\ Consecutive'
  BY <1>1, <1>2 DEF IInv, Asking, HasATask, HasACommand, Consecutive, execVars
<1>6. ListenerOfATaskToEnd'
  BY <1>1, <1>2 DEF ListenerOfATaskToEnd
<1> QED
  BY <1>4, <1>5, <1>6 DEF IInv

LEMMA SubmitStep == ASSUME IInv, Submit PROVE IInv'
<1> DEFINE task == [id |-> submitted + 1, kind |-> asked]
<1>1. /\ UNCHANGED <<shown, execVars, listener, cancel, inbox, history>>
      /\ ui = "submit" /\ ui' = "idle" /\ asked' = "none"
      /\ submitted' = submitted + 1
      /\ queue' = Append(queue, task)
  BY DEF Submit
<1>2. /\ submitted \in Nat /\ submitted + 1 \in Id /\ asked \in Kind
      /\ queue \in Seq(Task) /\ submitted + 1 <= MaxTasks
  BY <1>1, BoundAssumption DEF IInv, TypeOK, Asking, Id
<1>3. task \in Task /\ task.id = submitted + 1 /\ task.kind = asked
  BY <1>2, Tasks
<1> HIDE DEF task
<1>4. /\ queue' \in Seq(Task)
      /\ Len(queue') = Len(queue) + 1 /\ Len(queue) \in Nat
      /\ queue'[Len(queue) + 1] = task
      /\ \A i \in 1 .. Len(queue) : queue'[i] = queue[i]
  BY <1>1, <1>2, <1>3, Added
<1>5. TypeOK'
  BY <1>1, <1>2, <1>4 DEF IInv, TypeOK, execVars, history
<1>6. Asking' /\ HasATask' /\ HasACommand'
  BY <1>1 DEF IInv, Asking, HasATask, HasACommand, execVars
<1>7. Consecutive'
  <2>1. Len(queue') <= submitted'
    BY <1>1, <1>2, <1>4 DEF IInv, Consecutive
  <2>2. ASSUME NEW i \in 1 .. Len(queue')
        PROVE  queue'[i].id = submitted' - Len(queue') + i
    <3>1. CASE i = Len(queue) + 1
      BY <3>1, <1>1, <1>2, <1>3, <1>4
    <3>2. CASE i # Len(queue) + 1
      BY <3>2, <1>1, <1>2, <1>4 DEF IInv, Consecutive
    <3> QED
      BY <3>1, <3>2
  <2>3. current' # NoTask => current'.id = submitted' - Len(queue')
    BY <1>1, <1>2, <1>4 DEF IInv, Consecutive, execVars
  <2> QED
    BY <2>1, <2>2, <2>3 DEF Consecutive
<1>8. ListenerOfATaskToEnd'
  <2> SUFFICES ASSUME listener # NoId
               PROVE  \/ \E i \in 1 .. Len(queue') :
                             queue'[i].id = listener /\ HasListener(queue'[i].kind)
                      \/ current.id = listener /\ HasListener(current.kind)
    BY <1>1 DEF ListenerOfATaskToEnd, execVars
  <2>1. CASE listener = submitted + 1 /\ HasListener(asked)
    BY <2>1, <1>3, <1>4
  <2>2. ASSUME NEW i \in 1 .. Len(queue), queue[i].id = listener, HasListener(queue[i].kind)
        PROVE  \E j \in 1 .. Len(queue') :
                   queue'[j].id = listener /\ HasListener(queue'[j].kind)
    BY <2>2, <1>4
  <2> QED
    BY <2>1, <2>2 DEF IInv, ListenerOfATaskToEnd
<1> QED
  BY <1>5, <1>6, <1>7, <1>8 DEF IInv

-----------------------------------------------------------------------------
(* The beginning and the end of a task.                                     *)

LEMMA TakeTaskStep == ASSUME IInv, TakeTask PROVE IInv'
<1>1. /\ UNCHANGED <<uiVars, left, listener, cancel, inbox, history>>
      /\ at = "idle" /\ at' = "begin"
      /\ queue # <<>> /\ current' = Head(queue) /\ queue' = Tail(queue)
  BY DEF TakeTask, Goto
<1>2. queue \in Seq(Task) /\ submitted \in Nat /\ current = NoTask
  BY <1>1, BoundAssumption DEF IInv, TypeOK, HasATask
<1>3. /\ Len(queue) \in Nat /\ Len(queue) >= 1
      /\ current' = queue[1] /\ current' \in Task
      /\ queue' \in Seq(Task) /\ Len(queue') = Len(queue) - 1
      /\ \A i \in 1 .. Len(queue) - 1 : queue'[i] = queue[i + 1]
  BY <1>1, <1>2, Taken
<1>4. TypeOK'
  BY <1>1, <1>3 DEF IInv, TypeOK, uiVars, history
<1>5. Asking' /\ HasATask' /\ HasACommand'
  BY <1>1, <1>3, Tasks DEF IInv, Asking, HasATask, HasACommand, uiVars
<1>6. Consecutive'
  <2>1. /\ Len(queue) <= submitted
        /\ \A i \in 1 .. Len(queue) : queue[i].id = submitted - Len(queue) + i
    BY DEF IInv, Consecutive
  <2>2. ASSUME NEW i \in 1 .. Len(queue') PROVE queue'[i].id = submitted - Len(queue') + i
    <3>1. i + 1 \in 1 .. Len(queue) /\ queue'[i] = queue[i + 1]
      BY <1>3
    <3> QED
      BY <3>1, <2>1, <1>2, <1>3
  <2>3. current'.id = submitted - Len(queue')
    BY <2>1, <1>2, <1>3
  <2> QED
    BY <2>1, <2>2, <2>3, <1>1, <1>2, <1>3 DEF Consecutive, uiVars
<1>7. ListenerOfATaskToEnd'
  <2> SUFFICES ASSUME listener # NoId
               PROVE  \/ listener = submitted + 1 /\ ui = "submit" /\ HasListener(asked)
                      \/ \E i \in 1 .. Len(queue') :
                             queue'[i].id = listener /\ HasListener(queue'[i].kind)
                      \/ current'.id = listener /\ HasListener(current'.kind)
    BY <1>1 DEF ListenerOfATaskToEnd, uiVars
  <2>1. ASSUME NEW i \in 1 .. Len(queue), queue[i].id = listener, HasListener(queue[i].kind)
        PROVE  \/ \E j \in 1 .. Len(queue') :
                      queue'[j].id = listener /\ HasListener(queue'[j].kind)
               \/ current'.id = listener /\ HasListener(current'.kind)
    <3>1. CASE i = 1
      BY <3>1, <2>1, <1>3
    <3>2. CASE i # 1
      <4>1. i - 1 \in 1 .. Len(queue') /\ queue'[i - 1] = queue[i]
        BY <3>2, <1>3
      <4> QED
        BY <4>1, <2>1
    <3> QED
      BY <3>1, <3>2
  <2>2. ~(current.id = listener /\ HasListener(current.kind))
    BY <1>2, Tasks
  <2> QED
    BY <2>1, <2>2 DEF IInv, ListenerOfATaskToEnd
<1> QED
  BY <1>4, <1>5, <1>6, <1>7 DEF IInv

\* The task ends, and its listener, if it had one, is not kept.
LEMMA TaskEnds ==
    ASSUME IInv,
           UNCHANGED <<submitted, ui, asked, queue>>,
           current' = NoTask, at' = "idle", listener' \in {NoId, listener},
           listener' = listener => ~HasListener(current.kind) \/ listener = NoId
    PROVE  Asking' /\ HasATask' /\ HasACommand' /\ Consecutive' /\ ListenerOfATaskToEnd'
<1>1. Asking' /\ HasATask' /\ HasACommand' /\ Consecutive'
  BY DEF IInv, Asking, HasATask, HasACommand, Consecutive
<1>2. ListenerOfATaskToEnd'
  BY DEF IInv, ListenerOfATaskToEnd
<1> QED
  BY <1>1, <1>2

LEMMA GivesUpStep == ASSUME IInv, DubbingGivesUp PROVE IInv'
<1>1. /\ UNCHANGED <<submitted, ui, asked, queue, shown, listener, cancel, inbox, aim>>
      /\ current' = NoTask /\ at' = "idle" /\ left' = 0 /\ dubFailed' = TRUE
      /\ ~HasListener(current.kind)
  BY DEF DubbingGivesUp, Goto, uiVars, HasListener
<1>2. TypeOK'
  BY <1>1 DEF IInv, TypeOK
<1> QED
  BY <1>1, <1>2, TaskEnds DEF IInv

LEMMA ForgetStep == ASSUME IInv, ForgetListener PROVE IInv'
<1>1. /\ UNCHANGED <<submitted, ui, asked, queue, shown, left, cancel, inbox, history>>
      /\ current' = NoTask /\ at' = "idle" /\ listener' = NoId
  BY DEF ForgetListener, Forget, Goto, uiVars
<1>2. TypeOK'
  BY <1>1 DEF IInv, TypeOK, history
<1> QED
  BY <1>1, <1>2, TaskEnds DEF IInv

LEMMA EndStep == ASSUME IInv, End PROVE IInv'
<1>1. UNCHANGED <<submitted, ui, asked, queue, shown, left, listener, cancel, history>>
  BY DEF End, uiVars
<1>2. inbox' \in Seq(Message)
  BY PostType DEF IInv, TypeOK, End, Message
<1>3. CASE HasListener(current.kind)
  <2>1. at = "end" /\ at' = "forget" /\ UNCHANGED current
    BY <1>3 DEF End, Goto
  <2>2. TypeOK'
    BY <1>1, <1>2, <2>1 DEF IInv, TypeOK, history, Message
  <2> QED
    BY <1>1, <2>1, <2>2, FrameStep DEF IInv, HasATask, HasACommand, Frame
<1>4. CASE ~HasListener(current.kind)
  <2>1. at' = "idle" /\ current' = NoTask
    BY <1>4 DEF End, Goto
  <2>2. TypeOK'
    BY <1>1, <1>2, <2>1 DEF IInv, TypeOK, history, Message
  <2> QED
    BY <1>1, <1>4, <2>1, <2>2, TaskEnds DEF IInv
<1> QED
  BY <1>3, <1>4

-----------------------------------------------------------------------------
LEMMA InductiveStep == IInv /\ [Next]_vars => IInv'
<1> SUFFICES ASSUME IInv, [Next]_vars PROVE IInv'
  OBVIOUS
<1>1. CASE Next
  BY <1>1, UIStep, TaskStep, ExecuteStep, SetListenerStep, SubmitStep, TakeTaskStep,
     GivesUpStep, ForgetStep, EndStep DEF Next, UIContinues, Executes
<1>2. CASE UNCHANGED vars
  <2>1. Frame /\ UNCHANGED <<at, left, shown, cancel, inbox, history>>
    BY <1>2 DEF vars, uiVars, execVars, Frame
  <2>2. TypeOK'
    BY <2>1 DEF IInv, TypeOK, Frame, history
  <2> QED
    BY <2>1, <2>2, FrameStep DEF IInv, HasATask, HasACommand, Frame
<1> QED
  BY <1>1, <1>2

\* Where the listener's task can be, it is not behind the one that runs.
LEMMA InductiveImplies == IInv => NoProgressAfterTheEnd
<1> SUFFICES ASSUME IInv, NEW id \in Id, ReportsTo(id) PROVE id >= current.id
  BY DEF NoProgressAfterTheEnd
<1>1. listener = id /\ id # NoId /\ current # NoTask
  BY DEF ReportsTo, IInv, HasATask
<1>2. submitted \in Nat /\ Len(queue) \in Nat /\ current.id = submitted - Len(queue)
  BY <1>1, BoundAssumption DEF IInv, TypeOK, Consecutive
<1>3. CASE id = submitted + 1
  BY <1>2, <1>3
<1>4. ASSUME NEW i \in 1 .. Len(queue), queue[i].id = id PROVE id >= current.id
  BY <1>2, <1>4 DEF IInv, Consecutive
<1>5. CASE current.id = id
  BY <1>2, <1>5
<1> QED
  BY <1>1, <1>3, <1>4, <1>5 DEF IInv, ListenerOfATaskToEnd

\* The model is well typed, for any number of tasks and of commands in a list.
THEOREM TypeCorrect == Spec => []TypeOK
<1>1. IInv => TypeOK
  BY DEF IInv
<1> QED
  BY InductiveInit, InductiveStep, <1>1, PTL DEF Spec

\* However submissions interleave with the ends of earlier tasks, which clear the
\* listener whoever has set it, progress never goes to the listener of a task that has
\* had its onEnd.
THEOREM FinishedTasksHearNoProgress == Spec => []NoProgressAfterTheEnd
  BY InductiveInit, InductiveStep, InductiveImplies, PTL DEF Spec
-----------------------------------------------------------------------------
(* The progress layout.                                                     *)

\* A message sent is the one that decides.
LEMMA PostDecides ==
    ASSUME inbox \in Seq(Message), NEW m \in Message, inbox' = Append(inbox, m)
    PROVE  Showing' <=> m = "MSG_BEGIN"
<1>1. inbox' # <<>> /\ inbox'[Len(inbox')] = m
  OBVIOUS
<1> QED
  BY <1>1 DEF Showing

\* Handling a message changes nothing of what will be shown in the end.
LEMMA HandleDecidesNothing ==
    ASSUME inbox \in Seq(Message), HandleMessage
    PROVE  Showing' <=> Showing
<1>1. /\ inbox # <<>> /\ shown' = (Head(inbox) = "MSG_BEGIN") /\ inbox' = Tail(inbox)
      /\ Head(inbox) = inbox[1] /\ Len(inbox) >= 1
      /\ Tail(inbox) \in Seq(Message) /\ Len(Tail(inbox)) = Len(inbox) - 1
      /\ \A i \in 1 .. Len(inbox) - 1 : Tail(inbox)[i] = inbox[i + 1]
  BY Taken DEF HandleMessage
<1>2. CASE Len(inbox) = 1
  <2>1. inbox' = <<>>
    BY <1>1, <1>2
  <2> QED
    BY <1>1, <1>2, <2>1 DEF Showing
<1>3. CASE Len(inbox) # 1
  <2>1. inbox' # <<>> /\ Len(inbox') \in 1 .. Len(inbox) - 1
    BY <1>1, <1>3
  <2>2. inbox'[Len(inbox')] = inbox[Len(inbox)]
    BY <1>1, <2>1
  <2> QED
    BY <1>1, <2>1, <2>2 DEF Showing
<1> QED
  BY <1>2, <1>3

LEMMA HiddenStep ==
    ASSUME IInv, WillBeHidden, [Next]_vars
    PROVE  WillBeHidden'
<1> inbox \in Seq(Message) /\ queue \in Seq(Task)
  BY DEF IInv, TypeOK, Message
<1>1. CASE UNCHANGED vars
  BY <1>1 DEF vars, uiVars, execVars, history, WillBeHidden, Showing, FinishIsToCome
<1>2. ASSUME NEW kd \in Kind, Ask(kd), Execute PROVE WillBeHidden'
  <2>1. ui = "idle" /\ ui' # "idle" /\ asked' = kd
    BY <1>2 DEF Ask
  <2>2. UNCHANGED <<queue, shown, at, current, dubFailed>>
    BY <1>2 DEF Execute, execVars, history
  <2>3. CASE PostsMessages(kd)
    BY <2>1, <2>3 DEF WillBeHidden, FinishIsToCome
  <2>4. CASE ~PostsMessages(kd)
    <3>1. UNCHANGED inbox
      BY <1>2, <2>4 DEF Ask, PostsMessages
    <3> QED
      BY <2>1, <2>2, <3>1 DEF WillBeHidden, Showing, FinishIsToCome
  <2> QED
    BY <2>3, <2>4
<1>3. CASE SetListener
  BY <1>3 DEF SetListener, execVars, history, WillBeHidden, Showing, FinishIsToCome
<1>4. CASE Submit
  <2>1. /\ UNCHANGED <<shown, at, current, inbox, dubFailed>>
        /\ ui = "submit" /\ ui' = "idle"
        /\ queue' = Append(queue, [id |-> submitted + 1, kind |-> asked])
    BY <1>4 DEF Submit, execVars, history
  <2>2. [id |-> submitted + 1, kind |-> asked] \in Task
    BY <2>1, BoundAssumption DEF IInv, TypeOK, Asking, Task, Id
  <2>3. /\ Len(queue) \in Nat /\ Len(queue') = Len(queue) + 1
        /\ queue'[Len(queue) + 1].kind = asked
        /\ \A i \in 1 .. Len(queue) : queue'[i] = queue[i]
    BY <2>1, <2>2, Added
  <2>4. FinishIsToCome => FinishIsToCome'
    BY <2>1, <2>3 DEF FinishIsToCome
  <2> QED
    BY <2>1, <2>4 DEF WillBeHidden, Showing
<1>5. CASE HandleMessage
  <2>1. UNCHANGED <<ui, asked, queue, at, current, dubFailed>>
    BY <1>5 DEF HandleMessage, execVars, history
  <2> QED
    BY <1>5, <2>1, HandleDecidesNothing DEF WillBeHidden, FinishIsToCome
<1>6. ASSUME NEW on \in BOOLEAN, CancelExecute(on) PROVE WillBeHidden'
  BY <1>6 DEF CancelExecute, uiVars, execVars, WillBeHidden, Showing, FinishIsToCome
<1>7. CASE TakeTask
  <2>1. /\ UNCHANGED <<ui, asked, shown, inbox, dubFailed>>
        /\ at = "idle" /\ at' = "begin"
        /\ queue # <<>> /\ current' = Head(queue) /\ queue' = Tail(queue)
    BY <1>7 DEF TakeTask, Goto, uiVars, history
  <2>2. /\ Len(queue) \in Nat /\ Len(queue') = Len(queue) - 1
        /\ current' = queue[1]
        /\ \A i \in 1 .. Len(queue) - 1 : queue'[i] = queue[i + 1]
    BY <2>1, Taken
  <2>3. ASSUME NEW i \in 1 .. Len(queue), PostsMessages(queue[i].kind) PROVE FinishIsToCome'
    <3>1. CASE i = 1
      BY <2>1, <2>2, <2>3, <3>1 DEF FinishIsToCome
    <3>2. CASE i # 1
      <4>1. i - 1 \in 1 .. Len(queue') /\ queue'[i - 1] = queue[i]
        BY <2>2, <3>2
      <4> QED
        BY <2>3, <4>1 DEF FinishIsToCome
    <3> QED
      BY <3>1, <3>2
  <2>4. FinishIsToCome => FinishIsToCome'
    BY <2>1, <2>3 DEF FinishIsToCome
  <2> QED
    BY <2>1, <2>4 DEF WillBeHidden, Showing
<1>8. CASE Begin
  <2>1. UNCHANGED <<ui, asked, queue, shown, current, dubFailed>>
    BY <1>8 DEF Begin, uiVars, history
  <2>2. at \notin {"idle", "forget"} /\ at' \notin {"idle", "forget"}
    BY <1>8 DEF Begin, Goto
  <2>3. CASE PostsMessages(current.kind)
    BY <2>1, <2>2, <2>3 DEF WillBeHidden, FinishIsToCome
  <2>4. CASE ~PostsMessages(current.kind)
    <3>1. UNCHANGED inbox
      BY <1>8, <2>4 DEF Begin, Post
    <3> QED
      BY <2>1, <2>2, <3>1 DEF WillBeHidden, Showing, FinishIsToCome
  <2> QED
    BY <2>3, <2>4
<1>9. CASE Handle \/ LoopEnds \/ Cancelled \/ Close \/ NextOfList \/ NextOfDubbing
  <2>1. /\ UNCHANGED <<ui, asked, queue, shown, current, inbox, dubFailed>>
        /\ at \notin {"idle", "forget"} /\ at' \notin {"idle", "forget"}
    BY <1>9 DEF Handle, LoopEnds, Cancelled, Close, NextOfList, NextOfDubbing, Goto, uiVars,
                history
  <2> QED
    BY <2>1 DEF WillBeHidden, Showing, FinishIsToCome
<1>10. CASE DubbingGivesUp
  BY <1>10 DEF DubbingGivesUp, WillBeHidden
<1>11. CASE End
  <2>1. UNCHANGED <<ui, asked, queue, shown, dubFailed>> /\ at = "end"
    BY <1>11 DEF End, uiVars, history
  <2>2. CASE PostsMessages(current.kind)
    <3>1. inbox' = Append(inbox, "MSG_FINISH")
      BY <1>11, <2>2 DEF End, Post
    <3>2. ~Showing'
      BY <3>1, PostDecides DEF Message
    <3> QED
      BY <3>2 DEF WillBeHidden
  <2>3. CASE ~PostsMessages(current.kind)
    <3>1. UNCHANGED inbox
      BY <1>11, <2>3 DEF End, Post
    <3> QED
      BY <2>1, <2>3, <3>1 DEF WillBeHidden, Showing, FinishIsToCome
  <2> QED
    BY <2>2, <2>3
<1>12. CASE ForgetListener
  BY <1>12 DEF ForgetListener, uiVars, history, WillBeHidden, Showing, FinishIsToCome
<1> QED
  BY <1>1, <1>2, <1>3, <1>4, <1>5, <1>6, <1>7, <1>8, <1>9, <1>10, <1>11, <1>12
     DEF Next, Execute, UIContinues, Executes

\* However the activity's messages are removed by later submissions, the layout does not
\* stay once every task is over, unless a dubbing gave up.
THEOREM LayoutEndsHidden == Spec => []LayoutIsHiddenInTheEnd
<1>1. Init => WillBeHidden
  BY DEF Init, WillBeHidden, Showing
<1>2. IInv /\ WillBeHidden => LayoutIsHiddenInTheEnd
  <2> SUFFICES ASSUME IInv, WillBeHidden, ui = "idle", queue = <<>>, at = "idle",
                      inbox = <<>>, ~dubFailed
               PROVE  ~shown
    BY DEF LayoutIsHiddenInTheEnd
  <2>1. ~FinishIsToCome
    BY DEF FinishIsToCome
  <2> QED
    BY <2>1 DEF WillBeHidden, Showing
<1>3. IInvOfLayout /\ [Next]_vars => IInvOfLayout'
  BY InductiveStep, HiddenStep DEF IInvOfLayout
<1> QED
  BY InductiveInit, <1>1, <1>2, <1>3, PTL DEF Spec, IInvOfLayout
=============================================================================
