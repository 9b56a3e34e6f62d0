----------------------------- MODULE TransTask -----------------------------
(***************************************************************************)
(* A voice file becomes text: AudioToTextDialog and what it calls of       *)
(* AudioManager and OSSManager.  A dialog uploads its file, has a task     *)
(* created for it and asks for the result with every tick of a timer.      *)
(* Uploads and queries run on other threads and answer to the main thread. *)
(* The task's id goes from the upload to the timer through one key of a    *)
(* store on disk that all dialogs use, so dialogs may meet there.          *)
(***************************************************************************)
EXTENDS Naturals, Sequences

CONSTANTS Dialog,       \* a dialog makes one task at most, which has its name here
          Older,        \* the id the store keeps from an earlier run
          Name,         \* names of text files, which are times in milliseconds
          Unwritten,    \* what a file holds that there is not
          MaxTicks      \* 90: the timer's length in ticks

ASSUME ConstantAssumption ==
    /\ Older \notin Dialog /\ Unwritten \notin Dialog \union {Older}
    /\ Name \intersect {"asked", "saving", "failed"} = {}
    /\ MaxTicks \in Nat

VARIABLES
    task_id,    \* the key in the store
    windows,    \* dialogs on the screen, the top one last
    opened,     \* dialogs ever shown
    isTasking, upload, timer, ticks, says,  \* of each dialog
    queries,    \* getTextResult() calls under way
    server,     \* each task's state at the service
    files,      \* under each name, the task whose text was written there last
    shared,     \* history: names that more than one query has written to
    told,       \* history: texts a dialog has announced, with the file's name
    since       \* history: ids stored since each dialog's own one was, that one too

dialogVars == <<windows, opened, isTasking, upload, timer, ticks, says>>
fileVars == <<files, shared>>
vars == <<task_id, dialogVars, queries, server, fileVars, told, since>>

\* upload: "none", "busy", "created" and "refused" (an answer is on its way to the main
\* thread), "answered", "lost" (no answer will come).
Upload == {"none", "busy", "created", "refused", "answered", "lost"}

\* A query: "asked" and, when it has told of a failure but goes on, "saving".  Its answers
\* on their way to the main thread: "failed", or the name of the file it has saved.
Query == [dialog : Dialog, tick : 1..MaxTicks, task : Dialog \union {Older},
          at : {"asked", "saving", "failed"} \union Name]
At(q, place) == [q EXCEPT !.at = place]
OnTop(d) == windows # <<>> /\ windows[Len(windows)] = d
Shown(d) == \E i \in DOMAIN windows : windows[i] = d

Init ==
    /\ task_id = Older
    /\ windows = <<>> /\ opened = {}
    /\ isTasking = [d \in Dialog |-> FALSE]
    /\ upload = [d \in Dialog |-> "none"]
    /\ timer = [d \in Dialog |-> "off"]
    /\ ticks = [d \in Dialog |-> 0]
    /\ says = [d \in Dialog |-> "ready"]
    /\ queries = {} /\ told = {}
    /\ files = [name \in Name |-> Unwritten] /\ shared = {}
    /\ server = [t \in Dialog \union {Older} |-> IF t = Older THEN "done" ELSE "none"]
    /\ since = [d \in Dialog |-> {}]
-----------------------------------------------------------------------------
(* The user.  A dialog is shown when checkPay() has answered, which may be  *)
(* on top of another; only the top one can be touched.                      *)

Show(d) ==
    /\ d \notin opened
    /\ opened' = opened \union {d}
    /\ windows' = Append(windows, d)
    /\ UNCHANGED <<task_id, isTasking, upload, timer, ticks, says, queries, server, fileVars, told, since>>

\* converter's listener; the button is never enabled again.
Convert(d) ==
    /\ OnTop(d)
    /\ says[d] = "ready"
    /\ says' = [says EXCEPT ![d] = "working"]
    /\ isTasking' = [isTasking EXCEPT ![d] = TRUE]
    /\ upload' = [upload EXCEPT ![d] = "busy"]
    /\ UNCHANGED <<task_id, windows, opened, timer, ticks, queries, server, fileVars, told, since>>

\* close's listener.  Uploads and queries go on.
Close(d) ==
    /\ OnTop(d)
    /\ windows' = SubSeq(windows, 1, Len(windows) - 1)
    /\ isTasking' = [isTasking EXCEPT ![d] = FALSE]
    /\ timer' = [timer EXCEPT ![d] = "off"]
    /\ UNCHANGED <<task_id, opened, upload, ticks, says, queries, server, fileVars, told, since>>
-----------------------------------------------------------------------------
(* getTextFromVoice() and its answers.                                      *)

\* A token, the upload, the task: the empty onFailed of the upload, an exception, or
\* an answer of neither kind, and the dialog never hears of it.
UploadIsLost(d) ==
    /\ upload[d] = "busy"
    /\ upload' = [upload EXCEPT ![d] = "lost"]
    /\ UNCHANGED <<task_id, windows, opened, isTasking, timer, ticks, says, queries, server, fileVars, told, since>>

\* No token, no answer, or an answer with an error message.
Refused(d) ==
    /\ upload[d] = "busy"
    /\ upload' = [upload EXCEPT ![d] = "refused"]
    /\ UNCHANGED <<task_id, windows, opened, isTasking, timer, ticks, says, queries, server, fileVars, told, since>>

\* Mutated form of Created: the dialog is told of a task that is not stored yet.
CreatedNotStored(d) ==
    /\ upload[d] = "busy"
    /\ server' = [server EXCEPT ![d] = "running"]
    /\ upload' = [upload EXCEPT ![d] = "created"]
    /\ UNCHANGED <<task_id, windows, opened, isTasking, timer, ticks, says, queries, fileVars, told, since>>

\* The service has a task; getResult() stores its id and calls the dialog back.
Created(d) ==
    /\ upload[d] = "busy"
    /\ server' = [server EXCEPT ![d] = "running"]
    /\ task_id' = d
    /\ since' = [e \in Dialog |-> IF e = d \/ since[e] # {} THEN since[e] \union {d} ELSE {}]
    /\ upload' = [upload EXCEPT ![d] = "created"]
    /\ UNCHANGED <<windows, opened, isTasking, timer, ticks, says, queries, fileVars, told>>

\* Mutated form of OnSuccess: whether the dialog is closed is not asked.
OnSuccessAnyway(d) ==
    /\ upload[d] = "created"
    /\ upload' = [upload EXCEPT ![d] = "answered"]
    /\ timer' = [timer EXCEPT ![d] = "on"]
    /\ UNCHANGED <<task_id, windows, opened, isTasking, ticks, says, queries, server, fileVars, told, since>>

\* onSuccess on the main thread: the timer starts, unless the dialog is closed.
OnSuccess(d) ==
    /\ upload[d] = "created"
    /\ upload' = [upload EXCEPT ![d] = "answered"]
    /\ timer' = [timer EXCEPT ![d] = IF isTasking[d] THEN "on" ELSE @]
    /\ UNCHANGED <<task_id, windows, opened, isTasking, ticks, says, queries, server, fileVars, told, since>>

\* What either onFailed does on the main thread.
ShowFailure(d) ==
    /\ timer' = [timer EXCEPT ![d] = IF isTasking[d] THEN "off" ELSE @]
    /\ says' = [says EXCEPT ![d] = IF isTasking[d] THEN "failed" ELSE @]

OnFailed(d) ==
    /\ upload[d] = "refused"
    /\ upload' = [upload EXCEPT ![d] = "answered"]
    /\ ShowFailure(d)
    /\ UNCHANGED <<task_id, windows, opened, isTasking, ticks, queries, server, fileVars, told, since>>
-----------------------------------------------------------------------------
(* The timer and getTextResult().                                           *)

\* Mutated form of OnTick: ticks are not counted.
OnTickUncounted(d) ==
    /\ timer[d] = "on"
    /\ queries' = queries \union {[dialog |-> d, tick |-> ticks[d] + 1, task |-> task_id, at |-> "asked"]}
    /\ UNCHANGED <<task_id, windows, opened, isTasking, upload, timer, ticks, says, server, fileVars, told, since>>

\* onTick: the id is read here, and a query launched, whatever queries are under way.
OnTick(d) ==
    /\ timer[d] = "on"
    /\ ticks[d] < MaxTicks
    /\ ticks' = [ticks EXCEPT ![d] = @ + 1]
    /\ queries' = queries \union {[dialog |-> d, tick |-> ticks[d] + 1, task |-> task_id, at |-> "asked"]}
    /\ UNCHANGED <<task_id, windows, opened, isTasking, upload, timer, says, server, fileVars, told, since>>

\* onFinish: nothing but a message.
OnFinish(d) ==
    /\ timer[d] = "on"
    /\ ticks[d] = MaxTicks
    /\ timer' = [timer EXCEPT ![d] = "off"]
    /\ UNCHANGED <<task_id, windows, opened, isTasking, upload, ticks, says, queries, server, fileVars, told, since>>

\* The service is done with a task, or cannot do it.
Serve(t) ==
    /\ server[t] = "running"
    /\ \E result \in {"done", "failed"} : server' = [server EXCEPT ![t] = result]
    /\ UNCHANGED <<task_id, dialogVars, queries, fileVars, told, since>>

\* No result yet, nothing in the answer, or no directory to save in: no callback.
NoResult(q) ==
    /\ q.at = "asked"
    /\ queries' = queries \ {q}
    /\ UNCHANGED <<task_id, dialogVars, server, fileVars, told, since>>

\* saveFile() could not make the directory or the file, which another query of the same
\* millisecond may just have made; it tells of a failure and goes on.
SaveStumbles(q) ==
    /\ q.at \in {"asked", "saving"}
    /\ server[q.task] = "done"
    /\ queries' = (queries \ {q}) \union {At(q, "saving"), At(q, "failed")}
    /\ UNCHANGED <<task_id, dialogVars, server, fileVars, told, since>>

\* saveText(): the name is the time, so two queries of a millisecond write to one file.
SaveText(q) ==
    /\ q.at \in {"asked", "saving"}
    /\ server[q.task] = "done"
    /\ \E name \in Name :
         /\ queries' = (queries \ {q}) \union {At(q, name)}
         /\ files' = [files EXCEPT ![name] = q.task]
         /\ shared' = IF files[name] = Unwritten THEN shared ELSE shared \union {name}
    /\ UNCHANGED <<task_id, dialogVars, server, told, since>>

\* The service could not do it, or the file cannot be written.
NoText(q) ==
    /\ \/ q.at = "asked" /\ server[q.task] \in {"done", "failed"}
       \/ q.at = "saving"
    /\ queries' = (queries \ {q}) \union {At(q, "failed")}
    /\ UNCHANGED <<task_id, dialogVars, server, fileVars, told, since>>

\* onSuccess of a query, on the main thread, behind its onFailed if there is one.
TextSaved(q) ==
    /\ q.at \in Name
    /\ At(q, "failed") \notin queries
    /\ queries' = queries \ {q}
    /\ IF isTasking[q.dialog]
       THEN /\ timer' = [timer EXCEPT ![q.dialog] = "off"]
            /\ says' = [says EXCEPT ![q.dialog] = "done"]
            /\ told' = told \union {[dialog |-> q.dialog, task |-> q.task, name |-> q.at]}
       ELSE UNCHANGED <<timer, says, told>>
    /\ UNCHANGED <<task_id, windows, opened, isTasking, upload, ticks, server, fileVars, since>>

\* onFailed of a query.
TextFailed(q) ==
    /\ q.at = "failed"
    /\ queries' = queries \ {q}
    /\ ShowFailure(q.dialog)
    /\ UNCHANGED <<task_id, windows, opened, isTasking, upload, ticks, server, fileVars, told, since>>
-----------------------------------------------------------------------------
\* The process ends: HttpUtil.post throws in a query, which nothing catches, or the
\* system kills it.  The store, the files and the service stay.
ProcessDies ==
    /\ windows' = <<>>
    /\ isTasking' = [d \in Dialog |-> FALSE]
    /\ upload' = [d \in Dialog |-> IF d \in opened THEN "lost" ELSE "none"]
    /\ timer' = [d \in Dialog |-> "off"]
    /\ queries' = {}
    /\ UNCHANGED <<task_id, opened, ticks, says, server, fileVars, told, since>>

Next ==
    \/ \E d \in Dialog :
        \/ Show(d) \/ Convert(d) \/ Close(d)
        \/ UploadIsLost(d) \/ Refused(d) \/ Created(d) \/ OnSuccess(d) \/ OnFailed(d)
        \/ OnTick(d) \/ OnFinish(d) \/ Serve(d)
    \/ \E q \in queries : NoResult(q) \/ SaveStumbles(q) \/ SaveText(q) \/ NoText(q)
                          \/ TextSaved(q) \/ TextFailed(q)
    \/ ProcessDies

Spec == Init /\ [][Next]_vars
-----------------------------------------------------------------------------
\* Types.  A query is one of a tick that has been.
TypeOK ==
    /\ task_id \in Dialog \union {Older}
    /\ windows \in Seq(Dialog) /\ opened \subseteq Dialog
    /\ isTasking \in [Dialog -> BOOLEAN] /\ upload \in [Dialog -> Upload]
    /\ timer \in [Dialog -> {"off", "on"}] /\ ticks \in [Dialog -> 0..MaxTicks]
    /\ says \in [Dialog -> {"ready", "working", "done", "failed"}]
    /\ queries \subseteq Query /\ \A q \in queries : q.tick <= ticks[q.dialog]
    /\ server \in [Dialog \union {Older} -> {"none", "running", "done", "failed"}]
    /\ files \in [Name -> Dialog \union {Older, Unwritten}] /\ shared \subseteq Name
    /\ told \subseteq [dialog : Dialog, task : Dialog \union {Older}, name : Name]
    /\ since \in [Dialog -> SUBSET Dialog]

\* getResult() stores the id before it calls back, and onTick reads what is stored: a
\* dialog may announce the text of another dialog's file, but never that of a task
\* older than its own, one left by an earlier run least of all.  And the file it names
\* holds that text, except that another query of the same millisecond may have written
\* to it as well.
TellsItsOwnTextOrALaterOne ==
    \A text \in told :
        /\ text.task \in since[text.dialog]
        /\ files[text.name] = text.task \/ text.name \in shared

\* The timer asks only for a dialog that is on the screen and still waits: not for one
\* that was closed while its task was being created, nor after a text was announced or
\* a failure shown, whichever query brought it.  (A dialog whose activity is destroyed
\* under it keeps its timer; the model has no such end of a dialog.)
TimerRunsWhileWaiting ==
    \A d \in Dialog : timer[d] = "on" => Shown(d) /\ says[d] = "working"
=============================================================================
