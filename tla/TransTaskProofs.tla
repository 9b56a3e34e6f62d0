-------------------------- MODULE TransTaskProofs --------------------------
(* Proofs about TransTask, for any number of dialogs and any length of the  *)
(* timer.                                                                   *)
EXTENDS TransTask, SequenceTheorems, TLAPS

(* The invariant that makes the two properties inductive.                   *)

\* A dialog at work is on the screen; one that is not at work there has no upload; a
\* dialog never shown has none either.
ScreenInv ==
    \A d \in Dialog :
        /\ isTasking[d] => Shown(d)
        /\ Shown(d) /\ says[d] = "ready" => upload[d] = "none"
        /\ Shown(d) => d \in opened
        /\ d \notin opened => upload[d] = "none"

\* The upload is answered before the timer runs and a query is made, and says of a
\* dialog at work changes no sooner.
OrderInv ==
    /\ \A d \in Dialog :
        /\ upload[d] \in {"busy", "created", "refused"} /\ isTasking[d] => says[d] = "working"
        /\ timer[d] = "on" => isTasking[d] /\ says[d] = "working" /\ upload[d] = "answered"
    /\ \A q \in queries : upload[q.dialog] \in {"answered", "lost"}

\* A dialog told of its task finds its id in the store or a later one, so its queries
\* ask for such an id and its texts are of such a task; and a file whose name is on its
\* way to the main thread has the query's text, or two have written to it.
StoreInv ==
    /\ \A d \in Dialog :
        /\ since[d] # {} => task_id \in since[d]
        /\ upload[d] = "created" \/ timer[d] = "on" => since[d] # {}
    /\ \A q \in queries :
        /\ q.task \in since[q.dialog]
        /\ q.at \in Name =>
               /\ files[q.at] # Unwritten
               /\ files[q.at] = q.task \/ q.at \in shared
    /\ \A text \in told : files[text.name] # Unwritten

IInv == TypeOK /\ ScreenInv /\ OrderInv /\ StoreInv /\ TellsItsOwnTextOrALaterOne
-----------------------------------------------------------------------------
\* What is on top is shown.
LEMMA TopIsShown == ASSUME NEW d \in Dialog, OnTop(d), windows \in Seq(Dialog) PROVE Shown(d)
  BY DEF OnTop, Shown

\* Closing takes the top dialog away and no other, and a new one goes on top.
LEMMA ShownByShow ==
    ASSUME NEW d \in Dialog, Show(d), windows \in Seq(Dialog)
    PROVE  windows' \in Seq(Dialog) /\ \A e \in Dialog : Shown(e)' <=> Shown(e) \/ e = d
  BY DEF Show, Shown

LEMMA ShownByClose ==
    ASSUME NEW d \in Dialog, Close(d), windows \in Seq(Dialog)
    PROVE  windows' \in Seq(Dialog) /\ \A e \in Dialog \ {d} : Shown(e)' <=> Shown(e)
<1>1. windows # <<>> /\ Len(windows) \in Nat \ {0} /\ windows[Len(windows)] = d
    BY DEF Close, OnTop
<1>2. windows' = SubSeq(windows, 1, Len(windows) - 1)
    BY DEF Close
<1>3. /\ windows' \in Seq(Dialog) /\ Len(windows') = Len(windows) - 1
      /\ \A i \in 1..(Len(windows) - 1) : windows'[i] = windows[i]
  <2>1. \A i \in 1..(Len(windows) - 1) : windows[i] \in Dialog
    BY <1>1
  <2>2. Len(windows) - 1 \in Nat
    BY <1>1
  <2>3. Len(SubSeq(windows, 1, Len(windows) - 1)) = Len(windows) - 1
    <3>1. ASSUME NEW n \in Nat, \A i \in 1..n : windows[i] \in Dialog
          PROVE  Len(SubSeq(windows, 1, n)) = n
        BY <3>1, SubSeqProperties
    <3> QED
        BY <2>1, <2>2, <3>1
  <2>4. SubSeq(windows, 1, Len(windows) - 1) \in Seq(Dialog)
    BY <2>1, <2>2
  <2>5. \A i \in 1..(Len(windows) - 1) : SubSeq(windows, 1, Len(windows) - 1)[i] = windows[i]
    BY <2>2
  <2> QED
    BY <1>2, <2>3, <2>4, <2>5
<1> QED
    BY <1>1, <1>3 DEF Shown

\* A query that moves on keeps its dialog, its tick and its task.
LEMMA QueryMoves ==
    ASSUME NEW q \in Query, NEW place
    PROVE  At(q, place) = [dialog |-> q.dialog, tick |-> q.tick, task |-> q.task, at |-> place]
  BY DEF Query, At

\* Every step keeps the types.
LEMMA TypeStep == TypeOK /\ [Next]_vars => TypeOK'
<1> SUFFICES ASSUME TypeOK, [Next]_vars PROVE TypeOK'
    OBVIOUS
<1> USE ConstantAssumption DEF TypeOK, Upload, Query, fileVars
<1>1. ASSUME NEW d \in Dialog, Show(d) PROVE TypeOK'
    BY <1>1, ShownByShow DEF Show
<1>2. ASSUME NEW d \in Dialog, Convert(d) PROVE TypeOK'
    BY <1>2, TopIsShown DEF Convert
<1>3. ASSUME NEW d \in Dialog, Close(d) PROVE TypeOK'
    BY <1>3, ShownByClose DEF Close, OnTop
<1>4. ASSUME NEW d \in Dialog, UploadIsLost(d) PROVE TypeOK'
    BY <1>4 DEF UploadIsLost
<1>5. ASSUME NEW d \in Dialog, Refused(d) PROVE TypeOK'
    BY <1>5 DEF Refused
<1>6. ASSUME NEW d \in Dialog, Created(d) PROVE TypeOK'
    BY <1>6 DEF Created
<1>7. ASSUME NEW d \in Dialog, OnSuccess(d) PROVE TypeOK'
    BY <1>7 DEF OnSuccess
<1>8. ASSUME NEW d \in Dialog, OnFailed(d) PROVE TypeOK'
    BY <1>8 DEF OnFailed, ShowFailure
<1>9. ASSUME NEW d \in Dialog, OnTick(d) PROVE TypeOK'
    BY <1>9 DEF OnTick
<1>10. ASSUME NEW d \in Dialog, OnFinish(d) PROVE TypeOK'
    BY <1>10 DEF OnFinish
<1>11. ASSUME NEW d \in Dialog, Serve(d) PROVE TypeOK'
    BY <1>11 DEF Serve, dialogVars
<1>12. ASSUME NEW q \in queries, NoResult(q) PROVE TypeOK'
    BY <1>12 DEF NoResult, dialogVars
<1>13. ASSUME NEW q \in queries, SaveText(q) PROVE TypeOK'
  <2>1. PICK name \in Name :
            /\ queries' = (queries \ {q}) \union {At(q, name)}
            /\ files' = [files EXCEPT ![name] = q.task]
            /\ shared' \in {shared, shared \union {name}}
    BY <1>13 DEF SaveText
  <2>2. queries' \subseteq Query /\ \A r \in queries' : r.tick <= ticks[r.dialog]
    BY <2>1, QueryMoves
  <2>3. files' \in [Name -> Dialog \union {Older, Unwritten}] /\ shared' \subseteq Name
    BY <2>1
  <2> QED
    BY <1>13, <2>2, <2>3 DEF SaveText, dialogVars
<1>14. ASSUME NEW q \in queries, NoText(q) PROVE TypeOK'
  <2>1. queries' \subseteq Query /\ \A r \in queries' : r.tick <= ticks[r.dialog]
    BY <1>14, QueryMoves DEF NoText
  <2> QED
    BY <1>14, <2>1 DEF NoText, dialogVars
<1>19. ASSUME NEW q \in queries, SaveStumbles(q) PROVE TypeOK'
  <2>1. queries' \subseteq Query /\ \A r \in queries' : r.tick <= ticks[r.dialog]
    BY <1>19, QueryMoves DEF SaveStumbles
  <2> QED
    BY <1>19, <2>1 DEF SaveStumbles, dialogVars
<1>15. ASSUME NEW q \in queries, TextSaved(q) PROVE TypeOK'
  <2>1. [dialog |-> q.dialog, task |-> q.task, name |-> q.at]
            \in [dialog : Dialog, task : Dialog \union {Older}, name : Name]
    BY <1>15 DEF TextSaved
  <2>2. CASE isTasking[q.dialog]
    <3>1. told' \subseteq [dialog : Dialog, task : Dialog \union {Older}, name : Name]
        BY <1>15, <2>1, <2>2 DEF TextSaved
    <3>2. /\ timer' \in [Dialog -> {"off", "on"}]
          /\ says' \in [Dialog -> {"ready", "working", "done", "failed"}]
        BY <1>15, <2>2 DEF TextSaved
    <3> QED
        BY <1>15, <3>1, <3>2 DEF TextSaved
  <2>3. CASE ~isTasking[q.dialog]
    BY <1>15, <2>3 DEF TextSaved
  <2> QED
    BY <2>2, <2>3
<1>16. ASSUME NEW q \in queries, TextFailed(q) PROVE TypeOK'
    BY <1>16 DEF TextFailed, ShowFailure
<1>17. CASE ProcessDies
    BY <1>17 DEF ProcessDies
<1>18. CASE UNCHANGED vars
    BY <1>18 DEF vars, dialogVars
<1> QED
    BY <1>1, <1>2, <1>3, <1>4, <1>5, <1>6, <1>7, <1>8, <1>9,
       <1>10, <1>11, <1>12, <1>13, <1>14, <1>15, <1>16, <1>17, <1>18, <1>19 DEF Next

\* Every step keeps the three parts and the announced texts' order.
LEMMA ScreenStep == IInv /\ [Next]_vars => ScreenInv'
<1> SUFFICES ASSUME IInv, [Next]_vars PROVE ScreenInv'
    OBVIOUS
<1> USE DEF IInv, TypeOK, ScreenInv, OrderInv, Query, fileVars
<1>1. ASSUME NEW d \in Dialog, Show(d) PROVE ScreenInv'
    BY <1>1, ShownByShow DEF Show
<1>2. ASSUME NEW d \in Dialog, Convert(d) PROVE ScreenInv'
  <2>1. Shown(d) /\ \A e \in Dialog : Shown(e)' <=> Shown(e)
    BY <1>2, TopIsShown DEF Convert, Shown
  <2> QED
    BY <1>2, <2>1 DEF Convert
<1>3. ASSUME NEW d \in Dialog, Close(d) PROVE ScreenInv'
  <2>1. Shown(d)
    BY <1>3, TopIsShown DEF Close
  <2>2. \A e \in Dialog \ {d} : Shown(e)' <=> Shown(e)
    BY <1>3, ShownByClose
  <2> QED
    BY <1>3, <2>1, <2>2 DEF Close
<1>4. ASSUME NEW d \in Dialog, UploadIsLost(d) PROVE ScreenInv'
    BY <1>4 DEF Shown, UploadIsLost
<1>5. ASSUME NEW d \in Dialog, Refused(d) PROVE ScreenInv'
    BY <1>5 DEF Shown, Refused
<1>6. ASSUME NEW d \in Dialog, Created(d) PROVE ScreenInv'
    BY <1>6 DEF Shown, Created
<1>7. ASSUME NEW d \in Dialog, OnSuccess(d) PROVE ScreenInv'
    BY <1>7 DEF Shown, OnSuccess
<1>8. ASSUME NEW d \in Dialog, OnFailed(d) PROVE ScreenInv'
    BY <1>8 DEF Shown, OnFailed, ShowFailure
<1>9. ASSUME NEW d \in Dialog, OnTick(d) PROVE ScreenInv'
    BY <1>9 DEF Shown, OnTick
<1>10. ASSUME NEW d \in Dialog, OnFinish(d) PROVE ScreenInv'
    BY <1>10 DEF Shown, OnFinish
<1>11. ASSUME NEW d \in Dialog, Serve(d) PROVE ScreenInv'
    BY <1>11 DEF Shown, Serve, dialogVars
<1>12. ASSUME NEW q \in queries, NoResult(q) PROVE ScreenInv'
    BY <1>12 DEF Shown, NoResult, dialogVars
<1>13. ASSUME NEW q \in queries, SaveText(q) PROVE ScreenInv'
    BY <1>13, QueryMoves DEF Shown, SaveText, dialogVars
<1>14. ASSUME NEW q \in queries, NoText(q) PROVE ScreenInv'
    BY <1>14, QueryMoves DEF Shown, NoText, dialogVars
<1>19. ASSUME NEW q \in queries, SaveStumbles(q) PROVE ScreenInv'
    BY <1>19, QueryMoves DEF Shown, SaveStumbles, dialogVars
<1>15. ASSUME NEW q \in queries, TextSaved(q) PROVE ScreenInv'
    BY <1>15 DEF Shown, TextSaved
<1>16. ASSUME NEW q \in queries, TextFailed(q) PROVE ScreenInv'
    BY <1>16 DEF Shown, TextFailed, ShowFailure
<1>17. CASE ProcessDies
    BY <1>17 DEF Shown, ProcessDies
<1>18. CASE UNCHANGED vars
    BY <1>18 DEF Shown, vars, dialogVars
<1> QED
    BY <1>1, <1>2, <1>3, <1>4, <1>5, <1>6, <1>7, <1>8, <1>9,
       <1>10, <1>11, <1>12, <1>13, <1>14, <1>15, <1>16, <1>17, <1>18, <1>19 DEF Next

LEMMA OrderStep == IInv /\ [Next]_vars => OrderInv'
<1> SUFFICES ASSUME IInv, [Next]_vars PROVE OrderInv'
    OBVIOUS
<1> USE DEF IInv, TypeOK, ScreenInv, OrderInv, Query, fileVars
<1>1. ASSUME NEW d \in Dialog, Show(d) PROVE OrderInv'
    BY <1>1 DEF Show
<1>2. ASSUME NEW d \in Dialog, Convert(d) PROVE OrderInv'
    BY <1>2, TopIsShown DEF Convert
<1>3. ASSUME NEW d \in Dialog, Close(d) PROVE OrderInv'
    BY <1>3 DEF Close
<1>4. ASSUME NEW d \in Dialog, UploadIsLost(d) PROVE OrderInv'
    BY <1>4 DEF UploadIsLost
<1>5. ASSUME NEW d \in Dialog, Refused(d) PROVE OrderInv'
    BY <1>5 DEF Refused
<1>6. ASSUME NEW d \in Dialog, Created(d) PROVE OrderInv'
    BY <1>6 DEF Created
<1>7. ASSUME NEW d \in Dialog, OnSuccess(d) PROVE OrderInv'
    BY <1>7 DEF OnSuccess
<1>8. ASSUME NEW d \in Dialog, OnFailed(d) PROVE OrderInv'
    BY <1>8 DEF OnFailed, ShowFailure
<1>9. ASSUME NEW d \in Dialog, OnTick(d) PROVE OrderInv'
    BY <1>9 DEF OnTick
<1>10. ASSUME NEW d \in Dialog, OnFinish(d) PROVE OrderInv'
    BY <1>10 DEF OnFinish
<1>11. ASSUME NEW d \in Dialog, Serve(d) PROVE OrderInv'
    BY <1>11 DEF Serve, dialogVars
<1>12. ASSUME NEW q \in queries, NoResult(q) PROVE OrderInv'
    BY <1>12 DEF NoResult, dialogVars
<1>13. ASSUME NEW q \in queries, SaveText(q) PROVE OrderInv'
    BY <1>13, QueryMoves DEF SaveText, dialogVars
<1>14. ASSUME NEW q \in queries, NoText(q) PROVE OrderInv'
    BY <1>14, QueryMoves DEF NoText, dialogVars
<1>19. ASSUME NEW q \in queries, SaveStumbles(q) PROVE OrderInv'
    BY <1>19, QueryMoves DEF SaveStumbles, dialogVars
<1>15. ASSUME NEW q \in queries, TextSaved(q) PROVE OrderInv'
    BY <1>15 DEF TextSaved
<1>16. ASSUME NEW q \in queries, TextFailed(q) PROVE OrderInv'
    BY <1>16 DEF TextFailed, ShowFailure
<1>17. CASE ProcessDies
    BY <1>17 DEF ProcessDies
<1>18. CASE UNCHANGED vars
    BY <1>18 DEF vars, dialogVars
<1> QED
    BY <1>1, <1>2, <1>3, <1>4, <1>5, <1>6, <1>7, <1>8, <1>9,
       <1>10, <1>11, <1>12, <1>13, <1>14, <1>15, <1>16, <1>17, <1>18, <1>19 DEF Next

LEMMA StoreStep == IInv /\ [Next]_vars => StoreInv' /\ TellsItsOwnTextOrALaterOne'
<1> SUFFICES ASSUME IInv, [Next]_vars PROVE StoreInv' /\ TellsItsOwnTextOrALaterOne'
    OBVIOUS
<1> USE ConstantAssumption DEF IInv, TypeOK, StoreInv, TellsItsOwnTextOrALaterOne, Query, fileVars
<1>1. ASSUME NEW d \in Dialog, Show(d) PROVE StoreInv' /\ TellsItsOwnTextOrALaterOne'
    BY <1>1 DEF Show
<1>2. ASSUME NEW d \in Dialog, Convert(d) PROVE StoreInv' /\ TellsItsOwnTextOrALaterOne'
    BY <1>2, TopIsShown DEF Convert
<1>3. ASSUME NEW d \in Dialog, Close(d) PROVE StoreInv' /\ TellsItsOwnTextOrALaterOne'
    BY <1>3 DEF Close, OnTop
<1>4. ASSUME NEW d \in Dialog, UploadIsLost(d) PROVE StoreInv' /\ TellsItsOwnTextOrALaterOne'
    BY <1>4 DEF UploadIsLost
<1>5. ASSUME NEW d \in Dialog, Refused(d) PROVE StoreInv' /\ TellsItsOwnTextOrALaterOne'
    BY <1>5 DEF Refused
<1>6. ASSUME NEW d \in Dialog, Created(d) PROVE StoreInv' /\ TellsItsOwnTextOrALaterOne'
    BY <1>6 DEF Created
<1>7. ASSUME NEW d \in Dialog, OnSuccess(d) PROVE StoreInv' /\ TellsItsOwnTextOrALaterOne'
    BY <1>7 DEF OnSuccess
<1>8. ASSUME NEW d \in Dialog, OnFailed(d) PROVE StoreInv' /\ TellsItsOwnTextOrALaterOne'
    BY <1>8 DEF OnFailed, ShowFailure
<1>9. ASSUME NEW d \in Dialog, OnTick(d) PROVE StoreInv' /\ TellsItsOwnTextOrALaterOne'
    BY <1>9 DEF OnTick
<1>10. ASSUME NEW d \in Dialog, OnFinish(d) PROVE StoreInv' /\ TellsItsOwnTextOrALaterOne'
    BY <1>10 DEF OnFinish
<1>11. ASSUME NEW d \in Dialog, Serve(d) PROVE StoreInv' /\ TellsItsOwnTextOrALaterOne'
    BY <1>11 DEF Serve, dialogVars
<1>12. ASSUME NEW q \in queries, NoResult(q) PROVE StoreInv' /\ TellsItsOwnTextOrALaterOne'
    BY <1>12 DEF NoResult, dialogVars
<1>13. ASSUME NEW q \in queries, SaveText(q) PROVE StoreInv' /\ TellsItsOwnTextOrALaterOne'
    BY <1>13, QueryMoves DEF SaveText, dialogVars
<1>14. ASSUME NEW q \in queries, NoText(q) PROVE StoreInv' /\ TellsItsOwnTextOrALaterOne'
    BY <1>14, QueryMoves DEF NoText, dialogVars
<1>19. ASSUME NEW q \in queries, SaveStumbles(q) PROVE StoreInv' /\ TellsItsOwnTextOrALaterOne'
    BY <1>19, QueryMoves DEF SaveStumbles, dialogVars
<1>15. ASSUME NEW q \in queries, TextSaved(q) PROVE StoreInv' /\ TellsItsOwnTextOrALaterOne'
    BY <1>15 DEF TextSaved
<1>16. ASSUME NEW q \in queries, TextFailed(q) PROVE StoreInv' /\ TellsItsOwnTextOrALaterOne'
    BY <1>16 DEF TextFailed, ShowFailure
<1>17. CASE ProcessDies
    BY <1>17 DEF ProcessDies
<1>18. CASE UNCHANGED vars
    BY <1>18 DEF vars, dialogVars
<1> QED
    BY <1>1, <1>2, <1>3, <1>4, <1>5, <1>6, <1>7, <1>8, <1>9,
       <1>10, <1>11, <1>12, <1>13, <1>14, <1>15, <1>16, <1>17, <1>18, <1>19 DEF Next
-----------------------------------------------------------------------------
\* The invariant holds of every behaviour.
THEOREM Invariance == Spec => []IInv
<1>1. Init => IInv
    BY ConstantAssumption DEF Init, IInv, TypeOK, Upload, Query, ScreenInv, OrderInv, StoreInv,
       TellsItsOwnTextOrALaterOne, Shown
<1>2. IInv /\ [Next]_vars => IInv'
    BY TypeStep, ScreenStep, OrderStep, StoreStep DEF IInv
<1> QED
    BY <1>1, <1>2, PTL DEF Spec

\* The dialogs, the store, the queries and the files keep their types.
THEOREM TypeCorrect == Spec => []TypeOK
<1>1. IInv => TypeOK
    BY DEF IInv
<1> QED
    BY <1>1, Invariance, PTL

\* getResult(), onTick and saveText(): whatever other dialogs store and however often the
\* process dies, an announced text is of the dialog's own task or a later one, and in the
\* file that is named unless two queries have written there.
THEOREM AnnouncedTextsAreRecent == Spec => []TellsItsOwnTextOrALaterOne
<1>1. IInv => TellsItsOwnTextOrALaterOne
    BY DEF IInv
<1> QED
    BY <1>1, Invariance, PTL

\* The timer runs for no dialog that was closed, has failed or has its text.
THEOREM TimerStops == Spec => []TimerRunsWhileWaiting
<1>1. IInv => TimerRunsWhileWaiting
    BY DEF IInv, ScreenInv, OrderInv, TimerRunsWhileWaiting
<1> QED
    BY <1>1, Invariance, PTL
=============================================================================
