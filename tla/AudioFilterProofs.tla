------------------------- MODULE AudioFilterProofs -------------------------
(* Proofs about AudioFilter, for any number of activities and descriptions. *)
EXTENDS AudioFilter, TLAPS

(* The invariant that makes GraphIsTheDescription inductive: sessions that  *)
(* do not overlap are alone; a session that has not reached its loop still  *)
(* finds the flag of an again() half done; and one in its loop that is not  *)
(* told to rebuild has the graph, unless it was blind, with no again() half *)
(* done.                                                                    *)
Alone == ~shared => \A a, b \in Activity : Live(a) /\ Live(b) => a = b

FlagIsSeenLater ==
    \A a \in Activity :
        pc[a] \in {"start", "open"} /\ ~shared /\ caller # Nobody => filter_again

LoopIsSettled ==
    \A a \in Activity \ blind :
        pc[a] \in {"loop", "read", "packet"} /\ ~shared /\ ~filter_again
            => caller = Nobody /\ graph[a] \in {filter_desc, NoGraph}

IInv == TypeOK /\ Alone /\ FlagIsSeenLater /\ LoopIsSettled
-----------------------------------------------------------------------------
\* Every step of the main thread and of the sessions keeps the types.
LEMMA TypeStep == TypeOK /\ [Next]_vars => TypeOK'
<1> SUFFICES ASSUME TypeOK, [Next]_vars PROVE TypeOK'
    OBVIOUS
<1> USE ConstantAssumption DEF TypeOK, Place, Go, flags, ui
<1>1. ASSUME NEW a \in Activity, OnCreate(a) PROVE TypeOK'
    BY <1>1 DEF OnCreate
<1>2. ASSUME NEW a \in Activity, Again(a) PROVE TypeOK'
    BY <1>2 DEF Again
<1>3. ASSUME NEW a \in Activity, OnDestroy(a) PROVE TypeOK'
    BY <1>3 DEF OnDestroy
<1>4. ASSUME NEW d \in Desc, AgainDesc(d) PROVE TypeOK'
    BY <1>4 DEF AgainDesc
<1>5. ASSUME NEW a \in Activity, Enter(a) PROVE TypeOK'
    BY <1>5 DEF Enter
<1>6. ASSUME NEW a \in Activity, OpenFails(a) PROVE TypeOK'
    BY <1>6 DEF OpenFails
<1>7. ASSUME NEW a \in Activity, Open(a) PROVE TypeOK'
    BY <1>7 DEF Open
<1>8. ASSUME NEW a \in Activity, ReadFrame(a) PROVE TypeOK'
    BY <1>8 DEF ReadFrame
<1>9. ASSUME NEW a \in Activity, LeaveLoop(a) PROVE TypeOK'
    BY <1>9 DEF LeaveLoop
<1>10. ASSUME NEW a \in Activity, KeepFilter(a) PROVE TypeOK'
    BY <1>10 DEF KeepFilter
<1>11. ASSUME NEW a \in Activity, TakeAgain(a) PROVE TypeOK'
    BY <1>11 DEF TakeAgain
<1>12. ASSUME NEW a \in Activity, Rebuild(a) PROVE TypeOK'
    BY <1>12 DEF Rebuild
<1>13. ASSUME NEW a \in Activity, RebuildFails(a) PROVE TypeOK'
    BY <1>13 DEF RebuildFails
<1>14. ASSUME NEW a \in Activity, PlayPacket(a) PROVE TypeOK'
    BY <1>14 DEF PlayPacket
<1>15. ASSUME NEW a \in Activity, ResetAgain(a) PROVE TypeOK'
    BY <1>15 DEF ResetAgain
<1>16. ASSUME NEW a \in Activity, ResetRelease(a) PROVE TypeOK'
    BY <1>16 DEF ResetRelease
<1>17. CASE UNCHANGED vars
    BY <1>17 DEF vars
<1> QED
    BY <1>1, <1>2, <1>3, <1>4, <1>5, <1>6, <1>7, <1>8, <1>9, <1>10, <1>11, <1>12, <1>13,
       <1>14, <1>15, <1>16, <1>17 DEF Next, MainThread, Session

\* A session is alone until another is started beside it.
LEMMA AloneStep == TypeOK /\ Alone /\ [Next]_vars => Alone'
<1> SUFFICES ASSUME TypeOK, Alone, [Next]_vars PROVE Alone'
    OBVIOUS
<1> USE DEF TypeOK, Alone, Live, Go
<1>1. ASSUME NEW a \in Activity, OnCreate(a) PROVE Alone'
    BY <1>1 DEF OnCreate
<1>2. ASSUME shared' = shared, \A b \in Activity : Live(b)' => Live(b) PROVE Alone'
    BY <1>2
<1>3. ASSUME NEW a \in Activity, Session(a) PROVE Alone'
  <2>1. shared' = shared
    BY <1>3 DEF Session, Enter, OpenFails, Open, ReadFrame, LeaveLoop, KeepFilter, TakeAgain,
                Rebuild, RebuildFails, PlayPacket, ResetAgain, ResetRelease
  <2>2. Live(a) /\ \A b \in Activity \ {a} : pc'[b] = pc[b]
    BY <1>3 DEF Session, Enter, OpenFails, Open, ReadFrame, LeaveLoop, KeepFilter, TakeAgain,
                Rebuild, RebuildFails, PlayPacket, ResetAgain, ResetRelease
  <2> QED
    BY <1>2, <2>1, <2>2
<1>4. CASE MainThread /\ ~\E a \in Activity : OnCreate(a)
    BY <1>4 DEF MainThread, Again, AgainDesc, OnDestroy
<1>5. CASE UNCHANGED vars
    BY <1>5 DEF vars
<1> QED
    BY <1>1, <1>3, <1>4, <1>5 DEF Next

\* The two remaining parts, session by session.
LEMMA SettledStep == IInv /\ [Next]_vars => FlagIsSeenLater' /\ LoopIsSettled'
<1> SUFFICES ASSUME IInv, [Next]_vars PROVE FlagIsSeenLater' /\ LoopIsSettled'
    OBVIOUS
<1> USE DEF IInv, TypeOK, Alone, Live, FlagIsSeenLater, LoopIsSettled, Go, flags, ui
<1>1. ASSUME NEW a \in Activity, OnCreate(a) PROVE FlagIsSeenLater' /\ LoopIsSettled'
    BY <1>1 DEF OnCreate
<1>2. ASSUME NEW a \in Activity, Again(a) PROVE FlagIsSeenLater' /\ LoopIsSettled'
    BY <1>2 DEF Again
<1>3. ASSUME NEW a \in Activity, OnDestroy(a) PROVE FlagIsSeenLater' /\ LoopIsSettled'
    BY <1>3 DEF OnDestroy
<1>4. ASSUME NEW d \in Desc, AgainDesc(d) PROVE FlagIsSeenLater' /\ LoopIsSettled'
    BY <1>4 DEF AgainDesc
<1>5. ASSUME NEW a \in Activity, Enter(a) PROVE FlagIsSeenLater' /\ LoopIsSettled'
    BY <1>5 DEF Enter
<1>6. ASSUME NEW a \in Activity, OpenFails(a) PROVE FlagIsSeenLater' /\ LoopIsSettled'
    BY <1>6 DEF OpenFails
<1>7. ASSUME NEW a \in Activity, Open(a) PROVE FlagIsSeenLater' /\ LoopIsSettled'
    BY <1>7 DEF Open
<1>8. ASSUME NEW a \in Activity, ReadFrame(a) PROVE FlagIsSeenLater' /\ LoopIsSettled'
    BY <1>8 DEF ReadFrame
<1>9. ASSUME NEW a \in Activity, LeaveLoop(a) PROVE FlagIsSeenLater' /\ LoopIsSettled'
    BY <1>9 DEF LeaveLoop
<1>10. ASSUME NEW a \in Activity, KeepFilter(a) PROVE FlagIsSeenLater' /\ LoopIsSettled'
    BY <1>10 DEF KeepFilter
<1>11. ASSUME NEW a \in Activity, TakeAgain(a) PROVE FlagIsSeenLater' /\ LoopIsSettled'
    BY <1>11 DEF TakeAgain
<1>12. ASSUME NEW a \in Activity, Rebuild(a) PROVE FlagIsSeenLater' /\ LoopIsSettled'
    BY <1>12 DEF Rebuild
<1>13. ASSUME NEW a \in Activity, RebuildFails(a) PROVE FlagIsSeenLater' /\ LoopIsSettled'
    BY <1>13 DEF RebuildFails
<1>14. ASSUME NEW a \in Activity, PlayPacket(a) PROVE FlagIsSeenLater' /\ LoopIsSettled'
    BY <1>14 DEF PlayPacket
<1>15. ASSUME NEW a \in Activity, ResetAgain(a) PROVE FlagIsSeenLater' /\ LoopIsSettled'
    BY <1>15 DEF ResetAgain
<1>16. ASSUME NEW a \in Activity, ResetRelease(a) PROVE FlagIsSeenLater' /\ LoopIsSettled'
    BY <1>16 DEF ResetRelease
<1>17. CASE UNCHANGED vars
    BY <1>17 DEF vars
<1> QED
    BY <1>1, <1>2, <1>3, <1>4, <1>5, <1>6, <1>7, <1>8, <1>9, <1>10, <1>11, <1>12, <1>13,
       <1>14, <1>15, <1>16, <1>17 DEF Next, MainThread, Session
-----------------------------------------------------------------------------
\* The invariant holds of every behaviour.
THEOREM Invariance == Spec => []IInv
<1>1. Init => IInv
    BY ConstantAssumption DEF Init, IInv, TypeOK, Place, Alone, Live, FlagIsSeenLater, LoopIsSettled
<1>2. IInv /\ [Next]_vars => IInv'
    BY TypeStep, AloneStep, SettledStep DEF IInv
<1> QED
    BY <1>1, <1>2, PTL DEF Spec

\* The globals, the sessions and the activities keep their types, and no activity is
\* destroyed inside again().
THEOREM TypeCorrect == Spec => []TypeOK
<1>1. IInv => TypeOK
    BY DEF IInv
<1> QED
    BY <1>1, Invariance, PTL

\* play() and again(): the last description is in force, or the flag is still up, or the
\* loop took it too early, or sessions overlapped.
THEOREM FilterIsInForce == Spec => []GraphIsTheDescription
<1>1. IInv => GraphIsTheDescription
    BY DEF IInv, LoopIsSettled, GraphIsTheDescription
<1> QED
    BY <1>1, Invariance, PTL
=============================================================================
