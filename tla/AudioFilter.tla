---------------------------- MODULE AudioFilter ----------------------------
(***************************************************************************)
(* The audio player of audio_player.cpp and its only user, the equalizer's *)
(* activity (EqualizerActivity.kt).  Each activity plays on a thread of    *)
(* its own, a session; the activities and the sessions share two flags and *)
(* a filter's description, all of them plain globals.  The main thread     *)
(* asks for another filter with again() and for the end with release().    *)
(***************************************************************************)
CONSTANTS Activity,     \* each plays once: filterThread is null at onCreate only
          Desc,         \* filter descriptions
          Default,      \* the one doEqualize() starts with
          Nobody,       \* no activity
          NoGraph       \* no graph, or one that could not be built

ASSUME ConstantAssumption ==
    Default \in Desc /\ Nobody \notin Activity /\ NoGraph \notin Desc

VARIABLES
    filter_again, filter_release, filter_desc,  \* the globals
    caller,     \* the activity in the middle of again(), or Nobody
    created,    \* activities whose onCreate() was called
    destroyed,  \* activities whose onDestroy() was called
    pc,         \* where each activity's play() is
    graph,      \* what each session's audioFilterGraph was built from
    blind,      \* history: sessions that answered an again() before its description came
    shared      \* history: a session was started while another had not returned

flags == <<filter_again, filter_release>>
ui == <<caller, created, destroyed>>
vars == <<flags, filter_desc, ui, pc, graph, blind, shared>>

\* "none": no thread; "start": play() not begun; "open": before the loop; "loop": at
\* its test; "read": a packet read and filter_release seen to be 0; "again": filter_again
\* taken; "packet": before decoding; "end": after the loop; "reset": filter_again is
\* reset, filter_release is not; "over": play() has returned.
Place == {"none", "start", "open", "loop", "read", "again", "packet", "end", "reset", "over"}
Live(a) == pc[a] \notin {"none", "over"}

Go(a, from, to) == pc[a] = from /\ pc' = [pc EXCEPT ![a] = to]

Init ==
    /\ filter_again = FALSE /\ filter_release = FALSE
    /\ filter_desc = Default            \* the global's initial value is the same
    /\ caller = Nobody /\ created = {} /\ destroyed = {}
    /\ pc = [a \in Activity |-> "none"]
    /\ graph = [a \in Activity |-> NoGraph]
    /\ blind = {} /\ shared = FALSE
-----------------------------------------------------------------------------
(* The main thread, on which nothing else runs while it is in again().      *)

\* onCreate: doEqualize() finds filterThread null and starts a thread.
OnCreate(a) ==
    /\ caller = Nobody
    /\ a \notin created
    /\ created' = created \union {a}
    /\ Go(a, "none", "start")
    /\ shared' = (shared \/ \E b \in Activity : Live(b))
    /\ UNCHANGED <<flags, filter_desc, caller, destroyed, graph, blind>>

\* doEqualize(index, progress) or doAudioEffect(index) of a touch: again(), which
\* first raises the flag.
Again(a) ==
    /\ caller = Nobody
    /\ a \in created \ destroyed
    /\ caller' = a
    /\ filter_again' = TRUE
    /\ UNCHANGED <<filter_release, filter_desc, created, destroyed, pc, graph, blind, shared>>

\* The rest of again(): the string is copied and replaces filter_desc.
AgainDesc(d) ==
    /\ caller # Nobody
    /\ caller' = Nobody
    /\ filter_desc' = d
    /\ UNCHANGED <<flags, created, destroyed, pc, graph, blind, shared>>

\* Mutated form of OnDestroy: made from another thread.
OnDestroyAnywhere(a) ==
    /\ a \in created \ destroyed
    /\ destroyed' = destroyed \union {a}
    /\ filter_release' = TRUE
    /\ UNCHANGED <<filter_again, filter_desc, caller, created, pc, graph, blind, shared>>

\* onDestroy: release().
OnDestroy(a) ==
    /\ caller = Nobody
    /\ a \in created \ destroyed
    /\ destroyed' = destroyed \union {a}
    /\ filter_release' = TRUE
    /\ UNCHANGED <<filter_again, filter_desc, caller, created, pc, graph, blind, shared>>

MainThread ==
    \/ \E a \in Activity : OnCreate(a) \/ Again(a) \/ OnDestroy(a)
    \/ \E d \in Desc : AgainDesc(d)
-----------------------------------------------------------------------------
(* play(), on the activity's thread.                                        *)

\* Mutated form of Enter: both flags are reset first.
EnterAfresh(a) ==
    /\ Go(a, "start", "open")
    /\ filter_desc' = Default
    /\ filter_again' = FALSE /\ filter_release' = FALSE
    /\ UNCHANGED <<ui, graph, blind, shared>>

\* The description play() was given, also when again() has been called since.
Enter(a) ==
    /\ Go(a, "start", "open")
    /\ filter_desc' = Default
    /\ UNCHANGED <<flags, ui, graph, blind, shared>>

\* The file or its decoder cannot be opened: the flags stay as they are.
OpenFails(a) ==
    /\ Go(a, "open", "over")
    /\ UNCHANGED <<flags, filter_desc, ui, graph, blind, shared>>

\* The graph is built; that it cannot be is not an error here.
Open(a) ==
    /\ Go(a, "open", "loop")
    /\ \E g \in {filter_desc, NoGraph} : graph' = [graph EXCEPT ![a] = g]
    /\ UNCHANGED <<flags, filter_desc, ui, blind, shared>>

\* av_read_frame() has a packet of the stream and the player is not released.
ReadFrame(a) ==
    /\ ~filter_release
    /\ Go(a, "loop", "read")
    /\ UNCHANGED <<flags, filter_desc, ui, graph, blind, shared>>

\* Nothing is left to read, or the player is released, which only counts after a
\* packet was read.
LeaveLoop(a) ==
    /\ Go(a, "loop", "end")
    /\ UNCHANGED <<flags, filter_desc, ui, graph, blind, shared>>

\* The flag is down: on to the decoder.
KeepFilter(a) ==
    /\ ~filter_again
    /\ Go(a, "read", "packet")
    /\ UNCHANGED <<flags, filter_desc, ui, graph, blind, shared>>

\* The flag is up: it is lowered and the graph freed.
TakeAgain(a) ==
    /\ filter_again
    /\ Go(a, "read", "again")
    /\ filter_again' = FALSE
    /\ graph' = [graph EXCEPT ![a] = NoGraph]
    /\ UNCHANGED <<filter_release, filter_desc, ui, blind, shared>>

\* Mutated form of Rebuild: the flag is lowered once the graph is built.
RebuildThenLower(a) ==
    /\ Go(a, "again", "packet")
    /\ graph' = [graph EXCEPT ![a] = filter_desc]
    /\ filter_again' = FALSE
    /\ blind' = IF caller # Nobody /\ ~filter_again THEN blind \union {a} ELSE blind \ {a}
    /\ UNCHANGED <<filter_release, filter_desc, ui, shared>>

\* A graph of the description there is.
Rebuild(a) ==
    /\ Go(a, "again", "packet")
    /\ graph' = [graph EXCEPT ![a] = filter_desc]
    /\ blind' = IF caller # Nobody /\ ~filter_again THEN blind \union {a} ELSE blind \ {a}
    /\ UNCHANGED <<flags, filter_desc, ui, shared>>

\* None can be built of it: the session ends.
RebuildFails(a) ==
    /\ Go(a, "again", "end")
    /\ UNCHANGED <<flags, filter_desc, ui, graph, blind, shared>>

\* The packet is decoded, filtered and written; or one of these fails.
PlayPacket(a) ==
    /\ Go(a, "packet", "loop") \/ Go(a, "packet", "end")
    /\ UNCHANGED <<flags, filter_desc, ui, graph, blind, shared>>

\* After the loop all is freed, and each flag reset.
ResetAgain(a) ==
    /\ Go(a, "end", "reset")
    /\ filter_again' = FALSE
    /\ graph' = [graph EXCEPT ![a] = NoGraph]
    /\ UNCHANGED <<filter_release, filter_desc, ui, blind, shared>>

ResetRelease(a) ==
    /\ Go(a, "reset", "over")
    /\ filter_release' = FALSE
    /\ UNCHANGED <<filter_again, filter_desc, ui, graph, blind, shared>>

Session(a) ==
    \/ Enter(a) \/ OpenFails(a) \/ Open(a)
    \/ ReadFrame(a) \/ LeaveLoop(a) \/ KeepFilter(a)
    \/ TakeAgain(a) \/ Rebuild(a) \/ RebuildFails(a)
    \/ PlayPacket(a) \/ ResetAgain(a) \/ ResetRelease(a)
-----------------------------------------------------------------------------
Next == MainThread \/ \E a \in Activity : Session(a)

Spec == Init /\ [][Next]_vars

\* Fairness: the scheduler runs a session's thread, and reading, decoding and
\* writing a packet come to an end.
FairSpec == Spec /\ \A a \in Activity : WF_vars(Session(a))
-----------------------------------------------------------------------------
\* Types, and an activity is destroyed after it was created and never inside again().
TypeOK ==
    /\ filter_again \in BOOLEAN /\ filter_release \in BOOLEAN /\ filter_desc \in Desc
    /\ created \subseteq Activity /\ destroyed \subseteq created
    /\ caller \in (created \ destroyed) \union {Nobody}
    /\ pc \in [Activity -> Place] /\ \A a \in Activity : pc[a] = "none" <=> a \notin created
    /\ graph \in [Activity -> Desc \union {NoGraph}]
    /\ blind \subseteq Activity /\ shared \in BOOLEAN

\* again() and the loop: between again() calls, a session plays through the description
\* last written, by again() or by play() with the one it is given (over that of an earlier
\* again()), or is told to build its graph anew.  The one way past this,
\* as long as sessions do not overlap, is that the loop takes the flag and builds the
\* graph between the two steps of again().
GraphIsTheDescription ==
    \A a \in Activity \ blind :
        pc[a] \in {"loop", "read", "packet"} /\ ~shared /\ caller = Nobody /\ ~filter_again
            => graph[a] \in {filter_desc, NoGraph}

\* release(): the session of an activity that is destroyed comes to its end, also when
\* release() is called before play() is under way, unless sessions overlap.
ReleaseEndsTheSession ==
    \A a \in Activity : a \in destroyed ~> pc[a] = "over" \/ shared
=============================================================================
