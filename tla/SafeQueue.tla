----------------------------- MODULE SafeQueue -----------------------------
(***************************************************************************)
(* SafeQueue<RTMPPacket *> of safe_queue.h in its pthread form, together   *)
(* with what becomes of each packet: the queue owns what is in it and      *)
(* frees, through releaseCallback, what it cannot keep.  Each operation    *)
(* holds the queue's mutex throughout and is one step; pop waits on the    *)
(* condition variable inside.                                              *)
(***************************************************************************)
EXTENDS Integers, Sequences, SequencesExt

CONSTANTS Worker,       \* the threads that may pop
          MaxMade       \* bound: packets made in all

Packet == 1 .. MaxMade
NoPacket == 0

VARIABLES q,            \* the packets in the queue
          work,         \* whether the queue accepts packets
          blocked,      \* the threads asleep in pop
          made,         \* packets made so far: 1 .. made
          freed         \* how often each packet has been freed

queueVars == <<q, work, blocked, made, freed>>

\* The queue is a static object: work starts as 0.
QInit ==
    /\ q = <<>>
    /\ work = FALSE
    /\ blocked = {}
    /\ made = 0
    /\ freed = [p \in Packet |-> 0]

\* pthread_cond_signal wakes one thread, if one is asleep.
Signal ==
    \/ blocked = {} /\ UNCHANGED blocked
    \/ \E w \in blocked : blocked' = blocked \ {w}

Free(p) == freed' = [freed EXCEPT ![p] = @ + 1]

\* Mutated form of PushNew: push without its else branch.
PushOrForget ==
    /\ made < MaxMade
    /\ made' = made + 1
    /\ \/ work /\ q' = Append(q, made + 1) /\ Signal
       \/ ~work /\ UNCHANGED <<q, blocked>>
    /\ UNCHANGED <<work, freed>>

\* callback(): a packet has just been made and is pushed, or freed if the queue
\* is not at work.
PushNew ==
    /\ made < MaxMade
    /\ made' = made + 1
    /\ \/ work /\ q' = Append(q, made + 1) /\ Signal /\ UNCHANGED freed
       \/ ~work /\ Free(made + 1) /\ UNCHANGED <<q, blocked>>
    /\ UNCHANGED work

\* pop finds nothing to take, and falls asleep while the queue is at work.
PopBlocks(w) ==
    /\ w \notin blocked
    /\ work /\ q = <<>>
    /\ blocked' = blocked \union {w}
    /\ UNCHANGED <<q, work, made, freed>>

\* pop returns, with the packet at the front if there is one; got is the caller's
\* variable, which is otherwise left as it was.
PopReturns(w, got, got1) ==
    /\ w \notin blocked
    /\ \/ q # <<>> /\ got1 = Head(q) /\ q' = Tail(q)
       \/ q = <<>> /\ ~work /\ got1 = got /\ UNCHANGED q
    /\ UNCHANGED <<work, blocked, made, freed>>

\* A wait may end for no reason; pop checks again.
SpuriousWakeup ==
    /\ \E w \in blocked : blocked' = blocked \ {w}
    /\ UNCHANGED <<q, work, made, freed>>

\* Mutated form of SetWork: the waiting thread is not told.
SetWorkSilently(on) ==
    /\ work' = on
    /\ UNCHANGED <<q, blocked, made, freed>>

SetWork(on) ==
    /\ work' = on
    /\ Signal
    /\ UNCHANGED <<q, made, freed>>

\* Mutated form of Clear: the queue is left as it is.
LeaveQueue == UNCHANGED queueVars

Clear ==
    /\ q' = <<>>
    /\ freed' = [p \in Packet |-> IF Contains(q, p) THEN freed[p] + 1 ELSE freed[p]]
    /\ UNCHANGED <<work, blocked, made>>

\* releasePackets: frees a packet that is there; the caller then forgets it.
Release(p) ==
    /\ \/ p = NoPacket /\ UNCHANGED freed
       \/ p # NoPacket /\ Free(p)
    /\ UNCHANGED <<q, work, blocked, made>>
=============================================================================
