----------------------------- MODULE KeyedLock -----------------------------
(* What server/src/lib/keyedMutex.ts promises its callers, and nothing of how  *)
(* it keeps the promise: for each key a first-come first-served lock.  A call  *)
(* that has asked for key k stands in queue[k] until its task has settled;     *)
(* only the call at the head of a queue may be inside its critical section.    *)
(*                                                                             *)
(* KeyedMutex is shown to implement this specification, and UploadPipeline     *)
(* uses its three actions as the lock its requests take.                       *)
EXTENDS Naturals, Sequences, SequencesExt

CONSTANTS Keys,     \* what callers lock on (owner ids)
          Calls     \* the calls of runExclusive that may be outstanding

VARIABLES queue,    \* [Keys -> Seq(Calls)]: calls whose task has not settled
          inside    \* the calls whose task is running

lockVars == <<queue, inside>>

Waiters(k) == ToSet(queue[k])
Asking == UNION {Waiters(k) : k \in Keys}

LockInit ==
    /\ queue = [k \in Keys |-> << >>]
    /\ inside = {}

Request(c, k) ==
    /\ c \notin Asking
    /\ queue' = [queue EXCEPT ![k] = Append(@, c)]
    /\ UNCHANGED inside

Enter(c, k) ==
    /\ queue[k] # << >>
    /\ c = Head(queue[k])
    /\ c \notin inside
    /\ inside' = inside \cup {c}
    /\ UNCHANGED queue

\* The task has settled, fulfilled or rejected alike: the next call may enter.
Leave(c, k) ==
    /\ queue[k] # << >>
    /\ c = Head(queue[k])
    /\ c \in inside
    /\ inside' = inside \ {c}
    /\ queue' = [queue EXCEPT ![k] = Tail(@)]

LockNext ==
    \E c \in Calls, k \in Keys : Request(c, k) \/ Enter(c, k) \/ Leave(c, k)

LockFairness ==
    \A c \in Calls, k \in Keys :
        WF_lockVars(Enter(c, k)) /\ WF_lockVars(Leave(c, k))

LockSpec == LockInit /\ [][LockNext]_lockVars /\ LockFairness
=============================================================================
