---------------------------- MODULE KeyedMutex ----------------------------
(* server/src/lib/keyedMutex.ts as written: a Map from key to an entry        *)
(* {mutex, waiting}, where a Mutex is a chain of promises.                    *)
(*                                                                            *)
(* `await` is the only yield point, so the code between two awaits is one     *)
(* action:                                                                    *)
(*   Call    runExclusive up to its await: find or make the entry, waiting++, *)
(*           chain the task behind the mutex's tail;                          *)
(*   Start   the promise before the task has settled and the task begins;     *)
(*   Settle  the task's promise is fulfilled or rejected;                     *)
(*   Finally the caller's continuation: waiting--, evict the entry at zero.   *)
(* Finally and the next Start run from different microtasks of one settled    *)
(* promise; the model lets them happen in either order.                       *)
(*                                                                            *)
(* An entry is an object on the heap: two entries of one key, made at         *)
(* different times, are different locks.  Entries is the set of objects; an   *)
(* object nobody refers to any more may be allocated again.                   *)
EXTENDS Naturals, FiniteSets, Sequences, SequencesExt

CONSTANTS Keys,      \* owner ids
          Calls,     \* outstanding calls of runExclusive
          Entries,   \* heap objects {mutex, waiting}
          NoEntry,   \* Map.get's undefined
          NoKey      \* a call that is not under way

ASSUME CallsFinite == IsFiniteSet(Calls)
ASSUME NoEntryFresh == NoEntry \notin Entries
ASSUME NoKeyFresh == NoKey \notin Keys

VARIABLES locks,     \* the Map: [Keys -> Entries or NoEntry]
          waiting,   \* entry.waiting
          chain,     \* entry.mutex: the calls chained on tail that have not settled
          pc,        \* where each call is
          keyOf,     \* the key argument of each call
          entryOf    \* the local variable `entry` of each call

vars == <<locks, waiting, chain, pc, keyOf, entryOf>>

Outcomes == {"fulfilled", "rejected"}
PCs == {"idle", "queued", "running"} \cup Outcomes

Live(c) == pc[c] # "idle"
Users(e) == {c \in Calls : Live(c) /\ entryOf[c] = e}

TypeOK ==
    /\ locks \in [Keys -> Entries \cup {NoEntry}]
    /\ waiting \in [Entries -> Nat]
    /\ chain \in [Entries -> Seq(Calls)]
    /\ pc \in [Calls -> PCs]
    /\ keyOf \in [Calls -> Keys \cup {NoKey}]
    /\ entryOf \in [Calls -> Entries \cup {NoEntry}]

Init ==
    /\ locks = [k \in Keys |-> NoEntry]
    /\ waiting = [e \in Entries |-> 0]
    /\ chain = [e \in Entries |-> << >>]
    /\ pc = [c \in Calls |-> "idle"]
    /\ keyOf = [c \in Calls |-> NoKey]
    /\ entryOf = [c \in Calls |-> NoEntry]

-----------------------------------------------------------------------------
\* An object no variable of the program refers to.
Unreferenced(e) ==
    /\ \A k \in Keys : locks[k] # e
    /\ \A c \in Calls : entryOf[c] # e

\* `locks.get(key)`, or a new entry with a fresh mutex and waiting = 0.
EntryFor(k, e) ==
    IF locks[k] = NoEntry THEN e \in Entries /\ Unreferenced(e)
                          ELSE e = locks[k]

Call(c, k, e) ==
    /\ pc[c] = "idle"
    /\ EntryFor(k, e)
    /\ locks' = [locks EXCEPT ![k] = e]
    /\ waiting' = [waiting EXCEPT ![e] = (IF locks[k] = NoEntry THEN 0 ELSE @) + 1]
    /\ chain' = [chain EXCEPT ![e] =
                     Append(IF locks[k] = NoEntry THEN << >> ELSE @, c)]
    /\ pc' = [pc EXCEPT ![c] = "queued"]
    /\ keyOf' = [keyOf EXCEPT ![c] = k]
    /\ entryOf' = [entryOf EXCEPT ![c] = e]

\* Mutation: the task is run at once instead of behind the tail.
StartEager(c) ==
    /\ pc[c] = "queued"
    /\ pc' = [pc EXCEPT ![c] = "running"]
    /\ UNCHANGED <<locks, waiting, chain, keyOf, entryOf>>

\* `tail.then(task, task)`: the task runs once everything before it has settled.
Start(c) ==
    /\ pc[c] = "queued"
    /\ Head(chain[entryOf[c]]) = c
    /\ pc' = [pc EXCEPT ![c] = "running"]
    /\ UNCHANGED <<locks, waiting, chain, keyOf, entryOf>>

\* Mutation: a rejected task leaves the tail rejected and the next one unstarted.
SettleOneHandler(c, how) ==
    /\ pc[c] = "running"
    /\ pc' = [pc EXCEPT ![c] = how]
    /\ chain' = IF how = "rejected" THEN chain
                ELSE [chain EXCEPT ![entryOf[c]] = Tail(@)]
    /\ UNCHANGED <<locks, waiting, keyOf, entryOf>>

\* The task's promise settles; `result.then(() => undefined, () => undefined)`
\* makes the tail ready for the next task in either case.
Settle(c, how) ==
    /\ pc[c] = "running"
    /\ pc' = [pc EXCEPT ![c] = how]
    /\ chain' = [chain EXCEPT ![entryOf[c]] = Tail(@)]
    /\ UNCHANGED <<locks, waiting, keyOf, entryOf>>

\* What every version of `finally` does besides deciding whether to evict.
Return(c, evict) ==
    /\ pc[c] \in Outcomes
    /\ waiting' = [waiting EXCEPT ![entryOf[c]] = @ - 1]
    /\ locks' = IF evict THEN [locks EXCEPT ![keyOf[c]] = NoEntry] ELSE locks
    /\ pc' = [pc EXCEPT ![c] = "idle"]
    /\ keyOf' = [keyOf EXCEPT ![c] = NoKey]
    /\ entryOf' = [entryOf EXCEPT ![c] = NoEntry]
    /\ UNCHANGED chain

\* Mutations: evict whatever the count; test the count before lowering it.
FinallyEvicts(c) == Return(c, TRUE)
FinallyTestsFirst(c) == Return(c, waiting[entryOf[c]] = 0)

\* `finally`: drop this call's reference, delete the key when it was the last.
Finally(c) == Return(c, waiting[entryOf[c]] = 1)

Next ==
    \E c \in Calls :
        \/ \E k \in Keys, e \in Entries : Call(c, k, e)
        \/ Start(c)
        \/ \E how \in Outcomes : Settle(c, how)
        \/ Finally(c)

\* The event loop runs every ready continuation, and a task is awaited database
\* and network calls that end in a value or an error.
Fairness ==
    \A c \in Calls :
        /\ WF_vars(Start(c))
        /\ WF_vars(\E how \in Outcomes : Settle(c, how))
        /\ WF_vars(Finally(c))

Spec == Init /\ [][Next]_vars /\ Fairness

-----------------------------------------------------------------------------
\* Two tasks of one key never run at the same time, however the entry of the
\* key is evicted and made again in between (runExclusive, lines 37-55).
MutualExclusion ==
    \A c, d \in Calls :
        pc[c] = "running" /\ pc[d] = "running" /\ keyOf[c] = keyOf[d] => c = d

\* All calls under way for a key hold the one entry the Map has for it: no call
\* is left behind on an evicted entry, where it would exclude nobody.
OneEntryPerKey ==
    \A c \in Calls : Live(c) => entryOf[c] # NoEntry /\ locks[keyOf[c]] = entryOf[c]

\* `waiting` counts exactly the calls that hold the entry, so the key is in the
\* Map while, and only while, a call for it is under way: the comment at lines
\* 43-46, whose failure is a Map that grows by one lock per user.
NoLeak ==
    \A k \in Keys :
        IF locks[k] = NoEntry
        THEN \A c \in Calls : keyOf[c] # k
        ELSE waiting[locks[k]] = Cardinality(Users(locks[k])) /\ Users(locks[k]) # {}

\* A call that has asked gets in and gets out again, whether the tasks before it
\* succeeded or failed (comment at lines 22-24).
EveryCallReturns == \A c \in Calls : Live(c) ~> ~Live(c)

\* The promise chain implements the first-come first-served lock of KeyedLock.
Lock == INSTANCE KeyedLock WITH
            queue  <- [k \in Keys |-> IF locks[k] = NoEntry THEN << >>
                                                            ELSE chain[locks[k]]],
            inside <- {c \in Calls : pc[c] = "running"}

ImplementsLock == Lock!LockSpec
=============================================================================
