------------------------- MODULE KeyedMutexProofs -------------------------
(* Mutual exclusion and the reference count of KeyedMutex, for any number of   *)
(* keys, calls and entries.                                                    *)
(*                                                                             *)
(* MutualExclusion is not inductive.  Two running tasks of one key are one     *)
(* task because both stand at the head of the same chain, so the invariant     *)
(* has to say that every call of a key holds the key's own entry               *)
(* (CallsHoldTheirEntry), that a running task is at the head of its chain and  *)
(* a queued one is somewhere in it (Chained), and, because an entry must not   *)
(* be evicted under a call that holds it, that `waiting` counts the holders    *)
(* (Counted).  That the code implements KeyedLock needs one thing more: a chain *)
(* holds each call once, and no call that has settled (Ordered).               *)
EXTENDS KeyedMutex, FiniteSetTheorems, TLAPS

CallsHoldTheirEntry ==
    \A c \in Calls :
        IF Live(c)
        THEN /\ keyOf[c] \in Keys /\ entryOf[c] \in Entries
             /\ locks[keyOf[c]] = entryOf[c]
        ELSE keyOf[c] = NoKey /\ entryOf[c] = NoEntry

EntriesNotShared ==
    \A k, l \in Keys : locks[k] = locks[l] /\ locks[k] # NoEntry => k = l

Chained ==
    \A c \in Calls :
        /\ pc[c] = "queued" => \E i \in 1..Len(chain[entryOf[c]]) :
                                   chain[entryOf[c]][i] = c
        /\ pc[c] = "running" => /\ chain[entryOf[c]] # << >>
                                /\ Head(chain[entryOf[c]]) = c

Counted ==
    \A k \in Keys :
        locks[k] # NoEntry => /\ waiting[locks[k]] = Cardinality(Users(locks[k]))
                              /\ Users(locks[k]) # {}

IInv ==
    /\ TypeOK
    /\ CallsHoldTheirEntry
    /\ EntriesNotShared
    /\ Chained
    /\ Counted

-----------------------------------------------------------------------------
\* Users(e) is finite whatever the calls are doing, so counting it makes sense.
LEMMA UsersFinite ==
    \A e :
        /\ IsFiniteSet(Users(e))
        /\ Cardinality(Users(e)) \in Nat
        /\ Cardinality(Users(e)) = 0 <=> Users(e) = {}
  BY CallsFinite, FS_Subset, FS_CardinalityType, FS_EmptySet DEF Users

\* What the head of a chain is after one more task is chained behind it.
LEMMA AppendKeepsHead ==
    ASSUME NEW S, NEW s \in Seq(S), NEW x \in S
    PROVE  /\ Append(s, x) \in Seq(S) /\ Append(s, x) # << >>
           /\ s # << >> => Head(Append(s, x)) = Head(s)
           /\ \A i \in 1..Len(s) : i \in 1..Len(Append(s, x)) /\ Append(s, x)[i] = s[i]
           /\ Len(s) + 1 \in 1..Len(Append(s, x)) /\ Append(s, x)[Len(s) + 1] = x
  <1>1. Append(s, x) \in Seq(S) /\ Len(s) \in Nat /\ Len(Append(s, x)) = Len(s) + 1
    OBVIOUS
  <1>2. Append(s, x) # << >> /\ Append(s, x)[Len(s) + 1] = x
    BY <1>1
  <1>3. \A i \in 1..Len(s) : Append(s, x)[i] = s[i]
    OBVIOUS
  <1>4. ASSUME s # << >> PROVE Head(Append(s, x)) = Head(s)
    BY <1>1, <1>3, <1>4
  <1> QED BY <1>1, <1>2, <1>3, <1>4

\* Taking the head off a chain keeps everybody else in it.
LEMMA TailKeepsOthers ==
    ASSUME NEW S, NEW s \in Seq(S), s # << >>
    PROVE  /\ Tail(s) \in Seq(S)
           /\ \A i \in 1..Len(s) :
                 s[i] # Head(s) => \E j \in 1..Len(Tail(s)) : Tail(s)[j] = s[i]
  <1>1. Tail(s) \in Seq(S)
    OBVIOUS
  <1>2. ASSUME NEW i \in 1..Len(s), s[i] # Head(s)
        PROVE  \E j \in 1..Len(Tail(s)) : Tail(s)[j] = s[i]
    <2>1. i # 1 /\ i - 1 \in 1..Len(Tail(s))
      BY <1>2
    <2>2. Tail(s)[i - 1] = s[i]
      BY <2>1
    <2> QED BY <2>1, <2>2
  <1> QED BY <1>1, <1>2

LEMMA InitIInv == Init => IInv
  BY NoEntryFresh DEF Init, IInv, TypeOK, CallsHoldTheirEntry, EntriesNotShared,
     Chained, Counted, Live, PCs

-----------------------------------------------------------------------------
\* A new call takes the entry of its key, or a fresh one, and joins its chain.
LEMMA CallIInv ==
    ASSUME IInv, NEW c \in Calls, NEW k \in Keys, NEW e \in Entries, Call(c, k, e)
    PROVE  IInv'
  <1> USE DEF IInv, Call, EntryFor, Unreferenced
  <1> DEFINE old == IF locks[k] = NoEntry THEN << >> ELSE chain[e]
  <1>1. old \in Seq(Calls) /\ chain'[e] = Append(old, c)
    BY DEF TypeOK
  <1>2. \A f \in Entries : f # e => chain'[f] = chain[f] /\ waiting'[f] = waiting[f]
    BY DEF TypeOK
  <1>3. \A d \in Calls : Live(d) /\ entryOf[d] = e => locks[k] = e
    BY NoEntryFresh
  <1>4. TypeOK'
    <2>1. chain' \in [Entries -> Seq(Calls)]
      BY <1>1 DEF TypeOK
    <2>2. waiting' \in [Entries -> Nat]
      BY DEF TypeOK
    <2> QED BY <2>1, <2>2 DEF TypeOK, PCs
  <1>5. CallsHoldTheirEntry'
    <2> SUFFICES ASSUME NEW d \in Calls
                 PROVE  IF Live(d)'
                        THEN /\ keyOf'[d] \in Keys /\ entryOf'[d] \in Entries
                             /\ locks'[keyOf'[d]] = entryOf'[d]
                        ELSE keyOf'[d] = NoKey /\ entryOf'[d] = NoEntry
      BY DEF CallsHoldTheirEntry
    <2>1. CASE d = c
      BY <2>1 DEF TypeOK, Live
    <2>2. CASE d # c
      <3>1. pc'[d] = pc[d] /\ keyOf'[d] = keyOf[d] /\ entryOf'[d] = entryOf[d]
        BY <2>2 DEF TypeOK
      <3>2. keyOf[d] = k /\ Live(d) => locks[k] = entryOf[d] /\ entryOf[d] = e
        BY NoEntryFresh DEF CallsHoldTheirEntry
      <3> QED BY <3>1, <3>2 DEF CallsHoldTheirEntry, TypeOK, Live
    <2> QED BY <2>1, <2>2
  <1>6. EntriesNotShared'
    BY NoEntryFresh DEF EntriesNotShared, TypeOK
  <1>7. Chained'
    <2> SUFFICES ASSUME NEW d \in Calls
                 PROVE  /\ pc'[d] = "queued" =>
                              \E i \in 1..Len(chain'[entryOf'[d]]) :
                                  chain'[entryOf'[d]][i] = d
                        /\ pc'[d] = "running" =>
                              /\ chain'[entryOf'[d]] # << >>
                              /\ Head(chain'[entryOf'[d]]) = d
      BY DEF Chained
    <2>1. CASE d = c
      <3>1. pc'[d] = "queued" /\ entryOf'[d] = e
        BY <2>1 DEF TypeOK
      <3> QED BY <3>1, <2>1, <1>1, AppendKeepsHead
    <2>2. CASE d # c /\ Live(d)
      <3>1. pc'[d] = pc[d] /\ entryOf'[d] = entryOf[d] /\ entryOf[d] \in Entries
        BY <2>2 DEF TypeOK, CallsHoldTheirEntry
      <3>2. CASE entryOf[d] = e
        <4>1. old = chain[e]
          BY <1>3, <2>2, <3>2, NoEntryFresh
        <4> HIDE DEF old
        <4> QED BY <1>1, <3>1, <3>2, <4>1, AppendKeepsHead DEF Chained
      <3>3. CASE entryOf[d] # e
        BY <3>1, <3>3, <1>2 DEF Chained
      <3> QED BY <3>2, <3>3
    <2>3. CASE d # c /\ ~Live(d)
      BY <2>3 DEF Live, TypeOK
    <2> QED BY <2>1, <2>2, <2>3
  <1>8. Counted'
    <2>1. c \notin Users(e) /\ Users(e)' = Users(e) \cup {c}
      BY NoEntryFresh DEF Users, Live, TypeOK
    <2>2. Cardinality(Users(e)') = Cardinality(Users(e)) + 1
      <3>1. IsFiniteSet(Users(e))
        BY UsersFinite
      <3>2. Cardinality(Users(e) \cup {c}) = Cardinality(Users(e)) + 1
        BY <3>1, <2>1, FS_AddElement, Zenon
      <3> QED BY <3>2, <2>1, Zenon
    <2>3. waiting'[e] = Cardinality(Users(e)) + 1
      <3>1. CASE locks[k] = NoEntry
        <4>1. Users(e) = {}
          BY <3>1, <1>3, NoEntryFresh DEF Users
        <4> QED BY <3>1, <4>1, FS_EmptySet DEF TypeOK
      <3>2. CASE locks[k] # NoEntry
        BY <3>2 DEF Counted, TypeOK
      <3> QED BY <3>1, <3>2
    <2>4. ASSUME NEW l \in Keys, locks'[l] # NoEntry
          PROVE  (/\ waiting[locks[l]] = Cardinality(Users(locks[l]))
                  /\ Users(locks[l]) # {})'
      <3>1. CASE l = k
        <4>1. locks'[l] = e
          BY <3>1 DEF TypeOK
        <4> QED BY <4>1, <2>1, <2>2, <2>3
      <3>2. CASE l # k
        <4>1. locks'[l] = locks[l] /\ locks[l] \in Entries /\ locks[l] # e
          BY <3>2, <2>4, NoEntryFresh DEF TypeOK, EntriesNotShared
        <4>2. Users(locks[l])' = Users(locks[l])
          BY <4>1 DEF Users, Live, TypeOK
        <4> QED BY <4>1, <4>2, <1>2, <2>4 DEF Counted
      <3> QED BY <3>1, <3>2
    <2> QED BY <2>4 DEF Counted
  <1> QED BY <1>4, <1>5, <1>6, <1>7, <1>8

\* A task that starts was at the head of its chain, and stays there.
LEMMA StartIInv ==
    ASSUME IInv, NEW c \in Calls, Start(c)
    PROVE  IInv'
  <1> USE DEF IInv, Start
  <1>1. entryOf[c] \in Entries /\ chain[entryOf[c]] # << >>
    BY DEF Chained, CallsHoldTheirEntry, Live, TypeOK
  <1>2. \A d \in Calls : Live(d)' <=> Live(d)
    BY DEF Live, TypeOK
  <1>3. TypeOK'
    BY DEF TypeOK, PCs
  <1>4. CallsHoldTheirEntry'
    BY <1>2 DEF CallsHoldTheirEntry
  <1>5. EntriesNotShared'
    BY DEF EntriesNotShared
  <1>6. Chained'
    BY <1>1 DEF Chained, TypeOK
  <1>7. Counted'
    <2>1. \A e : Users(e)' = Users(e)
      BY <1>2 DEF Users
    <2> QED BY <2>1 DEF Counted
  <1> QED BY <1>3, <1>4, <1>5, <1>6, <1>7

\* A task that settles leaves the head of its chain, fulfilled or rejected; no
\* other task of the entry can be running, and the queued ones stay chained.
LEMMA SettleIInv ==
    ASSUME IInv, NEW c \in Calls, NEW how \in Outcomes, Settle(c, how)
    PROVE  IInv'
  <1> USE DEF IInv, Settle, Outcomes
  <1> DEFINE e == entryOf[c]
  <1>1. e \in Entries /\ chain[e] # << >> /\ Head(chain[e]) = c
    BY DEF Chained, CallsHoldTheirEntry, Live, TypeOK
  <1>2. \A d \in Calls : Live(d)' <=> Live(d)
    BY DEF Live, TypeOK
  <1>3. chain[e] \in Seq(Calls) /\ chain'[e] = Tail(chain[e])
    BY <1>1 DEF TypeOK
  <1>4. TypeOK'
    <2>1. chain' \in [Entries -> Seq(Calls)]
      BY <1>1, <1>3, TailKeepsOthers DEF TypeOK
    <2> QED BY <2>1 DEF TypeOK, PCs
  <1>5. CallsHoldTheirEntry'
    BY <1>2 DEF CallsHoldTheirEntry
  <1>6. EntriesNotShared'
    BY DEF EntriesNotShared
  <1>7. Chained'
    <2> SUFFICES ASSUME NEW d \in Calls
                 PROVE  (/\ pc[d] = "queued" =>
                              \E i \in 1..Len(chain[entryOf[d]]) :
                                  chain[entryOf[d]][i] = d
                         /\ pc[d] = "running" =>
                              /\ chain[entryOf[d]] # << >>
                              /\ Head(chain[entryOf[d]]) = d)'
      BY Zenon DEF Chained
    <2>0. entryOf' = entryOf
      OBVIOUS
    <2>1. CASE d = c
      BY <2>1 DEF TypeOK
    <2>2. CASE d # c /\ entryOf[d] = e
      <3>1. pc'[d] = pc[d] /\ pc[d] # "running"
        BY <2>2, <1>1 DEF TypeOK, Chained
      <3>2. ASSUME pc[d] = "queued"
            PROVE  \E j \in 1..Len(chain'[e]) : chain'[e][j] = d
        <4>1. PICK i \in 1..Len(chain[e]) : chain[e][i] = d
          BY <3>2, <2>2 DEF Chained
        <4>2. chain[e][i] # Head(chain[e])
          BY <4>1, <1>1, <2>2
        <4> HIDE DEF e
        <4>3. \E j \in 1..Len(Tail(chain[e])) : Tail(chain[e])[j] = chain[e][i]
          BY <4>1, <4>2, <1>1, <1>3, TailKeepsOthers
        <4> QED BY <4>1, <4>3, <1>3
      <3> QED BY <2>0, <3>1, <3>2, <2>2
    <2>3. CASE d # c /\ entryOf[d] # e
      <3>1. \/ pc'[d] = pc[d] /\ chain'[entryOf[d]] = chain[entryOf[d]]
            \/ ~Live(d)
        BY <2>3 DEF TypeOK, CallsHoldTheirEntry
      <3>2. ~Live(d) => pc'[d] = "idle"
        BY <2>3 DEF TypeOK, Live
      <3> QED BY <2>0, <3>1, <3>2, <2>3 DEF Chained, Live
    <2> QED BY <2>1, <2>2, <2>3
  <1>8. Counted'
    <2>1. \A f : Users(f)' = Users(f)
      BY <1>2 DEF Users
    <2> QED BY <2>1 DEF Counted
  <1> QED BY <1>4, <1>5, <1>6, <1>7, <1>8

\* The last user takes the key out of the Map; nobody else held that entry.
LEMMA FinallyIInv ==
    ASSUME IInv, NEW c \in Calls, Finally(c)
    PROVE  IInv'
  <1> USE DEF IInv, Finally, Return, Outcomes
  <1>1. PICK e \in Entries, k \in Keys :
            e = entryOf[c] /\ k = keyOf[c] /\ locks[k] = e /\ e # NoEntry
    BY NoEntryFresh DEF CallsHoldTheirEntry, Live, TypeOK
  <1>2. waiting[e] = Cardinality(Users(e)) /\ c \in Users(e)
    BY <1>1 DEF Counted, Users, Live
  <1>3. Users(e)' = Users(e) \ {c}
    BY <1>1, NoEntryFresh DEF Users, Live, TypeOK
  <1>4. /\ waiting'[e] = Cardinality(Users(e)') /\ waiting[e] \in Nat
        /\ waiting[e] - 1 \in Nat
        /\ waiting[e] = 1 <=> Users(e)' = {}
    <2> DEFINE rest == Users(e) \ {c}
    <2>0. IsFiniteSet(Users(e))
      BY UsersFinite
    <2>1. IsFiniteSet(rest) /\ Cardinality(rest) = Cardinality(Users(e)) - 1
      BY <2>0, <1>2, FS_RemoveElement, Zenon
    <2>2. Cardinality(rest) \in Nat /\ (Cardinality(rest) = 0 <=> rest = {})
      BY <2>1, FS_CardinalityType, FS_EmptySet, Zenon
    <2> HIDE DEF rest
    <2>4. Users(e)' = rest
      BY <1>3 DEF rest
    <2>3. waiting'[e] = waiting[e] - 1
      BY <1>1 DEF TypeOK
    <2> QED BY <2>1, <2>2, <2>3, <2>4, <1>1, <1>2, UsersFinite
  <1>5. TypeOK'
    BY <1>1, <1>4 DEF TypeOK, PCs
  <1>6. ASSUME NEW d \in Calls, d # c
        PROVE  /\ pc'[d] = pc[d] /\ keyOf'[d] = keyOf[d] /\ entryOf'[d] = entryOf[d]
               /\ Live(d) /\ waiting[e] = 1 => entryOf[d] # e
    <2>1. pc'[d] = pc[d] /\ keyOf'[d] = keyOf[d] /\ entryOf'[d] = entryOf[d]
      BY <1>6 DEF TypeOK
    <2>2. ASSUME Live(d), waiting[e] = 1 PROVE entryOf[d] # e
      BY <2>1, <2>2, <1>3, <1>4, <1>6 DEF Users
    <2> QED BY <2>1, <2>2
  <1>7. CallsHoldTheirEntry'
    <2> SUFFICES ASSUME NEW d \in Calls
                 PROVE  IF Live(d)'
                        THEN /\ keyOf'[d] \in Keys /\ entryOf'[d] \in Entries
                             /\ locks'[keyOf'[d]] = entryOf'[d]
                        ELSE keyOf'[d] = NoKey /\ entryOf'[d] = NoEntry
      BY DEF CallsHoldTheirEntry
    <2>1. CASE d = c
      BY <2>1 DEF Live, TypeOK
    <2>2. CASE d # c
      BY <2>2, <1>1, <1>6 DEF CallsHoldTheirEntry, Live, TypeOK
    <2> QED BY <2>1, <2>2
  <1>8. EntriesNotShared'
    BY DEF EntriesNotShared, TypeOK
  <1>9. Chained'
    <2>1. \A d \in Calls : d # c => pc'[d] = pc[d] /\ entryOf'[d] = entryOf[d]
      BY <1>6
    <2>2. pc'[c] = "idle"
      BY DEF TypeOK
    <2> QED BY <2>1, <2>2 DEF Chained
  <1>10. Counted'
    <2> SUFFICES ASSUME NEW l \in Keys, locks'[l] # NoEntry
                 PROVE  (/\ waiting[locks[l]] = Cardinality(Users(locks[l]))
                         /\ Users(locks[l]) # {})'
      BY DEF Counted
    <2>1. locks'[l] = locks[l] /\ locks[l] \in Entries
      BY NoEntryFresh DEF TypeOK
    <2>2. CASE l = k
      BY <2>1, <2>2, <1>1, <1>4 DEF TypeOK
    <2>3. CASE l # k
      <3>1. locks[l] # e
        BY <2>1, <2>3, <1>1, NoEntryFresh DEF EntriesNotShared
      <3>2. Users(locks[l])' = Users(locks[l])
        <4>1. locks'[l] = locks[l] /\ entryOf[c] # locks[l] /\ entryOf'[c] # locks[l]
          BY <3>1, <2>1, <1>1, NoEntryFresh DEF TypeOK
        <4>2. \A d \in Calls : d # c => pc'[d] = pc[d] /\ entryOf'[d] = entryOf[d]
          BY <1>6
        <4> QED BY <4>1, <4>2 DEF Users, Live
      <3>3. waiting'[locks[l]] = waiting[locks[l]]
        BY <3>1, <2>1, <1>1 DEF TypeOK
      <3> QED BY <2>1, <3>2, <3>3 DEF Counted
    <2> QED BY <2>2, <2>3
  <1> QED BY <1>5, <1>7, <1>8, <1>9, <1>10

-----------------------------------------------------------------------------
LEMMA NextIInv == IInv /\ [Next]_vars => IInv'
  <1> SUFFICES ASSUME IInv, [Next]_vars PROVE IInv'
    OBVIOUS
  <1>1. CASE Next
    <2>1. PICK c \in Calls : \/ \E k \in Keys, e \in Entries : Call(c, k, e)
                             \/ Start(c)
                             \/ \E how \in Outcomes : Settle(c, how)
                             \/ Finally(c)
      BY <1>1 DEF Next
    <2> QED BY <2>1, CallIInv, StartIInv, SettleIInv, FinallyIInv
  <1>2. CASE UNCHANGED vars
    <2> USE <1>2 DEF vars
    <2>1. TypeOK' /\ EntriesNotShared' /\ Chained'
      BY DEF IInv, TypeOK, EntriesNotShared, Chained
    <2>2. CallsHoldTheirEntry'
      BY DEF IInv, CallsHoldTheirEntry, Live
    <2>3. Counted'
      <3>1. \A e : Users(e)' = Users(e)
        BY DEF Users, Live
      <3> QED BY <3>1 DEF IInv, Counted
    <2> QED BY <2>1, <2>2, <2>3 DEF IInv
  <1> QED BY <1>1, <1>2

\* The inductive invariant holds in every reachable state.
THEOREM Inductive == Spec => []IInv
  BY InitIInv, NextIInv, PTL DEF Spec

\* The variables keep their types: chains are sequences of calls, counts natural.
THEOREM TypeCorrect == Spec => []TypeOK
  <1>1. IInv => TypeOK
    BY DEF IInv
  <1> QED BY <1>1, Inductive, PTL

\* No two tasks of one key ever run at the same time (runExclusive).
THEOREM MutualExclusionHolds == Spec => []MutualExclusion
  <1>1. IInv => MutualExclusion
    <2> SUFFICES ASSUME IInv, NEW c \in Calls, NEW d \in Calls,
                        pc[c] = "running", pc[d] = "running", keyOf[c] = keyOf[d]
                 PROVE  c = d
      BY DEF MutualExclusion
    <2>1. entryOf[c] = entryOf[d]
      BY DEF IInv, CallsHoldTheirEntry, Live
    <2> QED BY <2>1 DEF IInv, Chained
  <1> QED BY <1>1, Inductive, PTL

\* Every call under way holds the one entry the Map has for its key.
THEOREM OneEntryPerKeyHolds == Spec => []OneEntryPerKey
  <1>1. IInv => OneEntryPerKey
    BY NoEntryFresh DEF IInv, OneEntryPerKey, CallsHoldTheirEntry
  <1> QED BY <1>1, Inductive, PTL

\* A key is in the Map exactly while a call for it is under way, and `waiting`
\* is the number of those calls (the eviction in `finally`).
THEOREM NoLeakHolds == Spec => []NoLeak
  <1>1. IInv => NoLeak
    <2> SUFFICES ASSUME IInv, NEW k \in Keys
                 PROVE  IF locks[k] = NoEntry
                        THEN \A c \in Calls : keyOf[c] # k
                        ELSE /\ waiting[locks[k]] = Cardinality(Users(locks[k]))
                             /\ Users(locks[k]) # {}
      BY DEF NoLeak
    <2>1. CASE locks[k] = NoEntry
      BY <2>1, NoEntryFresh, NoKeyFresh DEF IInv, CallsHoldTheirEntry
    <2>2. CASE locks[k] # NoEntry
      BY <2>2 DEF IInv, Counted
    <2> QED BY <2>1, <2>2
  <1> QED BY <1>1, Inductive, PTL

-----------------------------------------------------------------------------
(* The refinement of KeyedLock.  Its queue of a key is the chain of the key's   *)
(* entry, so a chain must hold each call once, and only calls of its key that   *)
(* have not settled: then a new call is asked for once, and the last `finally`  *)
(* evicts an entry whose chain is empty.                                       *)
Ordered ==
    \A k \in Keys : locks[k] # NoEntry =>
        \A i \in 1..Len(chain[locks[k]]) :
            LET c == chain[locks[k]][i] IN
            /\ pc[c] \in {"queued", "running"} /\ keyOf[c] = k
            /\ \A j \in 1..Len(chain[locks[k]]) : chain[locks[k]][j] = c => i = j

LEMMA InitOrdered == Init => Ordered
  BY DEF Init, Ordered

LEMMA CallOrdered ==
    ASSUME IInv, Ordered, NEW c \in Calls, NEW k \in Keys, NEW e \in Entries, Call(c, k, e)
    PROVE  Ordered'
  <1> USE DEF IInv, Call, EntryFor, Unreferenced
  <1> DEFINE old == IF locks[k] = NoEntry THEN << >> ELSE chain[e]
  <1>1. old \in Seq(Calls) /\ chain'[e] = Append(old, c) /\ locks'[k] = e
    BY DEF TypeOK
  <1>2. pc'[c] = "queued" /\ keyOf'[c] = k /\ pc[c] = "idle"
    BY DEF TypeOK
  <1>3. \A d \in Calls : d # c => pc'[d] = pc[d] /\ keyOf'[d] = keyOf[d]
    BY DEF TypeOK
  <1>4. ASSUME NEW i \in 1..Len(old)
        PROVE  /\ old[i] \in Calls /\ old[i] # c
               /\ pc[old[i]] \in {"queued", "running"} /\ keyOf[old[i]] = k
               /\ \A j \in 1..Len(old) : old[j] = old[i] => i = j
    <2>1. locks[k] # NoEntry /\ locks[k] = e /\ old = chain[locks[k]]
      OBVIOUS
    <2>2. old[i] \in Calls
      BY <1>1
    <2> HIDE DEF old
    <2> QED BY <2>1, <2>2, <1>2, <1>4 DEF Ordered
  <1>5. ASSUME NEW l \in Keys, locks'[l] # NoEntry, NEW i \in 1..Len(chain'[locks'[l]])
        PROVE  LET d == chain'[locks'[l]][i] IN
               /\ pc'[d] \in {"queued", "running"} /\ keyOf'[d] = l
               /\ \A j \in 1..Len(chain'[locks'[l]]) : chain'[locks'[l]][j] = d => i = j
    <2>1. CASE l = k
      <3> HIDE DEF old
      <3>1. Len(old) \in Nat /\ Len(Append(old, c)) = Len(old) + 1
        BY <1>1
      <3>2. \A j \in 1..Len(old) : Append(old, c)[j] = old[j]
        BY <1>1
      <3>3. Append(old, c)[Len(old) + 1] = c
        BY <1>1
      <3> DEFINE s == Append(old, c)
      <3>4. chain'[locks'[l]] = s
        BY <2>1, <1>1
      <3>5. i \in 1..Len(old) \/ i = Len(old) + 1
        BY <1>5, <3>1, <3>4
      <3>6. /\ pc'[s[i]] \in {"queued", "running"} /\ keyOf'[s[i]] = k
        BY <3>5, <3>2, <3>3, <1>2, <1>3, <1>4
      <3>7. \A j \in 1..Len(s) : s[j] = s[i] => i = j
        <4>1. \A j \in 1..Len(old) : s[j] # c
          BY <3>2, <1>4
        <4>2. \A j, m \in 1..Len(old) : s[j] = s[m] => j = m
          BY <3>2, <1>4
        <4>3. \A j \in 1..Len(s) : j \in 1..Len(old) \/ j = Len(old) + 1
          BY <3>1
        <4> QED BY <3>3, <3>5, <4>1, <4>2, <4>3
      <3> QED BY <3>4, <3>6, <3>7, <2>1
    <2>2. CASE l # k
      <3>1. locks'[l] = locks[l] /\ locks[l] \in Entries /\ locks[l] # e
        BY <2>2, <1>5, NoEntryFresh DEF TypeOK, EntriesNotShared
      <3>2. chain'[locks[l]] = chain[locks[l]] /\ chain[locks[l]] \in Seq(Calls)
        BY <3>1 DEF TypeOK
      <3>3. chain[locks[l]][i] \in Calls
        BY <1>5, <3>1, <3>2
      <3> QED BY <1>2, <1>3, <1>5, <3>1, <3>2, <3>3 DEF Ordered
    <2> QED BY <2>1, <2>2
  <1> QED BY <1>5 DEF Ordered

LEMMA StartOrdered ==
    ASSUME IInv, Ordered, NEW c \in Calls, Start(c)
    PROVE  Ordered'
  BY DEF IInv, TypeOK, Start, Ordered

LEMMA SettleOrdered ==
    ASSUME IInv, Ordered, NEW c \in Calls, NEW how \in Outcomes, Settle(c, how)
    PROVE  Ordered'
  <1> USE DEF IInv, Settle
  <1>1. /\ entryOf[c] \in Entries /\ keyOf[c] \in Keys /\ locks[keyOf[c]] = entryOf[c]
        /\ chain[entryOf[c]] # << >> /\ Head(chain[entryOf[c]]) = c
    BY DEF Chained, CallsHoldTheirEntry, Live
  <1>2. \A d \in Calls : d # c => pc'[d] = pc[d]
    BY DEF TypeOK
  <1>3. ASSUME NEW l \in Keys, locks[l] # NoEntry, NEW i \in 1..Len(chain'[locks[l]])
        PROVE  LET d == chain'[locks[l]][i] IN
               /\ pc'[d] \in {"queued", "running"} /\ keyOf[d] = l
               /\ \A j \in 1..Len(chain'[locks[l]]) : chain'[locks[l]][j] = d => i = j
    <2>1. locks[l] \in Entries /\ chain[locks[l]] \in Seq(Calls)
      BY <1>3 DEF TypeOK
    <2>2. CASE l = keyOf[c]
      <3> DEFINE s == chain[entryOf[c]]
      <3>1. s \in Seq(Calls) /\ s # << >> /\ s[1] = c /\ locks[l] = entryOf[c]
        BY <1>1, <2>1, <2>2
      <3>2. chain'[locks[l]] = Tail(s)
        BY <3>1, <1>1 DEF TypeOK
      <3>3. \A j \in 1..Len(s) : /\ pc[s[j]] \in {"queued", "running"} /\ keyOf[s[j]] = l
                                 /\ \A m \in 1..Len(s) : s[m] = s[j] => j = m
        BY <3>1, <1>3 DEF Ordered
      <3> HIDE DEF s
      <3>4. Len(Tail(s)) = Len(s) - 1 /\ Len(s) \in Nat \ {0}
        BY <3>1
      <3>5. \A j \in 1..Len(Tail(s)) : j + 1 \in 1..Len(s) /\ Tail(s)[j] = s[j + 1]
        BY <3>1, <3>4
      <3>6. i \in 1..Len(Tail(s)) /\ i + 1 \in 1..Len(s) /\ s[i + 1] \in Calls
        BY <3>1, <3>2, <3>5, <1>3
      <3>7. s[i + 1] # c
        BY <3>1, <3>3, <3>4, <3>6
      <3>8. pc'[Tail(s)[i]] \in {"queued", "running"} /\ keyOf[Tail(s)[i]] = l
        BY <3>3, <3>5, <3>6, <3>7, <1>2
      <3>9. \A j \in 1..Len(Tail(s)) : Tail(s)[j] = Tail(s)[i] => i = j
        BY <3>3, <3>5, <3>6
      <3> QED BY <3>2, <3>8, <3>9
    <2>3. CASE l # keyOf[c]
      <3>1. locks[l] # entryOf[c]
        BY <2>3, <1>1, <1>3 DEF EntriesNotShared
      <3>2. chain'[locks[l]] = chain[locks[l]] /\ chain[locks[l]][i] \in Calls
        BY <3>1, <2>1, <1>1, <1>3 DEF TypeOK
      <3> QED BY <3>2, <2>3, <1>2, <1>3 DEF Ordered
    <2> QED BY <2>2, <2>3
  <1>4. locks' = locks /\ keyOf' = keyOf
    OBVIOUS
  <1> HIDE DEF IInv, Settle
  <1> QED BY <1>3, <1>4 DEF Ordered

LEMMA FinallyOrdered ==
    ASSUME IInv, Ordered, NEW c \in Calls, Finally(c)
    PROVE  Ordered'
  <1> USE DEF IInv, Finally, Return, Outcomes
  <1>1. \A d \in Calls : d # c => pc'[d] = pc[d] /\ keyOf'[d] = keyOf[d]
    BY DEF TypeOK
  <1>2. ASSUME NEW l \in Keys, locks'[l] # NoEntry
        PROVE  locks'[l] = locks[l] /\ chain[locks[l]] \in Seq(Calls)
    BY <1>2 DEF TypeOK
  <1>3. ASSUME NEW l \in Keys, locks'[l] # NoEntry, NEW i \in 1..Len(chain[locks[l]])
        PROVE  chain[locks[l]][i] \in Calls \ {c}
    BY <1>2, <1>3 DEF Ordered
  <1>4. ASSUME NEW l \in Keys, locks'[l] # NoEntry, NEW i \in 1..Len(chain[locks[l]])
        PROVE  LET d == chain[locks[l]][i] IN
               /\ pc'[d] \in {"queued", "running"} /\ keyOf'[d] = l
               /\ \A j \in 1..Len(chain[locks[l]]) : chain[locks[l]][j] = d => i = j
    BY <1>1, <1>2, <1>3, <1>4 DEF Ordered
  <1>5. chain' = chain
    OBVIOUS
  <1> QED BY <1>2, <1>4, <1>5 DEF Ordered

LEMMA NextOrdered == IInv /\ Ordered /\ [Next]_vars => Ordered'
  <1> SUFFICES ASSUME IInv, Ordered, [Next]_vars PROVE Ordered'
    OBVIOUS
  <1>1. CASE Next
    BY <1>1, CallOrdered, StartOrdered, SettleOrdered, FinallyOrdered DEF Next
  <1>2. CASE UNCHANGED vars
    BY <1>2 DEF vars, Ordered
  <1> QED BY <1>1, <1>2

-----------------------------------------------------------------------------
QueueOf(k) == IF locks[k] = NoEntry THEN << >> ELSE chain[locks[k]]

\* What the refinement mapping makes of the lock's variables.
LEMMA CallIsRequest ==
    ASSUME IInv, Ordered, NEW c \in Calls, NEW k \in Keys, NEW e \in Entries, Call(c, k, e)
    PROVE  Lock!Request(c, k)
  <1> USE DEF IInv, Call, EntryFor, Unreferenced
  <1>1. c \notin Lock!Asking
    <2> SUFFICES ASSUME NEW l \in Keys, c \in Lock!Waiters(l) PROVE FALSE
      BY DEF Lock!Asking
    <2>1. \E i \in DOMAIN QueueOf(l) : QueueOf(l)[i] = c
      BY DEF QueueOf, Lock!Waiters, Lock!ToSet
    <2>2. locks[l] # NoEntry /\ \E i \in 1..Len(chain[locks[l]]) : chain[locks[l]][i] = c
      BY <2>1 DEF QueueOf, TypeOK
    <2> QED BY <2>2 DEF Ordered
  <1>2. QueueOf(k)' = Append(QueueOf(k), c)
    BY NoEntryFresh DEF QueueOf, TypeOK
  <1>3. ASSUME NEW l \in Keys, l # k PROVE QueueOf(l)' = QueueOf(l)
    BY <1>3, NoEntryFresh DEF QueueOf, TypeOK, EntriesNotShared
  <1>4. [l \in Keys |-> QueueOf(l)]' =
            [[l \in Keys |-> QueueOf(l)] EXCEPT ![k] = Append(@, c)]
    BY <1>2, <1>3, Zenon
  <1>5. {d \in Calls : pc[d] = "running"}' = {d \in Calls : pc[d] = "running"}
    BY DEF TypeOK
  <1> QED BY <1>1, <1>4, <1>5 DEF Lock!Request, QueueOf

LEMMA StartIsEnter ==
    ASSUME IInv, NEW c \in Calls, Start(c)
    PROVE  \E k \in Keys : Lock!Enter(c, k)
  <1> USE DEF IInv, Start
  <1>1. keyOf[c] \in Keys /\ locks[keyOf[c]] = entryOf[c] /\ entryOf[c] # NoEntry
    BY NoEntryFresh DEF CallsHoldTheirEntry, Live
  <1>2. chain[entryOf[c]] # << >>
    BY DEF Chained
  <1>3. {d \in Calls : pc[d] = "running"}' = {d \in Calls : pc[d] = "running"} \cup {c}
    BY DEF TypeOK
  <1>4. PICK k \in Keys : k = keyOf[c]
    BY <1>1
  <1>5. Lock!Enter(c, k)
    BY <1>1, <1>2, <1>3, <1>4 DEF Lock!Enter
  <1> QED BY <1>5

LEMMA SettleIsLeave ==
    ASSUME IInv, NEW c \in Calls, NEW how \in Outcomes, Settle(c, how)
    PROVE  \E k \in Keys : Lock!Leave(c, k)
  <1> USE DEF IInv, Settle
  <1>0. PICK k \in Keys : k = keyOf[c]
    BY DEF CallsHoldTheirEntry, Live
  <1>1. locks[k] = entryOf[c] /\ entryOf[c] \in Entries /\ entryOf[c] # NoEntry
    BY <1>0, NoEntryFresh DEF CallsHoldTheirEntry, Live
  <1>2. chain[entryOf[c]] # << >> /\ Head(chain[entryOf[c]]) = c
    BY DEF Chained
  <1>3. QueueOf(k)' = Tail(QueueOf(k)) /\ QueueOf(k) # << >> /\ Head(QueueOf(k)) = c
    BY <1>1, <1>2 DEF QueueOf, TypeOK
  <1>4. ASSUME NEW l \in Keys, l # k PROVE QueueOf(l)' = QueueOf(l)
    BY <1>1, <1>4 DEF QueueOf, TypeOK, EntriesNotShared
  <1>5. {d \in Calls : pc[d] = "running"}' = {d \in Calls : pc[d] = "running"} \ {c}
    BY DEF TypeOK, Outcomes
  <1>6. [l \in Keys |-> QueueOf(l)]' = [[l \in Keys |-> QueueOf(l)] EXCEPT ![k] = Tail(@)]
    BY <1>1, <1>3, <1>4, Zenon
  <1>7. Lock!Leave(c, k)
    BY <1>1, <1>3, <1>5, <1>6 DEF Lock!Leave, QueueOf
  <1> QED BY <1>7

\* The entry that is evicted has an empty chain: its last user has settled.
LEMMA FinallyIsNothing ==
    ASSUME IInv, Ordered, NEW c \in Calls, Finally(c)
    PROVE  UNCHANGED Lock!lockVars
  <1> USE DEF IInv, Finally, Return, Outcomes
  <1>1. /\ keyOf[c] \in Keys /\ entryOf[c] \in Entries /\ entryOf[c] # NoEntry
        /\ locks[keyOf[c]] = entryOf[c] /\ c \in Users(entryOf[c])
    BY NoEntryFresh DEF CallsHoldTheirEntry, Live, Users
  <1>2. ASSUME waiting[entryOf[c]] = 1 PROVE chain[entryOf[c]] = << >>
    <2>1. Cardinality(Users(entryOf[c])) = 1
      BY <1>1, <1>2 DEF Counted
    <2>2. Users(entryOf[c]) = {c}
      <3>1. IsFiniteSet(Users(entryOf[c]))
        BY UsersFinite
      <3>2. PICK d : Users(entryOf[c]) = {d}
        BY <2>1, <3>1, FS_Singleton
      <3> QED BY <3>2, <1>1
    <2>3. ASSUME chain[entryOf[c]] # << >> PROVE FALSE
      <3>1. chain[entryOf[c]] \in Seq(Calls) /\ 1 \in 1..Len(chain[entryOf[c]])
        BY <1>1, <2>3 DEF TypeOK
      <3> DEFINE d == chain[entryOf[c]][1]
      <3>2. d \in Calls /\ pc[d] \in {"queued", "running"} /\ keyOf[d] = keyOf[c]
        BY <1>1, <3>1 DEF Ordered
      <3>3. d \in Users(entryOf[c])
        BY <1>1, <3>2 DEF CallsHoldTheirEntry, Live, Users
      <3> QED BY <2>2, <3>2, <3>3
    <2> QED BY <2>3
  <1>3. ASSUME NEW l \in Keys PROVE QueueOf(l)' = QueueOf(l)
    BY <1>1, <1>2 DEF QueueOf, TypeOK
  <1>4. {d \in Calls : pc[d] = "running"}' = {d \in Calls : pc[d] = "running"}
    BY DEF TypeOK
  <1> QED BY <1>3, <1>4 DEF Lock!lockVars, QueueOf

\* Every step of the Map and its promise chains is a step of a first-come
\* first-served lock or none of one (ImplementsLock without its fairness).
THEOREM MutexImplementsLock ==
    Spec => Lock!LockInit /\ [][Lock!LockNext]_(Lock!lockVars)
  <1>1. Init => Lock!LockInit
    BY DEF Init, Lock!LockInit
  <1>2. IInv /\ Ordered /\ [Next]_vars => [Lock!LockNext]_(Lock!lockVars)
    <2> SUFFICES ASSUME IInv, Ordered, [Next]_vars
                 PROVE  Lock!LockNext \/ UNCHANGED Lock!lockVars
      OBVIOUS
    <2>1. CASE Next
      <3>1. PICK c \in Calls : \/ \E k \in Keys, e \in Entries : Call(c, k, e)
                               \/ Start(c)
                               \/ \E how \in Outcomes : Settle(c, how)
                               \/ Finally(c)
        BY <2>1 DEF Next
      <3>2. CASE \E k \in Keys, e \in Entries : Call(c, k, e)
        BY <3>2, CallIsRequest DEF Lock!LockNext
      <3>3. CASE Start(c)
        BY <3>3, StartIsEnter DEF Lock!LockNext
      <3>4. CASE \E how \in Outcomes : Settle(c, how)
        BY <3>4, SettleIsLeave DEF Lock!LockNext
      <3>5. CASE Finally(c)
        BY <3>5, FinallyIsNothing
      <3> QED BY <3>1, <3>2, <3>3, <3>4, <3>5
    <2>2. CASE UNCHANGED vars
      BY <2>2 DEF vars, Lock!lockVars
    <2> QED BY <2>1, <2>2
  <1> QED BY <1>1, <1>2, InitOrdered, NextOrdered, Inductive, PTL DEF Spec
=============================================================================
