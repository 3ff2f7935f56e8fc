------------------------- MODULE UploadQueueProofs -------------------------
(* The safety properties of UploadQueue, for any files, duplicate rule, rows of *)
(* earlier sessions and limits.  The invariants come in layers, each proved      *)
(* inductive from the ones before it:                                          *)
(*   Basis         types, ids, and whose photo a request is                     *)
(*   ShownStored   what a grid photo, or a verdict on its way back, stands for   *)
(*   RowsNumbered  rows are numbered as the uploads were sent                    *)
(*   Queue         one upload at a time, in pick order                          *)
(*   Winners       what a photo was turned down for has a lower row             *)
(*   OnThePage     every accepted row is in the grid, or still to come          *)
(* Basis and RowsNumbered hold of every run of the page; the others only while    *)
(* nothing is removed, and the last three under the conditions of their theorems. *)
EXTENDS UploadQueue, FiniteSetTheorems, TLAPS

-----------------------------------------------------------------------------
(* What the operators on the list of photos do to it.                          *)

\* A patch keeps the length of the list; of the photos it changes those with the
\* id, and of these the status and the row.
LEMMA PatchedIs ==
    ASSUME photos \in Seq(Photo), NEW id, NEW status \in Statuses, NEW row \in Nat
    PROVE  /\ Patched(id, status, row) \in Seq(Photo)
           /\ Len(Patched(id, status, row)) = Len(photos)
           /\ DOMAIN Patched(id, status, row) = DOMAIN photos
           /\ \A i \in DOMAIN photos :
                 /\ Patched(id, status, row)[i].id = photos[i].id
                 /\ Patched(id, status, row)[i].file = photos[i].file
                 /\ photos[i].id = id => /\ Patched(id, status, row)[i].status = status
                                         /\ Patched(id, status, row)[i].row = row
                 /\ photos[i].id # id => Patched(id, status, row)[i] = photos[i]
<1> DEFINE new == Patched(id, status, row)
<1>1. DOMAIN photos = 1..Len(photos) /\ Len(photos) \in Nat
      /\ \A i \in DOMAIN photos : photos[i] \in Photo
  OBVIOUS
<1>2. new = [i \in 1..Len(photos) |->
               IF photos[i].id = id THEN [photos[i] EXCEPT !.status = status, !.row = row]
                                    ELSE photos[i]]
  BY <1>1 DEF Patched
<1>3. \A i \in DOMAIN photos : [photos[i] EXCEPT !.status = status, !.row = row] \in Photo
  BY <1>1 DEF Photo
<1>4. \A i \in 1..Len(photos) : new[i] \in Photo
  BY <1>1, <1>2, <1>3
<1>5. new \in [1..Len(photos) -> Photo]
  BY <1>2, <1>4
<1>6. new \in Seq(Photo) /\ Len(new) = Len(photos)
  BY <1>1, <1>5
<1>7. ASSUME NEW i \in DOMAIN photos
      PROVE  /\ new[i].id = photos[i].id
             /\ new[i].file = photos[i].file
             /\ photos[i].id = id => new[i].status = status /\ new[i].row = row
             /\ photos[i].id # id => new[i] = photos[i]
  <2>1. photos[i] \in Photo
    BY <1>1
  <2>2. CASE photos[i].id = id
    <3>1. new[i] = [photos[i] EXCEPT !.status = status, !.row = row]
      BY <1>1, <1>2, <2>2
    <3> QED BY <2>1, <2>2, <3>1 DEF Photo
  <2>3. CASE photos[i].id # id
    BY <1>1, <1>2, <2>3
  <2> QED BY <2>2, <2>3
<1> QED BY <1>1, <1>5, <1>6, <1>7

\* A concatenation has the photos of both lists, in order.
LEMMA JoinedIs ==
    ASSUME NEW S, NEW s \in Seq(S), NEW t \in Seq(S)
    PROVE  /\ s \o t \in Seq(S)
           /\ Len(s \o t) = Len(s) + Len(t)
           /\ \A i \in 1..Len(s) : (s \o t)[i] = s[i]
           /\ \A i \in 1..Len(t) : (s \o t)[Len(s) + i] = t[i]
           /\ \A i \in 1..Len(s \o t) : i \in 1..Len(s) \/ \E j \in 1..Len(t) : i = Len(s) + j
<1>1. Len(s) \in Nat /\ Len(t) \in Nat
  OBVIOUS
<1>2. s \o t \in Seq(S) /\ Len(s \o t) = Len(s) + Len(t)
  OBVIOUS
<1>3. \A i \in 1..Len(s) : (s \o t)[i] = s[i]
  BY <1>1
<1>4. \A i \in 1..Len(t) : (s \o t)[Len(s) + i] = t[i]
  BY <1>1
<1>5. ASSUME NEW i \in 1..Len(s \o t), i \notin 1..Len(s)
      PROVE  \E j \in 1..Len(t) : i = Len(s) + j
  <2>1. i - Len(s) \in 1..Len(t) /\ i = Len(s) + (i - Len(s))
    BY <1>1, <1>2, <1>5
  <2> QED BY <2>1
<1> QED BY <1>2, <1>3, <1>4, <1>5

\* u has the elements of s, in order, from a place a on, those of t from b on, and
\* no others.
Merges(S, u, s, t) ==
    \E a \in Nat, b \in Nat :
        /\ u \in Seq(S) /\ DOMAIN u = 1..Len(u)
        /\ \A i \in 1..Len(s) : a + i \in 1..Len(u) /\ u[a + i] = s[i]
        /\ \A i \in 1..Len(t) : b + i \in 1..Len(u) /\ u[b + i] = t[i]
        /\ \A i \in 1..Len(u) : \/ \E j \in 1..Len(s) : i = a + j
                                \/ \E j \in 1..Len(t) : i = b + j

LEMMA JoinedMerges ==
    ASSUME NEW S, NEW s \in Seq(S), NEW t \in Seq(S)
    PROVE  Merges(S, s \o t, s, t) /\ Merges(S, t \o s, s, t)
<1> Len(s) \in Nat /\ Len(t) \in Nat
  OBVIOUS
<1>1. Merges(S, s \o t, s, t)
  <2> DEFINE u == s \o t
  <2>1. /\ u \in Seq(S) /\ Len(u) = Len(s) + Len(t)
        /\ \A i \in 1..Len(s) : u[0 + i] = s[i]
        /\ \A i \in 1..Len(t) : u[Len(s) + i] = t[i]
        /\ \A i \in 1..Len(u) : \/ \E j \in 1..Len(s) : i = 0 + j
                                \/ \E j \in 1..Len(t) : i = Len(s) + j
    BY JoinedIs
  <2> HIDE DEF u
  <2>2. /\ DOMAIN u = 1..Len(u)
        /\ \A i \in 1..Len(s) : 0 + i \in 1..Len(u)
        /\ \A i \in 1..Len(t) : Len(s) + i \in 1..Len(u)
    BY <2>1
  <2>3. \E a \in Nat, b \in Nat :
            /\ u \in Seq(S) /\ DOMAIN u = 1..Len(u)
            /\ \A i \in 1..Len(s) : a + i \in 1..Len(u) /\ u[a + i] = s[i]
            /\ \A i \in 1..Len(t) : b + i \in 1..Len(u) /\ u[b + i] = t[i]
            /\ \A i \in 1..Len(u) : \/ \E j \in 1..Len(s) : i = a + j
                                    \/ \E j \in 1..Len(t) : i = b + j
    <3> WITNESS 0 \in Nat, Len(s) \in Nat
    <3> QED BY <2>1, <2>2
  <2> QED BY <2>3 DEF Merges, u
<1>2. Merges(S, t \o s, s, t)
  <2> DEFINE u == t \o s
  <2>1. /\ u \in Seq(S) /\ Len(u) = Len(s) + Len(t)
        /\ \A i \in 1..Len(s) : u[Len(t) + i] = s[i]
        /\ \A i \in 1..Len(t) : u[0 + i] = t[i]
        /\ \A i \in 1..Len(u) : \/ \E j \in 1..Len(s) : i = Len(t) + j
                                \/ \E j \in 1..Len(t) : i = 0 + j
    BY JoinedIs
  <2> HIDE DEF u
  <2>2. /\ DOMAIN u = 1..Len(u)
        /\ \A i \in 1..Len(s) : Len(t) + i \in 1..Len(u)
        /\ \A i \in 1..Len(t) : 0 + i \in 1..Len(u)
    BY <2>1
  <2>3. \E a \in Nat, b \in Nat :
            /\ u \in Seq(S) /\ DOMAIN u = 1..Len(u)
            /\ \A i \in 1..Len(s) : a + i \in 1..Len(u) /\ u[a + i] = s[i]
            /\ \A i \in 1..Len(t) : b + i \in 1..Len(u) /\ u[b + i] = t[i]
            /\ \A i \in 1..Len(u) : \/ \E j \in 1..Len(s) : i = a + j
                                    \/ \E j \in 1..Len(t) : i = b + j
    <3> WITNESS Len(t) \in Nat, 0 \in Nat
    <3> QED BY <2>1, <2>2
  <2> QED BY <2>3 DEF Merges, u
<1> QED BY <1>1, <1>2

LEMMA MergedFrom ==
    ASSUME NEW S, NEW u, NEW s \in Seq(S), NEW t \in Seq(S), Merges(S, u, s, t), NEW i \in DOMAIN u
    PROVE  (\E j \in DOMAIN s : u[i] = s[j]) \/ (\E j \in 1..Len(t) : u[i] = t[j])
<1>1. PICK a \in Nat, b \in Nat :
          /\ DOMAIN u = 1..Len(u)
          /\ \A k \in 1..Len(s) : a + k \in 1..Len(u) /\ u[a + k] = s[k]
          /\ \A k \in 1..Len(t) : b + k \in 1..Len(u) /\ u[b + k] = t[k]
          /\ \A k \in 1..Len(u) : \/ \E j \in 1..Len(s) : k = a + j
                                  \/ \E j \in 1..Len(t) : k = b + j
  BY DEF Merges
<1>2. CASE \E j \in 1..Len(s) : i = a + j
  <2>1. DOMAIN s = 1..Len(s)
    OBVIOUS
  <2> QED BY <1>1, <1>2, <2>1
<1>3. CASE \E j \in 1..Len(t) : i = b + j
  BY <1>1, <1>3
<1> QED BY <1>1, <1>2, <1>3

\* Taking out one place keeps the others, in order.
LEMMA RemovedIs ==
    ASSUME NEW S, NEW s \in Seq(S), NEW k \in 1..Len(s)
    PROVE  /\ RemoveAt(s, k) \in Seq(S)
           /\ \A i \in 1..Len(RemoveAt(s, k)) :
                 \E j \in 1..Len(s) : RemoveAt(s, k)[i] = s[j] /\ j = IF i < k THEN i ELSE i + 1
<1> DEFINE a == SubSeq(s, 1, k - 1)
           b == SubSeq(s, k + 1, Len(s))
<1>1. Len(s) \in Nat /\ k \in Nat /\ 1 <= k /\ k <= Len(s)
  OBVIOUS
<1>2. a \in Seq(S) /\ Len(a) = k - 1 /\ \A i \in 1..k - 1 : a[i] = s[i]
  BY <1>1
<1>3. b \in Seq(S) /\ Len(b) = Len(s) - k /\ \A i \in 1..Len(s) - k : b[i] = s[k + i]
  BY <1>1
<1>4. RemoveAt(s, k) = a \o b
  BY DEF RemoveAt
<1> HIDE DEF a, b
<1>5. ASSUME NEW i \in 1..Len(a \o b)
      PROVE  \E j \in 1..Len(s) : (a \o b)[i] = s[j] /\ j = IF i < k THEN i ELSE i + 1
  <2>1. CASE i \in 1..Len(a)
    <3>1. (a \o b)[i] = s[i] /\ i < k /\ i \in 1..Len(s)
      BY <1>1, <1>2, <1>3, <2>1, JoinedIs
    <3> QED BY <3>1
  <2>2. ASSUME NEW j \in 1..Len(b), i = Len(a) + j
        PROVE  \E l \in 1..Len(s) : (a \o b)[i] = s[l] /\ l = IF i < k THEN i ELSE i + 1
    <3>1. (a \o b)[i] = b[j]
      BY <1>2, <1>3, <2>2, JoinedIs
    <3>2. b[j] = s[k + j] /\ k + j = i + 1 /\ ~(i < k) /\ i + 1 \in 1..Len(s)
      BY <1>1, <1>2, <1>3, <2>2
    <3> QED BY <3>1, <3>2
  <2> QED BY <1>2, <1>3, <2>1, <2>2, JoinedIs
<1>6. a \o b \in Seq(S)
  BY <1>2, <1>3
<1> QED BY <1>4, <1>5, <1>6

\* A finite set, listed, comes up whole and each element once.
LEMMA ListedIs ==
    ASSUME NEW S, IsFiniteSet(S)
    PROVE  /\ SetToSeq(S) \in Seq(S)
           /\ Len(SetToSeq(S)) = Cardinality(S)
           /\ IsInjective(SetToSeq(S))
           /\ \A x \in S : \E i \in 1..Len(SetToSeq(S)) : SetToSeq(S)[i] = x
<1> DEFINE n == Cardinality(S)
           f == SetToSeq(S)
<1>1. n \in Nat /\ ExistsBijection(1..n, S)
  BY FS_CardinalityType
<1>2. \E g \in [1..n -> S] : IsInjective(g)
  BY <1>1 DEF ExistsBijection, Bijection, Injection
<1>3. f \in [1..n -> S] /\ IsInjective(f)
  BY <1>2 DEF SetToSeq
<1> HIDE DEF f
<1>4. f \in Seq(S) /\ Len(f) = n
  BY <1>1, <1>3
<1>5. IsFiniteSet(1..n) /\ Cardinality(1..n) = n
  <2>1. 1 \in Int /\ n \in Int
    BY <1>1
  <2>2. IsFiniteSet(1..n) /\ Cardinality(1..n) = IF 1 > n THEN 0 ELSE n - 1 + 1
    BY <2>1, FS_Interval
  <2> HIDE DEF n
  <2> QED BY <1>1, <2>2
<1>6. f \in Surjection(1..n, S)
  <2>1. f \in Injection(1..n, S)
    BY <1>3 DEF Injection
  <2> QED BY <1>5, <2>1, FS_Injection
<1>7. \A x \in S : \E i \in 1..n : f[i] = x
  BY <1>6 DEF Surjection
<1> QED BY <1>3, <1>4, <1>7 DEF f

-----------------------------------------------------------------------------
(* What each action does, in the terms the invariants are in.                  *)

\* addFiles puts new photos, queued and with new ids, at the end.
LEMMA AddFilesIs ==
    ASSUME TypeOK, NEW incoming \in Picks, AddFiles(incoming)
    PROVE  \E new \in Seq(Photo) :
              /\ photos' = photos \o new
              /\ counter' = counter + Len(new)
              /\ Len(new) = Cardinality(Kept(incoming))
              /\ \A i \in 1..Len(new) : /\ new[i].id = counter + i
                                        /\ new[i].file \in Files
                                        /\ new[i].status = "queued"
                                        /\ new[i].row = NoRow
<1>1. PICK at \in InOrder(Kept(incoming)) :
          /\ counter' = counter + Len(at)
          /\ photos' = photos \o [i \in DOMAIN at |->
                [id |-> counter + i, file |-> incoming[at[i]], status |-> "queued", row |-> NoRow]]
  BY DEF AddFiles
<1>2. PICK n \in Nat : incoming \in [1..n -> Files]
  BY BoundsAreNatural DEF Picks
<1> DEFINE K == Kept(incoming)
<1>3. K \subseteq 1..n
  BY <1>2 DEF Kept, Fresh
<1>4. IsFiniteSet(K) /\ Cardinality(K) \in Nat
  <2>1. 1 \in Int /\ n \in Int
    BY <1>2
  <2>2. IsFiniteSet(1..n)
    BY <2>1, FS_Interval
  <2> QED BY <1>3, <2>2, FS_Subset, FS_CardinalityType
<1>5. at \in [1..Cardinality(K) -> K]
  BY <1>1 DEF InOrder
<1> HIDE DEF K
<1> DEFINE new == [i \in 1..Cardinality(K) |->
                [id |-> counter + i, file |-> incoming[at[i]], status |-> "queued", row |-> NoRow]]
<1>6. DOMAIN at = 1..Cardinality(K) /\ Len(at) = Cardinality(K)
  BY <1>4, <1>5
<1>7. \A i \in 1..Cardinality(K) : incoming[at[i]] \in Files
  BY <1>2, <1>3, <1>5
<1>8. \A i \in 1..Cardinality(K) : new[i] \in Photo
  BY <1>4, <1>7 DEF TypeOK, Photo, Statuses, NoRow
<1>9. new \in Seq(Photo) /\ Len(new) = Cardinality(K)
  <2>1. new \in [1..Cardinality(K) -> Photo]
    BY <1>8
  <2> HIDE DEF new
  <2> QED BY <1>4, <2>1
<1>10. \A i \in 1..Cardinality(K) : /\ new[i].id = counter + i
                                    /\ new[i].file \in Files
                                    /\ new[i].status = "queued"
                                    /\ new[i].row = NoRow
  BY <1>7
<1>11. photos' = photos \o new /\ counter' = counter + Len(new)
  BY <1>1, <1>6, <1>9
<1> HIDE DEF new
<1> QED BY <1>9, <1>10, <1>11 DEF K

\* What hydration makes of a row.
StubOf(x, id) == [id |-> id, file |-> NoFile, status |-> Shown(x.verdict), row |-> x.id]

\* Hydration puts a stub of every listed row, with a new id, in front.
LEMMA HydrateIs ==
    ASSUME TypeOK, Hydrate
    PROVE  \E stubs \in Seq(Photo) :
              /\ photos' = stubs \o photos
              /\ counter' = counter + Len(stubs)
              /\ \A i \in 1..Len(stubs) : \E x \in listed : stubs[i] = StubOf(x, counter + i)
              /\ \A x \in listed : \E i \in 1..Len(stubs) : stubs[i] = StubOf(x, counter + i)
<1> DEFINE s == SetToSeq(listed)
           n == Len(s)
           stubs == [i \in 1..n |-> StubOf(s[i], counter + i)]
<1>1. s \in Seq(listed) /\ n \in Nat /\ DOMAIN s = 1..n
      /\ (\A i \in 1..n : s[i] \in listed) /\ \A x \in listed : \E i \in 1..n : s[i] = x
  <2>1. s \in Seq(listed) /\ \A x \in listed : \E i \in 1..n : s[i] = x
    BY ListedIs DEF TypeOK
  <2> HIDE DEF s
  <2> QED BY <2>1
<1> HIDE DEF s
<1>2. photos' = stubs \o photos /\ counter' = counter + n
  <2>1. /\ photos' = [i \in DOMAIN s |->
                        [id |-> counter + i, file |-> NoFile,
                         status |-> Shown(s[i].verdict), row |-> s[i].id]] \o photos
        /\ counter' = counter + Len(s)
    BY DEF Hydrate, s
  <2> QED BY <1>1, <2>1 DEF StubOf
<1>3. ASSUME NEW x \in listed, NEW id \in Nat
      PROVE  StubOf(x, id) \in Photo
  <2>1. x.id \in Nat /\ x.verdict \in {"ACCEPTED", "DUPLICATE", "UNUSABLE"}
    BY DEF TypeOK, StoredRow
  <2> QED BY <2>1 DEF StubOf, Photo, Shown, Statuses
<1>4. \A i \in 1..n : counter + i \in Nat
  BY <1>1 DEF TypeOK
<1>5. stubs \in [1..n -> Photo]
  BY <1>1, <1>3, <1>4
<1>6. \A i \in 1..n : stubs[i] = StubOf(s[i], counter + i)
  OBVIOUS
<1> HIDE DEF stubs
<1>7. stubs \in Seq(Photo) /\ Len(stubs) = n
  BY <1>1, <1>5
<1> HIDE DEF n
<1>8. \A i \in 1..Len(stubs) : \E x \in listed : stubs[i] = StubOf(x, counter + i)
  BY <1>1, <1>6, <1>7
<1>9. \A x \in listed : \E i \in 1..Len(stubs) : stubs[i] = StubOf(x, counter + i)
  BY <1>1, <1>6, <1>7
<1> QED BY <1>2, <1>7, <1>8, <1>9

\* The server adds the row of the request it judges; the verdict goes back if
\* somebody still listens.
LEMMA JudgeIs ==
    ASSUME TypeOK, NEW q \in requests, Judge(q)
    PROVE  \E x \in StoredRow :
              /\ x.id = q.row /\ x.photo = q.file /\ x = RowOf(q.row, q.file, x.verdict)
              /\ q.verdict = "none"
              /\ rows' = rows \cup {x}
              /\ requests' = (requests \ {q}) \cup
                    IF q.heard THEN {[q EXCEPT !.verdict = Shown(x.verdict)]} ELSE {}
              /\ x.verdict = "UNUSABLE" <=> q.file \in Unusable
              /\ ever' = ever \cup IF x.verdict = "ACCEPTED" THEN {<<"me", q.file>>} ELSE {}
              /\ x.verdict = "DUPLICATE" => \E e \in ever : <<e[2], q.file>> \in Near
<1>1. PICK v \in {"ACCEPTED", "DUPLICATE", "UNUSABLE"} :
          /\ v = "UNUSABLE" <=> q.file \in Unusable
          /\ \/ Store!Accept(RowOf(q.row, q.file, v))
             \/ Store!TurnDown(RowOf(q.row, q.file, v))
             \/ Store!Reject(RowOf(q.row, q.file, v))
          /\ requests' = (requests \ {q}) \cup
                IF q.heard THEN {[q EXCEPT !.verdict = Shown(v)]} ELSE {}
  BY DEF Judge
<1> DEFINE x == RowOf(q.row, q.file, v)
<1>2. q.row \in Nat \ {NoRow} /\ q.file \in Files
  BY DEF TypeOK, Request
<1>3. x \in StoredRow /\ x.id = q.row /\ x.photo = q.file /\ x.verdict = v /\ x.owner = "me"
  BY <1>1, <1>2 DEF RowOf, StoredRow
<1>4. x = RowOf(q.row, q.file, x.verdict)
  BY <1>3
<1>5. q.verdict = "none"
  BY DEF Judge
<1>6. /\ rows' = rows \cup {x}
      /\ ever' = ever \cup IF x.verdict = "ACCEPTED" THEN {<<"me", q.file>>} ELSE {}
      /\ x.verdict = "DUPLICATE" => \E e \in ever : <<e[2], q.file>> \in Near
  <2> HIDE DEF x
  <2>1. CASE Store!Accept(x)
    BY <1>3, <2>1 DEF Store!Accept
  <2>2. CASE Store!TurnDown(x)
    BY <1>3, <2>2 DEF Store!TurnDown
  <2>3. CASE Store!Reject(x)
    BY <1>3, <2>3 DEF Store!Reject
  <2> QED BY <1>1, <2>1, <2>2, <2>3 DEF x
<1> HIDE DEF x
<1> QED BY <1>1, <1>3, <1>4, <1>5, <1>6

-----------------------------------------------------------------------------
(* Types.                                                                      *)

\* The rows of earlier sessions are numbered from one.
LEMMA InitRows ==
    ASSUME Init
    PROVE  /\ rows \subseteq StoredRow /\ IsFiniteSet(rows) /\ sent \in Nat
           /\ \A x \in rows : x.id <= sent /\ x.verdict = "ACCEPTED"
           /\ \A x, y \in rows : x.id = y.id => x = y
           /\ ever = {<<x.owner, x.photo>> : x \in rows}
<1> DEFINE old == SetToSeq(Stored)
           n == Len(old)
           f == [i \in 1..n |-> RowOf(i, old[i], "ACCEPTED")]
<1>1. old \in Seq(Files) /\ n \in Nat /\ DOMAIN old = 1..n /\ \A i \in 1..n : old[i] \in Files
  <2>1. old \in Seq(Stored) /\ Stored \subseteq Files
    BY StoredAreFiles, ListedIs
  <2> HIDE DEF old
  <2> QED BY <2>1
<1> HIDE DEF old
<1>2. rows = {f[i] : i \in 1..n} /\ sent = n
  <2>1. rows = {RowOf(i, old[i], "ACCEPTED") : i \in DOMAIN old} /\ sent = Len(old)
    BY DEF Init, old
  <2> QED BY <1>1, <2>1
<1>3. \A i \in 1..n : f[i] \in StoredRow /\ f[i].id = i /\ f[i].verdict = "ACCEPTED"
  BY <1>1 DEF RowOf, StoredRow, NoRow
<1> HIDE DEF f
<1>4. IsFiniteSet(rows)
  <2>1. f \in [1..n -> rows]
    <3>1. DOMAIN f = 1..n /\ f = [i \in 1..n |-> f[i]]
      BY DEF f
    <3> QED BY <1>2, <3>1
  <2>2. f \in Surjection(1..n, rows)
    BY <1>2, <2>1 DEF Surjection
  <2>3. IsFiniteSet(1..n)
    <3>1. 1 \in Int /\ n \in Int
      BY <1>1
    <3> QED BY <3>1, FS_Interval
  <2> QED BY <2>2, <2>3, FS_Surjection
<1>5. ever = {<<x.owner, x.photo>> : x \in rows}
  BY DEF Init, Store!Init
<1>6. sent \in Nat /\ rows \subseteq StoredRow
  BY <1>1, <1>2, <1>3
<1>7. \A x \in rows : x.id <= sent /\ x.verdict = "ACCEPTED"
  <2> SUFFICES ASSUME NEW i \in 1..n PROVE f[i].id <= n /\ f[i].verdict = "ACCEPTED"
    BY <1>2
  <2> QED BY <1>1, <1>3
<1>8. \A x, y \in rows : x.id = y.id => x = y
  <2> SUFFICES ASSUME NEW i \in 1..n, NEW j \in 1..n, f[i].id = f[j].id PROVE f[i] = f[j]
    BY <1>2
  <2> QED BY <1>3
<1> QED BY <1>4, <1>5, <1>6, <1>7, <1>8

LEMMA InitTyped == Init => TypeOK
<1> SUFFICES ASSUME Init PROVE TypeOK
  OBVIOUS
<1>1. photos \in Seq(Photo)
  BY DEF Init
<1>2. listed = {} /\ IsFiniteSet(listed)
  BY FS_EmptySet DEF Init
<1> QED BY <1>1, <1>2, InitRows DEF Init, TypeOK

\* Photos of the page are told apart by their ids, which requests and `started`
\* refer to; a stub of a stored photo is never sent (lines 182-183).
PhotosOK ==
    /\ photos \in Seq(Photo)
    /\ \A i, j \in DOMAIN photos : photos[i].id = photos[j].id => i = j
    /\ \A i \in DOMAIN photos : photos[i].id <= counter
    /\ \A i \in DOMAIN photos : photos[i].file = NoFile => photos[i].status \in Judged
IdsCounted ==
    /\ \A id \in started : id <= counter
    /\ \A q \in requests : q.id <= counter
OwnPhoto ==
    \A q \in requests, i \in DOMAIN photos :
        q.heard /\ photos[i].id = q.id => photos[i].file = q.file

Basis == TypeOK /\ PhotosOK /\ IdsCounted /\ OwnPhoto

LEMMA PatchKeepsPhotos ==
    ASSUME PhotosOK, counter \in Nat, NEW id, NEW status \in Statuses, NEW row \in Nat,
           photos' = Patched(id, status, row), counter' = counter,
           status \in Judged \/ \A i \in DOMAIN photos : photos[i].id = id => photos[i].file # NoFile
    PROVE  PhotosOK'
<1> DEFINE new == Patched(id, status, row)
<1>1. photos \in Seq(Photo)
  BY DEF PhotosOK
<1>2. /\ new \in Seq(Photo)
      /\ DOMAIN new = DOMAIN photos
      /\ \A i \in DOMAIN photos :
            /\ new[i].id = photos[i].id
            /\ new[i].file = photos[i].file
            /\ photos[i].id = id => new[i].status = status /\ new[i].row = row
            /\ photos[i].id # id => new[i] = photos[i]
  BY <1>1, PatchedIs
<1> HIDE DEF new
<1>3. photos' = new
  BY DEF new
<1>4. ASSUME NEW i \in DOMAIN photos, new[i].file = NoFile
      PROVE  new[i].status \in Judged
  BY <1>2, <1>4 DEF PhotosOK
<1> QED BY <1>2, <1>3, <1>4 DEF PhotosOK

LEMMA PatchKeepsOwnPhoto ==
    ASSUME PhotosOK, OwnPhoto, NEW id, NEW status \in Statuses, NEW row \in Nat,
           photos' = Patched(id, status, row),
           \A r \in requests' : r.heard => \/ \E q \in requests : q.heard /\ q.id = r.id /\ q.file = r.file
                                           \/ \E k \in DOMAIN photos : photos[k].id = r.id /\ photos[k].file = r.file
    PROVE  OwnPhoto'
<1>1. /\ DOMAIN photos' = DOMAIN photos
      /\ \A i \in DOMAIN photos : /\ photos'[i].id = photos[i].id
                                  /\ photos'[i].file = photos[i].file
  BY PatchedIs DEF PhotosOK
<1>2. ASSUME NEW r \in requests', NEW i \in DOMAIN photos, r.heard, photos[i].id = r.id
      PROVE  photos[i].file = r.file
  <2>1. CASE \E q \in requests : q.heard /\ q.id = r.id /\ q.file = r.file
    BY <1>2, <2>1 DEF OwnPhoto
  <2>2. CASE \E k \in DOMAIN photos : photos[k].id = r.id /\ photos[k].file = r.file
    BY <1>2, <2>2 DEF PhotosOK
  <2> QED BY <1>2, <2>1, <2>2
<1> QED BY <1>1, <1>2 DEF OwnPhoto

\* New photos, with new ids, in front or at the end.
LEMMA AddKeepsPhotos ==
    ASSUME Basis, NEW new \in Seq(Photo), counter' = counter + Len(new),
           photos' = photos \o new \/ photos' = new \o photos,
           UNCHANGED requests,
           \A i \in 1..Len(new) : /\ new[i].id = counter + i
                                  /\ new[i].file = NoFile => new[i].status \in Judged
    PROVE  PhotosOK' /\ OwnPhoto'
<1>1. /\ photos \in Seq(Photo) /\ counter \in Nat /\ Len(photos) \in Nat /\ Len(new) \in Nat
      /\ DOMAIN photos = 1..Len(photos) /\ DOMAIN new = 1..Len(new)
  BY DEF Basis, TypeOK
<1>2. ASSUME NEW i \in 1..Len(photos)
      PROVE  /\ photos[i].id \in Nat /\ photos[i].id <= counter
             /\ photos[i].file = NoFile => photos[i].status \in Judged
             /\ \A j \in 1..Len(photos) : photos[i].id = photos[j].id => i = j
             /\ \A q \in requests : q.heard /\ photos[i].id = q.id => photos[i].file = q.file
  <2>1. photos[i] \in Photo /\ i \in DOMAIN photos
    BY <1>1
  <2> QED BY <1>1, <2>1 DEF Basis, PhotosOK, OwnPhoto, Photo
<1>3. \A q \in requests : q.id \in Nat /\ q.id <= counter
  BY DEF Basis, TypeOK, IdsCounted, Request
<1>4. PICK a \in Nat, b \in Nat :
        /\ photos' \in Seq(Photo) /\ DOMAIN photos' = 1..Len(photos')
        /\ \A i \in 1..Len(photos) : a + i \in 1..Len(photos') /\ photos'[a + i] = photos[i]
        /\ \A i \in 1..Len(new) : b + i \in 1..Len(photos') /\ photos'[b + i] = new[i]
        /\ \A i \in 1..Len(photos') : \/ \E j \in 1..Len(photos) : i = a + j
                                      \/ \E j \in 1..Len(new) : i = b + j
  <2>1. Merges(Photo, photos', photos, new)
    BY <1>1, JoinedMerges
  <2> QED BY <2>1 DEF Merges
<1>5. ASSUME NEW i \in 1..Len(photos')
      PROVE  /\ photos'[i].id <= counter'
             /\ photos'[i].file = NoFile => photos'[i].status \in Judged
             /\ \A q \in requests : q.heard /\ photos'[i].id = q.id => photos'[i].file = q.file
  <2>1. ASSUME NEW j \in 1..Len(photos), i = a + j
        PROVE  /\ photos'[i].id <= counter'
               /\ photos'[i].file = NoFile => photos'[i].status \in Judged
               /\ \A q \in requests : q.heard /\ photos'[i].id = q.id => photos'[i].file = q.file
    <3>1. photos'[i] = photos[j]
      BY <1>4, <2>1
    <3>2. photos[j].id <= counter + Len(new)
      BY <1>1, <1>2
    <3> QED BY <1>2, <3>1, <3>2
  <2>2. ASSUME NEW j \in 1..Len(new), i = b + j
        PROVE  /\ photos'[i].id <= counter'
               /\ photos'[i].file = NoFile => photos'[i].status \in Judged
               /\ \A q \in requests : q.heard /\ photos'[i].id = q.id => photos'[i].file = q.file
    <3>1. photos'[i] = new[j] /\ new[j].id = counter + j
      BY <1>4, <2>2
    <3>2. counter + j <= counter + Len(new) /\ counter + j > counter
      BY <1>1
    <3>3. \A q \in requests : q.id # counter + j
      BY <1>1, <1>3, <3>2
    <3> QED BY <3>1, <3>2, <3>3
  <2> QED BY <1>4, <2>1, <2>2
<1>6. ASSUME NEW i \in 1..Len(photos'), NEW j \in 1..Len(photos'), photos'[i].id = photos'[j].id
      PROVE  i = j
  <2>1. ASSUME NEW k \in 1..Len(photos), NEW l \in 1..Len(photos), i = a + k, j = a + l
        PROVE  i = j
    <3>1. photos[k].id = photos[l].id
      BY <1>4, <1>6, <2>1
    <3>2. k = l
      BY <1>2, <3>1
    <3> QED BY <2>1, <3>2
  <2>2. ASSUME NEW k \in 1..Len(new), NEW l \in 1..Len(new), i = b + k, j = b + l
        PROVE  i = j
    <3>1. counter + k = counter + l
      BY <1>4, <1>6, <2>2
    <3> QED BY <1>1, <2>2, <3>1
  <2>3. ASSUME NEW k \in 1..Len(photos), NEW l \in 1..Len(new)
        PROVE  photos'[a + k].id # photos'[b + l].id
    <3>1. photos'[a + k] = photos[k] /\ photos'[b + l] = new[l] /\ new[l].id = counter + l
      BY <1>4
    <3>2. photos[k].id \in Nat /\ photos[k].id <= counter
      BY <1>2
    <3>3. photos[k].id # counter + l
      BY <1>1, <3>2
    <3> QED BY <3>1, <3>3
  <2>4. \/ \E k \in 1..Len(photos) : i = a + k
        \/ \E k \in 1..Len(new) : i = b + k
    BY <1>4
  <2>5. \/ \E k \in 1..Len(photos) : j = a + k
        \/ \E k \in 1..Len(new) : j = b + k
    BY <1>4
  <2> QED BY <1>6, <2>1, <2>2, <2>3, <2>4, <2>5
<1> QED BY <1>4, <1>5, <1>6 DEF PhotosOK, OwnPhoto

\* The request of a photo the pump starts.
RequestOf(k) ==
    [id |-> photos[k].id, file |-> photos[k].file, row |-> sent + 1,
     verdict |-> "none", heard |-> TRUE]

\* The pump takes the first queued photo it has not started, a picked file.
LEMMA PumpIs ==
    ASSUME Basis, Pump
    PROVE  \E k \in DOMAIN photos :
              /\ photos[k].status = "queued" /\ photos[k].id \notin started
              /\ \A j \in DOMAIN photos :
                    j < k => photos[j].status # "queued" \/ photos[j].id \in started
              /\ photos[k].file \in Files
              /\ RequestOf(k) \in Request
              /\ started' = started \cup {photos[k].id}
              /\ photos' = Patched(photos[k].id, "uploading", NoRow)
              /\ requests' = requests \cup {RequestOf(k)}
              /\ sent' = sent + 1
<1>1. PICK k \in Startable :
          /\ \A j \in Startable : k <= j
          /\ started' = started \cup {photos[k].id}
          /\ photos' = Patched(photos[k].id, "uploading", NoRow)
          /\ requests' = requests \cup {RequestOf(k)}
  BY DEF Pump, RequestOf
<1>2. /\ k \in DOMAIN photos /\ photos[k].status = "queued" /\ photos[k].id \notin started
      /\ photos[k] \in Photo /\ DOMAIN photos \subseteq Nat
  BY <1>1 DEF Startable, WithStatus, Basis, TypeOK
<1>3. photos[k].file \in Files
  BY <1>2 DEF Basis, PhotosOK, Photo, Judged
<1>4. RequestOf(k) \in Request
  BY <1>2, <1>3 DEF RequestOf, Request, Photo, Basis, TypeOK, NoRow
<1>5. ASSUME NEW j \in DOMAIN photos, j < k
      PROVE  photos[j].status # "queued" \/ photos[j].id \in started
  BY <1>1, <1>2, <1>5 DEF Startable, WithStatus
<1>6. sent' = sent + 1
  BY DEF Pump
<1> QED BY <1>1, <1>2, <1>3, <1>4, <1>5, <1>6

\* A step of the page or the server keeps the types, the ids and the stubs.
LEMMA BasisStep == Basis /\ [Next]_vars => Basis'
<1> SUFFICES ASSUME Basis, [Next]_vars PROVE Basis'
  OBVIOUS
<1>0. /\ TypeOK /\ PhotosOK /\ IdsCounted /\ OwnPhoto
      /\ photos \in Seq(Photo) /\ counter \in Nat /\ NoRow \in Nat
      /\ requests \subseteq Request /\ rows \subseteq StoredRow /\ IsFiniteSet(rows)
  BY DEF Basis, TypeOK, NoRow
<1>1. ASSUME NEW incoming \in Picks, AddFiles(incoming)
      PROVE  Basis'
  <2>1. PICK new \in Seq(Photo) :
            /\ photos' = photos \o new
            /\ counter' = counter + Len(new)
            /\ \A i \in 1..Len(new) : /\ new[i].id = counter + i
                                      /\ new[i].file \in Files
    BY <1>0, <1>1, AddFilesIs
  <2>2. UNCHANGED <<started, list, listed, requests, deletes, rows, ever, sent, again>>
        /\ picks' = picks + Len(incoming)
    BY <1>1 DEF AddFiles, server
  <2>3. PhotosOK' /\ OwnPhoto'
    BY <2>1, <2>2, StubIsNoFile, AddKeepsPhotos
  <2>4. Len(new) \in Nat /\ Len(incoming) \in Nat
    BY BoundsAreNatural DEF Picks
  <2>5. counter' \in Nat /\ picks' \in Nat /\ counter <= counter'
    BY <2>1, <2>2, <2>4 DEF Basis, TypeOK
  <2>6. TypeOK'
    BY <2>2, <2>3, <2>5 DEF Basis, TypeOK, PhotosOK
  <2>7. IdsCounted'
    <3>1. \A id \in started : id \in Nat /\ id <= counter
      BY DEF Basis, TypeOK, IdsCounted
    <3>2. \A q \in requests : q.id \in Nat /\ q.id <= counter
      BY DEF Basis, TypeOK, IdsCounted, Request
    <3> QED BY <1>0, <2>2, <2>5, <3>1, <3>2 DEF IdsCounted
  <2> QED BY <2>3, <2>6, <2>7 DEF Basis
<1>2. CASE Pump
  <2>1. PICK k \in DOMAIN photos :
            /\ photos[k].file \in Files
            /\ RequestOf(k) \in Request
            /\ started' = started \cup {photos[k].id}
            /\ photos' = Patched(photos[k].id, "uploading", NoRow)
            /\ requests' = requests \cup {RequestOf(k)}
            /\ sent' = sent + 1
    BY <1>2, PumpIs
  <2>2. UNCHANGED <<counter, list, listed, deletes, rows, ever, picks, again>>
    BY <1>2 DEF Pump, spent
  <2>3. "uploading" \in Statuses
    BY DEF Statuses
  <2>4. \A i \in DOMAIN photos : photos[i].id = photos[k].id => photos[i].file # NoFile
    BY <1>0, <2>1, StubIsNoFile DEF PhotosOK
  <2>5. PhotosOK'
    BY <1>0, <2>1, <2>2, <2>3, <2>4, PatchKeepsPhotos
  <2>6. OwnPhoto'
    <3>1. \A r \in requests' : r.heard =>
              \/ \E q \in requests : q.heard /\ q.id = r.id /\ q.file = r.file
              \/ \E i \in DOMAIN photos : photos[i].id = r.id /\ photos[i].file = r.file
      BY <2>1 DEF RequestOf
    <3> QED BY <1>0, <2>1, <2>3, <3>1, PatchKeepsOwnPhoto
  <2>7. photos[k].id \in Nat /\ photos[k].id <= counter
    <3>1. photos[k] \in Photo
      BY <1>0
    <3> QED BY <1>0, <3>1 DEF PhotosOK, Photo
  <2>8. TypeOK'
    <3>1. started \subseteq Nat /\ sent \in Nat
      BY <1>0 DEF TypeOK
    <3>2. started' \subseteq Nat
      BY <2>1, <2>7, <3>1
    <3>3. sent' \in Nat
      BY <2>1, <3>1
    <3>4. requests' \subseteq Request
      BY <1>0, <2>1
    <3>5. photos' \in Seq(Photo)
      BY <2>5 DEF PhotosOK
    <3> QED BY <1>0, <2>2, <3>2, <3>3, <3>4, <3>5 DEF TypeOK
  <2>9. IdsCounted'
    BY <1>0, <2>1, <2>2, <2>7 DEF IdsCounted, RequestOf
  <2> QED BY <2>5, <2>6, <2>8, <2>9 DEF Basis
<1>3. ASSUME NEW q \in requests, Answer(q)
      PROVE  Basis'
  <2>1. /\ q.verdict \in Judged /\ q \in Request
        /\ requests' = requests \ {q}
        /\ photos' = Patched(q.id, q.verdict, q.row)
        /\ UNCHANGED <<started, counter, list, listed, deletes, rows, ever, sent, picks, again>>
    BY <1>0, <1>3 DEF Answer, spent
  <2>2. q.verdict \in Statuses /\ q.row \in Nat
    BY <2>1 DEF Statuses, Judged, Request
  <2>3. PhotosOK'
    BY <1>0, <2>1, <2>2, PatchKeepsPhotos
  <2>4. OwnPhoto'
    BY <1>0, <2>1, <2>2, PatchKeepsOwnPhoto
  <2>5. TypeOK'
    BY <2>1, <2>3 DEF Basis, TypeOK, PhotosOK
  <2>6. IdsCounted'
    BY <1>0, <2>1 DEF IdsCounted
  <2> QED BY <2>3, <2>4, <2>5, <2>6 DEF Basis
<1>4. ASSUME NEW q \in requests, GiveUp(q)
      PROVE  Basis'
  <2>1. /\ q \in Request /\ q.heard
        /\ requests' = (requests \ {q}) \cup {[q EXCEPT !.heard = FALSE]}
        /\ photos' = Patched(q.id, "error", NoRow)
        /\ UNCHANGED <<started, counter, list, listed, deletes, rows, ever, sent, picks, again>>
    BY <1>0, <1>4 DEF GiveUp, spent
  <2>2. "error" \in Statuses
    BY DEF Statuses
  <2>3. [q EXCEPT !.heard = FALSE] \in Request /\ [q EXCEPT !.heard = FALSE].id = q.id
        /\ [q EXCEPT !.heard = FALSE].heard = FALSE /\ q.file \in Files
    BY <2>1 DEF Request
  <2>4. \A i \in DOMAIN photos : photos[i].id = q.id => photos[i].file # NoFile
    BY <1>0, <2>1, <2>3, StubIsNoFile DEF OwnPhoto
  <2>5. PhotosOK'
    BY <1>0, <2>1, <2>2, <2>4, PatchKeepsPhotos
  <2>6. OwnPhoto'
    BY <1>0, <2>1, <2>2, <2>3, PatchKeepsOwnPhoto
  <2>7. TypeOK'
    BY <2>1, <2>3, <2>5 DEF Basis, TypeOK, PhotosOK
  <2>8. IdsCounted'
    BY <1>0, <2>1, <2>3 DEF IdsCounted
  <2> QED BY <2>5, <2>6, <2>7, <2>8 DEF Basis
<1>5. ASSUME NEW q \in requests, Judge(q)
      PROVE  Basis'
  <2>1. PICK x \in StoredRow :
            /\ rows' = rows \cup {x}
            /\ requests' = (requests \ {q}) \cup
                  IF q.heard THEN {[q EXCEPT !.verdict = Shown(x.verdict)]} ELSE {}
    BY <1>0, <1>5, JudgeIs
  <2>2. UNCHANGED <<photos, started, counter, list, listed, deletes, sent, picks, again>>
    BY <1>5 DEF Judge, page, spent
  <2> DEFINE r == [q EXCEPT !.verdict = Shown(x.verdict)]
  <2>3. q \in Request /\ r \in Request /\ r.id = q.id /\ r.file = q.file /\ r.heard = q.heard
    BY <1>0 DEF Request, Shown, Judged
  <2>4. IsFiniteSet(rows')
    BY <1>0, <2>1, FS_AddElement
  <2>5. \A s \in requests' : s \in requests \/ (q.heard /\ s = r)
    BY <2>1
  <2> HIDE DEF r
  <2>6. TypeOK'
    BY <1>0, <2>1, <2>2, <2>3, <2>4, <2>5 DEF TypeOK
  <2>7. PhotosOK'
    BY <1>0, <2>2 DEF PhotosOK
  <2>8. IdsCounted' /\ OwnPhoto'
    BY <1>0, <2>2, <2>3, <2>5 DEF IdsCounted, OwnPhoto
  <2> QED BY <2>6, <2>7, <2>8 DEF Basis
<1>6. ASSUME NEW q \in requests, Vanish(q)
      PROVE  Basis'
  <2>1. /\ requests' \subseteq requests
        /\ UNCHANGED <<photos, started, counter, list, listed, deletes, rows, sent, picks, again>>
    BY <1>6 DEF Vanish, page, spent
  <2> QED BY <1>0, <2>1 DEF Basis, TypeOK, PhotosOK, IdsCounted, OwnPhoto
<1>7. ASSUME NEW id \in Ids, RemovePhoto(id)
      PROVE  Basis'
  <2>1. PICK k \in DOMAIN photos :
            /\ deletes' = deletes \cup ({photos[k].row} \ {NoRow})
            /\ photos' = RemoveAt(photos, k)
    BY <1>7 DEF RemovePhoto
  <2>2. /\ started' \subseteq started
        /\ UNCHANGED <<counter, list, listed, requests, rows, ever, sent, picks, again>>
    BY <1>7 DEF RemovePhoto, spent
  <2>3. k \in 1..Len(photos) /\ DOMAIN photos = 1..Len(photos) /\ Len(photos) \in Nat
        /\ photos[k] \in Photo
    BY <1>0
  <2>4. /\ photos' \in Seq(Photo)
        /\ DOMAIN photos' = 1..Len(photos')
        /\ \A i \in DOMAIN photos' :
              \E j \in DOMAIN photos : photos'[i] = photos[j] /\ j = IF i < k THEN i ELSE i + 1
    <3>1. /\ RemoveAt(photos, k) \in Seq(Photo)
          /\ \A i \in 1..Len(RemoveAt(photos, k)) :
                \E j \in 1..Len(photos) : RemoveAt(photos, k)[i] = photos[j]
                                           /\ j = IF i < k THEN i ELSE i + 1
      BY <1>0, <2>3, RemovedIs
    <3>2. photos' \in Seq(Photo)
      BY <2>1, <3>1
    <3>3. DOMAIN photos' = 1..Len(photos')
      BY <3>2
    <3>4. \A i \in 1..Len(photos') :
              \E j \in 1..Len(photos) : photos'[i] = photos[j] /\ j = IF i < k THEN i ELSE i + 1
      BY <2>1, <3>1
    <3> QED BY <2>3, <3>2, <3>3, <3>4
  <2>5. ASSUME NEW i \in DOMAIN photos', NEW j \in DOMAIN photos', photos'[i].id = photos'[j].id
        PROVE  i = j
    <3>1. PICK m \in DOMAIN photos : photos'[i] = photos[m] /\ m = IF i < k THEN i ELSE i + 1
      BY <2>4
    <3>2. PICK n \in DOMAIN photos : photos'[j] = photos[n] /\ n = IF j < k THEN j ELSE j + 1
      BY <2>4
    <3>3. m = n
      BY <1>0, <2>5, <3>1, <3>2 DEF PhotosOK
    <3> QED BY <2>3, <2>4, <3>1, <3>2, <3>3
  <2>6. PhotosOK'
    BY <1>0, <2>2, <2>4, <2>5 DEF PhotosOK
  <2>7. OwnPhoto'
    BY <1>0, <2>2, <2>4 DEF OwnPhoto
  <2>8. deletes' \subseteq Nat
    BY <2>1, <2>3 DEF Basis, TypeOK, Photo
  <2>9. TypeOK'
    BY <2>2, <2>4, <2>8 DEF Basis, TypeOK
  <2>10. IdsCounted'
    BY <1>0, <2>2 DEF IdsCounted
  <2> QED BY <2>6, <2>7, <2>9, <2>10 DEF Basis
<1>8. ASSUME NEW id \in Ids, Retry(id)
      PROVE  Basis'
  <2>1. PICK k \in DOMAIN photos : photos[k].id = id /\ photos[k].status = "error"
    BY <1>8 DEF Retry, Retryable, WithStatus
  <2>2. /\ started' \subseteq started
        /\ photos' = Patched(id, "queued", NoRow)
        /\ again' = again + 1
        /\ UNCHANGED <<counter, list, listed, requests, deletes, rows, ever, sent, picks>>
    BY <1>8 DEF Retry, server
  <2>3. "queued" \in Statuses
    BY DEF Statuses
  <2>4. \A i \in DOMAIN photos : photos[i].id = id => photos[i].file # NoFile
    BY <1>0, <2>1 DEF PhotosOK, Judged
  <2>5. PhotosOK'
    BY <1>0, <2>2, <2>3, <2>4, PatchKeepsPhotos
  <2>6. OwnPhoto'
    BY <1>0, <2>2, <2>3, PatchKeepsOwnPhoto
  <2>7. TypeOK'
    BY <2>2, <2>5 DEF Basis, TypeOK, PhotosOK
  <2>8. IdsCounted'
    BY <1>0, <2>2 DEF IdsCounted
  <2> QED BY <2>5, <2>6, <2>7, <2>8 DEF Basis
<1>9. CASE ListAnswered
  <2>1. /\ list' = "answered" /\ listed' = rows
        /\ UNCHANGED <<photos, started, counter, requests, deletes, rows, ever, sent, picks, again>>
    BY <1>9 DEF ListAnswered, server, spent
  <2> QED BY <1>0, <2>1 DEF Basis, TypeOK, PhotosOK, IdsCounted, OwnPhoto
<1>10. CASE ListFails
  <2>1. /\ list' = "done" /\ listed' = {} /\ IsFiniteSet({})
        /\ UNCHANGED <<photos, started, counter, requests, deletes, rows, ever, sent, picks, again>>
    BY <1>10, FS_EmptySet DEF ListFails, server, spent
  <2> QED BY <1>0, <2>1 DEF Basis, TypeOK, PhotosOK, IdsCounted, OwnPhoto
<1>11. CASE Hydrate
  <2>1. PICK stubs \in Seq(Photo) :
            /\ photos' = stubs \o photos
            /\ counter' = counter + Len(stubs)
            /\ \A i \in 1..Len(stubs) : \E x \in listed : stubs[i] = StubOf(x, counter + i)
    BY <1>0, <1>11, HydrateIs
  <2>2. ASSUME NEW i \in 1..Len(stubs)
        PROVE  stubs[i].id = counter + i /\ stubs[i].status \in Judged
    <3>1. PICK x \in listed : stubs[i] = StubOf(x, counter + i)
      BY <2>1
    <3>2. Shown(x.verdict) \in Judged
      BY DEF Shown, Judged
    <3> QED BY <3>1, <3>2 DEF StubOf
  <2>3. /\ list' = "done" /\ listed' = {} /\ IsFiniteSet({})
        /\ UNCHANGED <<started, requests, deletes, rows, ever, sent, picks, again>>
    BY <1>11, FS_EmptySet DEF Hydrate, server, spent
  <2>4. PhotosOK' /\ OwnPhoto'
    BY <2>1, <2>2, <2>3, AddKeepsPhotos
  <2>5. Len(stubs) \in Nat
    OBVIOUS
  <2>6. counter' \in Nat /\ counter <= counter'
    BY <1>0, <2>1, <2>5
  <2>7. TypeOK'
    BY <2>3, <2>4, <2>6 DEF Basis, TypeOK, PhotosOK
  <2>8. IdsCounted'
    <3>1. \A id \in started : id \in Nat /\ id <= counter
      BY DEF Basis, TypeOK, IdsCounted
    <3>2. \A q \in requests : q.id \in Nat /\ q.id <= counter
      BY DEF Basis, TypeOK, IdsCounted, Request
    <3> QED BY <1>0, <2>3, <2>6, <3>1, <3>2 DEF IdsCounted
  <2> QED BY <2>4, <2>7, <2>8 DEF Basis
<1>12. CASE Reload
  <2>1. /\ photos' = << >> /\ started' = {} /\ list' = "asked" /\ listed' = {} /\ IsFiniteSet({})
        /\ requests' = {[q EXCEPT !.heard = FALSE] : q \in requests}
        /\ again' = again + 1
        /\ UNCHANGED <<counter, deletes, rows, ever, sent, picks>>
    BY <1>12, FS_EmptySet DEF Reload
  <2>2. \A r \in requests' : r \in Request /\ r.heard = FALSE /\ \E q \in requests : r.id = q.id
    BY <1>0, <2>1 DEF Request
  <2>3. TypeOK'
    BY <1>0, <2>1, <2>2 DEF TypeOK
  <2>4. PhotosOK' /\ OwnPhoto' /\ IdsCounted'
    BY <1>0, <2>1, <2>2 DEF PhotosOK, OwnPhoto, IdsCounted
  <2> QED BY <2>3, <2>4 DEF Basis
<1>13. ASSUME NEW id \in deletes, Delete(id) \/ DeleteFails(id)
       PROVE  Basis'
  <2>1. /\ deletes' \subseteq deletes /\ rows' \subseteq rows
        /\ UNCHANGED <<photos, started, counter, list, listed, requests, sent, picks, again>>
    BY <1>13 DEF Delete, DeleteFails, Store!Delete, page, spent
  <2>2. IsFiniteSet(rows')
    BY <1>0, <2>1, FS_Subset
  <2> QED BY <1>0, <2>1, <2>2 DEF Basis, TypeOK, PhotosOK, IdsCounted, OwnPhoto
<1>14. CASE UNCHANGED vars
  BY <1>0, <1>14 DEF vars, page, server, spent, Basis, TypeOK, PhotosOK, IdsCounted, OwnPhoto
<1> QED BY <1>1, <1>2, <1>3, <1>4, <1>5, <1>6, <1>7, <1>8, <1>9, <1>10, <1>11, <1>12, <1>13, <1>14
        DEF Next

LEMMA BasisHolds == Safety => []Basis
<1>1. Init => Basis
  <2> SUFFICES ASSUME Init PROVE Basis
    OBVIOUS
  <2>1. photos = << >> /\ started = {} /\ requests = {}
    BY DEF Init
  <2> QED BY <2>1, InitTyped DEF Basis, TypeOK, PhotosOK, IdsCounted, OwnPhoto
<1> QED BY <1>1, BasisStep, PTL DEF Safety

\* The page's photos, ids and requests and the server's rows keep their types,
\* over any picks, failures, removals, retries and reloads.
THEOREM TypeCorrect == Safety => []TypeOK
<1>1. Basis => TypeOK
  BY DEF Basis
<1> QED BY <1>1, BasisHolds, PTL

-----------------------------------------------------------------------------
(* What the user picked stays, and fits.                                       *)

\* Only a removal or a reload takes a photo off the page.
LEMMA StepErasesNothing ==
    ASSUME Basis, Next, ~Removals, again' = again, NEW k \in DOMAIN photos
    PROVE  \E i \in DOMAIN photos' : photos'[i].id = photos[k].id
<1>0. /\ TypeOK /\ photos \in Seq(Photo) /\ again \in Nat /\ NoRow \in Nat
      /\ DOMAIN photos = 1..Len(photos) /\ requests \subseteq Request
      /\ "uploading" \in Statuses /\ "error" \in Statuses /\ Judged \subseteq Statuses
  BY DEF Basis, TypeOK, NoRow, Statuses, Judged
<1>1. ASSUME NEW new \in Seq(Photo), photos' = photos \o new \/ photos' = new \o photos
      PROVE  \E i \in DOMAIN photos' : photos'[i].id = photos[k].id
  <2>1. PICK a \in Nat, b \in Nat :
          /\ photos' \in Seq(Photo) /\ DOMAIN photos' = 1..Len(photos')
          /\ \A i \in 1..Len(photos) : a + i \in 1..Len(photos') /\ photos'[a + i] = photos[i]
          /\ \A i \in 1..Len(new) : b + i \in 1..Len(photos') /\ photos'[b + i] = new[i]
          /\ \A i \in 1..Len(photos') : \/ \E j \in 1..Len(photos) : i = a + j
                                        \/ \E j \in 1..Len(new) : i = b + j
    <3>1. Merges(Photo, photos', photos, new)
      BY <1>0, <1>1, JoinedMerges
    <3> QED BY <3>1 DEF Merges
  <2>2. a + k \in DOMAIN photos' /\ photos'[a + k] = photos[k]
    BY <1>0, <2>1
  <2> QED BY <2>2
<1>2. ASSUME NEW id, NEW status \in Statuses, NEW row \in Nat, photos' = Patched(id, status, row)
      PROVE  \E i \in DOMAIN photos' : photos'[i].id = photos[k].id
  BY <1>0, <1>2, PatchedIs
<1>3. CASE \E incoming \in Picks : AddFiles(incoming)
  BY <1>0, <1>1, <1>3, AddFilesIs
<1>4. CASE Pump
  BY <1>0, <1>2, <1>4, PumpIs
<1>5. ASSUME NEW q \in requests, Answer(q) \/ GiveUp(q)
      PROVE  \E i \in DOMAIN photos' : photos'[i].id = photos[k].id
  <2>1. q.row \in Nat
    BY <1>0 DEF Request
  <2>2. CASE Answer(q)
    BY <1>0, <1>2, <2>1, <2>2 DEF Answer
  <2>3. CASE GiveUp(q)
    BY <1>0, <1>2, <2>3 DEF GiveUp
  <2> QED BY <1>5, <2>2, <2>3
<1>6. CASE Hydrate
  BY <1>0, <1>1, <1>6, HydrateIs
<1>7. ASSUME photos' = photos
      PROVE  \E i \in DOMAIN photos' : photos'[i].id = photos[k].id
  BY <1>7
<1>8. ASSUME NEW q \in requests, Judge(q) \/ Vanish(q)
      PROVE  photos' = photos
  BY <1>8 DEF Judge, Vanish, page
<1>9. CASE ListAnswered \/ ListFails
  BY <1>7, <1>9 DEF ListAnswered, ListFails
<1>10. ASSUME NEW id \in deletes, Delete(id) \/ DeleteFails(id)
       PROVE  photos' = photos
  BY <1>10 DEF Delete, DeleteFails, page
<1>11. \A id : ~RemovePhoto(id) /\ ~Retry(id) /\ ~Reload
  BY <1>0 DEF RemovePhoto, Retry, Reload
<1> QED BY <1>3, <1>4, <1>5, <1>6, <1>7, <1>8, <1>9, <1>10, <1>11 DEF Next

\* A photo leaves the page only when the user removes it or leaves the page: a
\* list that answers late erases nothing picked meanwhile.
THEOREM NothingErasedHolds == Safety => NothingErased
<1>1. Basis /\ [Next]_vars =>
          [~Removals /\ again' = again => Ids \subseteq {photos'[i].id : i \in DOMAIN photos'}]_vars
  <2> SUFFICES ASSUME Basis, Next, ~Removals, again' = again
               PROVE  Ids \subseteq {photos'[i].id : i \in DOMAIN photos'}
    OBVIOUS
  <2> QED BY StepErasesNothing DEF Ids
<1> QED BY <1>1, BasisHolds, PTL DEF Safety, NothingErased

\* The screen keeps no more files than there are slots: before the last it keeps
\* are all the others, and all of them were counted.
LEMMA KeptFits ==
    ASSUME NEW incoming \in Picks, NEW at \in InOrder(Kept(incoming)),
           Occupied \in Nat, Occupied < MAX_PHOTOS
    PROVE  /\ Cardinality(Kept(incoming)) \in Nat
           /\ Occupied + Cardinality(Kept(incoming)) <= MAX_PHOTOS
<1> DEFINE K == Kept(incoming)
           F == Fresh(incoming)
           c == Cardinality(K)
<1>1. PICK n \in Nat : incoming \in [1..n -> Files]
  BY BoundsAreNatural DEF Picks
<1>2. F \subseteq 1..n /\ K \subseteq F
  BY <1>1 DEF Kept, Fresh
<1>3. IsFiniteSet(F) /\ IsFiniteSet(K) /\ c \in Nat
  <2>1. 1 \in Int /\ n \in Int
    BY <1>1
  <2>2. IsFiniteSet(1..n)
    BY <2>1, FS_Interval
  <2>3. IsFiniteSet(F)
    BY <1>2, <2>2, FS_Subset
  <2>4. IsFiniteSet(K)
    BY <1>2, <2>3, FS_Subset
  <2> QED BY <2>3, <2>4, FS_CardinalityType
<1>4. at \in [1..c -> K] /\ \A m, l \in 1..c : m < l => at[m] < at[l]
  <2>1. at \in [1..c -> K] /\ \A m, l \in DOMAIN at : m < l => at[m] < at[l]
    BY DEF InOrder
  <2> HIDE DEF c, K
  <2> QED BY <2>1
<1>5. ASSUME c # 0
      PROVE  Occupied + c <= MAX_PHOTOS
  <2> DEFINE before == {j \in F : j < at[c]}
  <2>1. c \in 1..c /\ at[c] \in K /\ c - 1 \in Nat
    <3> HIDE DEF c, K
    <3> QED BY <1>3, <1>4, <1>5
  <2>2. Occupied + Cardinality(before) < MAX_PHOTOS
    BY <2>1 DEF Kept
  <2>3. IsFiniteSet(before) /\ Cardinality(before) \in Nat
    <3>1. before \subseteq F
      OBVIOUS
    <3> QED BY <1>3, <3>1, FS_Subset, FS_CardinalityType
  <2> DEFINE g == [m \in 1..c - 1 |-> at[m]]
  <2>4. g \in Injection(1..c - 1, before)
    <3> HIDE DEF c, K, F
    <3>1. ASSUME NEW m \in 1..c - 1
          PROVE  at[m] \in before
      <4>1. m \in 1..c /\ m < c
        BY <1>3
      <4> QED BY <1>2, <1>4, <2>1, <4>1
    <3>2. g \in [1..c - 1 -> before]
      BY <3>1
    <3>3. ASSUME NEW m \in 1..c - 1, NEW l \in 1..c - 1, g[m] = g[l]
          PROVE  m = l
      <4>1. m \in 1..c /\ l \in 1..c /\ at[m] = at[l]
        BY <1>3, <3>3
      <4>2. at[m] \in 1..n /\ at[l] \in 1..n
        BY <1>2, <1>4, <4>1
      <4>3. ~(m < l) /\ ~(l < m)
        BY <1>1, <1>4, <4>1, <4>2
      <4> QED BY <4>1, <4>3
    <3>4. IsInjective(g)
      BY <3>2, <3>3 DEF IsInjective
    <3> QED BY <3>2, <3>4 DEF Injection
  <2>5. Cardinality(1..c - 1) <= Cardinality(before)
    <3> HIDE DEF g, before
    <3> QED BY <2>3, <2>4, FS_Injection
  <2>6. Cardinality(1..c - 1) = c - 1
    <3> HIDE DEF c
    <3>1. 1 \in Int /\ c - 1 \in Int
      BY <2>1
    <3>2. Cardinality(1..c - 1) = IF 1 > c - 1 THEN 0 ELSE c - 1 - 1 + 1
      BY <3>1, FS_Interval
    <3> QED BY <2>1, <3>2
  <2> HIDE DEF before, c
  <2> QED BY <1>3, <2>1, <2>2, <2>3, <2>5, <2>6, LimitsArePositive
<1> HIDE DEF c
<1>6. Occupied + c <= MAX_PHOTOS
  BY <1>3, <1>5, LimitsArePositive
<1> QED BY <1>3, <1>6 DEF c

LEMMA WithStatusFinite ==
    ASSUME photos \in Seq(Photo), NEW S
    PROVE  IsFiniteSet(WithStatus(S)) /\ Cardinality(WithStatus(S)) \in Nat
<1>1. Len(photos) \in Nat /\ DOMAIN photos = 1..Len(photos)
  OBVIOUS
<1>2. 1 \in Int /\ Len(photos) \in Int
  BY <1>1
<1>3. IsFiniteSet(1..Len(photos))
  BY <1>2, FS_Interval
<1>4. WithStatus(S) \subseteq 1..Len(photos)
  BY <1>1 DEF WithStatus
<1> QED BY <1>3, <1>4, FS_Subset, FS_CardinalityType

\* The photos a pick adds are as many as the screen kept, all of them occupy.
LEMMA PickFits ==
    ASSUME Basis, NEW incoming \in Picks, AddFiles(incoming)
    PROVE  Occupied' <= MAX_PHOTOS
<1> DEFINE S == {"queued", "uploading", "accepted"}
           old == WithStatus(S)
           c == Cardinality(Kept(incoming))
           n == Len(photos)
           m == n + c
           now == {i \in DOMAIN photos' : photos'[i].status \in S}
<1>0. TypeOK /\ photos \in Seq(Photo) /\ n \in Nat /\ DOMAIN photos = 1..n
  BY DEF Basis, TypeOK
<1>1. PICK new \in Seq(Photo) :
          /\ photos' = photos \o new
          /\ Len(new) = c
          /\ \A i \in 1..Len(new) : new[i].status = "queued"
  BY <1>0, AddFilesIs
<1>2. IsFiniteSet(old) /\ Cardinality(old) \in Nat /\ Occupied = Cardinality(old)
  BY <1>0, WithStatusFinite DEF Occupied
<1>3. c \in Nat /\ Cardinality(old) + c <= MAX_PHOTOS
  <2>1. Occupied < MAX_PHOTOS
    <3>1. ~(Occupied >= MAX_PHOTOS)
      BY DEF AddFiles, DropzoneOpen, IsFull
    <3> HIDE DEF old
    <3> QED BY <1>2, <3>1, LimitsArePositive
  <2>2. PICK at : at \in InOrder(Kept(incoming))
    BY DEF AddFiles
  <2>3. Occupied \in Nat
    BY <1>2
  <2> QED BY <1>2, <2>1, <2>2, <2>3, KeptFits
<1> HIDE DEF c
<1>4. now = old \cup (n + 1 .. m)
  <2>1. /\ DOMAIN photos' = 1..m
        /\ \A i \in 1..n : photos'[i] = photos[i]
        /\ \A i \in 1..c : photos'[n + i] = new[i]
        /\ \A i \in 1..m : i \in 1..n \/ \E j \in 1..c : i = n + j
    <3> DEFINE u == photos \o new
    <3>1. /\ u \in Seq(Photo) /\ Len(u) = n + Len(new)
          /\ \A i \in 1..n : u[i] = photos[i]
          /\ \A i \in 1..Len(new) : u[n + i] = new[i]
          /\ \A i \in 1..Len(u) : i \in 1..n \/ \E j \in 1..Len(new) : i = n + j
      BY <1>0, JoinedIs
    <3>2. photos' = u
      BY <1>1
    <3> HIDE DEF u
    <3>3. DOMAIN u = 1..Len(u)
      BY <3>1
    <3> QED BY <1>1, <3>1, <3>2, <3>3
  <2>2. ASSUME NEW i \in now
        PROVE  i \in old \cup (n + 1 .. m)
    <3>1. i \in 1..m
      BY <2>1
    <3>2. CASE i \in 1..n
      BY <1>0, <2>1, <3>2 DEF WithStatus
    <3>3. CASE \E j \in 1..c : i = n + j
      BY <1>0, <1>3, <3>3
    <3> QED BY <2>1, <3>1, <3>2, <3>3
  <2>3. ASSUME NEW i \in old
        PROVE  i \in now
    BY <1>0, <1>3, <2>1 DEF WithStatus
  <2>4. ASSUME NEW i \in n + 1 .. m
        PROVE  i \in now
    <3>1. i - n \in 1..c /\ i = n + (i - n) /\ i \in 1..m
      BY <1>0, <1>3
    <3>2. photos'[i] = new[i - n] /\ new[i - n].status = "queued"
      BY <1>1, <2>1, <3>1
    <3> QED BY <2>1, <3>1, <3>2
  <2> QED BY <2>2, <2>3, <2>4
<1>5. IsFiniteSet(n + 1 .. m) /\ Cardinality(n + 1 .. m) = c
  <2>1. n + 1 \in Int /\ m \in Int
    BY <1>0, <1>3
  <2>2. Cardinality(n + 1 .. m) = IF n + 1 > m THEN 0 ELSE m - (n + 1) + 1
    BY <2>1, FS_Interval
  <2>3. (IF n + 1 > m THEN 0 ELSE m - (n + 1) + 1) = c
    BY <1>0, <1>3
  <2> QED BY <2>1, <2>2, <2>3, FS_Interval
<1>6. old \cap (n + 1 .. m) = {}
  BY <1>0 DEF WithStatus
<1>7. Cardinality(now) = Cardinality(old) + c
  <2> DEFINE added == n + 1 .. m
  <2>1. IsFiniteSet(added) /\ Cardinality(added) = c /\ old \cap added = {} /\ now = old \cup added
    BY <1>4, <1>5, <1>6
  <2> HIDE DEF old, now, added
  <2>2. Cardinality(old \cup added) = Cardinality(old) + Cardinality(added) - Cardinality(old \cap added)
    BY <1>2, <2>1, FS_Union
  <2>3. Cardinality(old \cap added) = 0
    BY <2>1, FS_EmptySet
  <2>4. Cardinality(old) \in Nat
    BY <1>2 DEF old
  <2> QED BY <1>3, <2>1, <2>2, <2>3, <2>4
<1>8. Occupied' = Cardinality(now)
  BY DEF Occupied, WithStatus
<1> QED BY <1>3, <1>7, <1>8

\* Picking photos, several at once, never takes the set over MAX_PHOTOS.
THEOREM PickingFitsHolds == Safety => PickingFits
<1>1. Basis /\ [Next]_vars => [picks' # picks => Occupied' <= MAX_PHOTOS]_vars
  <2> SUFFICES ASSUME Basis, Next, picks' # picks
               PROVE  Occupied' <= MAX_PHOTOS
    OBVIOUS
  <2>1. ASSUME NEW q \in requests
        PROVE  ~Answer(q) /\ ~GiveUp(q) /\ ~Judge(q) /\ ~Vanish(q)
    BY DEF Answer, GiveUp, Judge, Vanish, spent
  <2>2. \A id : ~RemovePhoto(id) /\ ~Retry(id) /\ ~Delete(id) /\ ~DeleteFails(id)
    BY DEF RemovePhoto, Retry, Delete, DeleteFails, spent
  <2>3. ~Pump /\ ~ListAnswered /\ ~ListFails /\ ~Hydrate /\ ~Reload
    BY DEF Pump, ListAnswered, ListFails, Hydrate, Reload, spent
  <2>4. PICK incoming \in Picks : AddFiles(incoming)
    BY <2>1, <2>2, <2>3 DEF Next
  <2> QED BY <2>4, PickFits
<1> QED BY <1>1, BasisHolds, PTL DEF Safety, PickingFits

-----------------------------------------------------------------------------
(* What the page shows as accepted is stored.                                  *)

\* Nothing is deleted unless the user removes photos; a verdict that is on its
\* way back is that of a stored row.
NothingDeleted == deletes = {} /\ listed \subseteq rows
JudgedStored ==
    \A q \in requests :
        q.verdict # "none" =>
            \E x \in rows : x.id = q.row /\ x.photo = q.file /\ Shown(x.verdict) = q.verdict

\* A row of R is behind an accepted photo, and is of its file.
IsBehind(ph, R) ==
    \E x \in R : x.id = ph.row /\ x.verdict = "ACCEPTED" /\ ph.file \in {NoFile, x.photo}

\* Every photo that is shown as accepted was so before, or has a row behind it.
LEMMA StillStored ==
    ASSUME AcceptedIsStored, rows \subseteq rows',
           \A i \in DOMAIN photos' :
              \/ photos'[i].status # "accepted"
              \/ \E j \in DOMAIN photos : photos'[i] = photos[j]
              \/ IsBehind(photos'[i], rows)
    PROVE  AcceptedIsStored'
<1>1. ASSUME NEW i \in DOMAIN photos', photos'[i].status = "accepted"
      PROVE  \E x \in rows : x.id = photos'[i].row /\ x.verdict = "ACCEPTED"
                             /\ photos'[i].file \in {NoFile, x.photo}
  <2>1. CASE \E j \in DOMAIN photos : photos'[i] = photos[j]
    BY <1>1, <2>1 DEF AcceptedIsStored, Grid, WithStatus
  <2>2. CASE IsBehind(photos'[i], rows)
    BY <2>2 DEF IsBehind
  <2> QED BY <1>1, <2>1, <2>2
<1> QED BY <1>1 DEF AcceptedIsStored, Grid, WithStatus

LEMMA PatchStillStored ==
    ASSUME AcceptedIsStored, rows \subseteq rows', photos \in Seq(Photo),
           NEW id, NEW status \in Statuses, NEW row \in Nat, photos' = Patched(id, status, row),
           status = "accepted" =>
              \A i \in DOMAIN photos :
                  photos[i].id = id =>
                      \E x \in rows : x.id = row /\ x.verdict = "ACCEPTED" /\ x.photo = photos[i].file
    PROVE  AcceptedIsStored'
<1>1. /\ DOMAIN photos' = DOMAIN photos
      /\ \A i \in DOMAIN photos :
            /\ photos'[i].file = photos[i].file
            /\ photos[i].id = id => photos'[i].status = status /\ photos'[i].row = row
            /\ photos[i].id # id => photos'[i] = photos[i]
  BY PatchedIs
<1>2. ASSUME NEW i \in DOMAIN photos'
      PROVE  \/ photos'[i].status # "accepted"
             \/ \E j \in DOMAIN photos : photos'[i] = photos[j]
             \/ IsBehind(photos'[i], rows)
  <2>1. CASE photos[i].id # id
    BY <1>1, <2>1
  <2>2. CASE photos[i].id = id /\ status = "accepted"
    BY <1>1, <2>2 DEF IsBehind
  <2>3. CASE photos[i].id = id /\ status # "accepted"
    BY <1>1, <2>3
  <2> QED BY <2>1, <2>2, <2>3
<1> QED BY <1>2, StillStored

ShownStored == NothingDeleted /\ JudgedStored /\ AcceptedIsStored

LEMMA ShownStoredStep ==
    ASSUME ~Removals, Basis, ShownStored, [Next]_vars
    PROVE  ShownStored'
<1>0. /\ TypeOK /\ PhotosOK /\ OwnPhoto /\ photos \in Seq(Photo) /\ requests \subseteq Request
      /\ NothingDeleted /\ JudgedStored /\ AcceptedIsStored
      /\ deletes = {} /\ listed \subseteq rows /\ rows \subseteq StoredRow /\ NoRow \in Nat
  BY DEF Basis, TypeOK, ShownStored, NothingDeleted, NoRow
<1>1. ASSUME NEW incoming \in Picks, AddFiles(incoming)
      PROVE  ShownStored'
  <2>1. PICK new \in Seq(Photo) :
            /\ photos' = photos \o new
            /\ \A i \in 1..Len(new) : new[i].status = "queued"
    BY <1>0, <1>1, AddFilesIs
  <2>2. UNCHANGED <<listed, requests, deletes, rows>>
    BY <1>1 DEF AddFiles, server
  <2>3. Merges(Photo, photos', photos, new)
    BY <1>0, <2>1, JoinedMerges
  <2>4. ASSUME NEW i \in DOMAIN photos'
        PROVE  photos'[i].status # "accepted" \/ \E j \in DOMAIN photos : photos'[i] = photos[j]
    BY <1>0, <2>1, <2>3, MergedFrom
  <2>5. AcceptedIsStored'
    BY <1>0, <2>2, <2>4, StillStored
  <2> QED BY <1>0, <2>2, <2>5 DEF ShownStored, NothingDeleted, JudgedStored
<1>2. CASE Pump
  <2>1. PICK k \in DOMAIN photos :
            /\ photos' = Patched(photos[k].id, "uploading", NoRow)
            /\ requests' = requests \cup {RequestOf(k)}
    BY <1>2, PumpIs
  <2>2. UNCHANGED <<listed, deletes, rows>> /\ "uploading" \in Statuses
    BY <1>2 DEF Pump, Statuses
  <2>3. AcceptedIsStored'
    BY <1>0, <2>1, <2>2, PatchStillStored
  <2>4. RequestOf(k).verdict = "none"
    BY DEF RequestOf
  <2> QED BY <1>0, <2>1, <2>2, <2>3, <2>4 DEF ShownStored, NothingDeleted, JudgedStored
<1>3. ASSUME NEW q \in requests, Answer(q)
      PROVE  ShownStored'
  <2>1. /\ q.verdict \in Judged /\ q.heard /\ q \in Request
        /\ requests' = requests \ {q}
        /\ photos' = Patched(q.id, q.verdict, q.row)
        /\ UNCHANGED <<listed, deletes, rows>>
    BY <1>0, <1>3 DEF Answer
  <2>2. q.verdict \in Statuses /\ q.row \in Nat /\ q.verdict # "none"
    BY <2>1 DEF Statuses, Judged, Request
  <2>3. PICK x \in rows : x.id = q.row /\ x.photo = q.file /\ Shown(x.verdict) = q.verdict
    BY <1>0, <2>2 DEF JudgedStored
  <2>4. q.verdict = "accepted" => x.verdict = "ACCEPTED"
    BY <2>3 DEF Shown
  <2>5. \A i \in DOMAIN photos : photos[i].id = q.id => photos[i].file = x.photo
    BY <1>0, <2>1, <2>3 DEF OwnPhoto
  <2>6. AcceptedIsStored'
    BY <1>0, <2>1, <2>2, <2>3, <2>4, <2>5, PatchStillStored
  <2> QED BY <1>0, <2>1, <2>6 DEF ShownStored, NothingDeleted, JudgedStored
<1>4. ASSUME NEW q \in requests, GiveUp(q)
      PROVE  ShownStored'
  <2>1. /\ q \in Request
        /\ requests' = (requests \ {q}) \cup {[q EXCEPT !.heard = FALSE]}
        /\ photos' = Patched(q.id, "error", NoRow)
        /\ UNCHANGED <<listed, deletes, rows>> /\ "error" \in Statuses
    BY <1>0, <1>4 DEF GiveUp, Statuses
  <2>2. /\ [q EXCEPT !.heard = FALSE].row = q.row
        /\ [q EXCEPT !.heard = FALSE].file = q.file
        /\ [q EXCEPT !.heard = FALSE].verdict = q.verdict
    BY <2>1 DEF Request
  <2>3. AcceptedIsStored'
    BY <1>0, <2>1, PatchStillStored
  <2>4. JudgedStored'
    <3> SUFFICES ASSUME NEW r \in requests', r.verdict # "none"
                 PROVE  \E x \in rows : x.id = r.row /\ x.photo = r.file /\ Shown(x.verdict) = r.verdict
      BY <2>1 DEF JudgedStored
    <3>1. \E s \in requests : s.row = r.row /\ s.file = r.file /\ s.verdict = r.verdict
      BY <2>1, <2>2
    <3> QED BY <1>0, <3>1 DEF JudgedStored
  <2> QED BY <1>0, <2>1, <2>3, <2>4 DEF ShownStored, NothingDeleted
<1>5. ASSUME NEW q \in requests, Judge(q)
      PROVE  ShownStored'
  <2>1. PICK x \in StoredRow :
            /\ x.id = q.row /\ x.photo = q.file
            /\ rows' = rows \cup {x}
            /\ requests' = (requests \ {q}) \cup
                  IF q.heard THEN {[q EXCEPT !.verdict = Shown(x.verdict)]} ELSE {}
    BY <1>0, <1>5, JudgeIs
  <2>2. UNCHANGED <<photos, listed, deletes>>
    BY <1>5 DEF Judge, page
  <2> DEFINE r == [q EXCEPT !.verdict = Shown(x.verdict)]
  <2>3. r.row = q.row /\ r.file = q.file /\ r.verdict = Shown(x.verdict)
    BY <1>0 DEF Request
  <2>4. \A s \in requests' : s \in requests \/ s = r
    BY <2>1
  <2> HIDE DEF r
  <2>5. JudgedStored'
    <3> SUFFICES ASSUME NEW s \in requests', s.verdict # "none"
                 PROVE  \E y \in rows' : y.id = s.row /\ y.photo = s.file /\ Shown(y.verdict) = s.verdict
      BY DEF JudgedStored
    <3>1. CASE s \in requests
      BY <1>0, <2>1, <3>1 DEF JudgedStored
    <3>2. CASE s = r
      BY <2>1, <2>3, <3>2
    <3> QED BY <2>4, <3>1, <3>2
  <2>6. AcceptedIsStored'
    BY <1>0, <2>1, <2>2, StillStored
  <2> QED BY <1>0, <2>1, <2>2, <2>5, <2>6 DEF ShownStored, NothingDeleted
<1>6. ASSUME NEW q \in requests, Vanish(q)
      PROVE  ShownStored'
  <2>1. /\ requests' \subseteq requests
        /\ UNCHANGED <<photos, listed, deletes, rows>>
    BY <1>6 DEF Vanish, page
  <2> QED BY <1>0, <2>1 DEF ShownStored, NothingDeleted, JudgedStored, AcceptedIsStored, Grid, WithStatus
<1>7. ASSUME NEW id \in Ids, RemovePhoto(id)
      PROVE  ShownStored'
  BY <1>7 DEF RemovePhoto
<1>8. ASSUME NEW id \in Ids, Retry(id)
      PROVE  ShownStored'
  <2>1. /\ photos' = Patched(id, "queued", NoRow)
        /\ UNCHANGED <<listed, requests, deletes, rows>> /\ "queued" \in Statuses
    BY <1>8 DEF Retry, server, Statuses
  <2>2. AcceptedIsStored'
    BY <1>0, <2>1, PatchStillStored
  <2> QED BY <1>0, <2>1, <2>2 DEF ShownStored, NothingDeleted, JudgedStored
<1>9. CASE ListAnswered
  <2>1. listed' = rows /\ UNCHANGED <<photos, requests, deletes, rows>>
    BY <1>9 DEF ListAnswered, server
  <2> QED BY <1>0, <2>1 DEF ShownStored, NothingDeleted, JudgedStored, AcceptedIsStored, Grid, WithStatus
<1>10. CASE ListFails
  <2>1. listed' = {} /\ UNCHANGED <<photos, requests, deletes, rows>>
    BY <1>10 DEF ListFails, server
  <2> QED BY <1>0, <2>1 DEF ShownStored, NothingDeleted, JudgedStored, AcceptedIsStored, Grid, WithStatus
<1>11. CASE Hydrate
  <2>1. PICK stubs \in Seq(Photo) :
            /\ photos' = stubs \o photos
            /\ \A i \in 1..Len(stubs) : \E x \in listed : stubs[i] = StubOf(x, counter + i)
    BY <1>0, <1>11, HydrateIs
  <2>2. listed' = {} /\ UNCHANGED <<requests, deletes, rows>>
    BY <1>11 DEF Hydrate, server
  <2>3. Merges(Photo, photos', photos, stubs)
    BY <1>0, <2>1, JoinedMerges
  <2>4. ASSUME NEW i \in 1..Len(stubs)
        PROVE  stubs[i].status # "accepted" \/ IsBehind(stubs[i], rows)
    <3>1. PICK x \in listed : stubs[i] = StubOf(x, counter + i)
      BY <2>1
    <3>2. x \in rows /\ stubs[i].row = x.id /\ stubs[i].file = NoFile
          /\ stubs[i].status = Shown(x.verdict)
      BY <1>0, <3>1 DEF StubOf
    <3>3. stubs[i].status = "accepted" => x.verdict = "ACCEPTED"
      BY <3>2 DEF Shown
    <3> QED BY <3>2, <3>3 DEF IsBehind
  <2>5. ASSUME NEW i \in DOMAIN photos'
        PROVE  \/ photos'[i].status # "accepted"
               \/ \E j \in DOMAIN photos : photos'[i] = photos[j]
               \/ IsBehind(photos'[i], rows)
    <3>1. (\E j \in DOMAIN photos : photos'[i] = photos[j]) \/ (\E j \in 1..Len(stubs) : photos'[i] = stubs[j])
      BY <1>0, <2>3, MergedFrom
    <3> QED BY <2>4, <3>1
  <2>6. AcceptedIsStored'
    BY <1>0, <2>2, <2>5, StillStored
  <2> QED BY <1>0, <2>2, <2>6 DEF ShownStored, NothingDeleted, JudgedStored
<1>12. CASE Reload
  <2>1. /\ photos' = << >> /\ listed' = {}
        /\ requests' = {[q EXCEPT !.heard = FALSE] : q \in requests}
        /\ UNCHANGED <<deletes, rows>>
    BY <1>12 DEF Reload
  <2>2. ASSUME NEW r \in requests'
        PROVE  \E q \in requests : q.row = r.row /\ q.file = r.file /\ q.verdict = r.verdict
    BY <1>0, <2>1 DEF Request
  <2>3. JudgedStored'
    <3> SUFFICES ASSUME NEW r \in requests', r.verdict # "none"
                 PROVE  \E x \in rows : x.id = r.row /\ x.photo = r.file /\ Shown(x.verdict) = r.verdict
      BY <2>1 DEF JudgedStored
    <3> QED BY <1>0, <2>2 DEF JudgedStored
  <2>4. AcceptedIsStored'
    BY <2>1 DEF AcceptedIsStored, Grid, WithStatus
  <2> QED BY <1>0, <2>1, <2>3, <2>4 DEF ShownStored, NothingDeleted
<1>13. ASSUME NEW id \in deletes
       PROVE  ShownStored'
  BY <1>0
<1>14. CASE UNCHANGED vars
  BY <1>0, <1>14 DEF vars, page, server, ShownStored, NothingDeleted, JudgedStored, AcceptedIsStored,
          Grid, WithStatus
<1> QED BY <1>1, <1>2, <1>3, <1>4, <1>5, <1>6, <1>7, <1>8, <1>9, <1>10, <1>11, <1>12, <1>13, <1>14
        DEF Next

LEMMA ShownStoredHolds == ASSUME ~Removals PROVE Safety => []ShownStored
<1>1. Init => ShownStored
  BY DEF Init, ShownStored, NothingDeleted, JudgedStored, AcceptedIsStored, Grid, WithStatus
<1>2. Basis /\ ShownStored /\ [Next]_vars => ShownStored'
  BY ShownStoredStep
<1> QED BY <1>1, <1>2, BasisHolds, PTL DEF Safety

\* As long as the user removes nothing, every photo the page shows as accepted is
\* stored, and is the one the user sees there: with any number of uploads at once
\* whose answers come late, fail or are lost, retries, reloads and a list that
\* arrives between them.
THEOREM AcceptedIsStoredHolds ==
    ASSUME ~Removals
    PROVE  Safety => []AcceptedIsStored
<1>1. ShownStored => AcceptedIsStored
  BY DEF ShownStored
<1> QED BY <1>1, ShownStoredHolds, PTL

-----------------------------------------------------------------------------
(* Rows are told apart by their ids, and numbered as the uploads were sent.    *)
RowsNumbered ==
    /\ \A x \in rows : x.id <= sent
    /\ \A q \in requests : q.row <= sent
    /\ \A i \in DOMAIN photos : photos[i].file \in Files => photos[i].row <= sent
    /\ \A x, y \in rows : x.id = y.id => x = y
    /\ \A q, r \in requests : q.row = r.row => q = r
    /\ \A q \in requests, x \in rows : q.verdict = "none" => x.id # q.row

\* Taking q out, or putting an r of the same row in its place.
LEMMA ReplaceKeepsNumbers ==
    ASSUME RowsNumbered, NEW q \in requests, NEW r, r.row = q.row, r.verdict = q.verdict \/ r.verdict # "none",
           requests' \subseteq (requests \ {q}) \cup {r}, UNCHANGED <<rows, sent>>
    PROVE  /\ \A s \in requests' : s.row <= sent'
           /\ \A s, t \in requests' : s.row = t.row => s = t
           /\ \A s \in requests', x \in rows' : s.verdict = "none" => x.id # s.row
<1>1. ASSUME NEW s \in requests'
      PROVE  s = r \/ (s \in requests /\ s # q)
  OBVIOUS
<1>2. \A s \in requests' : s.row <= sent'
  BY <1>1 DEF RowsNumbered
<1>3. ASSUME NEW s \in requests', NEW t \in requests', s.row = t.row
      PROVE  s = t
  BY <1>1, <1>3 DEF RowsNumbered
<1>4. ASSUME NEW s \in requests', NEW x \in rows, s.verdict = "none"
      PROVE  x.id # s.row
  BY <1>1, <1>4 DEF RowsNumbered
<1> QED BY <1>2, <1>3, <1>4

\* No step numbers two rows alike.
LEMMA RowsNumberedStep == Basis /\ RowsNumbered /\ [Next]_vars => RowsNumbered'
<1> SUFFICES ASSUME Basis, RowsNumbered, [Next]_vars PROVE RowsNumbered'
  OBVIOUS
<1>0. /\ TypeOK /\ PhotosOK /\ photos \in Seq(Photo) /\ requests \subseteq Request
      /\ rows \subseteq StoredRow /\ NoRow \in Nat /\ sent \in Nat /\ NoRow <= sent
      /\ "uploading" \in Statuses /\ "error" \in Statuses /\ "queued" \in Statuses
  BY DEF Basis, TypeOK, NoRow, Statuses
<1>1. ASSUME NEW id, NEW status \in Statuses, NEW row \in Nat, photos' = Patched(id, status, row),
             row <= sent', sent <= sent', sent' \in Nat
      PROVE  \A i \in DOMAIN photos' : photos'[i].file \in Files => photos'[i].row <= sent'
  <2>1. /\ DOMAIN photos' = DOMAIN photos
        /\ \A i \in DOMAIN photos :
              /\ photos'[i].file = photos[i].file
              /\ photos[i].id = id => photos'[i].row = row
              /\ photos[i].id # id => photos'[i] = photos[i]
    BY <1>0, <1>1, PatchedIs
  <2>2. \A i \in DOMAIN photos : photos[i].file \in Files => photos[i].row \in Nat /\ photos[i].row <= sent
    <3> TAKE i \in DOMAIN photos
    <3>1. photos[i] \in Photo
      BY <1>0
    <3> QED BY <3>1 DEF RowsNumbered, Photo
  <2> QED BY <1>0, <1>1, <2>1, <2>2
<1>2. ASSUME NEW incoming \in Picks, AddFiles(incoming)
      PROVE  RowsNumbered'
  <2>1. PICK new \in Seq(Photo) :
            /\ photos' = photos \o new
            /\ \A i \in 1..Len(new) : new[i].row = NoRow
    BY <1>0, <1>2, AddFilesIs
  <2>2. UNCHANGED <<requests, rows, sent>>
    BY <1>2 DEF AddFiles, server
  <2>3. Merges(Photo, photos', photos, new)
    BY <1>0, <2>1, JoinedMerges
  <2>4. ASSUME NEW i \in DOMAIN photos', photos'[i].file \in Files
        PROVE  photos'[i].row <= sent
    <3>1. (\E j \in DOMAIN photos : photos'[i] = photos[j]) \/ (\E j \in 1..Len(new) : photos'[i] = new[j])
      BY <1>0, <2>3, MergedFrom
    <3> QED BY <1>0, <2>1, <2>4, <3>1 DEF RowsNumbered
  <2> QED BY <2>2, <2>4 DEF RowsNumbered
<1>3. CASE Pump
  <2>1. PICK k \in DOMAIN photos :
            /\ RequestOf(k) \in Request
            /\ photos' = Patched(photos[k].id, "uploading", NoRow)
            /\ requests' = requests \cup {RequestOf(k)}
            /\ sent' = sent + 1
    BY <1>3, PumpIs
  <2>2. UNCHANGED rows /\ RequestOf(k).row = sent'
    BY <1>3, <2>1 DEF Pump, RequestOf
  <2>3. sent <= sent' /\ sent' \in Nat /\ sent # sent' /\ NoRow <= sent'
    BY <1>0, <2>1
  <2>4. \A x \in rows : x.id \in Nat /\ x.id <= sent' /\ x.id # sent'
    <3>1. \A x \in rows : x.id \in Nat /\ x.id <= sent
      BY <1>0 DEF RowsNumbered, StoredRow
    <3> QED BY <1>0, <2>1, <3>1
  <2>5. \A q \in requests : q.row \in Nat /\ q.row <= sent' /\ q.row # sent'
    <3>1. \A q \in requests : q.row \in Nat /\ q.row <= sent
      BY <1>0 DEF RowsNumbered, Request
    <3> QED BY <1>0, <2>1, <3>1
  <2>6. \A i \in DOMAIN photos' : photos'[i].file \in Files => photos'[i].row <= sent'
    BY <1>0, <1>1, <2>1, <2>3
  <2>7. \A q, r \in requests' : q.row = r.row => q = r
    BY <2>1, <2>2, <2>5 DEF RowsNumbered
  <2>8. \A q \in requests', x \in rows : q.verdict = "none" => x.id # q.row
    BY <2>1, <2>2, <2>4 DEF RowsNumbered
  <2>9. \A q \in requests' : q.row <= sent'
    BY <2>1, <2>2, <2>3, <2>5
  <2> QED BY <2>2, <2>4, <2>6, <2>7, <2>8, <2>9 DEF RowsNumbered
<1>4. ASSUME NEW q \in requests, Answer(q)
      PROVE  RowsNumbered'
  <2>1. /\ q.verdict \in Judged /\ q \in Request
        /\ requests' = requests \ {q}
        /\ photos' = Patched(q.id, q.verdict, q.row)
        /\ UNCHANGED <<rows, sent>>
    BY <1>0, <1>4 DEF Answer
  <2>2. q.verdict \in Statuses /\ q.row \in Nat /\ q.row <= sent
    BY <2>1 DEF Statuses, Judged, Request, RowsNumbered
  <2>3. \A i \in DOMAIN photos' : photos'[i].file \in Files => photos'[i].row <= sent'
    BY <1>0, <1>1, <2>1, <2>2
  <2> QED BY <2>1, <2>3, ReplaceKeepsNumbers DEF RowsNumbered
<1>5. ASSUME NEW q \in requests, GiveUp(q)
      PROVE  RowsNumbered'
  <2>1. /\ q \in Request
        /\ requests' = (requests \ {q}) \cup {[q EXCEPT !.heard = FALSE]}
        /\ photos' = Patched(q.id, "error", NoRow)
        /\ UNCHANGED <<rows, sent>>
    BY <1>0, <1>5 DEF GiveUp
  <2>2. [q EXCEPT !.heard = FALSE].row = q.row /\ [q EXCEPT !.heard = FALSE].verdict = q.verdict
    BY <2>1 DEF Request
  <2>3. \A i \in DOMAIN photos' : photos'[i].file \in Files => photos'[i].row <= sent'
    BY <1>0, <1>1, <2>1
  <2> QED BY <2>1, <2>2, <2>3, ReplaceKeepsNumbers DEF RowsNumbered
<1>6. ASSUME NEW q \in requests, Judge(q)
      PROVE  RowsNumbered'
  <2>1. PICK x \in StoredRow :
            /\ x.id = q.row /\ q.verdict = "none"
            /\ rows' = rows \cup {x}
            /\ requests' = (requests \ {q}) \cup
                  IF q.heard THEN {[q EXCEPT !.verdict = Shown(x.verdict)]} ELSE {}
    BY <1>0, <1>6, JudgeIs
  <2>2. UNCHANGED <<photos, sent>>
    BY <1>6 DEF Judge, page
  <2> DEFINE r == [q EXCEPT !.verdict = Shown(x.verdict)]
  <2>3. r.row = q.row /\ r.verdict # "none"
    BY <1>0 DEF Request, Shown
  <2>4. \A s \in requests' : s = r \/ (s \in requests /\ s # q)
    BY <2>1
  <2> HIDE DEF r
  <2>5. \A s \in requests' : s.row <= sent
    BY <2>3, <2>4 DEF RowsNumbered
  <2>6. \A s, t \in requests' : s.row = t.row => s = t
    BY <2>3, <2>4 DEF RowsNumbered
  <2>7. \A y \in rows' : y.id <= sent
    BY <2>1 DEF RowsNumbered
  <2>8. \A y, z \in rows' : y.id = z.id => y = z
    BY <2>1 DEF RowsNumbered
  <2>9. ASSUME NEW s \in requests', NEW y \in rows', s.verdict = "none"
        PROVE  y.id # s.row
    <3>1. s \in requests /\ s # q
      BY <2>3, <2>4, <2>9
    <3>2. s.row # q.row
      BY <3>1 DEF RowsNumbered
    <3> QED BY <2>1, <2>9, <3>1, <3>2 DEF RowsNumbered
  <2> QED BY <2>2, <2>5, <2>6, <2>7, <2>8, <2>9 DEF RowsNumbered
<1>7. ASSUME NEW q \in requests, Vanish(q)
      PROVE  RowsNumbered'
  <2>1. requests' \subseteq requests /\ UNCHANGED <<photos, rows, sent>>
    BY <1>7 DEF Vanish, page
  <2> QED BY <2>1 DEF RowsNumbered
<1>8. ASSUME NEW id \in Ids, RemovePhoto(id)
      PROVE  RowsNumbered'
  <2>1. PICK k \in DOMAIN photos : photos' = RemoveAt(photos, k)
    BY <1>8 DEF RemovePhoto
  <2>2. UNCHANGED <<requests, rows, sent>>
    BY <1>8 DEF RemovePhoto
  <2>3. k \in 1..Len(photos) /\ DOMAIN photos = 1..Len(photos)
    BY <1>0
  <2>4. RemoveAt(photos, k) \in Seq(Photo)
        /\ \A i \in 1..Len(RemoveAt(photos, k)) : \E j \in 1..Len(photos) : RemoveAt(photos, k)[i] = photos[j]
    BY <1>0, <2>3, RemovedIs
  <2>5. photos' \in Seq(Photo) /\ \A i \in 1..Len(photos') : \E j \in DOMAIN photos : photos'[i] = photos[j]
    BY <2>1, <2>3, <2>4
  <2>6. DOMAIN photos' = 1..Len(photos')
    BY <2>5
  <2> QED BY <2>2, <2>5, <2>6 DEF RowsNumbered
<1>9. ASSUME NEW id \in Ids, Retry(id)
      PROVE  RowsNumbered'
  <2>1. photos' = Patched(id, "queued", NoRow) /\ UNCHANGED <<requests, rows, sent>>
    BY <1>9 DEF Retry, server
  <2>2. \A i \in DOMAIN photos' : photos'[i].file \in Files => photos'[i].row <= sent'
    BY <1>0, <1>1, <2>1
  <2> QED BY <2>1, <2>2 DEF RowsNumbered
<1>10. CASE ListAnswered \/ ListFails
  BY <1>10 DEF ListAnswered, ListFails, server, RowsNumbered
<1>11. CASE Hydrate
  <2>1. PICK stubs \in Seq(Photo) :
            /\ photos' = stubs \o photos
            /\ \A i \in 1..Len(stubs) : \E x \in listed : stubs[i] = StubOf(x, counter + i)
    BY <1>0, <1>11, HydrateIs
  <2>2. UNCHANGED <<requests, rows, sent>>
    BY <1>11 DEF Hydrate, server
  <2>3. Merges(Photo, photos', photos, stubs)
    BY <1>0, <2>1, JoinedMerges
  <2>4. ASSUME NEW i \in 1..Len(stubs)
        PROVE  stubs[i].file \notin Files
    <3>1. PICK x \in listed : stubs[i] = StubOf(x, counter + i)
      BY <2>1
    <3>2. stubs[i].file = NoFile
      BY <3>1 DEF StubOf
    <3> QED BY <3>2, StubIsNoFile
  <2>5. ASSUME NEW i \in DOMAIN photos', photos'[i].file \in Files
        PROVE  photos'[i].row <= sent
    <3>1. (\E j \in DOMAIN photos : photos'[i] = photos[j]) \/ (\E j \in 1..Len(stubs) : photos'[i] = stubs[j])
      BY <1>0, <2>3, MergedFrom
    <3> QED BY <2>4, <2>5, <3>1 DEF RowsNumbered
  <2> QED BY <2>2, <2>5 DEF RowsNumbered
<1>12. CASE Reload
  <2>1. /\ photos' = << >>
        /\ requests' = {[q EXCEPT !.heard = FALSE] : q \in requests}
        /\ UNCHANGED <<rows, sent>>
    BY <1>12 DEF Reload
  <2>2. \A q \in requests : [q EXCEPT !.heard = FALSE].row = q.row
                            /\ [q EXCEPT !.heard = FALSE].verdict = q.verdict
    BY <1>0 DEF Request
  <2>3. ASSUME NEW q \in requests', NEW r \in requests', q.row = r.row
        PROVE  q = r
    <3>1. PICK s \in requests : q = [s EXCEPT !.heard = FALSE]
      BY <2>1
    <3>2. PICK t \in requests : r = [t EXCEPT !.heard = FALSE]
      BY <2>1
    <3>3. s.row = t.row
      BY <2>2, <2>3, <3>1, <3>2
    <3>4. s = t
      BY <3>3 DEF RowsNumbered
    <3> QED BY <3>1, <3>2, <3>4
  <2>4. \A q \in requests' : \E r \in requests : q.row = r.row /\ q.verdict = r.verdict
    BY <2>1, <2>2
  <2> QED BY <2>1, <2>3, <2>4 DEF RowsNumbered
<1>13. ASSUME NEW id \in deletes, Delete(id) \/ DeleteFails(id)
       PROVE  RowsNumbered'
  <2>1. rows' \subseteq rows /\ UNCHANGED <<photos, requests, sent>>
    BY <1>13 DEF Delete, DeleteFails, Store!Delete, page
  <2> QED BY <2>1 DEF RowsNumbered
<1>14. CASE UNCHANGED vars
  BY <1>14 DEF vars, page, server, RowsNumbered
<1> QED BY <1>2, <1>3, <1>4, <1>5, <1>6, <1>7, <1>8, <1>9, <1>10, <1>11, <1>12, <1>13, <1>14
        DEF Next

LEMMA RowsNumberedHolds == Safety => []RowsNumbered
<1>1. Init => RowsNumbered
  <2> SUFFICES ASSUME Init PROVE RowsNumbered
    OBVIOUS
  <2>1. photos = << >> /\ requests = {}
    BY DEF Init
  <2> QED BY <2>1, InitRows DEF RowsNumbered
<1> QED BY <1>1, RowsNumberedStep, BasisHolds, PTL DEF Safety

-----------------------------------------------------------------------------
(* Uploads one at a time, in pick order.                                       *)

\* One upload at a time, as constants/upload.ts has it, and nothing removed.
OneAtATime == UPLOAD_CONCURRENCY = 1 /\ ~Removals

\* The user sends no failed photo again.
NoRetry == \A id \in Ids : ~Retry(id)

Unstarted == \A i \in DOMAIN photos : photos[i].status = "queued" => photos[i].id \notin started
\* What comes after a photo that is not done is waiting.
InTurn ==
    \A i, j \in DOMAIN photos :
        i < j /\ photos[i].status \in {"queued", "uploading"} => photos[j].status = "queued"
\* The request the page listens to is the last that was sent.
UnderWay ==
    \A q \in requests :
        q.heard =>
            /\ q.row = sent
            /\ \E i \in DOMAIN photos : photos[i].id = q.id /\ photos[i].status = "uploading"
            /\ \A i \in DOMAIN photos : photos[i].file \in Files => photos[i].row < q.row
NoRowYet ==
    \A i \in DOMAIN photos :
        photos[i].status \in {"queued", "uploading", "error"} => photos[i].row = NoRow
RowsInOrder ==
    \A i, j \in DOMAIN photos :
        i < j /\ photos[i].file \in Files /\ photos[j].row # NoRow => photos[i].row < photos[j].row

Queue == Unstarted /\ InTurn /\ UnderWay /\ NoRowYet /\ RowsInOrder

\* A patch of the photo at k, and of no other.
LEMMA PatchedAt ==
    ASSUME PhotosOK, NEW k \in DOMAIN photos, NEW status \in Statuses, NEW row \in Nat,
           photos' = Patched(photos[k].id, status, row)
    PROVE  /\ DOMAIN photos' = DOMAIN photos
           /\ photos'[k].id = photos[k].id /\ photos'[k].file = photos[k].file
           /\ photos'[k].status = status /\ photos'[k].row = row
           /\ \A i \in DOMAIN photos : i # k => photos'[i] = photos[i]
<1>1. photos \in Seq(Photo)
  BY DEF PhotosOK
<1>2. \A i \in DOMAIN photos : i # k => photos[i].id # photos[k].id
  BY DEF PhotosOK
<1> QED BY <1>1, <1>2, PatchedIs

\* The photo at k is judged, or failed: nothing is under way any more.
LEMMA QueueAfterAnswer ==
    ASSUME Basis, RowsNumbered, Queue, NEW q \in requests, q.heard,
           NEW status \in {"accepted", "rejected", "error"}, NEW row \in Nat,
           row = q.row \/ (row = NoRow /\ status = "error"),
           status = "error" => row = NoRow,
           photos' = Patched(q.id, status, row),
           \A r \in requests' : r.heard => r \in requests /\ r # q,
           UNCHANGED started
    PROVE  Queue'
<1>0. /\ PhotosOK /\ photos \in Seq(Photo) /\ DOMAIN photos \subseteq Nat /\ status \in Statuses
      /\ q.row \in Nat /\ NoRow \in Nat
      /\ Unstarted /\ InTurn /\ UnderWay /\ NoRowYet /\ RowsInOrder
  BY DEF Basis, TypeOK, Statuses, Queue, Request, NoRow
<1>1. PICK k \in DOMAIN photos : photos[k].id = q.id /\ photos[k].status = "uploading"
  BY <1>0 DEF UnderWay
<1>2. /\ DOMAIN photos' = DOMAIN photos
      /\ photos'[k].id = photos[k].id /\ photos'[k].file = photos[k].file
      /\ photos'[k].status = status /\ photos'[k].row = row
      /\ \A i \in DOMAIN photos : i # k => photos'[i] = photos[i]
  BY <1>0, <1>1, PatchedAt
<1>3. \A r \in requests' : ~r.heard
  BY <1>0 DEF UnderWay, RowsNumbered
<1>4. Unstarted' /\ UnderWay' /\ NoRowYet'
  BY <1>0, <1>2, <1>3 DEF Unstarted, UnderWay, NoRowYet
<1>5. InTurn'
  <2> SUFFICES ASSUME NEW i \in DOMAIN photos, NEW j \in DOMAIN photos, i < j,
                      photos'[i].status \in {"queued", "uploading"}
               PROVE  photos'[j].status = "queued"
    BY <1>2 DEF InTurn
  <2>1. i # k /\ photos'[i] = photos[i]
    BY <1>2
  <2>2. photos[j].status = "queued"
    BY <1>0, <2>1 DEF InTurn
  <2> QED BY <1>1, <1>2, <2>2
<1>6. RowsInOrder'
  <2> SUFFICES ASSUME NEW i \in DOMAIN photos, NEW j \in DOMAIN photos, i < j,
                      photos'[i].file \in Files, photos'[j].row # NoRow
               PROVE  photos'[i].row < photos'[j].row
    BY <1>2 DEF RowsInOrder
  <2>1. CASE i = k
    <3>1. photos[j].status = "queued" /\ j # k
      BY <1>0, <1>1, <2>1 DEF InTurn
    <3>2. photos'[j].row = NoRow
      BY <1>0, <1>2, <3>1 DEF NoRowYet
    <3> QED BY <3>2
  <2>2. CASE j = k
    <3>1. i # k /\ photos'[i] = photos[i] /\ photos'[j].row = q.row
      BY <1>0, <1>2, <2>2
    <3> QED BY <1>0, <3>1 DEF UnderWay
  <2>3. CASE i # k /\ j # k
    BY <1>0, <1>2, <2>3 DEF RowsInOrder
  <2> QED BY <2>1, <2>2, <2>3
<1> QED BY <1>4, <1>5, <1>6 DEF Queue

\* Only a photo that nothing is before is started.
LEMMA QueueAfterPump ==
    ASSUME UPLOAD_CONCURRENCY = 1, Basis, RowsNumbered, Queue, Pump
    PROVE  Queue'
<1>0. /\ PhotosOK /\ photos \in Seq(Photo) /\ DOMAIN photos \subseteq Nat /\ "uploading" \in Statuses
      /\ sent \in Nat /\ NoRow \in Nat /\ NoRow = 0
      /\ Unstarted /\ InTurn /\ UnderWay /\ NoRowYet /\ RowsInOrder
  BY DEF Basis, TypeOK, Statuses, Queue, NoRow
<1>10. ASSUME NEW i \in DOMAIN photos
       PROVE  photos[i].row \in Nat
  <2>1. photos[i] \in Photo
    BY <1>0
  <2> QED BY <2>1 DEF Photo
<1>1. PICK k \in DOMAIN photos :
          /\ photos[k].status = "queued" /\ photos[k].id \notin started
          /\ \A j \in DOMAIN photos :
                j < k => photos[j].status # "queued" \/ photos[j].id \in started
          /\ started' = started \cup {photos[k].id}
          /\ photos' = Patched(photos[k].id, "uploading", NoRow)
          /\ requests' = requests \cup {RequestOf(k)}
          /\ sent' = sent + 1
  BY PumpIs
<1>2. /\ DOMAIN photos' = DOMAIN photos
      /\ photos'[k].id = photos[k].id /\ photos'[k].file = photos[k].file
      /\ photos'[k].status = "uploading" /\ photos'[k].row = NoRow
      /\ \A i \in DOMAIN photos : i # k => photos'[i] = photos[i]
  BY <1>0, <1>1, PatchedAt
<1>3. \A i \in DOMAIN photos : photos[i].status # "uploading"
  <2> DEFINE up == WithStatus({"uploading"})
  <2>1. IsFiniteSet(up) /\ Cardinality(up) \in Nat
    BY <1>0, WithStatusFinite
  <2>2. Cardinality(up) < 1
    BY DEF Pump
  <2>3. up = {}
    <3> HIDE DEF up
    <3>1. Cardinality(up) = 0
      BY <2>1, <2>2
    <3> QED BY <2>1, <3>1, FS_EmptySet
  <2> QED BY <2>3 DEF WithStatus
<1>4. \A q \in requests : ~q.heard
  BY <1>0, <1>3 DEF UnderWay
<1>5. Unstarted'
  <2> SUFFICES ASSUME NEW i \in DOMAIN photos, photos'[i].status = "queued"
               PROVE  photos'[i].id \notin started'
    BY <1>2 DEF Unstarted
  <2>1. i # k /\ photos'[i] = photos[i]
    BY <1>2
  <2>2. photos[i].id # photos[k].id /\ photos[i].id \notin started
    BY <1>0, <2>1 DEF PhotosOK, Unstarted
  <2> QED BY <1>1, <2>1, <2>2
<1>6. InTurn'
  <2> SUFFICES ASSUME NEW i \in DOMAIN photos, NEW j \in DOMAIN photos, i < j,
                      photos'[i].status \in {"queued", "uploading"}
               PROVE  photos'[j].status = "queued"
    BY <1>2 DEF InTurn
  <2>1. CASE i = k
    <3>1. j # k /\ photos[j].status = "queued"
      BY <1>0, <1>1, <2>1 DEF InTurn
    <3> QED BY <1>2, <3>1
  <2>2. CASE i # k
    <3>1. photos'[i] = photos[i] /\ photos[i].status = "queued" /\ photos[i].id \notin started
      BY <1>0, <1>2, <1>3, <2>2 DEF Unstarted
    <3>2. j # k
      BY <1>1, <3>1
    <3> QED BY <1>0, <1>2, <3>1, <3>2 DEF InTurn
  <2> QED BY <2>1, <2>2
<1>7. UnderWay'
  <2> SUFFICES ASSUME NEW q \in requests', q.heard
               PROVE  /\ q.row = sent'
                      /\ \E i \in DOMAIN photos' : photos'[i].id = q.id /\ photos'[i].status = "uploading"
                      /\ \A i \in DOMAIN photos' : photos'[i].file \in Files => photos'[i].row < q.row
    BY DEF UnderWay
  <2>1. q = RequestOf(k)
    BY <1>1, <1>4
  <2>2. q.row = sent + 1 /\ q.id = photos[k].id
    BY <2>1 DEF RequestOf
  <2>3. ASSUME NEW i \in DOMAIN photos, photos'[i].file \in Files
        PROVE  photos'[i].row < q.row
    <3>1. CASE i = k
      BY <1>0, <1>2, <2>2, <3>1
    <3>2. CASE i # k
      <4>1. photos[i].row <= sent /\ photos'[i] = photos[i]
        BY <1>2, <2>3, <3>2 DEF RowsNumbered
      <4> QED BY <1>0, <1>10, <2>2, <4>1
    <3> QED BY <3>1, <3>2
  <2> QED BY <1>1, <1>2, <2>2, <2>3
<1>8. NoRowYet'
  BY <1>0, <1>2 DEF NoRowYet
<1>9. RowsInOrder'
  <2> SUFFICES ASSUME NEW i \in DOMAIN photos, NEW j \in DOMAIN photos, i < j,
                      photos'[i].file \in Files, photos'[j].row # NoRow
               PROVE  photos'[i].row < photos'[j].row
    BY <1>2 DEF RowsInOrder
  <2>1. j # k /\ photos'[j] = photos[j] /\ photos[j].row \in Nat
    BY <1>0, <1>2, <1>10
  <2>2. CASE i = k
    BY <1>0, <1>2, <2>1, <2>2
  <2>3. CASE i # k
    BY <1>0, <1>2, <2>1, <2>3 DEF RowsInOrder
  <2> QED BY <2>2, <2>3
<1> QED BY <1>5, <1>6, <1>7, <1>8, <1>9 DEF Queue

\* Queued files at the end, or stubs of stored photos in front.
LEMMA QueueAfterAdd ==
    ASSUME Basis, Queue, NEW new \in Seq(Photo), UNCHANGED <<started, requests, sent>>,
           \/ /\ photos' = photos \o new
              /\ \A i \in 1..Len(new) : /\ new[i].id = counter + i
                                        /\ new[i].status = "queued" /\ new[i].row = NoRow
           \/ /\ photos' = new \o photos
              /\ \A i \in 1..Len(new) : new[i].file \notin Files /\ new[i].status \in Judged
    PROVE  Queue'
<1>0. /\ photos \in Seq(Photo) /\ DOMAIN photos = 1..Len(photos) /\ Len(photos) \in Nat
      /\ DOMAIN new = 1..Len(new) /\ Len(new) \in Nat
      /\ counter \in Nat /\ NoRow = 0 /\ requests \subseteq Request
      /\ Unstarted /\ InTurn /\ UnderWay /\ NoRowYet /\ RowsInOrder /\ IdsCounted
      /\ started \subseteq Nat
  BY DEF Basis, TypeOK, Queue, NoRow
<1>1. CASE /\ photos' = photos \o new
           /\ \A i \in 1..Len(new) : /\ new[i].id = counter + i
                                     /\ new[i].status = "queued" /\ new[i].row = NoRow
  <2> DEFINE u == photos \o new
             n == Len(photos)
  <2>1. /\ u \in Seq(Photo) /\ Len(u) = n + Len(new)
        /\ \A i \in 1..n : u[i] = photos[i]
        /\ \A i \in 1..Len(new) : u[n + i] = new[i]
        /\ \A i \in 1..Len(u) : i \in 1..n \/ \E j \in 1..Len(new) : i = n + j
    BY <1>0, JoinedIs
  <2>2. photos' = u
    BY <1>1
  <2> HIDE DEF u
  <2>3. DOMAIN u = 1..Len(u) /\ n \in Nat /\ Len(u) \in Nat
    BY <1>0, <2>1
  <2>4. ASSUME NEW i \in DOMAIN u, i \notin 1..n
        PROVE  /\ u[i].status = "queued" /\ u[i].row = NoRow /\ u[i].id \notin started
               /\ i > n
    <3>1. PICK j \in 1..Len(new) : i = n + j
      BY <2>1, <2>3, <2>4
    <3>2. u[i] = new[j] /\ new[j].id = counter + j
      BY <1>1, <2>1, <3>1
    <3>3. counter + j > counter
      BY <1>0
    <3>4. counter + j \notin started
      BY <1>0, <3>3 DEF IdsCounted
    <3> QED BY <1>0, <1>1, <2>3, <3>1, <3>2, <3>4
  <2>5. \A i \in 1..n : i \in DOMAIN u /\ i \in DOMAIN photos /\ u[i] = photos[i]
    BY <1>0, <2>1, <2>3
  <2> HIDE DEF n
  <2>6. Unstarted'
    <3> SUFFICES ASSUME NEW i \in DOMAIN u, u[i].status = "queued" PROVE u[i].id \notin started
      BY <2>2 DEF Unstarted
    <3> QED BY <1>0, <2>4, <2>5 DEF Unstarted
  <2>7. InTurn'
    <3> SUFFICES ASSUME NEW i \in DOMAIN u, NEW j \in DOMAIN u, i < j,
                        u[i].status \in {"queued", "uploading"}
                 PROVE  u[j].status = "queued"
      BY <2>2 DEF InTurn
    <3>1. CASE j \notin 1..n
      BY <2>4, <3>1
    <3>2. CASE j \in 1..n
      <4>1. i \in 1..n
        BY <2>3, <3>2
      <4> QED BY <1>0, <2>5, <3>2, <4>1 DEF InTurn
    <3> QED BY <3>1, <3>2
  <2>8. UnderWay'
    <3> SUFFICES ASSUME NEW q \in requests, q.heard
                 PROVE  /\ q.row = sent
                        /\ \E i \in DOMAIN u : u[i].id = q.id /\ u[i].status = "uploading"
                        /\ \A i \in DOMAIN u : u[i].file \in Files => u[i].row < q.row
      BY <2>2 DEF UnderWay
    <3>1. /\ q.row = sent /\ \A i \in DOMAIN photos : photos[i].file \in Files => photos[i].row < q.row
      BY <1>0 DEF UnderWay
    <3>2. PICK k \in DOMAIN photos : photos[k].id = q.id /\ photos[k].status = "uploading"
      BY <1>0 DEF UnderWay
    <3>3. k \in DOMAIN u /\ u[k] = photos[k]
      BY <1>0, <2>5, <3>2 DEF n
    <3>4. NoRow < q.row
      <4>1. q.row \in Nat \ {NoRow}
        BY <1>0 DEF Request
      <4> QED BY <1>0, <4>1
    <3>5. ASSUME NEW i \in DOMAIN u, u[i].file \in Files PROVE u[i].row < q.row
      BY <2>4, <2>5, <3>1, <3>4, <3>5
    <3> QED BY <3>1, <3>2, <3>3, <3>5
  <2>9. NoRowYet'
    <3> SUFFICES ASSUME NEW i \in DOMAIN u, u[i].status \in {"queued", "uploading", "error"}
                 PROVE  u[i].row = NoRow
      BY <2>2 DEF NoRowYet
    <3> QED BY <1>0, <2>4, <2>5 DEF NoRowYet
  <2>10. RowsInOrder'
    <3> SUFFICES ASSUME NEW i \in DOMAIN u, NEW j \in DOMAIN u, i < j,
                        u[i].file \in Files, u[j].row # NoRow
                 PROVE  u[i].row < u[j].row
      BY <2>2 DEF RowsInOrder
    <3>1. j \in 1..n
      BY <2>4
    <3>2. i \in 1..n
      BY <2>3, <3>1
    <3> QED BY <1>0, <2>5, <3>1, <3>2 DEF RowsInOrder
  <2> QED BY <2>6, <2>7, <2>8, <2>9, <2>10 DEF Queue
<1>2. CASE /\ photos' = new \o photos
           /\ \A i \in 1..Len(new) : new[i].file \notin Files /\ new[i].status \in Judged
  <2> DEFINE u == new \o photos
             n == Len(new)
  <2>1. /\ u \in Seq(Photo) /\ Len(u) = n + Len(photos)
        /\ \A i \in 1..n : u[i] = new[i]
        /\ \A i \in 1..Len(photos) : u[n + i] = photos[i]
        /\ \A i \in 1..Len(u) : i \in 1..n \/ \E j \in 1..Len(photos) : i = n + j
    BY <1>0, JoinedIs
  <2>2. photos' = u
    BY <1>2
  <2> HIDE DEF u
  <2>3. DOMAIN u = 1..Len(u) /\ n \in Nat /\ Len(u) \in Nat
    BY <1>0, <2>1
  <2>4. ASSUME NEW i \in DOMAIN u, i \in 1..n
        PROVE  u[i].file \notin Files /\ u[i].status \notin {"queued", "uploading", "error"}
    BY <1>2, <2>1, <2>4 DEF Judged
  <2>5. ASSUME NEW i \in DOMAIN u, i \notin 1..n
        PROVE  \E j \in DOMAIN photos : i = n + j /\ u[i] = photos[j]
    <3>1. PICK j \in 1..Len(photos) : i = n + j
      BY <2>1, <2>3, <2>5
    <3>2. u[i] = photos[j] /\ j \in DOMAIN photos
      BY <1>0, <2>1, <3>1
    <3> QED BY <3>1, <3>2
  <2>6. \A j \in DOMAIN photos : n + j \in DOMAIN u /\ u[n + j] = photos[j]
    BY <1>0, <2>1, <2>3
  <2> HIDE DEF n
  <2>7. ASSUME NEW i \in DOMAIN u, NEW j \in DOMAIN u, i < j, i \notin 1..n
        PROVE  \E k, l \in DOMAIN photos : k < l /\ u[i] = photos[k] /\ u[j] = photos[l]
    <3>1. j \notin 1..n
      BY <2>3, <2>7
    <3>2. PICK k \in DOMAIN photos : i = n + k /\ u[i] = photos[k]
      BY <2>5, <2>7
    <3>3. PICK l \in DOMAIN photos : j = n + l /\ u[j] = photos[l]
      BY <2>5, <3>1
    <3>4. k < l
      BY <1>0, <2>3, <2>7, <3>2, <3>3
    <3> QED BY <3>2, <3>3, <3>4
  <2>8. Unstarted'
    <3> SUFFICES ASSUME NEW i \in DOMAIN u, u[i].status = "queued" PROVE u[i].id \notin started
      BY <2>2 DEF Unstarted
    <3> QED BY <1>0, <2>4, <2>5 DEF Unstarted
  <2>9. InTurn'
    <3> SUFFICES ASSUME NEW i \in DOMAIN u, NEW j \in DOMAIN u, i < j,
                        u[i].status \in {"queued", "uploading"}
                 PROVE  u[j].status = "queued"
      BY <2>2 DEF InTurn
    <3>1. i \notin 1..n
      BY <2>4
    <3> QED BY <1>0, <2>7, <3>1 DEF InTurn
  <2>10. UnderWay'
    <3> SUFFICES ASSUME NEW q \in requests, q.heard
                 PROVE  /\ q.row = sent
                        /\ \E i \in DOMAIN u : u[i].id = q.id /\ u[i].status = "uploading"
                        /\ \A i \in DOMAIN u : u[i].file \in Files => u[i].row < q.row
      BY <2>2 DEF UnderWay
    <3>1. /\ q.row = sent /\ \A i \in DOMAIN photos : photos[i].file \in Files => photos[i].row < q.row
      BY <1>0 DEF UnderWay
    <3>2. PICK k \in DOMAIN photos : photos[k].id = q.id /\ photos[k].status = "uploading"
      BY <1>0 DEF UnderWay
    <3>3. n + k \in DOMAIN u /\ u[n + k] = photos[k]
      BY <2>6
    <3>4. ASSUME NEW i \in DOMAIN u, u[i].file \in Files PROVE u[i].row < q.row
      BY <2>4, <2>5, <3>1, <3>4
    <3> QED BY <3>1, <3>2, <3>3, <3>4
  <2>11. NoRowYet'
    <3> SUFFICES ASSUME NEW i \in DOMAIN u, u[i].status \in {"queued", "uploading", "error"}
                 PROVE  u[i].row = NoRow
      BY <2>2 DEF NoRowYet
    <3> QED BY <1>0, <2>4, <2>5 DEF NoRowYet
  <2>12. RowsInOrder'
    <3> SUFFICES ASSUME NEW i \in DOMAIN u, NEW j \in DOMAIN u, i < j,
                        u[i].file \in Files, u[j].row # NoRow
                 PROVE  u[i].row < u[j].row
      BY <2>2 DEF RowsInOrder
    <3>1. i \notin 1..n
      BY <2>4
    <3>2. PICK k \in DOMAIN photos, l \in DOMAIN photos : k < l /\ u[i] = photos[k] /\ u[j] = photos[l]
      BY <2>7, <3>1
    <3> QED BY <1>0, <3>2 DEF RowsInOrder
  <2> QED BY <2>8, <2>9, <2>10, <2>11, <2>12 DEF Queue
<1> QED BY <1>1, <1>2

\* The page does not change; requests may get their verdict, or go.
LEMMA QueueAtTheServer ==
    ASSUME Queue, UNCHANGED <<photos, started, sent>>,
           \A r \in requests' : r.heard => \E q \in requests : q.heard /\ q.row = r.row /\ q.id = r.id
    PROVE  Queue'
<1>1. Unstarted' /\ InTurn' /\ NoRowYet' /\ RowsInOrder'
  BY DEF Queue, Unstarted, InTurn, NoRowYet, RowsInOrder
<1>2. ASSUME NEW r \in requests', r.heard
      PROVE  /\ r.row = sent
             /\ \E i \in DOMAIN photos : photos[i].id = r.id /\ photos[i].status = "uploading"
             /\ \A i \in DOMAIN photos : photos[i].file \in Files => photos[i].row < r.row
  <2>1. PICK q \in requests : q.heard /\ q.row = r.row /\ q.id = r.id
    BY <1>2
  <2> QED BY <2>1 DEF Queue, UnderWay
<1>3. UnderWay'
  BY <1>2 DEF UnderWay
<1> QED BY <1>1, <1>3 DEF Queue

\* Uploads stay in pick order as long as no failed photo is sent again.
LEMMA QueueStep ==
    ASSUME OneAtATime, Basis, RowsNumbered, Queue, [Next /\ NoRetry]_vars
    PROVE  Queue'
<1>0. /\ TypeOK /\ PhotosOK /\ photos \in Seq(Photo) /\ requests \subseteq Request /\ NoRow \in Nat
      /\ UPLOAD_CONCURRENCY = 1 /\ ~Removals
  BY DEF Basis, TypeOK, OneAtATime, NoRow
<1>1. ASSUME NEW incoming \in Picks, AddFiles(incoming)
      PROVE  Queue'
  <2>1. PICK new \in Seq(Photo) :
            /\ photos' = photos \o new
            /\ \A i \in 1..Len(new) : /\ new[i].id = counter + i
                                      /\ new[i].status = "queued" /\ new[i].row = NoRow
    BY <1>0, <1>1, AddFilesIs
  <2>2. UNCHANGED <<started, requests, sent>>
    BY <1>1 DEF AddFiles, server
  <2> QED BY <2>1, <2>2, QueueAfterAdd
<1>2. CASE Pump
  BY <1>0, <1>2, QueueAfterPump
<1>3. ASSUME NEW q \in requests, Answer(q)
      PROVE  Queue'
  <2>1. /\ q.heard /\ q.verdict \in Judged
        /\ requests' = requests \ {q}
        /\ photos' = Patched(q.id, q.verdict, q.row)
        /\ UNCHANGED started
    BY <1>3 DEF Answer
  <2>2. q.verdict \in {"accepted", "rejected", "error"} /\ q.verdict # "error" /\ q.row \in Nat
    BY <1>0, <2>1 DEF Judged, Request
  <2> QED BY <2>1, <2>2, QueueAfterAnswer
<1>4. ASSUME NEW q \in requests, GiveUp(q)
      PROVE  Queue'
  <2>1. /\ q.heard
        /\ requests' = (requests \ {q}) \cup {[q EXCEPT !.heard = FALSE]}
        /\ photos' = Patched(q.id, "error", NoRow)
        /\ UNCHANGED started
    BY <1>4 DEF GiveUp
  <2>2. ~[q EXCEPT !.heard = FALSE].heard
    BY <1>0 DEF Request
  <2>3. \A r \in requests' : r.heard => r \in requests /\ r # q
    BY <2>1, <2>2
  <2> QED BY <1>0, <2>1, <2>3, QueueAfterAnswer
<1>5. ASSUME NEW q \in requests, Judge(q)
      PROVE  Queue'
  <2>1. PICK x \in StoredRow :
            requests' = (requests \ {q}) \cup
                IF q.heard THEN {[q EXCEPT !.verdict = Shown(x.verdict)]} ELSE {}
    BY <1>0, <1>5, JudgeIs
  <2>2. UNCHANGED <<photos, started, sent>>
    BY <1>5 DEF Judge, page
  <2> DEFINE s == [q EXCEPT !.verdict = Shown(x.verdict)]
  <2>3. s.heard = q.heard /\ s.row = q.row /\ s.id = q.id
    BY <1>0 DEF Request
  <2>4. \A r \in requests' : r \in requests \/ (q.heard /\ r = s)
    BY <2>1
  <2> HIDE DEF s
  <2> QED BY <2>2, <2>3, <2>4, QueueAtTheServer
<1>6. ASSUME NEW q \in requests, Vanish(q)
      PROVE  Queue'
  <2>1. requests' \subseteq requests /\ UNCHANGED <<photos, started, sent>>
    BY <1>6 DEF Vanish, page
  <2> QED BY <2>1, QueueAtTheServer
<1>7. CASE ListAnswered \/ ListFails
  <2>1. UNCHANGED <<photos, started, requests, sent>>
    BY <1>7 DEF ListAnswered, ListFails, server
  <2> QED BY <2>1, QueueAtTheServer
<1>8. CASE Hydrate
  <2>1. PICK stubs \in Seq(Photo) :
            /\ photos' = stubs \o photos
            /\ \A i \in 1..Len(stubs) : \E x \in listed : stubs[i] = StubOf(x, counter + i)
    BY <1>0, <1>8, HydrateIs
  <2>2. ASSUME NEW i \in 1..Len(stubs)
        PROVE  stubs[i].file \notin Files /\ stubs[i].status \in Judged
    <3>1. PICK x \in listed : stubs[i] = StubOf(x, counter + i)
      BY <2>1
    <3>2. stubs[i].file = NoFile /\ stubs[i].status \in Judged
      BY <3>1 DEF StubOf, Shown, Judged
    <3> QED BY <3>2, StubIsNoFile
  <2>3. UNCHANGED <<started, requests, sent>>
    BY <1>8 DEF Hydrate, server
  <2> QED BY <2>1, <2>2, <2>3, QueueAfterAdd
<1>9. CASE Reload
  <2>1. photos' = << >> /\ \A r \in requests' : ~r.heard
    <3>1. \A q \in requests : ~[q EXCEPT !.heard = FALSE].heard
      BY <1>0 DEF Request
    <3> QED BY <1>9, <3>1 DEF Reload
  <2> QED BY <2>1 DEF Queue, Unstarted, InTurn, UnderWay, NoRowYet, RowsInOrder
<1>10. ASSUME NEW id \in deletes, Delete(id) \/ DeleteFails(id)
       PROVE  Queue'
  <2>1. UNCHANGED <<photos, started, requests, sent>>
    BY <1>10 DEF Delete, DeleteFails, page
  <2> QED BY <2>1, QueueAtTheServer
<1>11. CASE UNCHANGED vars
  <2>1. UNCHANGED <<photos, started, requests, sent>>
    BY <1>11 DEF vars, page, server
  <2> QED BY <2>1, QueueAtTheServer
<1>12. ASSUME NEW id \in Ids, RemovePhoto(id)
       PROVE  FALSE
  BY <1>0, <1>12 DEF RemovePhoto
<1>13. ASSUME NEW id \in Ids, Retry(id), NoRetry
       PROVE  FALSE
  BY <1>13 DEF NoRetry
<1> QED BY <1>1, <1>2, <1>3, <1>4, <1>5, <1>6, <1>7, <1>8, <1>9, <1>10, <1>11, <1>12, <1>13 DEF Next

-----------------------------------------------------------------------------
(* What a photo is turned down for was sent before it.                         *)
EverIsThere == \A e \in ever : \E x \in rows : x.verdict = "ACCEPTED" /\ x.photo = e[2]
\* An accepted twin of f with a row below n.
HasWinner(f, n, R) == \E x \in R : x.verdict = "ACCEPTED" /\ x.id < n /\ <<x.photo, f>> \in Near
WinnersFirst ==
    /\ \A q \in requests :
          q.heard /\ q.verdict = "rejected" /\ q.file \notin Unusable => HasWinner(q.file, q.row, rows)
    /\ \A i \in DOMAIN photos :
          photos[i].status = "rejected" /\ photos[i].file \in Files \ Unusable =>
              HasWinner(photos[i].file, photos[i].row, rows)
Winners == EverIsThere /\ WinnersFirst

\* Whatever was turned down before still has its winner.
LEMMA WinnersStay ==
    ASSUME WinnersFirst, rows \subseteq rows',
           \A r \in requests' :
              \/ r \in requests
              \/ r.heard /\ r.verdict = "rejected" /\ r.file \notin Unusable => HasWinner(r.file, r.row, rows),
           \A i \in DOMAIN photos' :
              \/ \E j \in DOMAIN photos : photos'[i] = photos[j]
              \/ photos'[i].status # "rejected"
              \/ photos'[i].file \in Files \ Unusable => HasWinner(photos'[i].file, photos'[i].row, rows)
    PROVE  WinnersFirst'
<1>1. \A f, n : HasWinner(f, n, rows) => HasWinner(f, n, rows')
  BY DEF HasWinner
<1>2. ASSUME NEW r \in requests', r.heard, r.verdict = "rejected", r.file \notin Unusable
      PROVE  HasWinner(r.file, r.row, rows)
  BY <1>2 DEF WinnersFirst
<1>3. ASSUME NEW i \in DOMAIN photos', photos'[i].status = "rejected", photos'[i].file \in Files \ Unusable
      PROVE  HasWinner(photos'[i].file, photos'[i].row, rows)
  BY <1>3 DEF WinnersFirst
<1>4. \A r \in requests' :
          r.heard /\ r.verdict = "rejected" /\ r.file \notin Unusable => HasWinner(r.file, r.row, rows')
  BY <1>1, <1>2
<1>5. \A i \in DOMAIN photos' :
          photos'[i].status = "rejected" /\ photos'[i].file \in Files \ Unusable =>
              HasWinner(photos'[i].file, photos'[i].row, rows')
  BY <1>1, <1>3
<1> QED BY <1>4, <1>5 DEF WinnersFirst

\* A patch that turns no photo down without a winner.
LEMMA WinnersAfterPatch ==
    ASSUME WinnersFirst, rows \subseteq rows', photos \in Seq(Photo),
           NEW id, NEW status \in Statuses, NEW row \in Nat, photos' = Patched(id, status, row),
           \A r \in requests' : r \in requests \/ ~r.heard \/ r.verdict = "none",
           status = "rejected" =>
              \A i \in DOMAIN photos :
                  photos[i].id = id /\ photos[i].file \in Files \ Unusable =>
                      HasWinner(photos[i].file, row, rows)
    PROVE  WinnersFirst'
<1>1. /\ DOMAIN photos' = DOMAIN photos
      /\ \A i \in DOMAIN photos :
            /\ photos'[i].file = photos[i].file
            /\ photos[i].id = id => photos'[i].status = status /\ photos'[i].row = row
            /\ photos[i].id # id => photos'[i] = photos[i]
  BY PatchedIs
<1>2. ASSUME NEW i \in DOMAIN photos'
      PROVE  \/ \E j \in DOMAIN photos : photos'[i] = photos[j]
             \/ photos'[i].status # "rejected"
             \/ photos'[i].file \in Files \ Unusable => HasWinner(photos'[i].file, photos'[i].row, rows)
  <2>1. CASE photos[i].id # id
    BY <1>1, <2>1
  <2>2. CASE photos[i].id = id
    BY <1>1, <2>2
  <2> QED BY <2>1, <2>2
<1> QED BY <1>2, WinnersStay

LEMMA WinnersStep ==
    ASSUME ~Removals, Basis, ShownStored, RowsNumbered, Queue, Winners, [Next]_vars
    PROVE  Winners'
<1>0. /\ TypeOK /\ PhotosOK /\ OwnPhoto /\ photos \in Seq(Photo) /\ requests \subseteq Request
      /\ rows \subseteq StoredRow /\ NoRow \in Nat /\ deletes = {}
      /\ "uploading" \in Statuses /\ "error" \in Statuses /\ "queued" \in Statuses
      /\ EverIsThere /\ WinnersFirst /\ UnderWay
  BY DEF Basis, TypeOK, NoRow, Statuses, ShownStored, NothingDeleted, Winners, Queue
<1>1. ASSUME UNCHANGED <<rows, ever>> PROVE EverIsThere'
  BY <1>0, <1>1 DEF EverIsThere
<1>2. ASSUME UNCHANGED <<rows, ever, photos>>, requests' \subseteq requests PROVE Winners'
  BY <1>0, <1>1, <1>2, WinnersStay DEF Winners
<1>3. ASSUME NEW new \in Seq(Photo), photos' = photos \o new \/ photos' = new \o photos,
             UNCHANGED <<requests, rows, ever>>,
             \A i \in 1..Len(new) : new[i].status # "rejected" \/ new[i].file \notin Files
      PROVE  Winners'
  <2>1. Merges(Photo, photos', photos, new)
    BY <1>0, <1>3, JoinedMerges
  <2>2. ASSUME NEW i \in DOMAIN photos'
        PROVE  \/ \E j \in DOMAIN photos : photos'[i] = photos[j]
               \/ photos'[i].status # "rejected"
               \/ photos'[i].file \notin Files
    <3>1. (\E j \in DOMAIN photos : photos'[i] = photos[j]) \/ (\E j \in 1..Len(new) : photos'[i] = new[j])
      BY <1>0, <2>1, MergedFrom
    <3> QED BY <1>3, <3>1
  <2>3. WinnersFirst'
    BY <1>0, <1>3, <2>2, WinnersStay
  <2> QED BY <1>1, <1>3, <2>3 DEF Winners
<1>4. ASSUME NEW incoming \in Picks, AddFiles(incoming)
      PROVE  Winners'
  <2>1. PICK new \in Seq(Photo) :
            /\ photos' = photos \o new
            /\ \A i \in 1..Len(new) : new[i].status = "queued"
    BY <1>0, <1>4, AddFilesIs
  <2>2. UNCHANGED <<requests, rows, ever>>
    BY <1>4 DEF AddFiles, server
  <2> QED BY <1>3, <2>1, <2>2
<1>5. CASE Pump
  <2>1. PICK k \in DOMAIN photos :
            /\ photos' = Patched(photos[k].id, "uploading", NoRow)
            /\ requests' = requests \cup {RequestOf(k)}
    BY <1>5, PumpIs
  <2>2. UNCHANGED <<rows, ever>> /\ RequestOf(k).verdict = "none"
    BY <1>5 DEF Pump, RequestOf
  <2>3. WinnersFirst'
    BY <1>0, <2>1, <2>2, WinnersAfterPatch
  <2> QED BY <1>1, <2>2, <2>3 DEF Winners
<1>6. ASSUME NEW q \in requests, Answer(q)
      PROVE  Winners'
  <2>1. /\ q.heard /\ q.verdict \in Judged /\ q \in Request
        /\ requests' = requests \ {q}
        /\ photos' = Patched(q.id, q.verdict, q.row)
        /\ UNCHANGED <<rows, ever>>
    BY <1>0, <1>6 DEF Answer
  <2>2. q.verdict \in Statuses /\ q.row \in Nat
    BY <2>1 DEF Statuses, Judged, Request
  <2>3. ASSUME q.verdict = "rejected", NEW i \in DOMAIN photos, photos[i].id = q.id,
               photos[i].file \in Files \ Unusable
        PROVE  HasWinner(photos[i].file, q.row, rows)
    <3>1. photos[i].file = q.file
      BY <1>0, <2>1, <2>3 DEF OwnPhoto
    <3> QED BY <1>0, <2>1, <2>3, <3>1 DEF WinnersFirst
  <2>4. WinnersFirst'
    BY <1>0, <2>1, <2>2, <2>3, WinnersAfterPatch
  <2> QED BY <1>1, <2>1, <2>4 DEF Winners
<1>7. ASSUME NEW q \in requests, GiveUp(q)
      PROVE  Winners'
  <2>1. /\ requests' = (requests \ {q}) \cup {[q EXCEPT !.heard = FALSE]}
        /\ photos' = Patched(q.id, "error", NoRow)
        /\ UNCHANGED <<rows, ever>>
    BY <1>7 DEF GiveUp
  <2>2. ~[q EXCEPT !.heard = FALSE].heard
    BY <1>0 DEF Request
  <2>3. WinnersFirst'
    BY <1>0, <2>1, <2>2, WinnersAfterPatch
  <2> QED BY <1>1, <2>1, <2>3 DEF Winners
<1>8. ASSUME NEW q \in requests, Judge(q)
      PROVE  Winners'
  <2>1. PICK x \in StoredRow :
            /\ x.id = q.row /\ x.photo = q.file /\ q.verdict = "none"
            /\ rows' = rows \cup {x}
            /\ requests' = (requests \ {q}) \cup
                  IF q.heard THEN {[q EXCEPT !.verdict = Shown(x.verdict)]} ELSE {}
            /\ x.verdict = "UNUSABLE" <=> q.file \in Unusable
            /\ ever' = ever \cup IF x.verdict = "ACCEPTED" THEN {<<"me", q.file>>} ELSE {}
            /\ x.verdict = "DUPLICATE" => \E e \in ever : <<e[2], q.file>> \in Near
    BY <1>0, <1>8, JudgeIs
  <2>2. UNCHANGED photos
    BY <1>8 DEF Judge, page
  <2>3. EverIsThere'
    <3> SUFFICES ASSUME NEW e \in ever'
                 PROVE  \E y \in rows' : y.verdict = "ACCEPTED" /\ y.photo = e[2]
      BY DEF EverIsThere
    <3>1. CASE e \in ever
      BY <1>0, <2>1, <3>1 DEF EverIsThere
    <3>2. CASE e \notin ever
      <4>1. x.verdict = "ACCEPTED" /\ e = <<"me", q.file>>
        BY <2>1, <3>2
      <4> QED BY <2>1, <4>1
    <3> QED BY <3>1, <3>2
  <2> DEFINE s == [q EXCEPT !.verdict = Shown(x.verdict)]
  <2>4. s.heard = q.heard /\ s.row = q.row /\ s.file = q.file /\ s.verdict = Shown(x.verdict)
    BY <1>0 DEF Request
  <2>5. \A r \in requests' : r \in requests \/ (q.heard /\ r = s)
    BY <2>1
  <2> HIDE DEF s
  <2>6. ASSUME q.heard, s.verdict = "rejected", s.file \notin Unusable
        PROVE  HasWinner(s.file, s.row, rows)
    <3>1. x.verdict = "DUPLICATE"
      BY <2>1, <2>4, <2>6 DEF Shown, StoredRow
    <3>2. PICK e \in ever : <<e[2], q.file>> \in Near
      BY <2>1, <3>1
    <3>3. PICK y \in rows : y.verdict = "ACCEPTED" /\ y.photo = e[2]
      BY <1>0 DEF EverIsThere
    <3>4. y.id \in Nat /\ sent \in Nat /\ y.id <= sent /\ y.id # q.row /\ q.row = sent
      BY <1>0, <2>1, <2>6 DEF RowsNumbered, UnderWay, StoredRow, TypeOK
    <3>5. y.id < q.row
      BY <3>4
    <3> QED BY <2>4, <3>2, <3>3, <3>5 DEF HasWinner
  <2>7. WinnersFirst'
    BY <1>0, <2>1, <2>2, <2>5, <2>6, WinnersStay
  <2> QED BY <2>3, <2>7 DEF Winners
<1>9. ASSUME NEW q \in requests, Vanish(q)
      PROVE  Winners'
  BY <1>2, <1>9 DEF Vanish, page
<1>10. ASSUME NEW id \in Ids, RemovePhoto(id)
       PROVE  FALSE
  BY <1>10 DEF RemovePhoto
<1>11. ASSUME NEW id \in Ids, Retry(id)
       PROVE  Winners'
  <2>1. photos' = Patched(id, "queued", NoRow) /\ UNCHANGED <<requests, rows, ever>>
    BY <1>11 DEF Retry, server
  <2>2. WinnersFirst'
    BY <1>0, <2>1, WinnersAfterPatch
  <2> QED BY <1>1, <2>1, <2>2 DEF Winners
<1>12. CASE ListAnswered \/ ListFails
  BY <1>2, <1>12 DEF ListAnswered, ListFails, server
<1>13. CASE Hydrate
  <2>1. PICK stubs \in Seq(Photo) :
            /\ photos' = stubs \o photos
            /\ \A i \in 1..Len(stubs) : \E x \in listed : stubs[i] = StubOf(x, counter + i)
    BY <1>0, <1>13, HydrateIs
  <2>2. ASSUME NEW i \in 1..Len(stubs)
        PROVE  stubs[i].file \notin Files
    <3>1. PICK x \in listed : stubs[i] = StubOf(x, counter + i)
      BY <2>1
    <3>2. stubs[i].file = NoFile
      BY <3>1 DEF StubOf
    <3> QED BY <3>2, StubIsNoFile
  <2>3. UNCHANGED <<requests, rows, ever>>
    BY <1>13 DEF Hydrate, server
  <2> QED BY <1>3, <2>1, <2>2, <2>3
<1>14. CASE Reload
  <2>1. photos' = << >> /\ UNCHANGED <<rows, ever>> /\ \A r \in requests' : ~r.heard
    <3>1. \A q \in requests : ~[q EXCEPT !.heard = FALSE].heard
      BY <1>0 DEF Request
    <3> QED BY <1>14, <3>1 DEF Reload
  <2> QED BY <1>1, <2>1 DEF Winners, WinnersFirst
<1>15. CASE UNCHANGED vars
  BY <1>2, <1>15 DEF vars, page, server
<1> QED BY <1>0, <1>4, <1>5, <1>6, <1>7, <1>8, <1>9, <1>10, <1>11, <1>12, <1>13, <1>14, <1>15 DEF Next

Ordered == Queue /\ Winners

LEMMA OrderedInit == Init => Ordered
<1> SUFFICES ASSUME Init PROVE Ordered
  OBVIOUS
<1>1. photos = << >> /\ requests = {}
  BY DEF Init
<1>2. Queue /\ WinnersFirst
  BY <1>1 DEF Queue, Unstarted, InTurn, UnderWay, NoRowYet, RowsInOrder, WinnersFirst
<1>3. EverIsThere
  <2>1. /\ ever = {<<x.owner, x.photo>> : x \in rows}
        /\ \A x \in rows : x.verdict = "ACCEPTED"
    BY InitRows
  <2> QED BY <2>1 DEF EverIsThere
<1> QED BY <1>2, <1>3 DEF Ordered, Winners

LEMMA OrderedHolds ==
    ASSUME OneAtATime
    PROVE  Safety /\ [][NoRetry]_vars => []Ordered
<1>1. ~Removals
  BY DEF OneAtATime
<1>2. Basis /\ ShownStored /\ RowsNumbered /\ Ordered /\ [Next]_vars /\ [NoRetry]_vars => Ordered'
  <2> SUFFICES ASSUME Basis, ShownStored, RowsNumbered, Ordered, [Next]_vars, [NoRetry]_vars
               PROVE  Ordered'
    OBVIOUS
  <2>1. [Next /\ NoRetry]_vars
    OBVIOUS
  <2>2. Queue'
    BY <2>1, QueueStep DEF Ordered
  <2>3. Winners'
    BY <1>1, WinnersStep DEF Ordered
  <2> QED BY <2>2, <2>3 DEF Ordered
<1>3. Safety => []ShownStored
  BY <1>1, ShownStoredHolds
<1> QED BY <1>2, <1>3, OrderedInit, BasisHolds, RowsNumberedHolds, PTL DEF Safety

\* The winner of a photo that was turned down has a row below every later photo's.
LEMMA OrderedWins == Basis /\ Ordered => PickOrderWins
<1> SUFFICES ASSUME Basis, Ordered, NEW i \in DOMAIN photos, photos[i].status = "rejected",
                    photos[i].file \in Files \ Unusable
             PROVE  \E x \in rows : /\ x.verdict = "ACCEPTED" /\ <<x.photo, photos[i].file>> \in Near
                                    /\ \A j \in DOMAIN photos : j > i => photos[j].row # x.id
  BY DEF PickOrderWins, WithStatus
<1>1. PICK x \in rows : /\ x.verdict = "ACCEPTED" /\ <<x.photo, photos[i].file>> \in Near
                        /\ x.id < photos[i].row
  BY DEF Ordered, Winners, WinnersFirst, HasWinner
<1>2. /\ photos \in Seq(Photo) /\ DOMAIN photos \subseteq Nat
      /\ \A j \in DOMAIN photos : photos[j].row \in Nat
  <2>1. photos \in Seq(Photo)
    BY DEF Basis, TypeOK
  <2>2. ASSUME NEW j \in DOMAIN photos PROVE photos[j].row \in Nat
    <3>1. photos[j] \in Photo
      BY <2>1
    <3> QED BY <3>1 DEF Photo
  <2> QED BY <2>1, <2>2
<1>3. x.id \in Nat /\ x.id # NoRow
  BY DEF Basis, TypeOK, StoredRow
<1>4. ASSUME NEW j \in DOMAIN photos, j > i
      PROVE  photos[j].row # x.id
  <2>1. CASE photos[j].row = NoRow
    BY <1>3, <2>1
  <2>2. CASE photos[j].row # NoRow
    <3>1. i < j /\ photos[i].row \in Nat /\ photos[j].row \in Nat
      BY <1>2, <1>4
    <3>2. photos[i].row < photos[j].row
      BY <2>2, <3>1 DEF Ordered, Queue, RowsInOrder
    <3> QED BY <1>1, <1>3, <3>1, <3>2
  <2> QED BY <2>1, <2>2
<1> QED BY <1>1, <1>4

\* With one upload at a time, a photo is never turned down in favour of one picked
\* after it, whatever requests fail or are lost, however late the list of stored
\* photos comes, and over any reloads: as long as the user removes nothing and
\* sends no failed photo again, which puts it behind photos picked after it.
THEOREM PickOrderWinsHolds ==
    ASSUME OneAtATime
    PROVE  Safety /\ [][NoRetry]_vars => []PickOrderWins
<1>1. Basis /\ Ordered => PickOrderWins
  BY OrderedWins
<1>2. Safety /\ [][NoRetry]_vars => []Ordered
  BY OrderedHolds
<1> QED BY <1>1, <1>2, BasisHolds, PTL

-----------------------------------------------------------------------------
(* What a photo is turned down for is on the page.                             *)

\* One page load on a network that loses nothing.
OnePage == OneAtATime /\ ~Faults /\ MaxAgain = 0

AllHeard == \A q \in requests : q.heard
OnItsWay(x) == \E q \in requests : q.row = x.id
InGrid(x) == \E j \in DOMAIN photos : photos[j].status = "accepted" /\ photos[j].row = x.id
ToBeListed(x) == list = "asked" \/ (list = "answered" /\ x \in listed)
AcceptedIsSomewhere ==
    \A x \in rows : x.verdict = "ACCEPTED" => OnItsWay(x) \/ InGrid(x) \/ ToBeListed(x)
OnThePage == AllHeard /\ AcceptedIsSomewhere

\* The page keeps what it has, and the server has no new rows.
LEMMA StaysOnThePage ==
    ASSUME OnThePage, UNCHANGED <<list, listed>>, rows' \subseteq rows, requests \subseteq requests',
           \A r \in requests' : r.heard,
           \A j \in DOMAIN photos : photos[j].status = "accepted" =>
              \E i \in DOMAIN photos' : photos'[i] = photos[j]
    PROVE  OnThePage'
<1>1. ASSUME NEW x \in rows', x.verdict = "ACCEPTED"
      PROVE  OnItsWay(x)' \/ InGrid(x)' \/ ToBeListed(x)'
  <2>1. OnItsWay(x) \/ InGrid(x) \/ ToBeListed(x)
    BY <1>1 DEF OnThePage, AcceptedIsSomewhere
  <2>2. CASE OnItsWay(x)
    BY <2>2 DEF OnItsWay
  <2>3. CASE InGrid(x)
    BY <2>3 DEF InGrid
  <2>4. CASE ToBeListed(x)
    BY <2>4 DEF ToBeListed
  <2> QED BY <2>1, <2>2, <2>3, <2>4
<1> QED BY <1>1 DEF OnThePage, AllHeard, AcceptedIsSomewhere

LEMMA OnThePageStep ==
    ASSUME OnePage, Basis, ShownStored, RowsNumbered, Queue, OnThePage, [Next]_vars
    PROVE  OnThePage'
<1>0. /\ TypeOK /\ PhotosOK /\ photos \in Seq(Photo) /\ DOMAIN photos = 1..Len(photos)
      /\ requests \subseteq Request
      /\ rows \subseteq StoredRow /\ NoRow \in Nat /\ deletes = {} /\ again \in Nat
      /\ "uploading" \in Statuses
      /\ JudgedStored /\ UnderWay /\ AllHeard /\ AcceptedIsSomewhere
      /\ ~Removals /\ ~Faults /\ MaxAgain = 0
  BY DEF Basis, TypeOK, NoRow, Statuses, ShownStored, NothingDeleted, Queue, OnThePage, OnePage,
         OneAtATime
<1>1. ASSUME NEW new \in Seq(Photo), photos' = photos \o new \/ photos' = new \o photos
      PROVE  \A j \in DOMAIN photos : \E i \in DOMAIN photos' : photos'[i] = photos[j]
  <2>1. Merges(Photo, photos', photos, new)
    BY <1>0, <1>1, JoinedMerges
  <2>2. PICK a \in Nat :
            /\ DOMAIN photos' = 1..Len(photos')
            /\ \A i \in 1..Len(photos) : a + i \in 1..Len(photos') /\ photos'[a + i] = photos[i]
    BY <2>1 DEF Merges
  <2>3. \A j \in DOMAIN photos : a + j \in DOMAIN photos' /\ photos'[a + j] = photos[j]
    BY <1>0, <2>2
  <2> QED BY <2>3
<1>2. ASSUME UNCHANGED <<photos, list, listed, requests, rows>> PROVE OnThePage'
  BY <1>0, <1>2 DEF OnThePage, AllHeard, AcceptedIsSomewhere, OnItsWay, InGrid, ToBeListed
<1>3. ASSUME NEW incoming \in Picks, AddFiles(incoming)
      PROVE  OnThePage'
  <2>1. PICK new \in Seq(Photo) : photos' = photos \o new
    BY <1>0, <1>3, AddFilesIs
  <2>2. UNCHANGED <<list, listed, requests, rows>>
    BY <1>3 DEF AddFiles, server
  <2>3. \A j \in DOMAIN photos : \E i \in DOMAIN photos' : photos'[i] = photos[j]
    BY <1>1, <2>1
  <2> QED BY <1>0, <2>2, <2>3, StaysOnThePage DEF AllHeard
<1>4. CASE Pump
  <2>1. PICK k \in DOMAIN photos :
            /\ photos[k].status = "queued"
            /\ photos' = Patched(photos[k].id, "uploading", NoRow)
            /\ requests' = requests \cup {RequestOf(k)}
    BY <1>4, PumpIs
  <2>2. UNCHANGED <<list, listed, rows>> /\ RequestOf(k).heard
    BY <1>4 DEF Pump, RequestOf
  <2>3. DOMAIN photos' = DOMAIN photos /\ \A i \in DOMAIN photos : i # k => photos'[i] = photos[i]
    BY <1>0, <2>1, PatchedAt
  <2>4. \A j \in DOMAIN photos : photos[j].status = "accepted" =>
            \E i \in DOMAIN photos' : photos'[i] = photos[j]
    BY <2>1, <2>3
  <2>5. \A r \in requests' : r.heard
    BY <1>0, <2>1, <2>2 DEF AllHeard
  <2> QED BY <2>1, <2>2, <2>4, <2>5, StaysOnThePage
<1>5. ASSUME NEW q \in requests, Answer(q)
      PROVE  OnThePage'
  <2>1. /\ q.heard /\ q.verdict \in Judged
        /\ requests' = requests \ {q}
        /\ photos' = Patched(q.id, q.verdict, q.row)
        /\ UNCHANGED <<list, listed, rows>>
    BY <1>5 DEF Answer
  <2>2. PICK k \in DOMAIN photos : photos[k].id = q.id /\ photos[k].status = "uploading"
    BY <1>0, <2>1 DEF UnderWay
  <2>3. q.verdict \in Statuses /\ q.row \in Nat /\ q.verdict # "none"
    BY <1>0, <2>1 DEF Judged, Statuses, Request
  <2>4. /\ DOMAIN photos' = DOMAIN photos
        /\ photos'[k].status = q.verdict /\ photos'[k].row = q.row
        /\ \A i \in DOMAIN photos : i # k => photos'[i] = photos[i]
    BY <1>0, <2>1, <2>2, <2>3, PatchedAt
  <2>5. PICK y \in rows : y.id = q.row /\ Shown(y.verdict) = q.verdict
    BY <1>0, <2>3 DEF JudgedStored
  <2>6. ASSUME NEW x \in rows, x.verdict = "ACCEPTED"
        PROVE  OnItsWay(x)' \/ InGrid(x)' \/ ToBeListed(x)'
    <3>1. OnItsWay(x) \/ InGrid(x) \/ ToBeListed(x)
      BY <1>0, <2>6 DEF AcceptedIsSomewhere
    <3>2. CASE x.id = q.row
      <4>1. x = y
        BY <2>5, <3>2 DEF RowsNumbered
      <4>2. q.verdict = "accepted"
        BY <2>5, <2>6, <4>1 DEF Shown
      <4> QED BY <2>4, <3>2, <4>2 DEF InGrid
    <3>3. CASE OnItsWay(x) /\ x.id # q.row
      BY <2>1, <3>3 DEF OnItsWay
    <3>4. CASE InGrid(x)
      BY <2>2, <2>4, <3>4 DEF InGrid
    <3>5. CASE ToBeListed(x)
      BY <2>1, <3>5 DEF ToBeListed
    <3> QED BY <3>1, <3>2, <3>3, <3>4, <3>5
  <2> QED BY <1>0, <2>1, <2>6 DEF OnThePage, AllHeard, AcceptedIsSomewhere
<1>6. ASSUME NEW q \in requests, Judge(q)
      PROVE  OnThePage'
  <2>1. PICK x \in StoredRow :
            /\ x.id = q.row
            /\ rows' = rows \cup {x}
            /\ requests' = (requests \ {q}) \cup
                  IF q.heard THEN {[q EXCEPT !.verdict = Shown(x.verdict)]} ELSE {}
    BY <1>0, <1>6, JudgeIs
  <2>2. UNCHANGED <<photos, list, listed>>
    BY <1>6 DEF Judge, page
  <2> DEFINE s == [q EXCEPT !.verdict = Shown(x.verdict)]
  <2>3. s.heard = q.heard /\ s.row = q.row
    BY <1>0 DEF Request
  <2>4. requests' = (requests \ {q}) \cup {s}
    BY <1>0, <2>1 DEF AllHeard
  <2> HIDE DEF s
  <2>5. AllHeard'
    BY <1>0, <2>3, <2>4 DEF AllHeard
  <2>6. ASSUME NEW y \in rows', y.verdict = "ACCEPTED"
        PROVE  OnItsWay(y)' \/ InGrid(y)' \/ ToBeListed(y)'
    <3>1. CASE y = x
      BY <2>1, <2>3, <2>4, <3>1 DEF OnItsWay
    <3>2. CASE y # x
      <4>1. OnItsWay(y) \/ InGrid(y) \/ ToBeListed(y)
        BY <1>0, <2>1, <2>6, <3>2 DEF AcceptedIsSomewhere
      <4>2. OnItsWay(y) => OnItsWay(y)'
        BY <2>3, <2>4 DEF OnItsWay
      <4>3. InGrid(y) => InGrid(y)'
        BY <2>2 DEF InGrid
      <4>4. ToBeListed(y) => ToBeListed(y)'
        BY <2>2 DEF ToBeListed
      <4> QED BY <4>1, <4>2, <4>3, <4>4
    <3> QED BY <3>1, <3>2
  <2> QED BY <2>5, <2>6 DEF OnThePage, AcceptedIsSomewhere
<1>7. ASSUME NEW q \in requests, GiveUp(q) \/ Vanish(q)
      PROVE  FALSE
  BY <1>0, <1>7 DEF GiveUp, Vanish, AllHeard
<1>8. ASSUME NEW id \in Ids, RemovePhoto(id) \/ Retry(id)
      PROVE  FALSE
  BY <1>0, <1>8 DEF RemovePhoto, Retry
<1>9. ~Reload /\ ~ListFails
  BY <1>0 DEF Reload, ListFails
<1>10. CASE ListAnswered
  <2>1. /\ list' = "answered" /\ listed' = rows
        /\ UNCHANGED <<requests, rows>>
    BY <1>10 DEF ListAnswered, server
  <2>2. \A x \in rows' : ToBeListed(x)'
    BY <2>1 DEF ToBeListed
  <2> QED BY <1>0, <2>1, <2>2 DEF OnThePage, AllHeard, AcceptedIsSomewhere
<1>11. CASE Hydrate
  <2>1. PICK stubs \in Seq(Photo) :
            /\ photos' = stubs \o photos
            /\ \A x \in listed : \E i \in 1..Len(stubs) : stubs[i] = StubOf(x, counter + i)
    BY <1>0, <1>11, HydrateIs
  <2>2. list = "answered" /\ UNCHANGED <<requests, rows>>
    BY <1>11 DEF Hydrate, server
  <2>3. \A j \in DOMAIN photos : \E i \in DOMAIN photos' : photos'[i] = photos[j]
    BY <1>1, <2>1
  <2>4. \A i \in 1..Len(stubs) : i \in DOMAIN photos' /\ photos'[i] = stubs[i]
    BY <1>0, <2>1, JoinedIs
  <2>5. ASSUME NEW x \in rows, x.verdict = "ACCEPTED"
        PROVE  OnItsWay(x)' \/ InGrid(x)'
    <3>1. OnItsWay(x) \/ InGrid(x) \/ x \in listed
      BY <1>0, <2>2, <2>5 DEF AcceptedIsSomewhere, ToBeListed
    <3>2. OnItsWay(x) => OnItsWay(x)'
      BY <2>2 DEF OnItsWay
    <3>3. InGrid(x) => InGrid(x)'
      BY <2>3 DEF InGrid
    <3>4. CASE x \in listed
      <4>1. PICK i \in 1..Len(stubs) : stubs[i] = StubOf(x, counter + i)
        BY <2>1, <3>4
      <4>2. stubs[i].status = "accepted" /\ stubs[i].row = x.id
        BY <2>5, <4>1 DEF StubOf, Shown
      <4> QED BY <2>4, <4>2 DEF InGrid
    <3> QED BY <3>1, <3>2, <3>3, <3>4
  <2> QED BY <1>0, <2>2, <2>5 DEF OnThePage, AllHeard, AcceptedIsSomewhere
<1>12. ASSUME NEW id \in deletes
       PROVE  FALSE
  BY <1>0
<1>13. CASE UNCHANGED vars
  BY <1>2, <1>13 DEF vars, page, server
<1> QED BY <1>3, <1>4, <1>5, <1>6, <1>7, <1>8, <1>9, <1>10, <1>11, <1>12, <1>13 DEF Next

\* The request under way is later than every photo's, so it is nobody's winner.
LEMMA WinnerIsVisible ==
    Basis /\ Ordered /\ OnThePage => DuplicateIsVisible
<1> SUFFICES ASSUME Basis, Ordered, OnThePage, list = "done",
                    NEW i \in DOMAIN photos, photos[i].status = "rejected",
                    photos[i].file \in Files \ Unusable
             PROVE  \E j \in Grid, x \in rows :
                       x.id = photos[j].row /\ <<x.photo, photos[i].file>> \in Near
  BY DEF DuplicateIsVisible, WithStatus
<1>1. PICK x \in rows : /\ x.verdict = "ACCEPTED" /\ <<x.photo, photos[i].file>> \in Near
                        /\ x.id < photos[i].row
  BY DEF Ordered, Winners, WinnersFirst, HasWinner
<1>2. OnItsWay(x) \/ InGrid(x)
  BY <1>1 DEF OnThePage, AcceptedIsSomewhere, ToBeListed
<1>3. ~OnItsWay(x)
  <2> SUFFICES ASSUME NEW q \in requests, q.row = x.id PROVE FALSE
    BY DEF OnItsWay
  <2>1. photos[i].row < q.row
    BY DEF Ordered, Queue, UnderWay, OnThePage, AllHeard
  <2>2. photos[i] \in Photo
    BY DEF Basis, TypeOK
  <2>3. photos[i].row \in Nat /\ x.id \in Nat
    BY <2>2 DEF Photo, Basis, TypeOK, StoredRow
  <2> QED BY <1>1, <2>1, <2>3
<1>4. PICK j \in DOMAIN photos : photos[j].status = "accepted" /\ photos[j].row = x.id
  BY <1>2, <1>3 DEF InGrid
<1> QED BY <1>1, <1>4 DEF Grid, WithStatus

\* On one page load on a network that loses nothing, with one upload at a time and
\* nothing removed, a photo is turned down as a duplicate only of a photo the
\* user can see, however many are picked and however late the list arrives.
THEOREM DuplicateIsVisibleHolds ==
    ASSUME OnePage
    PROVE  Safety => []DuplicateIsVisible
<1>1. OneAtATime /\ ~Removals /\ MaxAgain = 0
  BY DEF OnePage, OneAtATime
<1>2. Basis /\ [Next]_vars => [NoRetry]_vars
  <2>1. ASSUME Basis, NEW id PROVE ~Retry(id)
    BY <1>1, <2>1 DEF Basis, TypeOK, Retry
  <2> QED BY <2>1 DEF NoRetry
<1>3. Safety => [][NoRetry]_vars
  BY <1>2, BasisHolds, PTL DEF Safety
<1>4. Safety /\ [][NoRetry]_vars => []Ordered
  BY <1>1, OrderedHolds
<1>5. Safety => []ShownStored
  BY <1>1, ShownStoredHolds
<1>6. Init => OnThePage
  BY DEF Init, OnThePage, AllHeard, AcceptedIsSomewhere, ToBeListed
<1>7. Basis /\ ShownStored /\ RowsNumbered /\ Ordered /\ OnThePage /\ [Next]_vars => OnThePage'
  BY OnThePageStep DEF Ordered
<1>8. Safety => []OnThePage
  BY <1>3, <1>4, <1>5, <1>6, <1>7, BasisHolds, RowsNumberedHolds, PTL DEF Safety
<1> QED BY <1>3, <1>4, <1>8, BasisHolds, RowsNumberedHolds, WinnerIsVisible, PTL
=============================================================================
