------------------------------ MODULE PhotoSet ------------------------------
(* What the photo store promises the owners of photos, whoever implements it:  *)
(* the server, in many steps of many concurrent requests (UploadPipeline), and *)
(* the server as the browser's queue takes it to be, in one (UploadQueue).     *)
(*                                                                             *)
(* A row is a record with at least the owner, the photo and the verdict of one *)
(* judged photo.  Rows come one at a time, each judged against what is there   *)
(* at the very moment it comes, and go only by a delete; nothing rewrites one. *)
EXTENDS FiniteSets

CONSTANTS Near,     \* pairs of photos that are duplicates of each other
          Indexed   \* pairs of photos the store's index can compare

VARIABLES rows,     \* the judged photos that are stored
          ever      \* <<owner, photo>> of every photo that was ever accepted

promised == <<rows, ever>>

AreTwins(x, y) ==
    x.owner = y.owner /\ <<x.photo, y.photo>> \in Near /\ <<x.photo, y.photo>> \in Indexed
AcceptedRows == {x \in rows : x.verdict = "ACCEPTED"}

Init ==
    /\ AcceptedRows = rows
    /\ \A x, y \in rows : x # y => ~AreTwins(x, y)
    /\ ever = {<<x.owner, x.photo>> : x \in rows}

\* A photo is accepted when the index has no twin of it among its owner's.
Accept(x) ==
    /\ x.verdict = "ACCEPTED"
    /\ \A y \in AcceptedRows : ~AreTwins(y, x)
    /\ rows' = rows \cup {x}
    /\ ever' = ever \cup {<<x.owner, x.photo>>}

\* It is turned down as a duplicate of one its owner had accepted before.
TurnDown(x) ==
    /\ x.verdict = "DUPLICATE"
    /\ \E e \in ever : e[1] = x.owner /\ <<e[2], x.photo>> \in Near
    /\ rows' = rows \cup {x}
    /\ UNCHANGED ever

\* Or it is refused for its own sake.
Reject(x) ==
    /\ x.verdict = "UNUSABLE"
    /\ rows' = rows \cup {x}
    /\ UNCHANGED ever

Delete(x) == rows' = rows \ {x} /\ UNCHANGED ever
DeleteOwner(o) == rows' = {x \in rows : x.owner # o} /\ UNCHANGED ever

Next ==
    \/ \E x \in rows' \ rows : Accept(x) \/ TurnDown(x) \/ Reject(x)
    \/ \E x \in rows : Delete(x) \/ DeleteOwner(x.owner)

Spec == Init /\ [][Next]_promised
=============================================================================
