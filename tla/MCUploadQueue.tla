---------------------------- MODULE MCUploadQueue ----------------------------
(* p and q are near each other, u the server rejects, t fails the screen, and o *)
(* may be stored from an earlier session and be picked again.                   *)
EXTENDS UploadQueue

CONSTANTS p, q, o, u, t

Closure(R) == R \cup {<<x[2], x[1]>> : x \in R} \cup {<<x, x>> : x \in Files}
MCNear == Closure({<<p, q>>} \cap (Files \X Files))
=============================================================================
