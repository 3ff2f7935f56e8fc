-------------------------- MODULE MCUploadPipeline --------------------------
(* Hashes of eight bits in four bands at the configured distance.  Photos p    *)
(* and q differ in three of the bands and share the fourth; s differs from p   *)
(* in one bit of every band, near it and out of reach of the index; u fails a  *)
(* per-file rule and big is over the parser's file size limit.  One batch      *)
(* holds a twin before its original, one an unusable sibling and one each is   *)
(* refused for an oversized file, too many files, all its bytes together and   *)
(* the wrong field.                                                            *)
EXTENDS IndexedUpload

ASSUME IndexedByBands

p == {}
q == {0, 2, 4}
s == {0, 2, 4, 6}
u == {1, 3, 5, 7}
big == {1, 3, 6, 7}

ASSUME IsNear(p, s) /\ ~SharesBand(p, s)

MCPhotos == {p, q, s, u, big}
MCNear == {x \in MCPhotos \X MCPhotos : IsNear(x[1], x[2])}
MCShareBand == {x \in MCPhotos \X MCPhotos : SharesBand(x[1], x[2])}
MCUnusable == {u}
MCOversized == {big}
MCTooHeavy == {<<q, s>>}
MCMisfielded == {<<s>>}
SomeTwins == {<<q, p>>, <<u, s>>, <<p, big>>, <<p, p, p>>} \cup MCTooHeavy \cup MCMisfielded
=============================================================================
