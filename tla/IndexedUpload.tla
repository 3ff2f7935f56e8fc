--------------------------- MODULE IndexedUpload ---------------------------
(* The upload pipeline with photos that are hashes: near is the Hamming        *)
(* distance of HashBands, and the index is its bands.  UploadPipeline alone    *)
(* knows of the near photos the index finds; here is which ones it can miss.   *)
EXTENDS UploadPipeline, HashBands

(* What a photo is here, and what Near and ShareBand are for it.               *)
IndexedByBands ==
    /\ Photos \subseteq Hashes
    /\ Near = {x \in Photos \X Photos : IsNear(x[1], x[2])}
    /\ ShareBand = {x \in Photos \X Photos : SharesBand(x[1], x[2])}

\* Two accepted photos of one owner within duplicateMaxDistance differ in every
\* band, and so in at least as many bits as there are bands: at the configured
\* distance of 5 with four bands only pairs of four or five bits, spread over all
\* of them, slip past the index (lib/metrics.ts, lines 196-206), over any
\* concurrent uploads, failures, deletes and restarts, although an upload is
\* compared with the candidates of the index only (validation.service.ts, 68-72).
NearPairsSpread ==
    \A o \in Owners : \A a, b \in Accepted(o) :
        a # b /\ IsNear(a.photo, b.photo) =>
            /\ \A i \in Bands : Differing(a.photo, b.photo) \cap Slice(i) # {}
            /\ Hamming(a.photo, b.photo) >= NBands
=============================================================================
