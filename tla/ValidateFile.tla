---------------------------- MODULE ValidateFile ----------------------------
(* server/src/lib/validateFile.ts: the verdict on one file, as a function of    *)
(* what the gates can tell about it.                                            *)
(*                                                                              *)
(* A file is a record: `defects`, the gates without arithmetic that it fails;   *)
(* its stored width and height and its EXIF orientation; the faces the detector *)
(* finds in it, each with its score ("sure" is at or over faceScoreMin), its    *)
(* box, its landmarks and whether it is sharp; and `throws`, whether the         *)
(* detector throws on it (it then has no faces), or the hash or the re-encoding.  *)
EXTENDS FaceBox, FiniteSets

CONSTANTS MaxPixels, MinDimension,     \* cfg.maxPixels, cfg.minDimension
          FaceMinPixels, AreaPercent   \* cfg.faceMinPixels, 100 * cfg.faceMinAreaRatio

ASSUME LimitsOK ==
    {MaxPixels, MinDimension, FaceMinPixels, AreaPercent} \subseteq Nat

DetectedFace ==
    [score : {"weak", "sure"}, box : [x : Int, y : Int, width : Int, height : Int],
     points : [minX : Int, maxX : Int, browY : Int, chinY : Int] \cup {NoBox},
     sharp : BOOLEAN]
File ==
    [defects : SUBSET STRING, width : Nat \ {0}, height : Nat \ {0}, orientation : 1..8,
     faces : SUBSET DetectedFace, throws : BOOLEAN]

Verdicts == {"OK", "FILE_TOO_SMALL", "FILE_TOO_LARGE", "UNSUPPORTED_FORMAT",
             "IMAGE_UNREADABLE", "PIXEL_BUDGET_EXCEEDED", "RESOLUTION_TOO_SMALL",
             "BLURRY", "NO_FACE", "FACE_TOO_SMALL", "MULTIPLE_FACES"}

\* Mutation: the EXIF orientation is ignored.
FrameAsStored(f) == <<f.width, f.height>>

\* The frame as displayed: orientations 5 to 8 swap its sides.
Frame(f) == IF f.orientation >= 5 THEN <<f.height, f.width>> ELSE <<f.width, f.height>>

\* The gates before the detector, cheapest first, and the reason each gives.
\* sniffImageFormat tells seven kinds of file and the product takes three; a HEIC
\* is transcoded before anything reads its header, and may be unreadable,
\* without dimensions, too large for the transcoder or beyond it.
Sniff == <<"format", "UNSUPPORTED_FORMAT">>
ToDecodable == <<"heic", "IMAGE_UNREADABLE">>
Gates == << <<"few bytes", "FILE_TOO_SMALL">>, <<"many bytes", "FILE_TOO_LARGE">>,
            Sniff, ToDecodable,
            <<"header", "IMAGE_UNREADABLE">>, <<"pixels", "PIXEL_BUDGET_EXCEEDED">>,
            <<"resolution", "RESOLUTION_TOO_SMALL">>, <<"decode", "IMAGE_UNREADABLE">>,
            <<"frame", "BLURRY">> >>

Fails(f, gate) ==
    \/ gate \in f.defects
    \/ gate = "pixels" /\ Frame(f)[1] * Frame(f)[2] > MaxPixels
    \/ gate = "resolution" /\ SmallerOf(Frame(f)[1], Frame(f)[2]) < MinDimension

Failed(f) == {i \in 1..9 : Fails(f, Gates[i][1])}
FirstFailed(f) == CHOOSE i \in Failed(f) : \A j \in Failed(f) : i <= j

BoxOf(f, face) == TrueBox(face, Frame(f)[1], Frame(f)[2])

Confident(f) == {face \in f.faces : face.score = "sure"}

\* Mutation: the faces are counted before the small ones are left out.
UsableAnySize(f) == Confident(f)

Usable(f) == {face \in Confident(f) : ShortSide(BoxOf(f, face)) >= FaceMinPixels}

\* What the pixels are after sharp's own rotation.
Extractable(f, box) ==
    IF f.orientation \in 5..8 THEN Inside(box, f.height, f.width)
    ELSE Inside(box, f.width, f.height)

\* pHash throws, or normalizeImage does: sharp fails, or EXIF survives.
Unstorable(f) == f.throws

\* laplacianVariance inside the box, which throws on a region outside the pixels,
\* then the hash and the re-encoding of a photo that passed.
Measured(f, face) ==
    LET box == BoxOf(f, face)
    IN  CASE 100 * box.width * box.height < AreaPercent * Frame(f)[1] * Frame(f)[2] -> "FACE_TOO_SMALL"
          [] ~Extractable(f, box) -> "IMAGE_UNREADABLE"
          [] ~face.sharp -> "BLURRY"
          [] Unstorable(f) -> "IMAGE_UNREADABLE"
          [] OTHER -> "OK"

\* The gates from the detector on.  Faces seen but none of them sure: too small if
\* even the largest is, which every box is at least a pixel for.
FaceVerdict(f) ==
    LET seenSmall == /\ f.faces # {}
                     /\ \A face \in f.faces : ShortSide(BoxOf(f, face)) < FaceMinPixels
    IN  CASE f.throws /\ f.faces = {} -> "IMAGE_UNREADABLE"
          [] Confident(f) = {} -> IF seenSmall THEN "FACE_TOO_SMALL" ELSE "NO_FACE"
          [] Usable(f) = {} -> "FACE_TOO_SMALL"
          [] Cardinality(Usable(f)) > 1 -> "MULTIPLE_FACES"
          [] OTHER -> Measured(f, CHOOSE face \in Usable(f) : TRUE)

\* The verdict of a file on its own, with the detector ready.
VerdictOf(f) == IF Failed(f) # {} THEN Gates[FirstFailed(f)][2] ELSE FaceVerdict(f)
=============================================================================
