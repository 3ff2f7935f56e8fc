------------------------------ MODULE FaceBox ------------------------------
(* server/src/lib/faceBox.ts: the true box of a face, from the detector's box  *)
(* or from the extremes of its landmarks.  The paddings of the code are         *)
(* hundredths, so a coordinate before rounding is an integer number of          *)
(* hundredths of a pixel.                                                       *)
EXTENDS Integers

CONSTANT NoBox   \* null: no landmarks, or degenerate ones

SmallerOf(a, b) == IF a < b THEN a ELSE b
LargerOf(a, b) == IF a < b THEN b ELSE a
Clamp(v, lo, hi) == LargerOf(lo, SmallerOf(hi, v))

\* Math.round(n / 100): halves go up.
Round(n) == (n + 50) \div 100

Box(left, top, width, height) ==
    [left |-> left, top |-> top, width |-> width, height |-> height]

\* Of the 68 landmarks only the extremes count: p.minX and p.maxX over all of them,
\* p.browY the topmost brow, p.chinY the lowest point of the jaw.
FaceBoxFromLandmarks(p, imgW, imgH) ==
    LET browToChin == p.chinY - p.browY
        padX == 6 * (p.maxX - p.minX)
        left == Clamp(Round(100 * p.minX - padX), 0, imgW)
        top == Clamp(Round(100 * p.browY - 55 * browToChin), 0, imgH)
        right == Clamp(Round(100 * p.maxX + padX), 0, imgW)
        bottom == Clamp(Round(100 * p.chinY + 6 * browToChin), 0, imgH)
    IN  IF browToChin <= 0 \/ right - left < 1 \/ bottom - top < 1
        THEN NoBox
        ELSE Box(left, top, right - left, bottom - top)

GrowDetectorBox(b, imgW, imgH) ==
    LET left == Clamp(Round(100 * b.x - 5 * b.width), 0, imgW)
        top == Clamp(Round(100 * b.y - 30 * b.height), 0, imgH)
        right == Clamp(Round(100 * b.x + 105 * b.width), 0, imgW)
        bottom == Clamp(Round(100 * b.y + 115 * b.height), 0, imgH)
    IN  Box(left, top, LargerOf(1, right - left), LargerOf(1, bottom - top))

\* Mutation: a box that starts on the far edge is left there.
ClampBoxToEdge(box, imgW, imgH) ==
    LET left == Clamp(box.left, 0, imgW)
        top == Clamp(box.top, 0, imgH)
    IN  Box(left, top, LargerOf(1, SmallerOf(box.width, imgW - left)),
            LargerOf(1, SmallerOf(box.height, imgH - top)))

\* Strictly inside the image, where sharp can extract it.
ClampBox(box, imgW, imgH) ==
    LET left == Clamp(box.left, 0, LargerOf(0, imgW - 1))
        top == Clamp(box.top, 0, LargerOf(0, imgH - 1))
    IN  Box(left, top, LargerOf(1, SmallerOf(box.width, imgW - left)),
            LargerOf(1, SmallerOf(box.height, imgH - top)))

ShortSide(box) == SmallerOf(box.width, box.height)

\* trueBox of validateFile: the landmarks' box, or the detector's when there is none.
TrueBox(face, imgW, imgH) ==
    LET fromLandmarks == IF face.points = NoBox THEN NoBox
                         ELSE FaceBoxFromLandmarks(face.points, imgW, imgH)
    IN  ClampBox(IF fromLandmarks = NoBox THEN GrowDetectorBox(face.box, imgW, imgH)
                 ELSE fromLandmarks, imgW, imgH)

\* What sharp's extract asks of a region.
Inside(box, imgW, imgH) ==
    /\ box.left >= 0 /\ box.width >= 1 /\ box.left + box.width <= imgW
    /\ box.top >= 0 /\ box.height >= 1 /\ box.top + box.height <= imgH
=============================================================================
