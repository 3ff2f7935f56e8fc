--------------------------- MODULE MCMeasureFiles ---------------------------
(* Two requests of two files each, over frames of 12 by 8 pixels: small enough  *)
(* to enumerate, large enough for a face to be too small, at the border, half    *)
(* out of the frame, beyond its far edge, or in a frame whose sides are swapped. *)
EXTENDS MeasureFiles

Detected(x, y, side) == [x |-> x, y |-> y, width |-> side, height |-> side]
Marks(minX, maxX, browY, chinY) ==
    [minX |-> minX, maxX |-> maxX, browY |-> browY, chinY |-> chinY]
Face(score, box, points, sharp) ==
    [score |-> score, box |-> box, points |-> points, sharp |-> sharp]
Photo(defects, orientation, faces, throws) ==
    [defects |-> defects, width |-> 12, height |-> 8, orientation |-> orientation,
     faces |-> faces, throws |-> throws]

Middle == Face("sure", Detected(4, 3, 3), Marks(3, 8, 2, 6), TRUE)
Soft == Face("sure", Detected(4, 3, 3), Marks(3, 8, 2, 6), FALSE)
Poster == Face("sure", Detected(1, 1, 1), Marks(1, 2, 1, 2), TRUE)
Corner == Face("sure", Detected(-2, -2, 6), NoBox, TRUE)
Upended == Face("sure", Detected(2, 2, 4), Marks(2, 6, 5, 4), TRUE)
Passing == Face("sure", Detected(6, 4, 4), Marks(5, 10, 4, 8), TRUE)
Beyond == Face("weak", Detected(14, 9, 4), NoBox, TRUE)

Selfie == Photo({}, 1, {Middle}, FALSE)
Crowd == Photo({}, 1, {Middle, Poster, Beyond}, FALSE)
Group == Photo({}, 1, {Middle, Corner}, FALSE)
Rotated == Photo({}, 6, {Passing}, FALSE)
Blurred == Photo({}, 1, {Soft}, FALSE)
Unsure == Photo({}, 1, {Beyond}, FALSE)
Sky == Photo({}, 1, {}, FALSE)
Fallback == Photo({}, 3, {Upended}, FALSE)
Crashing == Photo({}, 1, {}, TRUE)
Unsaved == Photo({}, 1, {Middle}, TRUE)
Pdf == Photo({"format", "header", "few bytes"}, 1, {}, FALSE)
Thumbnail == [Selfie EXCEPT !.width = 4]
Bomb == [Selfie EXCEPT !.width = 40, !.defects = {"frame"}]

MCPhotos == {Selfie, Crowd, Group, Rotated, Blurred, Unsure, Sky, Fallback, Crashing,
             Unsaved, Pdf, Thumbnail, Bomb}
MCBatches == { <<Selfie, Crashing>>, <<Crowd, Pdf>>, <<Rotated, Group>>, <<Blurred, Thumbnail>>,
               <<Unsure, Sky>>, <<Fallback, Bomb>>, <<Unsaved, None>> }
=============================================================================
