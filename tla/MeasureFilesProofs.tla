------------------------- MODULE MeasureFilesProofs -------------------------
(* Phase 1 for any requests, any photos and any limits.  That faces which do    *)
(* not count cannot cost a photo its acceptance, and that every face found lies  *)
(* in the frame, are facts about the photos; the loads need an invariant that   *)
(* ties the promise the module keeps to the loads under way (Kept), and the      *)
(* verdicts one that ties each to its own file (Own).                            *)
EXTENDS MeasureFiles, TLAPS

-----------------------------------------------------------------------------
(* faceBox.ts: every box that validateFile measures lies inside the frame, for *)
(* every frame and every detection.  The landmarks' box does so already; the    *)
(* detector's, grown to the far edge, does only after clampBox.                *)
Dimension == Nat \ {0}
BoxType == [left : Int, top : Int, width : Int, height : Int]

LEMMA ClampBounds ==
  ASSUME NEW v \in Int, NEW hi \in Nat
  PROVE  Clamp(v, 0, hi) \in 0..hi
  BY DEF Clamp, LargerOf, SmallerOf

LEMMA RoundInt ==
  ASSUME NEW n \in Int
  PROVE  Round(n) \in Int
  BY DEF Round

\* clampBox: whatever box comes in, the one that goes out can be extracted.
THEOREM ClampBoxInside ==
  ASSUME NEW W \in Dimension, NEW H \in Dimension, NEW box \in BoxType
  PROVE  ClampBox(box, W, H) \in BoxType /\ Inside(ClampBox(box, W, H), W, H)
<1> DEFINE left == Clamp(box.left, 0, LargerOf(0, W - 1))
           top == Clamp(box.top, 0, LargerOf(0, H - 1))
<1>1. box.left \in Int /\ box.top \in Int /\ box.width \in Int /\ box.height \in Int
  BY DEF BoxType
<1>2. left \in 0..(W - 1)
  <2>1. LargerOf(0, W - 1) = W - 1 /\ W - 1 \in Nat
    BY DEF LargerOf, Dimension
  <2> QED BY <1>1, <2>1, ClampBounds
<1>3. top \in 0..(H - 1)
  <2>1. LargerOf(0, H - 1) = H - 1 /\ H - 1 \in Nat
    BY DEF LargerOf, Dimension
  <2> QED BY <1>1, <2>1, ClampBounds
<1>4. LargerOf(1, SmallerOf(box.width, W - left)) \in 1..(W - left)
  BY <1>1, <1>2 DEF LargerOf, SmallerOf, Dimension
<1>5. LargerOf(1, SmallerOf(box.height, H - top)) \in 1..(H - top)
  BY <1>1, <1>3 DEF LargerOf, SmallerOf, Dimension
<1>6. ClampBox(box, W, H) = Box(left, top, LargerOf(1, SmallerOf(box.width, W - left)),
                                LargerOf(1, SmallerOf(box.height, H - top)))
  BY DEF ClampBox
<1> HIDE DEF left, top
<1> QED BY <1>2, <1>3, <1>4, <1>5, <1>6 DEF Inside, Box, BoxType, Dimension

\* clampBox leaves a box that is inside as it is.
THEOREM ClampBoxKeeps ==
  ASSUME NEW W \in Dimension, NEW H \in Dimension, NEW box \in BoxType, Inside(box, W, H)
  PROVE  ClampBox(box, W, H) = box
<1>1. box.left \in 0..(W - 1) /\ box.top \in 0..(H - 1)
  BY DEF BoxType, Inside, Dimension
<1>2. Clamp(box.left, 0, LargerOf(0, W - 1)) = box.left
  BY <1>1 DEF Clamp, LargerOf, SmallerOf, Dimension
<1>3. Clamp(box.top, 0, LargerOf(0, H - 1)) = box.top
  BY <1>1 DEF Clamp, LargerOf, SmallerOf, Dimension
<1>4. LargerOf(1, SmallerOf(box.width, W - box.left)) = box.width
  BY <1>1 DEF LargerOf, SmallerOf, Dimension, Inside, BoxType
<1>5. LargerOf(1, SmallerOf(box.height, H - box.top)) = box.height
  BY <1>1 DEF LargerOf, SmallerOf, Dimension, Inside, BoxType
<1>6. ClampBox(box, W, H) = Box(box.left, box.top, box.width, box.height)
  BY <1>2, <1>3, <1>4, <1>5 DEF ClampBox
<1> QED BY <1>6 DEF Box, BoxType

\* growDetectorBox gives a box, though it may start on the far edge.
LEMMA GrowType ==
  ASSUME NEW W \in Dimension, NEW H \in Dimension,
         NEW b \in [x : Int, y : Int, width : Int, height : Int]
  PROVE  GrowDetectorBox(b, W, H) \in BoxType
<1> DEFINE left == Clamp(Round(100 * b.x - 5 * b.width), 0, W)
           top == Clamp(Round(100 * b.y - 30 * b.height), 0, H)
           right == Clamp(Round(100 * b.x + 105 * b.width), 0, W)
           bottom == Clamp(Round(100 * b.y + 115 * b.height), 0, H)
<1>1. /\ 100 * b.x - 5 * b.width \in Int /\ 100 * b.y - 30 * b.height \in Int
      /\ 100 * b.x + 105 * b.width \in Int /\ 100 * b.y + 115 * b.height \in Int
  OBVIOUS
<1>2. W \in Nat /\ H \in Nat
  BY DEF Dimension
<1>3. left \in Int /\ top \in Int /\ right \in Int /\ bottom \in Int
  <2>1. left \in 0..W
    BY <1>1, <1>2, RoundInt, ClampBounds
  <2>2. top \in 0..H
    BY <1>1, <1>2, RoundInt, ClampBounds
  <2>3. right \in 0..W
    BY <1>1, <1>2, RoundInt, ClampBounds
  <2>4. bottom \in 0..H
    BY <1>1, <1>2, RoundInt, ClampBounds
  <2> QED BY <2>1, <2>2, <2>3, <2>4
<1>4. GrowDetectorBox(b, W, H)
        = Box(left, top, LargerOf(1, right - left), LargerOf(1, bottom - top))
  BY DEF GrowDetectorBox
<1> HIDE DEF left, top, right, bottom
<1> QED BY <1>3, <1>4 DEF Box, BoxType, LargerOf

\* faceBoxFromLandmarks gives up or gives a box that is inside already.
THEOREM LandmarksInside ==
  ASSUME NEW W \in Dimension, NEW H \in Dimension,
         NEW p \in [minX : Int, maxX : Int, browY : Int, chinY : Int],
         FaceBoxFromLandmarks(p, W, H) # NoBox
  PROVE  /\ FaceBoxFromLandmarks(p, W, H) \in BoxType
         /\ Inside(FaceBoxFromLandmarks(p, W, H), W, H)
<1> DEFINE browToChin == p.chinY - p.browY
           padX == 6 * (p.maxX - p.minX)
           left == Clamp(Round(100 * p.minX - padX), 0, W)
           top == Clamp(Round(100 * p.browY - 55 * browToChin), 0, H)
           right == Clamp(Round(100 * p.maxX + padX), 0, W)
           bottom == Clamp(Round(100 * p.chinY + 6 * browToChin), 0, H)
<1>1. /\ 100 * p.minX - padX \in Int /\ 100 * p.browY - 55 * browToChin \in Int
      /\ 100 * p.maxX + padX \in Int /\ 100 * p.chinY + 6 * browToChin \in Int
  OBVIOUS
<1>2. W \in Nat /\ H \in Nat
  BY DEF Dimension
<1>3. left \in 0..W /\ top \in 0..H /\ right \in 0..W /\ bottom \in 0..H
  <2>1. left \in 0..W
    BY <1>1, <1>2, RoundInt, ClampBounds
  <2>2. top \in 0..H
    BY <1>1, <1>2, RoundInt, ClampBounds
  <2>3. right \in 0..W
    BY <1>1, <1>2, RoundInt, ClampBounds
  <2>4. bottom \in 0..H
    BY <1>1, <1>2, RoundInt, ClampBounds
  <2> QED BY <2>1, <2>2, <2>3, <2>4
<1>4. FaceBoxFromLandmarks(p, W, H)
        = IF browToChin <= 0 \/ right - left < 1 \/ bottom - top < 1
          THEN NoBox ELSE Box(left, top, right - left, bottom - top)
  BY DEF FaceBoxFromLandmarks
<1> HIDE DEF left, top, right, bottom
<1>5. /\ ~(right - left < 1) /\ ~(bottom - top < 1)
      /\ FaceBoxFromLandmarks(p, W, H) = Box(left, top, right - left, bottom - top)
  BY <1>4
<1> QED BY <1>2, <1>3, <1>5 DEF Box, BoxType, Inside

LEMMA TrueBoxFrom ==
  ASSUME NEW W \in Dimension, NEW H \in Dimension, NEW face,
         face.box \in [x : Int, y : Int, width : Int, height : Int],
         face.points \in [minX : Int, maxX : Int, browY : Int, chinY : Int] \cup {NoBox}
  PROVE  \E box \in BoxType : TrueBox(face, W, H) = ClampBox(box, W, H)
<1>1. CASE face.points = NoBox
  BY <1>1, GrowType DEF TrueBox
<1>2. CASE face.points # NoBox /\ FaceBoxFromLandmarks(face.points, W, H) = NoBox
  BY <1>2, GrowType DEF TrueBox
<1>3. CASE face.points # NoBox /\ FaceBoxFromLandmarks(face.points, W, H) # NoBox
  <2>1. face.points \in [minX : Int, maxX : Int, browY : Int, chinY : Int]
    BY <1>3
  <2>2. FaceBoxFromLandmarks(face.points, W, H) \in BoxType
    BY <1>3, <2>1, LandmarksInside
  <2> QED BY <1>3, <2>2 DEF TrueBox
<1> QED BY <1>1, <1>2, <1>3

\* trueBox of validateFile: the box a face is measured in can always be extracted.
THEOREM TrueBoxInside ==
  ASSUME NEW W \in Dimension, NEW H \in Dimension, NEW face,
         face.box \in [x : Int, y : Int, width : Int, height : Int],
         face.points \in [minX : Int, maxX : Int, browY : Int, chinY : Int] \cup {NoBox}
  PROVE  TrueBox(face, W, H) \in BoxType /\ Inside(TrueBox(face, W, H), W, H)
  BY TrueBoxFrom, ClampBoxInside

-----------------------------------------------------------------------------
(* validateFile and measureFiles.                                              *)

\* The photos of a batch are files.
LEMMA BatchPhotos ==
  ASSUME NEW b \in Batches, NEW i \in 1..MaxFiles, b[i] # None
  PROVE  b[i] \in File
  BY BatchesOK DEF File

LEMMA FrameType ==
  ASSUME NEW f \in File
  PROVE  Frame(f)[1] \in Dimension /\ Frame(f)[2] \in Dimension
  BY DEF Frame, File, Dimension

LEMMA BoxExtractable ==
  ASSUME NEW f \in File, NEW face \in f.faces
  PROVE  Extractable(f, BoxOf(f, face))
<1>1. face \in DetectedFace
  BY DEF File
<1>2. /\ face.box \in [x : Int, y : Int, width : Int, height : Int]
      /\ face.points \in [minX : Int, maxX : Int, browY : Int, chinY : Int] \cup {NoBox}
  BY <1>1 DEF DetectedFace
<1>3. Inside(TrueBox(face, Frame(f)[1], Frame(f)[2]), Frame(f)[1], Frame(f)[2])
  BY <1>2, FrameType, TrueBoxInside
<1>4. f.orientation \in 1..8
  BY DEF File
<1>5. CASE f.orientation >= 5
  BY <1>3, <1>4, <1>5 DEF Extractable, BoxOf, Frame
<1>6. CASE f.orientation < 5
  BY <1>3, <1>4, <1>6 DEF Extractable, BoxOf, Frame
<1> QED BY <1>4, <1>5, <1>6

\* A face that is not sure, or too small, is not among the usable ones.
LEMMA WithoutBystander ==
  ASSUME NEW f \in File, NEW face \in f.faces,
         face.score = "weak" \/ ShortSide(BoxOf(f, face)) < FaceMinPixels,
         NEW g, g = [f EXCEPT !.faces = @ \ {face}]
  PROVE  /\ Usable(g) = Usable(f) /\ Failed(g) = Failed(f)
         /\ Frame(g) = Frame(f) /\ g.throws = f.throws
         /\ \A box : Extractable(g, box) = Extractable(f, box)
<1>1. /\ g.faces = f.faces \ {face} /\ g.defects = f.defects /\ g.throws = f.throws
      /\ g.width = f.width /\ g.height = f.height /\ g.orientation = f.orientation
  BY DEF File
<1>2. Frame(g) = Frame(f)
  BY <1>1 DEF Frame
<1>3. Failed(g) = Failed(f)
  BY <1>1, <1>2 DEF Failed, Fails
<1>4. \A box : Extractable(g, box) = Extractable(f, box)
  BY <1>1 DEF Extractable
<1>5. \A x : BoxOf(g, x) = BoxOf(f, x)
  BY <1>2 DEF BoxOf
<1>6. face \notin Usable(f)
  <2>1. CASE face.score = "weak"
    BY <2>1 DEF Usable, Confident
  <2>2. CASE ShortSide(BoxOf(f, face)) < FaceMinPixels
    <3>1. ShortSide(BoxOf(f, face)) \in Int /\ FaceMinPixels \in Int
      <4>1. face.box \in [x : Int, y : Int, width : Int, height : Int]
        BY DEF File, DetectedFace
      <4>2. face.points \in [minX : Int, maxX : Int, browY : Int, chinY : Int] \cup {NoBox}
        BY DEF File, DetectedFace
      <4>3. TrueBox(face, Frame(f)[1], Frame(f)[2]) \in BoxType
        BY <4>1, <4>2, FrameType, TrueBoxInside
      <4> QED BY <4>3, LimitsOK DEF BoxOf, BoxType, ShortSide, SmallerOf
    <3> QED BY <2>2, <3>1 DEF Usable
  <2> QED BY <2>1, <2>2
<1>7. Usable(g) = Usable(f)
  BY <1>1, <1>5, <1>6 DEF Usable, Confident
<1> QED BY <1>1, <1>2, <1>3, <1>4, <1>7

\* The first failed gate is one of the nine.
LEMMA FirstFailedIn ==
  ASSUME NEW f, Failed(f) # {}
  PROVE  FirstFailed(f) \in Failed(f) /\ FirstFailed(f) \in 1..9
<1>1. Failed(f) \subseteq 1..9
  BY DEF Failed
<1>2. \E i \in Failed(f) : \A j \in Failed(f) : i <= j
  <2> SUFFICES ASSUME \A i \in Failed(f) : \E j \in Failed(f) : j < i PROVE FALSE
    BY <1>1
  <2>1. 1 \notin Failed(f)
    BY <1>1
  <2>2. 2 \notin Failed(f)
    BY <1>1, <2>1
  <2>3. 3 \notin Failed(f)
    <3>1. \A j \in Failed(f) : ~(j < 3)
      BY <1>1, <2>1, <2>2
    <3> QED BY <3>1
  <2>4. 4 \notin Failed(f)
    BY <1>1, <2>1, <2>2, <2>3
  <2>5. 5 \notin Failed(f)
    BY <1>1, <2>1, <2>2, <2>3, <2>4
  <2>6. 6 \notin Failed(f)
    BY <1>1, <2>1, <2>2, <2>3, <2>4, <2>5
  <2>7. 7 \notin Failed(f)
    BY <1>1, <2>1, <2>2, <2>3, <2>4, <2>5, <2>6
  <2>8. 8 \notin Failed(f)
    BY <1>1, <2>1, <2>2, <2>3, <2>4, <2>5, <2>6, <2>7
  <2>9. 9 \notin Failed(f)
    BY <1>1, <2>1, <2>2, <2>3, <2>4, <2>5, <2>6, <2>7, <2>8
  <2> QED BY <1>1, <2>1, <2>2, <2>3, <2>4, <2>5, <2>6, <2>7, <2>8, <2>9
<1> QED BY <1>1, <1>2 DEF FirstFailed

LEMMA GateReasons == \A i \in 1..9 : Gates[i][2] \in Verdicts \ {"OK"}
<1>1. /\ Gates[1][2] = "FILE_TOO_SMALL" /\ Gates[2][2] = "FILE_TOO_LARGE"
      /\ Gates[3][2] = "UNSUPPORTED_FORMAT" /\ Gates[4][2] = "IMAGE_UNREADABLE"
      /\ Gates[5][2] = "IMAGE_UNREADABLE" /\ Gates[6][2] = "PIXEL_BUDGET_EXCEEDED"
      /\ Gates[7][2] = "RESOLUTION_TOO_SMALL" /\ Gates[8][2] = "IMAGE_UNREADABLE"
      /\ Gates[9][2] = "BLURRY"
  BY DEF Gates, Sniff, ToDecodable
<1>2. \A i \in 1..9 : i = 1 \/ i = 2 \/ i = 3 \/ i = 4 \/ i = 5 \/ i = 6 \/ i = 7 \/ i = 8 \/ i = 9
  OBVIOUS
<1> QED BY <1>1, <1>2 DEF Verdicts

LEMMA AcceptedHasUsable ==
  ASSUME NEW f, FaceVerdict(f) = "OK"
  PROVE  /\ Usable(f) # {} /\ ~(Cardinality(Usable(f)) > 1)
         /\ Measured(f, CHOOSE face \in Usable(f) : TRUE) = "OK"
<1>1. ~(f.throws /\ f.faces = {}) /\ Confident(f) # {} /\ Usable(f) # {}
      /\ ~(Cardinality(Usable(f)) > 1)
  BY DEF FaceVerdict
<1> QED BY <1>1 DEF FaceVerdict

LEMMA BystanderIgnored ==
  ASSUME NEW f \in File, NEW face \in f.faces,
         face.score = "weak" \/ ShortSide(BoxOf(f, face)) < FaceMinPixels,
         VerdictOf([f EXCEPT !.faces = @ \ {face}]) = "OK"
  PROVE  VerdictOf(f) = "OK"
<1> DEFINE g == [f EXCEPT !.faces = @ \ {face}]
           one == CHOOSE x \in Usable(f) : TRUE
<1>1. /\ Usable(g) = Usable(f) /\ Failed(g) = Failed(f) /\ Frame(g) = Frame(f)
      /\ g.throws = f.throws /\ \A box : Extractable(g, box) = Extractable(f, box)
  BY WithoutBystander
<1>2. Failed(g) = {}
  <2>1. SUFFICES ASSUME Failed(g) # {} PROVE FALSE
    OBVIOUS
  <2>2. Gates[FirstFailed(g)][2] = "OK"
    BY <2>1 DEF VerdictOf
  <2>3. FirstFailed(g) \in 1..9
    BY <2>1, FirstFailedIn
  <2>4. \A i \in 1..9 : Gates[i][2] \in Verdicts \ {"OK"}
    BY GateReasons
  <2> QED BY <2>2, <2>3, <2>4
<1>3. FaceVerdict(g) = "OK"
  BY <1>2 DEF VerdictOf
<1>4. Usable(f) # {} /\ ~(Cardinality(Usable(f)) > 1) /\ Measured(g, one) = "OK"
  BY <1>1, <1>3, AcceptedHasUsable
<1>5. Measured(f, one) = "OK"
  BY <1>1, <1>4 DEF Measured, Unstorable, BoxOf
<1>6. f.faces # {} /\ Confident(f) # {}
  BY <1>4 DEF Usable, Confident
<1>7. FaceVerdict(f) = "OK"
  BY <1>4, <1>5, <1>6 DEF FaceVerdict
<1> QED BY <1>1, <1>2, <1>7 DEF VerdictOf

\* A file under way is a photo of its batch, and only a batch is answered.
VerdictType ==
    /\ TypeOK
    /\ \A r \in Requests : answer[r] # None => batch[r] # None
    /\ \A s \in Slots : stage[s] \in {"gates", "waiting"} =>
          batch[s[1]] # None /\ batch[s[1]][s[2]] # None

LEMMA FaceVerdictType == ASSUME NEW f PROVE FaceVerdict(f) \in Verdicts
<1>1. \A face : Measured(f, face) \in Verdicts
  BY DEF Measured, Verdicts
<1> QED BY <1>1 DEF FaceVerdict, Verdicts

LEMMA LoadsAreNumbered == Loads \subseteq 0..MaxLoads
<1>1. MaxLoads \in Nat
  BY BatchesOK
<1> QED BY <1>1 DEF Loads

LEMMA TypeStep == VerdictType /\ [Next]_vars => VerdictType'
<1> SUFFICES ASSUME VerdictType, [Next]_vars PROVE VerdictType'
  OBVIOUS
<1> USE DEF VerdictType, TypeOK, Loads
<1>0. \A s \in Slots : s[1] \in Requests /\ s[2] \in 1..MaxFiles /\ s = <<s[1], s[2]>>
  BY DEF Slots
<1>1. ASSUME NEW r \in Requests, NEW b \in Batches, Begin(r, b)
      PROVE  VerdictType'
  <2>1. b # None
    BY BatchesOK
  <2> QED BY <1>0, <1>1, <2>1 DEF Begin
<1>2. ASSUME NEW s \in Slots, RefuseEarly(s)
      PROVE  VerdictType'
  <2>1. Gates[FirstFailed(PhotoAt(s))][2] \in Verdicts
    BY <1>2, FirstFailedIn, GateReasons DEF RefuseEarly
  <2> QED BY <1>2, <2>1 DEF RefuseEarly, Settle
<1>3. ASSUME NEW s \in Slots, Await(s)
      PROVE  VerdictType'
  <2>1. PICK p \in Loads : joined' = [joined EXCEPT ![s] = p]
    BY <1>3 DEF Await, EnsureReady
  <2>2. loadPromise' \in 0..MaxLoads
    BY <1>3, LoadsAreNumbered DEF Await, EnsureReady
  <2>3. load' \in [Loads -> {"none", "pending", "ok", "rejected"}]
    BY <1>3 DEF Await, EnsureReady
  <2>4. /\ stage[s] = "gates" /\ stage' = [stage EXCEPT ![s] = "waiting"]
        /\ UNCHANGED <<batch, verdict, answer>>
    BY <1>3 DEF Await
  <2>5. joined' \in [Slots -> 0..MaxLoads]
    BY <2>1
  <2> QED BY <2>2, <2>3, <2>4, <2>5
<1>4. ASSUME NEW s \in Slots, Detect(s)
      PROVE  VerdictType'
  <2>1. PhotoAt(s) \in Photos
    BY <1>0, <1>4, BatchesOK DEF Detect, PhotoAt
  <2>2. Seen[PhotoAt(s)] \in Verdicts
    BY <2>1, FaceVerdictType DEF Seen
  <2>3. PICK v \in Verdicts : Settle(s, v)
    BY <1>4, <2>2 DEF Detect, Verdicts
  <2>4. UNCHANGED <<batch, answer, loadPromise, load, joined>>
    BY <1>4 DEF Detect
  <2> QED BY <2>3, <2>4 DEF Settle
<1>5. ASSUME NEW r \in Requests, Answer(r)
      PROVE  VerdictType'
  <2>1. [i \in 1..MaxFiles |-> verdict[<<r, i>>]] \in [1..MaxFiles -> Verdicts \cup {None}]
    BY DEF Slots
  <2> QED BY <1>5, <2>1 DEF Answer
<1>6. ASSUME NEW p \in Loads, LoadSucceeds(p) \/ LoadFails(p)
      PROVE  VerdictType'
  <2>1. load' \in [Loads -> {"none", "pending", "ok", "rejected"}]
    BY <1>6 DEF LoadSucceeds, LoadFails
  <2>2. loadPromise' \in {loadPromise, 0} /\ UNCHANGED <<batch, stage, verdict, answer, joined>>
    BY <1>6 DEF LoadSucceeds, LoadFails
  <2>3. 0 \in 0..MaxLoads
    BY BatchesOK
  <2> QED BY <2>1, <2>2, <2>3
<1>7. CASE UNCHANGED vars
  BY <1>7 DEF vars
<1> QED BY <1>1, <1>2, <1>3, <1>4, <1>5, <1>6, <1>7 DEF Next, Measure, Loaded

LEMMA TypeInit == Init => VerdictType
  BY BatchesOK DEF Init, VerdictType, TypeOK, Loads

\* Every variable keeps its type, for any requests, photos, limits and loads.
THEOREM TypeCorrect == Spec => []TypeOK
<1>1. VerdictType => TypeOK
  BY DEF VerdictType
<1> QED BY <1>1, TypeInit, TypeStep, PTL DEF Spec

\* Every face that the detector finds in a photo of a batch lies in the frame it is
\* measured in (validateFile, trueBox), for every frame and every detection.
THEOREM MeasuredInsideHolds == Spec => []MeasuredInside
<1>1. TypeOK => MeasuredInside
  <2> SUFFICES ASSUME TypeOK, NEW r \in Requests, batch[r] # None, NEW i \in 1..MaxFiles,
                      batch[r][i] # None, NEW face \in batch[r][i].faces
               PROVE  Extractable(batch[r][i], BoxOf(batch[r][i], face))
    BY DEF MeasuredInside
  <2>1. batch[r] \in Batches
    BY DEF TypeOK
  <2> QED BY <2>1, BatchPhotos, BoxExtractable
<1> QED BY <1>1, TypeCorrect, PTL

\* A face that does not count never costs a photo its acceptance (validateFile,
\* rule 6), for every photo and every configuration of the limits.
THEOREM CrowdIgnoredHolds == Spec => []CrowdIgnored
<1>1. VerdictType => CrowdIgnored
  <2> SUFFICES ASSUME VerdictType, NEW r \in Requests, answer[r] # None, NEW i \in 1..MaxFiles,
                      batch[r][i] # None, NEW face \in batch[r][i].faces,
                      \/ face.score = "weak"
                      \/ ShortSide(BoxOf(batch[r][i], face)) < FaceMinPixels,
                      VerdictOf([batch[r][i] EXCEPT !.faces = @ \ {face}]) = "OK"
               PROVE  VerdictOf(batch[r][i]) = "OK"
    BY DEF CrowdIgnored
  <2>1. batch[r] \in Batches
    BY DEF VerdictType, TypeOK
  <2>2. batch[r][i] \in File
    BY <2>1, BatchPhotos
  <2> QED BY <2>2, BystanderIgnored
<1> QED BY <1>1, TypeInit, TypeStep, PTL DEF Spec

\* The load the module keeps is the one that is under way or has succeeded.
Kept ==
    /\ loadPromise # 0 => load[loadPromise] \in {"pending", "ok"}
    /\ \A p \in Loads : load[p] \in {"pending", "ok"} => p = loadPromise

\* A step on the loads that starts one when there is none, or ends the pending
\* one, keeps the tie.
LEMMA StartKeeps ==
  ASSUME Kept, load \in [Loads -> {"none", "pending", "ok", "rejected"}], loadPromise = 0,
         NEW p \in Loads, load' = [load EXCEPT ![p] = "pending"], loadPromise' = p
  PROVE  Kept'
<1>1. load'[p] = "pending"
  OBVIOUS
<1>2. ASSUME NEW q \in Loads, load'[q] \in {"pending", "ok"}
      PROVE  q = p
  <2>1. SUFFICES ASSUME q # p PROVE FALSE
    OBVIOUS
  <2>2. load[q] \in {"pending", "ok"}
    BY <1>2, <2>1
  <2>3. q = 0
    BY <2>2 DEF Kept
  <2> QED BY <2>3, BatchesOK DEF Loads
<1> QED BY <1>1, <1>2 DEF Kept

LEMMA EndKeeps ==
  ASSUME Kept, load \in [Loads -> {"none", "pending", "ok", "rejected"}],
         NEW p \in Loads, load[p] = "pending", NEW to \in {"ok", "rejected"},
         load' = [load EXCEPT ![p] = to],
         loadPromise' = IF to = "ok" THEN loadPromise ELSE 0
  PROVE  Kept'
<1>1. loadPromise = p
  BY DEF Kept
<1>2. load'[p] = to
  OBVIOUS
<1>3. ASSUME NEW q \in Loads, load'[q] \in {"pending", "ok"}
      PROVE  q = p
  <2>1. SUFFICES ASSUME q # p PROVE FALSE
    OBVIOUS
  <2>2. load[q] \in {"pending", "ok"}
    BY <1>3, <2>1
  <2> QED BY <2>1, <2>2, <1>1 DEF Kept
<1>4. CASE to = "ok"
  BY <1>1, <1>2, <1>3, <1>4 DEF Kept
<1>5. CASE to = "rejected"
  BY <1>1, <1>2, <1>3, <1>5 DEF Kept
<1> QED BY <1>4, <1>5

LEMMA KeptStep == VerdictType /\ Kept /\ [Next]_vars => Kept'
<1> SUFFICES ASSUME VerdictType, Kept, [Next]_vars PROVE Kept'
  OBVIOUS
<1>0. load \in [Loads -> {"none", "pending", "ok", "rejected"}]
  BY DEF VerdictType, TypeOK
<1>1. ASSUME NEW s \in Slots, Await(s)
      PROVE  Kept'
  <2>1. CASE loadPromise # 0
    BY <1>1, <2>1 DEF Await, EnsureReady, Kept
  <2>2. CASE loadPromise = 0
    <3>1. PICK p \in Loads : load' = [load EXCEPT ![p] = "pending"] /\ loadPromise' = p
      BY <1>1, <2>2 DEF Await, EnsureReady
    <3> QED BY <1>0, <2>2, <3>1, StartKeeps
  <2> QED BY <2>1, <2>2
<1>2. ASSUME NEW p \in Loads, LoadSucceeds(p) \/ LoadFails(p)
      PROVE  Kept'
  <2>1. CASE LoadSucceeds(p)
    BY <1>0, <2>1, EndKeeps DEF LoadSucceeds
  <2>2. CASE LoadFails(p)
    BY <1>0, <2>2, EndKeeps DEF LoadFails
  <2> QED BY <1>2, <2>1, <2>2
<1>3. ASSUME NEW s \in Slots, RefuseEarly(s) \/ Detect(s)
      PROVE  Kept'
  BY <1>3 DEF RefuseEarly, Detect, Kept
<1>4. ASSUME NEW r \in Requests, Answer(r) \/ \E b \in Batches : Begin(r, b)
      PROVE  Kept'
  BY <1>4 DEF Answer, Begin, Kept
<1>5. CASE UNCHANGED vars
  BY <1>5 DEF vars, Kept
<1> QED BY <1>1, <1>2, <1>3, <1>4, <1>5 DEF Next, Measure, Loaded

LEMMA KeptInit == Init => Kept
  BY DEF Init, Kept, Loads

\* The models are loaded at most once (ensureReady, single flight), however many
\* files of however many requests ask for them and however often a load fails.
THEOREM OneLoadHolds == Spec => []OneLoad
<1>1. Kept => OneLoad
  BY DEF Kept, OneLoad
<1> QED BY <1>1, KeptInit, KeptStep, TypeInit, TypeStep, PTL DEF Spec

\* No file ever joins a load that has failed (comment on ensureReady).
THEOREM FailureIsForgottenHolds == Spec => FailureIsForgotten
<1>1. ASSUME VerdictType, Kept, NEW s \in Slots, Await(s)
      PROVE  load'[joined'[s]] # "rejected"
  BY <1>1 DEF Await, EnsureReady, VerdictType, TypeOK, Kept, Loads
<1>2. VerdictType /\ Kept /\ [Next]_vars =>
        [\A s \in Slots : Await(s) => load'[joined'[s]] # "rejected"]_vars
  BY <1>1
<1> QED BY <1>2, KeptInit, KeptStep, TypeInit, TypeStep, PTL DEF Spec, FailureIsForgotten

-----------------------------------------------------------------------------
(* Each file's verdict is its own.  A file is under way exactly when its batch  *)
(* has it; one that waits has passed every gate before the detector; and what   *)
(* an answer says of a file is what that file's own slot has settled with.      *)
OwnVerdict(s) ==
    \/ verdict[s] = VerdictOf(PhotoAt(s))
    \/ verdict[s] = "IMAGE_UNREADABLE" /\ joined[s] # 0 /\ load[joined[s]] = "rejected"

Own ==
    /\ \A s \in Slots : stage[s] # "none" <=> (batch[s[1]] # None /\ PhotoAt(s) # None)
    /\ \A s \in Slots : stage[s] = "waiting" => joined[s] # 0 /\ Failed(PhotoAt(s)) = {}
    /\ \A s \in Slots : stage[s] = "settled" => OwnVerdict(s)
    /\ \A r \in Requests : answer[r] # None =>
          /\ batch[r] # None
          /\ \A i \in 1..MaxFiles : batch[r][i] # None =>
                stage[<<r, i>>] = "settled" /\ answer[r][i] = verdict[<<r, i>>]

LEMMA OwnInit == Init => Own
  BY DEF Init, Own, Slots

\* A file settles: nobody else's verdict, and no answer, is touched.
LEMMA SettleOwn ==
  ASSUME TypeOK, Own, NEW s \in Slots, stage[s] \in {"gates", "waiting"}, NEW v, Settle(s, v),
         UNCHANGED <<batch, answer, load, joined>>,
         v = VerdictOf(PhotoAt(s)) \/
            (v = "IMAGE_UNREADABLE" /\ joined[s] # 0 /\ load[joined[s]] = "rejected")
  PROVE  Own'
<1>1. stage'[s] = "settled" /\ verdict'[s] = v
  BY DEF TypeOK, Settle
<1>2. \A t \in Slots : t # s => stage'[t] = stage[t] /\ verdict'[t] = verdict[t]
  BY DEF TypeOK, Settle
<1>3. \A t \in Slots : PhotoAt(t)' = PhotoAt(t)
  BY DEF PhotoAt
<1>4. \A t \in Slots : stage'[t] # "none" <=> (batch'[t[1]] # None /\ PhotoAt(t)' # None)
  BY <1>1, <1>2, <1>3 DEF Own
<1>5. \A t \in Slots : stage'[t] = "waiting" => joined'[t] # 0 /\ Failed(PhotoAt(t)') = {}
  BY <1>1, <1>2, <1>3 DEF Own
<1>6. ASSUME NEW t \in Slots, stage'[t] = "settled"
      PROVE  OwnVerdict(t)'
  <2>1. CASE t = s
    BY <2>1, <1>1, <1>3 DEF OwnVerdict
  <2>2. CASE t # s
    <3>1. OwnVerdict(t)
      BY <2>2, <1>2, <1>6 DEF Own
    <3> QED BY <3>1, <2>2, <1>2, <1>3 DEF OwnVerdict
  <2> QED BY <2>1, <2>2
<1>7. ASSUME NEW r \in Requests, answer'[r] # None
      PROVE  /\ batch'[r] # None
             /\ \A i \in 1..MaxFiles : batch'[r][i] # None =>
                   stage'[<<r, i>>] = "settled" /\ answer'[r][i] = verdict'[<<r, i>>]
  <2>1. ASSUME NEW i \in 1..MaxFiles PROVE <<r, i>> \in Slots
    BY DEF Slots
  <2> QED BY <2>1, <1>2, <1>7 DEF Own
<1> QED BY <1>4, <1>5, <1>6, <1>7 DEF Own

\* A load ends: it was not rejected before, and the files keep what they have.
LEMMA LoadedOwn ==
  ASSUME TypeOK, Own, NEW p \in Loads, Loaded(p)
  PROVE  Own'
<1>1. /\ UNCHANGED <<batch, stage, verdict, answer, joined>>
      /\ \A q \in Loads : load[q] = "rejected" => load'[q] = "rejected"
  BY DEF Loaded, LoadSucceeds, LoadFails, TypeOK
<1>2. ASSUME NEW s \in Slots, OwnVerdict(s)
      PROVE  OwnVerdict(s)'
  <2>1. joined[s] # 0 => joined[s] \in Loads
    BY BatchesOK DEF TypeOK, Loads
  <2> QED BY <1>1, <1>2, <2>1 DEF OwnVerdict, PhotoAt
<1> QED BY <1>1, <1>2 DEF Own, PhotoAt

LEMMA OwnStep == VerdictType /\ Own /\ [Next]_vars => Own'
<1> SUFFICES ASSUME VerdictType, Own, [Next]_vars PROVE Own'
  OBVIOUS
<1> USE DEF VerdictType
<1>1. ASSUME NEW r \in Requests, NEW b \in Batches, Begin(r, b)
      PROVE  Own'
  <2>1. batch'[r] = b /\ b # None /\ answer[r] = None /\ answer' = answer
    BY <1>1, BatchesOK DEF Begin, TypeOK, Own
  <2>2. ASSUME NEW s \in Slots, s[1] = r
        PROVE  /\ stage[s] = "none" /\ stage'[s] \in {"none", "gates"}
               /\ stage'[s] # "none" <=> PhotoAt(s)' # None
    BY <1>1, <2>1, <2>2 DEF Begin, Own, PhotoAt
  <2>3. ASSUME NEW s \in Slots, s[1] # r
        PROVE  stage'[s] = stage[s] /\ batch'[s[1]] = batch[s[1]] /\ PhotoAt(s)' = PhotoAt(s)
    BY <1>1, <2>3 DEF Begin, TypeOK, PhotoAt, Slots
  <2>4. UNCHANGED <<verdict, answer, load, joined>>
    BY <1>1 DEF Begin
  <2>5. ASSUME NEW s \in Slots, stage'[s] = "settled" PROVE OwnVerdict(s)'
    <3>1. s[1] # r
      BY <2>2, <2>5
    <3> QED BY <3>1, <2>3, <2>4, <2>5 DEF Own, OwnVerdict
  <2>6. ASSUME NEW q \in Requests, answer'[q] # None
        PROVE  /\ batch'[q] # None
               /\ \A i \in 1..MaxFiles : batch'[q][i] # None =>
                     stage'[<<q, i>>] = "settled" /\ answer'[q][i] = verdict'[<<q, i>>]
    <3>1. q # r /\ batch'[q] = batch[q]
      BY <1>1, <2>1, <2>6 DEF Begin, TypeOK
    <3>2. \A i \in 1..MaxFiles : <<q, i>> \in Slots /\ stage'[<<q, i>>] = stage[<<q, i>>]
      BY <3>1, <2>3 DEF Slots
    <3> QED BY <3>1, <3>2, <2>4, <2>6 DEF Own
  <2>7. \A s \in Slots : stage'[s] # "none" <=> (batch'[s[1]] # None /\ PhotoAt(s)' # None)
    BY <2>1, <2>2, <2>3 DEF Own
  <2>8. \A s \in Slots : stage'[s] = "waiting" => joined'[s] # 0 /\ Failed(PhotoAt(s)') = {}
    BY <2>2, <2>3, <2>4 DEF Own
  <2> QED BY <2>5, <2>6, <2>7, <2>8 DEF Own
<1>2. ASSUME NEW s \in Slots, RefuseEarly(s)
      PROVE  Own'
  <2>1. Gates[FirstFailed(PhotoAt(s))][2] = VerdictOf(PhotoAt(s))
    BY <1>2 DEF RefuseEarly, VerdictOf
  <2> QED BY <1>2, <2>1, SettleOwn DEF RefuseEarly
<1>3. ASSUME NEW s \in Slots, Await(s)
      PROVE  Own'
  <2>1. PICK p \in Loads : joined' = [joined EXCEPT ![s] = p]
    BY <1>3 DEF Await, EnsureReady, TypeOK, Loads
  <2>2. /\ stage[s] = "gates" /\ stage' = [stage EXCEPT ![s] = "waiting"]
        /\ Failed(PhotoAt(s)) = {} /\ UNCHANGED <<batch, verdict, answer>>
    BY <1>3 DEF Await
  <2>3. p # 0 /\ \A q \in Loads : load[q] = "rejected" => load'[q] = "rejected"
    <3>1. p # 0
      BY BatchesOK DEF Loads
    <3>2. load' = load \/ \E o \in Loads : load[o] = "none" /\ load' = [load EXCEPT ![o] = "pending"]
      BY <1>3 DEF Await, EnsureReady
    <3> QED BY <3>1, <3>2 DEF TypeOK
  <2>4. ASSUME NEW t \in Slots, stage'[t] = "settled" PROVE OwnVerdict(t)'
    <3>1. t # s /\ OwnVerdict(t) /\ joined'[t] = joined[t]
      BY <2>1, <2>2, <2>4 DEF TypeOK, Own
    <3>2. joined[t] # 0 => joined[t] \in Loads
      BY BatchesOK DEF TypeOK, Loads
    <3> QED BY <2>2, <2>3, <3>1, <3>2 DEF OwnVerdict, PhotoAt
  <2>5. ASSUME NEW t \in Slots, stage'[t] = "waiting"
        PROVE  joined'[t] # 0 /\ Failed(PhotoAt(t)') = {}
    BY <2>1, <2>2, <2>3, <2>5 DEF TypeOK, Own, PhotoAt
  <2>6. \A t \in Slots : stage'[t] # "none" <=> (batch'[t[1]] # None /\ PhotoAt(t)' # None)
    BY <2>2 DEF TypeOK, Own, PhotoAt
  <2>7. \A t \in Slots : stage[t] = "settled" => stage'[t] = "settled"
    BY <2>2 DEF TypeOK
  <2> QED BY <2>2, <2>4, <2>5, <2>6, <2>7 DEF Own, Slots
<1>4. ASSUME NEW s \in Slots, Detect(s)
      PROVE  Own'
  <2>1. PhotoAt(s) \in Photos /\ joined[s] # 0 /\ Failed(PhotoAt(s)) = {}
    <3>1. s[1] \in Requests /\ s[2] \in 1..MaxFiles /\ stage[s] = "waiting"
      BY <1>4 DEF Detect, Slots
    <3>2. batch[s[1]] \in Batches /\ batch[s[1]][s[2]] # None
      BY <3>1 DEF TypeOK
    <3>3. PhotoAt(s) \in Photos
      BY <3>1, <3>2, BatchesOK DEF PhotoAt
    <3> QED BY <3>1, <3>3 DEF Own
  <2>2. Seen[PhotoAt(s)] = VerdictOf(PhotoAt(s))
    BY <2>1 DEF Seen, VerdictOf
  <2> QED BY <1>4, <2>1, <2>2, SettleOwn DEF Detect
<1>5. ASSUME NEW r \in Requests, Answer(r)
      PROVE  Own'
  <2>1. ASSUME NEW i \in 1..MaxFiles, batch[r][i] # None
        PROVE  stage[<<r, i>>] = "settled" /\ answer'[r][i] = verdict[<<r, i>>]
    <3>1. <<r, i>> \in FilesOf(r)
      BY <1>5, <2>1 DEF Answer, Own, FilesOf, Slots, PhotoAt
    <3> QED BY <1>5, <3>1 DEF Answer, TypeOK
  <2>2. \A q \in Requests : q # r => answer'[q] = answer[q]
    BY <1>5 DEF Answer, TypeOK
  <2>3. batch[r] # None /\ UNCHANGED <<batch, stage, verdict, load, joined>>
    BY <1>5 DEF Answer
  <2> QED BY <2>1, <2>2, <2>3 DEF Own, OwnVerdict, PhotoAt
<1>6. ASSUME NEW p \in Loads, Loaded(p)
      PROVE  Own'
  BY <1>6, LoadedOwn
<1>7. CASE UNCHANGED vars
  BY <1>7 DEF vars, Own, OwnVerdict, PhotoAt
<1> QED BY <1>1, <1>2, <1>3, <1>4, <1>5, <1>6, <1>7 DEF Next, Measure

\* What an answer says of a file is what the file would get alone, whatever its
\* siblings are and whoever loads the models with it (measureFiles).
THEOREM VerdictIsOwnHolds == Spec => []VerdictIsOwn
<1>1. Own => VerdictIsOwn
  <2> SUFFICES ASSUME Own, NEW r \in Requests, answer[r] # None, NEW i \in 1..MaxFiles,
                      batch[r][i] # None
               PROVE  \/ answer[r][i] = VerdictOf(batch[r][i])
                      \/ /\ answer[r][i] = "IMAGE_UNREADABLE"
                         /\ joined[<<r, i>>] # 0 /\ load[joined[<<r, i>>]] = "rejected"
    BY DEF VerdictIsOwn
  <2>1. <<r, i>> \in Slots /\ PhotoAt(<<r, i>>) = batch[r][i]
    BY DEF Slots, PhotoAt
  <2>2. stage[<<r, i>>] = "settled" /\ answer[r][i] = verdict[<<r, i>>]
    BY DEF Own
  <2> QED BY <2>1, <2>2 DEF Own, OwnVerdict
<1> QED BY <1>1, OwnInit, OwnStep, TypeInit, TypeStep, PTL DEF Spec
=============================================================================
