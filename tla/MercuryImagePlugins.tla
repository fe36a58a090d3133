------------------------ MODULE MercuryImagePlugins ------------------------
(***************************************************************************)
(* The plugins that alter the pixels of a processed frame: threshold,      *)
(* calibration, charge sharing by discrimination or addition.  They may be *)
(* connected in any order; a step applies one plugin, in one of its        *)
(* configurations, to the frame.                                           *)
(*                                                                         *)
(* An image is the array of its pixels, row by row.  Pixel values are      *)
(* floats in the code; the whole numbers used here are exact in them.  The *)
(* charge sharing plugins copy the image into one with a border of zeros   *)
(* and visit it with the number of rows as the stride, which needs a       *)
(* square image; the border stays zero, so neighbours are pixels of the    *)
(* image.                                                                  *)
(***************************************************************************)
EXTENDS Integers, FiniteSets

CONSTANTS
  image_width,            \* and height: 80
  Images,                 \* the frames that arrive
  threshold_values,       \* values threshold_value is configured with
  ThresholdModulus,       \* 2^32: threshold_value_ is an unsigned int
  thresholds_per_pixel,   \* tables of thresholds read from files
  Calibrations,           \* [gradient, intercept] tables read from files
  directional_distances,  \* 1 for 3x3, 2 for 5x5 pixel grids
  MaxStages               \* bound: plugins in a chain

image_pixels == image_width * image_width
Pixels == 0 .. (image_pixels - 1)

ASSUME ImageAssumption ==
  /\ image_width \in Nat \ {0}
  /\ Images \subseteq [Pixels -> Nat]

ASSUME ConfigurationAssumption ==
  /\ ThresholdModulus \in Nat \ {0} /\ threshold_values \subseteq Int
  /\ thresholds_per_pixel \subseteq [Pixels -> Nat]
  /\ Calibrations \subseteq [gradient : [Pixels -> Int],
                             intercept : [Pixels -> Int]]
  /\ directional_distances \subseteq Nat /\ MaxStages \in Nat

VARIABLES
  image,   \* the frame, as the chain has made it so far
  original,\* History: the frame that entered the chain
  stages   \* plugins that have processed it

vars == <<image, original, stages>>

Hits(i) == {p \in Pixels : i[p] > 0}

-----------------------------------------------------------------------------
(* Threshold and calibration *)

process_threshold_value(in, threshold_value) ==
  [p \in Pixels |->
     IF in[p] < threshold_value % ThresholdModulus THEN 0 ELSE in[p]]

process_threshold_file(in, threshold_per_pixel) ==
  [p \in Pixels |-> IF in[p] < threshold_per_pixel[p] THEN 0 ELSE in[p]]

Mutant_CalibrateAll(in, c) ==
  [p \in Pixels |-> in[p] * c.gradient[p] + c.intercept[p]]

calibrate_pixels(in, c) ==
  [p \in Pixels |->
     IF in[p] > 0 THEN in[p] * c.gradient[p] + c.intercept[p] ELSE in[p]]

-----------------------------------------------------------------------------
(* Charge sharing.  Both algorithms visit the pixels in order, and for each *)
(* hit its neighbours in order, changing the image as they go.             *)

Row(p) == p \div image_width
Column(p) == p % image_width

Neighbours(p, distance) ==
  {q \in Pixels \ {p} :
     /\ Row(q) - Row(p) \in -distance .. distance
     /\ Column(q) - Column(p) \in -distance .. distance}

\* The pixels in order, each visit going on from what the one before left.
Scan(Visit(_, _), first) ==
  LET after[k \in 0 .. image_pixels] ==
        IF k = 0 THEN first ELSE Visit(after[k - 1], k - 1)
  IN after[image_pixels]

\* Wipe the hit at p, its first hit neighbour and all neighbours after it.
Mutant_NeighboursOnly(in, p, distance) ==
  LET hit == Neighbours(p, distance) \cap Hits(in)
  IN [q \in Pixels |->
        IF \E first \in hit : q \in Neighbours(p, distance) /\ q >= first
        THEN 0 ELSE in[q]]

WipeShared(in, p, distance) ==
  LET hit == Neighbours(p, distance) \cap Hits(in)
  IN [q \in Pixels |->
        IF \E first \in hit :
             q = p \/ (q \in Neighbours(p, distance) /\ q >= first)
        THEN 0 ELSE in[q]]

processDiscrimination(in, distance) ==
  LET Visit(i, p) == IF i[p] > 0 THEN WipeShared(i, p, distance) ELSE i
  IN Scan(Visit, in)

\* The hit at p and its neighbour q become one: the neighbour takes the sum
\* if it is above the largest value met around p so far.  s is the image
\* and that value.
Mutant_TieToNeighbour(s, p, q) ==
  LET sum == s.image[p] + s.image[q]
  IN IF s.image[q] >= s.maxValue
     THEN [image |-> [s.image EXCEPT ![q] = sum, ![p] = 0], maxValue |-> sum]
     ELSE [image |-> [s.image EXCEPT ![p] = sum, ![q] = 0], maxValue |-> sum]

Mutant_NeighbourKept(s, p, q) ==
  LET sum == s.image[p] + s.image[q]
  IN IF s.image[q] > s.maxValue
     THEN [image |-> [s.image EXCEPT ![q] = sum, ![p] = 0], maxValue |-> sum]
     ELSE [image |-> [s.image EXCEPT ![p] = sum], maxValue |-> sum]

Merge(s, p, q) ==
  LET sum == s.image[p] + s.image[q]
  IN IF s.image[q] > s.maxValue
     THEN [image |-> [s.image EXCEPT ![q] = sum, ![p] = 0], maxValue |-> sum]
     ELSE [image |-> [s.image EXCEPT ![p] = sum, ![q] = 0], maxValue |-> sum]

AddNeighbours(in, p, distance) ==
  LET near == Neighbours(p, distance)
      Visit(s, q) ==
        IF q \in near /\ s.image[q] > 0 THEN Merge(s, p, q) ELSE s
  IN Scan(Visit, [image |-> in, maxValue |-> in[p]]).image

process_addition(in, distance) ==
  LET Visit(i, p) == IF i[p] > 0 THEN AddNeighbours(i, p, distance) ELSE i
  IN Scan(Visit, in)

-----------------------------------------------------------------------------
(* process_frame of each plugin, for the processed_frames dataset *)

Init == image \in Images /\ original = image /\ stages = 0

Stage(result) ==
  /\ stages < MaxStages
  /\ image' = result
  /\ stages' = stages + 1
  /\ UNCHANGED original

ThresholdByValue(value) == Stage(process_threshold_value(image, value))
ThresholdByFile(table) == Stage(process_threshold_file(image, table))
Calibrate(c) == Stage(calibrate_pixels(image, c))
Discriminate(distance) == Stage(processDiscrimination(image, distance))
Add(distance) == Stage(process_addition(image, distance))

Next ==
  \/ \E value \in threshold_values : ThresholdByValue(value)
  \/ \E table \in thresholds_per_pixel : ThresholdByFile(table)
  \/ \E c \in Calibrations : Calibrate(c)
  \/ \E distance \in directional_distances : Discriminate(distance)
  \/ \E distance \in directional_distances : Add(distance)

Spec == Init /\ [][Next]_vars

-----------------------------------------------------------------------------
(* Properties *)

\* No chain of plugins makes a hit where the detector saw none, whatever the
\* order and the calibration: charge may be moved to another hit only.
HitsOnlyDisappear == Hits(image) \subseteq Hits(original)

Isolated(i, p, distance) == Neighbours(p, distance) \cap Hits(i) = {}

\* Discrimination leaves no two hits in one grid, though it visits pixels
\* in order and each wipe changes what later pixels see.  A hit that had no
\* other in its grid stays as it was; two that had only each other are gone.
DiscriminationIsolates ==
  [][\A distance \in directional_distances : Discriminate(distance) =>
       \A p \in Pixels :
         /\ p \in Hits(image') => Isolated(image', p, distance)
         /\ p \in Hits(image) /\ Isolated(image, p, distance)
              => image'[p] = image[p]
         /\ \A q \in Hits(image) :
              /\ p \in Hits(image)
              /\ Neighbours(p, distance) \cap Hits(image) = {q}
              /\ Neighbours(q, distance) \cap Hits(image) = {p}
              => p \notin Hits(image')]_vars

TotalCharge(i) ==
  LET AddPixel(sum, p) == sum + i[p]
  IN Scan(AddPixel, 0)

\* Addition moves charge and loses none, in clusters of any shape.
AdditionConservesCharge ==
  [][\A distance \in directional_distances :
       Add(distance) => TotalCharge(image') = TotalCharge(image)]_vars

\* What the integration test expects of the addition plugin: at each hit,
\* the sum of its grid goes to the grid's largest, or first largest, pixel
\* (check_addition_averages).
Gathered(in, p) ==
  LET grid == Neighbours(p, 1) \cup {p}
      IsMax(q) == \A r \in grid : in[r] < in[q] \/ (in[r] = in[q] /\ q <= r)
      max == CHOOSE q \in grid : IsMax(q)
      charge == TotalCharge([q \in Pixels |-> IF q \in grid THEN in[q] ELSE 0])
  IN [q \in Pixels |->
        IF q = max THEN charge ELSE IF q \in grid THEN 0 ELSE in[q]]

ExpectedAddition(in) ==
  LET Visit(i, p) == IF i[p] # 0 THEN Gathered(i, p) ELSE i
  IN Scan(Visit, in)

\* Where no hit has more than one other hit in its grid, the addition plugin
\* produces the frame the integration test computes.
AdditionIsAsExpected ==
  [][/\ Add(1)
     /\ \A p \in Pixels : image[p] >= 0
     /\ \A p \in Hits(image) : Cardinality(Neighbours(p, 1) \cap Hits(image)) <= 1
     => image' = ExpectedAddition(image)]_vars
=============================================================================
