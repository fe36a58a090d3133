---------------------- MODULE MercuryImagePlugins_proofs ----------------------
(***************************************************************************)
(* The properties of the image plugins, for images of any size and values, *)
(* any distance, any tables and chains of any length.  Each algorithm is a *)
(* scan of the image, so each property follows from what a visit to one    *)
(* pixel keeps, by induction over the pixels.                              *)
(***************************************************************************)
EXTENDS MercuryImagePlugins, Loops, FiniteSetTheorems

-----------------------------------------------------------------------------
(* Scans *)

LEMMA ImageSize ==
  /\ image_width \in Nat \ {0} /\ image_pixels \in Nat
  /\ \A p \in Pixels : p \in 0 .. image_pixels /\ p + 1 \in 1 .. image_pixels
  /\ \A k \in 1 .. image_pixels : k - 1 \in Pixels
<1>1. image_width \in Nat \ {0} /\ image_pixels \in Nat
  BY ImageAssumption DEF image_pixels
<1> QED
  BY <1>1 DEF Pixels

Image == [Pixels -> Int]

\* after[k] is the state of a scan before it visits pixel k; visit[p] maps the
\* state before the visit of p to the one after it.
IsScan(after, first, visit) ==
  /\ after[0] = first
  /\ \A p \in Pixels : after[p + 1] = visit[p][after[p]]

\* What holds before a scan and is kept by each visit holds after each.
LEMMA ScanInduction ==
  ASSUME NEW S, 0 \in S, \A p \in Pixels : p \in S => p + 1 \in S
  PROVE  \A k \in 0 .. image_pixels : k \in S
<1>1. ASSUME NEW k \in 1 .. image_pixels, k - 1 \in S PROVE k \in S
  <2>1. k - 1 \in Pixels /\ (k - 1) + 1 = k
    BY ImageSize
  <2>2. (k - 1) + 1 \in S
    BY <1>1, <2>1
  <2> QED
    BY <2>1, <2>2
<1> QED
  BY <1>1, ImageSize, LoopInduction

\* The states of a scan whose visits are given by functions: a recursion like
\* that of Scan has a solution,
LEMMA ScanExists ==
  ASSUME NEW X, NEW first \in X, NEW visit \in [Pixels -> [X -> X]]
  PROVE  \E g \in [0 .. image_pixels -> X] :
           /\ g[0] = first
           /\ \A k \in 1 .. image_pixels :
                g[k - 1] \in X /\ g[k] = visit[k - 1][g[k - 1]]
<1> DEFINE step == [k \in 1 .. image_pixels |-> visit[k - 1]]
<1>1. step \in [1 .. image_pixels -> [X -> X]]
  BY ImageSize
<1> HIDE DEF step
<1>2. PICK g \in [0 .. image_pixels -> X] : IsLoop(g, image_pixels, first, step)
  BY <1>1, ImageSize, LoopExists
<1>3. g[0] = first
  BY <1>2, ImageSize DEF IsLoop
<1>4. ASSUME NEW k \in 1 .. image_pixels
      PROVE  g[k - 1] \in X /\ g[k] = visit[k - 1][g[k - 1]]
  <2>1. k \in 0 .. image_pixels /\ k # 0 /\ k - 1 \in 0 .. image_pixels
    BY ImageSize
  <2>2. g[k] = step[k][g[k - 1]]
    BY <1>2, <2>1 DEF IsLoop
  <2>3. step[k] = visit[k - 1]
    BY DEF step
  <2> QED
    BY <2>1, <2>2, <2>3
<1> QED
  BY <1>3, <1>4

\* and each solution goes through states of X only.
LEMMA ScanFollows ==
  ASSUME NEW X, NEW first \in X, NEW visit \in [Pixels -> [X -> X]],
         NEW after, after = [k \in 0 .. image_pixels |-> after[k]],
         after[0] = first,
         \A k \in 1 .. image_pixels :
           after[k - 1] \in X => after[k] = visit[k - 1][after[k - 1]]
  PROVE  /\ after \in [0 .. image_pixels -> X]
         /\ IsScan(after, first, visit)
<1> DEFINE S == {k \in 0 .. image_pixels : after[k] \in X}
<1>1. 0 \in S
  BY ImageSize
<1>2. ASSUME NEW p \in Pixels, p \in S PROVE p + 1 \in S
  <2>1. /\ after[p] \in X /\ p + 1 \in 1 .. image_pixels /\ (p + 1) - 1 = p
        /\ p + 1 \in 0 .. image_pixels
    BY <1>2, ImageSize DEF Pixels
  <2>2. after[p + 1] = visit[p][after[p]]
    BY <2>1
  <2> QED
    BY <2>1, <2>2
<1> HIDE DEF S
<1>3. \A k \in 0 .. image_pixels : k \in S
  BY <1>1, <1>2, ScanInduction
<1>4. \A k \in 0 .. image_pixels : after[k] \in X
  BY <1>3 DEF S
<1>5. ASSUME NEW p \in Pixels PROVE after[p + 1] = visit[p][after[p]]
  <2>1. p + 1 \in 1 .. image_pixels /\ (p + 1) - 1 = p /\ p \in 0 .. image_pixels
    BY ImageSize DEF Pixels
  <2> QED
    BY <1>4, <2>1
<1> QED
  BY <1>4, <1>5 DEF IsScan

\* The sum of the values of the pixels, pixel by pixel.
LEMMA ChargeScan ==
  ASSUME NEW i \in Image
  PROVE  \E after \in [0 .. image_pixels -> Int] :
           /\ after[0] = 0
           /\ \A p \in Pixels : after[p + 1] = after[p] + i[p]
           /\ TotalCharge(i) = after[image_pixels]
<1> DEFINE States == Int
           first == 0
           visit == [p \in Pixels |-> [x \in States |-> x + i[p]]]
           Loop(g) == g = [k \in 0 .. image_pixels |->
                             IF k = 0 THEN first ELSE g[k - 1] + i[k - 1]]
           after == CHOOSE g : Loop(g)
<1>1. first \in States /\ visit \in [Pixels -> [States -> States]]
  BY DEF Image
<1>2. \A p \in Pixels, x \in States : visit[p][x] = x + i[p]
  OBVIOUS
<1> HIDE DEF first, visit, States
<1>3. \E g : Loop(g)
  <2>1. PICK g \in [0 .. image_pixels -> States] :
          /\ g[0] = first
          /\ \A k \in 1 .. image_pixels :
               g[k - 1] \in States /\ g[k] = visit[k - 1][g[k - 1]]
    BY <1>1, ScanExists
  <2>2. ASSUME NEW k \in 0 .. image_pixels
        PROVE  g[k] = IF k = 0 THEN first ELSE g[k - 1] + i[k - 1]
    <3>1. k # 0 => k \in 1 .. image_pixels /\ k - 1 \in Pixels
      BY ImageSize
    <3> QED
      BY <1>2, <2>1, <3>1
  <2> QED
    BY <2>2
<1>4. Loop(after)
  <2> HIDE DEF Loop
  <2> QED BY <1>3
<1>5. TotalCharge(i) = after[image_pixels]
  BY DEF TotalCharge, Scan, first
<1> HIDE DEF after
<1>6. /\ after = [k \in 0 .. image_pixels |-> after[k]]
      /\ after[0] = first
      /\ \A k \in 1 .. image_pixels : after[k] = after[k - 1] + i[k - 1]
  <2>1. after = [k \in 0 .. image_pixels |-> after[k]]
    BY <1>4
  <2>2. \A k \in 0 .. image_pixels :
          after[k] = IF k = 0 THEN first ELSE after[k - 1] + i[k - 1]
    BY <1>4
  <2> HIDE DEF Loop
  <2>3. after[0] = first
    BY <2>2, ImageSize
  <2>4. ASSUME NEW k \in 1 .. image_pixels
        PROVE  after[k] = after[k - 1] + i[k - 1]
    <3>1. k \in 0 .. image_pixels /\ k # 0
      BY ImageSize
    <3> QED
      BY <2>2, <3>1
  <2> QED
    BY <2>1, <2>3, <2>4
<1>7. \A k \in 1 .. image_pixels :
        after[k - 1] \in States => after[k] = visit[k - 1][after[k - 1]]
  BY <1>2, <1>6, ImageSize
<1>8. /\ after \in [0 .. image_pixels -> States]
      /\ IsScan(after, first, visit)
  <2>1. after = [k \in 0 .. image_pixels |-> after[k]]
    BY <1>6
  <2>2. after[0] = first
    BY <1>6
  <2> HIDE DEF Loop
  <2> QED
    BY <1>1, <1>7, <2>1, <2>2, ScanFollows
<1>9. \A p \in Pixels : after[p] \in States
  BY <1>8, ImageSize
<1>10. \A p \in Pixels : after[p + 1] = after[p] + i[p]
  BY <1>2, <1>8, <1>9 DEF IsScan
<1> QED
  BY <1>5, <1>6, <1>8, <1>10 DEF first, States

-----------------------------------------------------------------------------
(* Discrimination *)

\* The pixels round p, and whether one of them is a hit.
LEMMA NeighbourFacts ==
  ASSUME NEW p \in Pixels, NEW distance \in Nat
  PROVE  /\ Neighbours(p, distance) \subseteq Pixels \ {p}
         /\ \A q \in Pixels : q \in Neighbours(p, distance)
                                <=> p \in Neighbours(q, distance)
<1>1. \A q \in Pixels : Row(q) \in Int /\ Column(q) \in Int
  BY ImageSize DEF Pixels, Row, Column
<1> QED
  BY <1>1 DEF Neighbours

WipeVisit(i, p, distance) ==
  IF i[p] > 0 THEN WipeShared(i, p, distance) ELSE i

LEMMA WipeVisitTyped ==
  ASSUME NEW i \in Image, NEW p \in Pixels, NEW distance
  PROVE  WipeVisit(i, p, distance) \in Image
BY DEF WipeVisit, WipeShared, Image

\* The image after each visit of the discrimination.
LEMMA DiscriminationScan ==
  ASSUME NEW in \in Image, NEW distance
  PROVE  \E after \in [0 .. image_pixels -> Image] :
           /\ after[0] = in
           /\ \A p \in Pixels : after[p + 1] = WipeVisit(after[p], p, distance)
           /\ processDiscrimination(in, distance) = after[image_pixels]
<1> DEFINE States == Image
           first == in
           visit == [p \in Pixels |-> [x \in States |-> WipeVisit(x, p, distance)]]
           Loop(g) == g = [k \in 0 .. image_pixels |->
                             IF k = 0 THEN first
                             ELSE WipeVisit(g[k - 1], k - 1, distance)]
           after == CHOOSE g : Loop(g)
<1>1. first \in States /\ visit \in [Pixels -> [States -> States]]
  BY WipeVisitTyped
<1>2. \A p \in Pixels, x \in States : visit[p][x] = WipeVisit(x, p, distance)
  OBVIOUS
<1> HIDE DEF first, visit, States
<1>3. \E g : Loop(g)
  <2>1. PICK g \in [0 .. image_pixels -> States] :
          /\ g[0] = first
          /\ \A k \in 1 .. image_pixels :
               g[k - 1] \in States /\ g[k] = visit[k - 1][g[k - 1]]
    BY <1>1, ScanExists
  <2>2. ASSUME NEW k \in 0 .. image_pixels
        PROVE  g[k] = IF k = 0 THEN first ELSE WipeVisit(g[k - 1], k - 1, distance)
    <3>1. k # 0 => k \in 1 .. image_pixels /\ k - 1 \in Pixels
      BY ImageSize
    <3> QED
      BY <1>2, <2>1, <3>1
  <2> QED
    BY <2>2
<1>4. Loop(after)
  <2> HIDE DEF Loop
  <2> QED BY <1>3
<1>5. processDiscrimination(in, distance) = after[image_pixels]
  BY DEF processDiscrimination, WipeVisit, Scan, first
<1> HIDE DEF after
<1>6. /\ after = [k \in 0 .. image_pixels |-> after[k]]
      /\ after[0] = first
      /\ \A k \in 1 .. image_pixels : after[k] = WipeVisit(after[k - 1], k - 1, distance)
  <2>1. after = [k \in 0 .. image_pixels |-> after[k]]
    BY <1>4
  <2>2. \A k \in 0 .. image_pixels :
          after[k] = IF k = 0 THEN first ELSE WipeVisit(after[k - 1], k - 1, distance)
    BY <1>4
  <2> HIDE DEF Loop
  <2>3. after[0] = first
    BY <2>2, ImageSize
  <2>4. ASSUME NEW k \in 1 .. image_pixels
        PROVE  after[k] = WipeVisit(after[k - 1], k - 1, distance)
    <3>1. k \in 0 .. image_pixels /\ k # 0
      BY ImageSize
    <3> QED
      BY <2>2, <3>1
  <2> QED
    BY <2>1, <2>3, <2>4
<1>7. \A k \in 1 .. image_pixels :
        after[k - 1] \in States => after[k] = visit[k - 1][after[k - 1]]
  BY <1>2, <1>6, ImageSize
<1>8. /\ after \in [0 .. image_pixels -> States]
      /\ IsScan(after, first, visit)
  <2>1. after = [k \in 0 .. image_pixels |-> after[k]]
    BY <1>6
  <2>2. after[0] = first
    BY <1>6
  <2> HIDE DEF Loop
  <2> QED
    BY <1>1, <1>7, <2>1, <2>2, ScanFollows
<1>9. \A p \in Pixels : after[p] \in States
  BY <1>8, ImageSize
<1>10. \A p \in Pixels : after[p + 1] = WipeVisit(after[p], p, distance)
  BY <1>2, <1>8, <1>9 DEF IsScan
<1> QED
  BY <1>5, <1>6, <1>8, <1>10 DEF first, States

-----------------------------------------------------------------------------
(* Addition *)

MergeStates == [image : Image, maxValue : Int]

MergeVisit(s, p, q, distance) ==
  IF q \in Neighbours(p, distance) /\ s.image[q] > 0 THEN Merge(s, p, q) ELSE s

LEMMA MergeVisitTyped ==
  ASSUME NEW s \in MergeStates, NEW p \in Pixels, NEW q \in Pixels, NEW distance
  PROVE  MergeVisit(s, p, q, distance) \in MergeStates
BY DEF MergeVisit, Merge, MergeStates, Image

\* The image, and the largest value, after each visit of a neighbour of p.
LEMMA MergeScan ==
  ASSUME NEW in \in Image, NEW p \in Pixels, NEW distance
  PROVE  \E after \in [0 .. image_pixels -> MergeStates] :
           /\ after[0] = [image |-> in, maxValue |-> in[p]]
           /\ \A q \in Pixels : after[q + 1] = MergeVisit(after[q], p, q, distance)
           /\ AddNeighbours(in, p, distance) = after[image_pixels].image
<1> DEFINE States == MergeStates
           first == [image |-> in, maxValue |-> in[p]]
           visit == [q \in Pixels |-> [x \in States |-> MergeVisit(x, p, q, distance)]]
           Loop(g) == g = [k \in 0 .. image_pixels |->
                             IF k = 0 THEN first
                             ELSE MergeVisit(g[k - 1], p, k - 1, distance)]
           after == CHOOSE g : Loop(g)
<1>1. first \in States /\ visit \in [Pixels -> [States -> States]]
  BY MergeVisitTyped DEF MergeStates, Image
<1>2. \A q \in Pixels, x \in States : visit[q][x] = MergeVisit(x, p, q, distance)
  OBVIOUS
<1> HIDE DEF first, visit, States
<1>3. \E g : Loop(g)
  <2>1. PICK g \in [0 .. image_pixels -> States] :
          /\ g[0] = first
          /\ \A k \in 1 .. image_pixels :
               g[k - 1] \in States /\ g[k] = visit[k - 1][g[k - 1]]
    BY <1>1, ScanExists
  <2>2. ASSUME NEW k \in 0 .. image_pixels
        PROVE  g[k] = IF k = 0 THEN first ELSE MergeVisit(g[k - 1], p, k - 1, distance)
    <3>1. k # 0 => k \in 1 .. image_pixels /\ k - 1 \in Pixels
      BY ImageSize
    <3> QED
      BY <1>2, <2>1, <3>1
  <2> QED
    BY <2>2
<1>4. Loop(after)
  <2> HIDE DEF Loop
  <2> QED BY <1>3
<1>5. AddNeighbours(in, p, distance) = after[image_pixels].image
  BY DEF AddNeighbours, MergeVisit, Scan, first
<1> HIDE DEF after
<1>6. /\ after = [k \in 0 .. image_pixels |-> after[k]]
      /\ after[0] = first
      /\ \A k \in 1 .. image_pixels : after[k] = MergeVisit(after[k - 1], p, k - 1, distance)
  <2>1. after = [k \in 0 .. image_pixels |-> after[k]]
    BY <1>4
  <2>2. \A k \in 0 .. image_pixels :
          after[k] = IF k = 0 THEN first ELSE MergeVisit(after[k - 1], p, k - 1, distance)
    BY <1>4
  <2> HIDE DEF Loop
  <2>3. after[0] = first
    BY <2>2, ImageSize
  <2>4. ASSUME NEW k \in 1 .. image_pixels
        PROVE  after[k] = MergeVisit(after[k - 1], p, k - 1, distance)
    <3>1. k \in 0 .. image_pixels /\ k # 0
      BY ImageSize
    <3> QED
      BY <2>2, <3>1
  <2> QED
    BY <2>1, <2>3, <2>4
<1>7. \A k \in 1 .. image_pixels :
        after[k - 1] \in States => after[k] = visit[k - 1][after[k - 1]]
  BY <1>2, <1>6, ImageSize
<1>8. /\ after \in [0 .. image_pixels -> States]
      /\ IsScan(after, first, visit)
  <2>1. after = [k \in 0 .. image_pixels |-> after[k]]
    BY <1>6
  <2>2. after[0] = first
    BY <1>6
  <2> HIDE DEF Loop
  <2> QED
    BY <1>1, <1>7, <2>1, <2>2, ScanFollows
<1>9. \A q \in Pixels : after[q] \in States
  BY <1>8, ImageSize
<1>10. \A q \in Pixels : after[q + 1] = MergeVisit(after[q], p, q, distance)
  BY <1>2, <1>8, <1>9 DEF IsScan
<1> QED
  BY <1>5, <1>6, <1>8, <1>10 DEF first, States

AddVisit(i, p, distance) ==
  IF i[p] > 0 THEN AddNeighbours(i, p, distance) ELSE i

LEMMA AddVisitTyped ==
  ASSUME NEW i \in Image, NEW p \in Pixels, NEW distance
  PROVE  AddVisit(i, p, distance) \in Image
<1>1. PICK after \in [0 .. image_pixels -> MergeStates] :
        /\ after[0] = [image |-> i, maxValue |-> i[p]]
        /\ \A q \in Pixels : after[q + 1] = MergeVisit(after[q], p, q, distance)
        /\ AddNeighbours(i, p, distance) = after[image_pixels].image
  BY MergeScan
<1>2. after[image_pixels] \in MergeStates
  BY ImageSize
<1> QED
  BY <1>1, <1>2 DEF AddVisit, MergeStates

\* The image after each visit of the addition.
LEMMA AdditionScan ==
  ASSUME NEW in \in Image, NEW distance
  PROVE  \E after \in [0 .. image_pixels -> Image] :
           /\ after[0] = in
           /\ \A p \in Pixels : after[p + 1] = AddVisit(after[p], p, distance)
           /\ process_addition(in, distance) = after[image_pixels]
<1> DEFINE States == Image
           first == in
           visit == [p \in Pixels |-> [x \in States |-> AddVisit(x, p, distance)]]
           Loop(g) == g = [k \in 0 .. image_pixels |->
                             IF k = 0 THEN first
                             ELSE AddVisit(g[k - 1], k - 1, distance)]
           after == CHOOSE g : Loop(g)
<1>1. first \in States /\ visit \in [Pixels -> [States -> States]]
  BY AddVisitTyped
<1>2. \A p \in Pixels, x \in States : visit[p][x] = AddVisit(x, p, distance)
  OBVIOUS
<1> HIDE DEF first, visit, States
<1>3. \E g : Loop(g)
  <2>1. PICK g \in [0 .. image_pixels -> States] :
          /\ g[0] = first
          /\ \A k \in 1 .. image_pixels :
               g[k - 1] \in States /\ g[k] = visit[k - 1][g[k - 1]]
    BY <1>1, ScanExists
  <2>2. ASSUME NEW k \in 0 .. image_pixels
        PROVE  g[k] = IF k = 0 THEN first ELSE AddVisit(g[k - 1], k - 1, distance)
    <3>1. k # 0 => k \in 1 .. image_pixels /\ k - 1 \in Pixels
      BY ImageSize
    <3> QED
      BY <1>2, <2>1, <3>1
  <2> QED
    BY <2>2
<1>4. Loop(after)
  <2> HIDE DEF Loop
  <2> QED BY <1>3
<1>5. process_addition(in, distance) = after[image_pixels]
  BY DEF process_addition, AddVisit, Scan, first
<1> HIDE DEF after
<1>6. /\ after = [k \in 0 .. image_pixels |-> after[k]]
      /\ after[0] = first
      /\ \A k \in 1 .. image_pixels : after[k] = AddVisit(after[k - 1], k - 1, distance)
  <2>1. after = [k \in 0 .. image_pixels |-> after[k]]
    BY <1>4
  <2>2. \A k \in 0 .. image_pixels :
          after[k] = IF k = 0 THEN first ELSE AddVisit(after[k - 1], k - 1, distance)
    BY <1>4
  <2> HIDE DEF Loop
  <2>3. after[0] = first
    BY <2>2, ImageSize
  <2>4. ASSUME NEW k \in 1 .. image_pixels
        PROVE  after[k] = AddVisit(after[k - 1], k - 1, distance)
    <3>1. k \in 0 .. image_pixels /\ k # 0
      BY ImageSize
    <3> QED
      BY <2>2, <3>1
  <2> QED
    BY <2>1, <2>3, <2>4
<1>7. \A k \in 1 .. image_pixels :
        after[k - 1] \in States => after[k] = visit[k - 1][after[k - 1]]
  BY <1>2, <1>6, ImageSize
<1>8. /\ after \in [0 .. image_pixels -> States]
      /\ IsScan(after, first, visit)
  <2>1. after = [k \in 0 .. image_pixels |-> after[k]]
    BY <1>6
  <2>2. after[0] = first
    BY <1>6
  <2> HIDE DEF Loop
  <2> QED
    BY <1>1, <1>7, <2>1, <2>2, ScanFollows
<1>9. \A p \in Pixels : after[p] \in States
  BY <1>8, ImageSize
<1>10. \A p \in Pixels : after[p + 1] = AddVisit(after[p], p, distance)
  BY <1>2, <1>8, <1>9 DEF IsScan
<1> QED
  BY <1>5, <1>6, <1>8, <1>10 DEF first, States

-----------------------------------------------------------------------------
(* Hits *)

\* A visit of the discrimination sets pixels to zero or leaves them; it changes
\* only a hit that has others in its grid, and leaves none of them there.
LEMMA WipeVisitFacts ==
  ASSUME NEW i \in Image, NEW p \in Pixels, NEW distance \in Nat
  PROVE  LET w == WipeVisit(i, p, distance)
             near == Neighbours(p, distance)
         IN /\ \A q \in Pixels : w[q] = i[q] \/ w[q] = 0
            /\ \A q \in Pixels : q # p /\ q \notin near => w[q] = i[q]
            /\ p \notin Hits(i) \/ near \cap Hits(i) = {} => w = i
            /\ p \in Hits(i) /\ near \cap Hits(i) # {}
                 => w[p] = 0 /\ \A q \in near : ~(w[q] > 0)
<1> DEFINE w == WipeVisit(i, p, distance)
           near == Neighbours(p, distance)
<1>1. near \subseteq Pixels \ {p}
  BY NeighbourFacts
<1>2. /\ i = [q \in Pixels |-> i[q]] /\ \A q \in Pixels : i[q] \in Int
      /\ Hits(i) = {q \in Pixels : i[q] > 0} /\ Pixels \subseteq Int
  BY DEF Image, Hits, Pixels
<1>3. CASE i[p] > 0
  <2>1. w = [q \in Pixels |->
               IF \E first \in near \cap Hits(i) :
                    q = p \/ (q \in near /\ q >= first)
               THEN 0 ELSE i[q]]
    BY <1>3 DEF WipeVisit, WipeShared
  <2> HIDE DEF w, near
  <2>2. \A q \in Pixels : w[q] = i[q] \/ w[q] = 0
    BY <2>1
  <2>3. \A q \in Pixels : q # p /\ q \notin near => w[q] = i[q]
    BY <2>1
  <2>4. near \cap Hits(i) = {} => w = i
    BY <1>2, <2>1
  <2>5. ASSUME near \cap Hits(i) # {}
        PROVE  w[p] = 0 /\ \A q \in near : ~(w[q] > 0)
    <3>1. w[p] = 0
      BY <2>1, <2>5
    <3>2. ASSUME NEW q \in near PROVE ~(w[q] > 0)
      <4>1. CASE q \in Hits(i)
        <5>1. q >= q /\ q \in Pixels
          BY <1>1, <1>2
        <5> QED BY <2>1, <4>1, <5>1
      <4>2. CASE q \notin Hits(i)
        BY <1>1, <1>2, <2>2, <4>2
      <4> QED BY <4>1, <4>2
    <3> QED BY <3>1, <3>2
  <2> QED BY <1>2, <1>3, <2>2, <2>3, <2>4, <2>5 DEF w, near
<1>4. CASE ~(i[p] > 0)
  BY <1>2, <1>4 DEF WipeVisit
<1> QED BY <1>3, <1>4

\* What the discrimination leaves of an image.
LEMMA DiscriminationFacts ==
  ASSUME NEW in \in Image, NEW distance \in Nat
  PROVE  LET out == processDiscrimination(in, distance)
         IN /\ out \in Image
            /\ Hits(out) \subseteq Hits(in)
            /\ \A p \in Hits(out) : Isolated(out, p, distance)
            /\ \A p \in Hits(in) : Isolated(in, p, distance) => out[p] = in[p]
            /\ \A p, q \in Hits(in) :
                 /\ Neighbours(p, distance) \cap Hits(in) = {q}
                 /\ Neighbours(q, distance) \cap Hits(in) = {p}
                 => p \notin Hits(out)
<1> DEFINE out == processDiscrimination(in, distance)
           near(p) == Neighbours(p, distance)
<1>1. PICK after \in [0 .. image_pixels -> Image] :
        /\ after[0] = in
        /\ \A p \in Pixels : after[p + 1] = WipeVisit(after[p], p, distance)
        /\ out = after[image_pixels]
  BY DiscriminationScan
<1> HIDE DEF out
<1>2. /\ 0 \in 0 .. image_pixels /\ image_pixels \in 0 .. image_pixels
      /\ Pixels \subseteq 0 .. image_pixels
      /\ \A p \in Pixels : p \in Int /\ p + 1 \in 0 .. image_pixels
                           /\ p < image_pixels
  BY ImageSize DEF Pixels
<1>3. \A k \in 0 .. image_pixels : after[k] \in Image /\ Hits(after[k]) \subseteq Pixels
  BY DEF Hits
<1>4. \A i \in Image, p \in Pixels : p \in Hits(i) <=> i[p] > 0
  BY DEF Hits
<1>5. ASSUME NEW p \in Pixels PROVE Hits(after[p + 1]) \subseteq Hits(after[p])
  <2>1. \A q \in Pixels : after[p + 1][q] = after[p][q] \/ after[p + 1][q] = 0
    BY <1>1, <1>2, <1>3, WipeVisitFacts
  <2>2. /\ after[p + 1] \in Image /\ after[p] \in Image
        /\ Hits(after[p + 1]) \subseteq Pixels
    BY <1>2, <1>3
  <2>3. ASSUME NEW q \in Hits(after[p + 1]) PROVE q \in Hits(after[p])
    <3>1. q \in Pixels /\ after[p + 1][q] > 0
      BY <1>4, <2>2
    <3>2. after[p][q] > 0
      BY <2>1, <3>1
    <3> QED
      BY <1>4, <2>2, <3>1, <3>2
  <2> QED
    BY <2>3
<1>6. \A k \in 0 .. image_pixels : Hits(after[k]) \subseteq Hits(in)
  <2> DEFINE S == {k \in 0 .. image_pixels : Hits(after[k]) \subseteq Hits(in)}
  <2>1. 0 \in S
    BY <1>1, <1>2
  <2>2. ASSUME NEW p \in Pixels, p \in S PROVE p + 1 \in S
    BY <1>2, <1>5, <2>2
  <2> HIDE DEF S
  <2>3. \A k \in 0 .. image_pixels : k \in S
    BY <2>1, <2>2, ScanInduction
  <2> QED
    BY <2>3 DEF S
\* The hits that have been visited are isolated.
<1>7. \A k \in 0 .. image_pixels : \A p \in Hits(after[k]) :
        p < k => near(p) \cap Hits(after[k]) = {}
  <2> DEFINE S == {k \in 0 .. image_pixels : \A p \in Hits(after[k]) :
                     p < k => near(p) \cap Hits(after[k]) = {}}
  <2>1. 0 \in S
    BY <1>2, <1>3 DEF Pixels
  <2>2. ASSUME NEW r \in Pixels, r \in S PROVE r + 1 \in S
    <3>1. ASSUME NEW p \in Hits(after[r + 1]), p < r + 1
          PROVE  near(p) \cap Hits(after[r + 1]) = {}
      <4>1. p \in Pixels /\ p \in Hits(after[r]) /\ p <= r
        <5>1. p \in Hits(after[r]) /\ p \in Pixels
          BY <1>2, <1>3, <1>5, <3>1
        <5> QED
          BY <1>2, <3>1, <5>1
      <4>2. CASE p < r
        BY <1>5, <2>2, <4>1, <4>2
      <4>3. CASE p = r
        <5>1. near(r) \cap Hits(after[r]) = {}
          <6>1. after[r + 1][r] > 0
            BY <1>2, <1>3, <1>4, <3>1, <4>3
          <6>2. p \in Hits(after[r]) /\ near(r) \cap Hits(after[r]) # {}
                  => after[r + 1][r] = 0
            BY <1>1, <1>2, <1>3, <4>3, WipeVisitFacts
          <6> QED
            BY <4>1, <6>1, <6>2
        <5> QED
          BY <1>5, <4>3, <5>1
      <4> QED
        BY <1>2, <4>1, <4>2, <4>3
    <3> QED
      BY <1>2, <3>1
  <2> HIDE DEF S
  <2>3. \A k \in 0 .. image_pixels : k \in S
    BY <2>1, <2>2, ScanInduction
  <2> QED
    BY <2>3 DEF S
\* A visit changes a pixel only if one of the two is a hit in the grid of the
\* other.
<1>8. ASSUME NEW r \in Pixels, NEW p \in Pixels,
             after[r + 1][p] # after[r][p]
      PROVE  /\ r \in Hits(in) /\ near(r) \cap Hits(in) # {}
             /\ p = r \/ r \in near(p)
  <2>1. r \in Hits(after[r]) /\ near(r) \cap Hits(after[r]) # {}
    BY <1>1, <1>2, <1>3, <1>8, WipeVisitFacts
  <2>2. p = r \/ p \in near(r)
    BY <1>1, <1>2, <1>3, <1>8, WipeVisitFacts
  <2>3. p \in near(r) => r \in near(p)
    BY NeighbourFacts
  <2> QED
    BY <1>2, <1>6, <2>1, <2>2, <2>3
<1>9. ASSUME NEW p \in Hits(in), near(p) \cap Hits(in) = {}
      PROVE  out[p] = in[p]
  <2> DEFINE S == {k \in 0 .. image_pixels : after[k][p] = in[p]}
  <2>1. 0 \in S
    BY <1>1, <1>2
  <2>2. ASSUME NEW r \in Pixels, r \in S PROVE r + 1 \in S
    <3>1. p \in Pixels
      BY DEF Hits
    <3>2. after[r + 1][p] = after[r][p]
      BY <1>8, <1>9, <3>1
    <3> QED
      BY <1>2, <2>2, <3>2
  <2> HIDE DEF S
  <2>3. \A k \in 0 .. image_pixels : k \in S
    BY <2>1, <2>2, ScanInduction
  <2> QED
    BY <1>1, <1>2, <2>3 DEF S
<1>10. ASSUME NEW p \in Hits(in), NEW q \in Hits(in),
              near(p) \cap Hits(in) = {q}, near(q) \cap Hits(in) = {p}
       PROVE  p \notin Hits(out)
  <2> DEFINE Both(k) == after[k][p] = in[p] /\ after[k][q] = in[q]
             Gone(k) == p \notin Hits(after[k]) /\ q \notin Hits(after[k])
             S == {k \in 0 .. image_pixels :
                     IF k <= p /\ k <= q THEN Both(k) ELSE Gone(k)}
  <2>0. /\ p \in Pixels /\ q \in Pixels /\ p \in Int /\ q \in Int
        /\ p \in near(q) /\ q \in near(p) /\ in[p] > 0 /\ in[q] > 0
    BY <1>2, <1>10 DEF Hits
  <2>1. 0 \in S
    BY <1>1, <1>2, <2>0 DEF Pixels
  <2>2. ASSUME NEW r \in Pixels, r \in S PROVE r + 1 \in S
    <3>0. r + 1 \in 0 .. image_pixels /\ r \in Int
      BY <1>2
    <3>1. CASE r + 1 <= p /\ r + 1 <= q
      <4>1. r # p /\ r # q /\ r <= p /\ r <= q
        BY <2>0, <3>0, <3>1
      <4>2. Both(r)
        BY <2>2, <4>1
      <4>3. after[r + 1][p] = after[r][p] /\ after[r + 1][q] = after[r][q]
        BY <1>8, <1>10, <2>0, <4>1
      <4> QED
        BY <3>0, <3>1, <4>2, <4>3
    <3>2. CASE r <= p /\ r <= q /\ ~(r + 1 <= p /\ r + 1 <= q)
      <4>1. r = p \/ r = q
        BY <2>0, <3>0, <3>2
      <4>2. Both(r)
        BY <2>2, <3>2
      <4>3. p \in Hits(after[r]) /\ q \in Hits(after[r])
        BY <1>2, <1>3, <1>4, <2>0, <4>2
      <4>4. near(r) \cap Hits(after[r]) # {} /\ r \in Hits(after[r])
        BY <2>0, <4>1, <4>3
      <4>5. after[r + 1][r] = 0 /\ \A x \in near(r) : ~(after[r + 1][x] > 0)
        BY <1>1, <1>2, <1>3, <4>4, WipeVisitFacts
      <4>6. ~(after[r + 1][p] > 0) /\ ~(after[r + 1][q] > 0)
        BY <2>0, <4>1, <4>5
      <4>7. Gone(r + 1)
        BY <1>3, <1>4, <2>0, <3>0, <4>6
      <4> QED
        BY <3>0, <3>2, <4>7
    <3>3. CASE ~(r <= p /\ r <= q)
      <4>1. Gone(r)
        BY <2>2, <3>3
      <4>2. Gone(r + 1)
        BY <1>5, <4>1
      <4>3. ~(r + 1 <= p /\ r + 1 <= q)
        BY <2>0, <3>0, <3>3
      <4> QED
        BY <3>0, <4>2, <4>3
    <3> QED
      BY <3>1, <3>2, <3>3
  <2> HIDE DEF S
  <2>3. \A k \in 0 .. image_pixels : k \in S
    BY <2>1, <2>2, ScanInduction
  <2>4. image_pixels \in S /\ ~(image_pixels <= p)
    BY <1>2, <2>0, <2>3, ImageSize
  <2> QED
    BY <1>1, <2>4 DEF S
<1>11. \A p \in Hits(out) : Isolated(out, p, distance)
  BY <1>1, <1>2, <1>3, <1>7 DEF Isolated
<1>12. out \in Image /\ Hits(out) \subseteq Hits(in)
  BY <1>1, <1>2, <1>3, <1>6
<1> QED
  BY <1>9, <1>10, <1>11, <1>12 DEF out, Isolated

-----------------------------------------------------------------------------
(* Charge *)

\* A visit of a neighbour that is a hit moves its charge to the pixel in the
\* middle or the other way round; any other visit changes nothing.
LEMMA MergeVisitFacts ==
  ASSUME NEW s \in MergeStates, NEW p \in Pixels, NEW q \in Pixels,
         NEW distance \in Nat
  PROVE  LET m == MergeVisit(s, p, q, distance)
             sum == s.image[p] + s.image[q]
         IN /\ m.image \in Image
            /\ q \notin Neighbours(p, distance) \/ q \notin Hits(s.image) => m = s
            /\ q \in Neighbours(p, distance) /\ q \in Hits(s.image) =>
                 /\ p # q /\ m.maxValue = sum
                 /\ \A x \in Pixels \ {p, q} : m.image[x] = s.image[x]
                 /\ IF s.image[q] > s.maxValue
                    THEN m.image[q] = sum /\ m.image[p] = 0
                    ELSE m.image[p] = sum /\ m.image[q] = 0
<1> DEFINE m == MergeVisit(s, p, q, distance)
           sum == s.image[p] + s.image[q]
<1>1. m.image \in Image
  BY MergeVisitTyped DEF MergeStates
<1>2. /\ s.image \in [Pixels -> Int]
      /\ q \in Hits(s.image) <=> s.image[q] > 0
  BY DEF MergeStates, Image, Hits
<1>3. q \in Neighbours(p, distance) => p # q
  BY NeighbourFacts
<1>4. CASE q \in Neighbours(p, distance) /\ s.image[q] > 0
  <2>1. m = IF s.image[q] > s.maxValue
            THEN [image |-> [s.image EXCEPT ![q] = sum, ![p] = 0], maxValue |-> sum]
            ELSE [image |-> [s.image EXCEPT ![p] = sum, ![q] = 0], maxValue |-> sum]
    BY <1>4 DEF MergeVisit, Merge
  <2> HIDE DEF m
  <2> QED
    BY <1>1, <1>2, <1>3, <1>4, <2>1 DEF m
<1>5. CASE ~(q \in Neighbours(p, distance) /\ s.image[q] > 0)
  BY <1>1, <1>2, <1>5 DEF MergeVisit
<1> QED
  BY <1>4, <1>5

\* The total is an integer, none of a blank image.
LEMMA ChargeTyped ==
  ASSUME NEW i \in Image
  PROVE  TotalCharge(i) \in Int
<1>1. PICK g \in [0 .. image_pixels -> Int] :
        /\ g[0] = 0
        /\ \A x \in Pixels : g[x + 1] = g[x] + i[x]
        /\ TotalCharge(i) = g[image_pixels]
  BY ChargeScan
<1> QED
  BY <1>1, ImageSize

LEMMA NoCharge == TotalCharge([x \in Pixels |-> 0]) = 0
<1> DEFINE i == [x \in Pixels |-> 0]
<1>1. i \in Image /\ \A x \in Pixels : i[x] = 0
  BY DEF Image
<1> HIDE DEF i
<1>2. PICK g \in [0 .. image_pixels -> Int] :
        /\ g[0] = 0
        /\ \A x \in Pixels : g[x + 1] = g[x] + i[x]
        /\ TotalCharge(i) = g[image_pixels]
  BY <1>1, ChargeScan
<1> DEFINE S == {k \in 0 .. image_pixels : g[k] = 0}
<1>3. 0 \in S
  BY <1>2, ImageSize
<1>4. ASSUME NEW x \in Pixels, x \in S PROVE x + 1 \in S
  BY <1>1, <1>2, <1>4, ImageSize
<1> HIDE DEF S
<1>5. image_pixels \in S
  BY <1>3, <1>4, ScanInduction, ImageSize
<1> QED
  BY <1>2, <1>5 DEF i, S

\* A change of one pixel changes the total by as much.
LEMMA OnePixel ==
  ASSUME NEW i \in Image, NEW j \in Image, NEW p \in Pixels,
         \A x \in Pixels \ {p} : j[x] = i[x]
  PROVE  TotalCharge(j) = TotalCharge(i) + (j[p] - i[p])
<1>1. PICK g \in [0 .. image_pixels -> Int] :
        /\ g[0] = 0
        /\ \A x \in Pixels : g[x + 1] = g[x] + i[x]
        /\ TotalCharge(i) = g[image_pixels]
  BY ChargeScan
<1>2. PICK h \in [0 .. image_pixels -> Int] :
        /\ h[0] = 0
        /\ \A x \in Pixels : h[x + 1] = h[x] + j[x]
        /\ TotalCharge(j) = h[image_pixels]
  BY ChargeScan
<1>3. /\ \A x \in Pixels : i[x] \in Int /\ j[x] \in Int /\ x \in Nat
      /\ \A x \in Pixels : x \in 0 .. image_pixels /\ x + 1 \in 0 .. image_pixels
      /\ 0 \in 0 .. image_pixels /\ image_pixels \in 0 .. image_pixels
      /\ p < image_pixels
  <2>1. \A x \in Pixels : i[x] \in Int /\ j[x] \in Int
    BY DEF Image
  <2> QED
    BY <2>1, ImageSize DEF Pixels
<1> DEFINE Gain(k) == IF p < k THEN j[p] - i[p] ELSE 0
           S == {k \in 0 .. image_pixels : h[k] = g[k] + Gain(k)}
<1>4. 0 \in S
  BY <1>1, <1>2, <1>3
<1>5. ASSUME NEW x \in Pixels, x \in S PROVE x + 1 \in S
  <2>1. h[x] = g[x] + Gain(x)
    BY <1>5
  <2>2. h[x + 1] = h[x] + j[x] /\ g[x + 1] = g[x] + i[x]
    BY <1>1, <1>2
  <2>3. g[x] \in Int /\ h[x] \in Int /\ i[x] \in Int /\ j[x] \in Int
    BY <1>3
  <2>4. /\ Gain(x) \in Int
        /\ Gain(x + 1) = IF x = p THEN j[x] - i[x] ELSE Gain(x)
        /\ x = p => Gain(x) = 0
    <3>1. x \in Int /\ p \in Int /\ j[p] \in Int /\ i[p] \in Int
      BY <1>3
    <3> QED
      BY <3>1
  <2>5. x # p => j[x] = i[x]
    OBVIOUS
  <2> HIDE DEF Gain
  <2>6. h[x + 1] = g[x + 1] + Gain(x + 1)
    BY <2>1, <2>2, <2>3, <2>4, <2>5
  <2> QED
    BY <1>3, <2>6 DEF S
<1> HIDE DEF S
<1>6. image_pixels \in S
  BY <1>3, <1>4, <1>5, ScanInduction
<1> QED
  BY <1>1, <1>2, <1>3, <1>6 DEF S

\* A change of two pixels changes it by both.
LEMMA TwoPixels ==
  ASSUME NEW i \in Image, NEW j \in Image, NEW p \in Pixels, NEW q \in Pixels,
         p # q, \A x \in Pixels \ {p, q} : j[x] = i[x]
  PROVE  TotalCharge(j) = TotalCharge(i) + (j[p] + j[q]) - (i[p] + i[q])
<1> DEFINE m == [i EXCEPT ![p] = j[p]]
<1>1. /\ i[p] \in Int /\ j[p] \in Int /\ i[q] \in Int /\ j[q] \in Int
      /\ TotalCharge(i) \in Int
  BY ChargeTyped DEF Image
<1>2. /\ m \in Image /\ m[p] = j[p] /\ m[q] = i[q]
      /\ \A x \in Pixels \ {p} : m[x] = i[x]
      /\ \A x \in Pixels \ {q} : j[x] = m[x]
  BY DEF Image
<1> HIDE DEF m
<1>3. TotalCharge(m) = TotalCharge(i) + (m[p] - i[p])
  BY <1>2, OnePixel
<1>4. TotalCharge(j) = TotalCharge(m) + (j[q] - m[q])
  BY <1>2, OnePixel
<1> QED
  BY <1>1, <1>2, <1>3, <1>4

\* The visit of a hit gathers charge from hits and gives it to hits.
LEMMA AddNeighboursFacts ==
  ASSUME NEW in \in Image, NEW p \in Hits(in), NEW distance \in Nat
  PROVE  LET out == AddNeighbours(in, p, distance)
         IN /\ out \in Image
            /\ Hits(out) \subseteq Hits(in)
            /\ TotalCharge(out) = TotalCharge(in)
<1> DEFINE out == AddNeighbours(in, p, distance)
<1>0. p \in Pixels
  BY DEF Hits
<1>1. PICK after \in [0 .. image_pixels -> MergeStates] :
        /\ after[0] = [image |-> in, maxValue |-> in[p]]
        /\ \A q \in Pixels : after[q + 1] = MergeVisit(after[q], p, q, distance)
        /\ out = after[image_pixels].image
  BY <1>0, MergeScan
<1> HIDE DEF out
<1>2. /\ 0 \in 0 .. image_pixels /\ image_pixels \in 0 .. image_pixels
      /\ \A q \in Pixels : q \in 0 .. image_pixels /\ q + 1 \in 0 .. image_pixels
  BY ImageSize
<1>3. \A k \in 0 .. image_pixels : after[k].image \in Image
  BY DEF MergeStates
<1>4. \A i \in Image, x \in Pixels : x \in Hits(i) <=> i[x] > 0
  BY DEF Hits
<1> DEFINE S == {k \in 0 .. image_pixels :
                   /\ Hits(after[k].image) \subseteq Hits(in)
                   /\ TotalCharge(after[k].image) = TotalCharge(in)}
<1>5. 0 \in S
  BY <1>1, <1>2
<1>6. ASSUME NEW q \in Pixels, q \in S PROVE q + 1 \in S
  <2> DEFINE i == after[q].image
             j == after[q + 1].image
  <2>1. /\ after[q + 1] = MergeVisit(after[q], p, q, distance)
        /\ after[q] \in MergeStates
        /\ Hits(i) \subseteq Hits(in) /\ TotalCharge(i) = TotalCharge(in)
        /\ q + 1 \in 0 .. image_pixels
    BY <1>1, <1>2, <1>6
  <2>2. CASE q \in Neighbours(p, distance) /\ q \in Hits(i)
    <3>1. /\ i \in Image /\ j \in Image /\ p # q
          /\ \A x \in Pixels \ {p, q} : j[x] = i[x]
          /\ \/ j[q] = i[p] + i[q] /\ j[p] = 0
             \/ j[p] = i[p] + i[q] /\ j[q] = 0
      <4>1. i \in Image /\ j \in Image
        BY <1>2, <1>3
      <4>2. /\ p # q
            /\ \A x \in Pixels \ {p, q} : j[x] = i[x]
            /\ IF i[q] > after[q].maxValue
               THEN j[q] = i[p] + i[q] /\ j[p] = 0
               ELSE j[p] = i[p] + i[q] /\ j[q] = 0
        <5> DEFINE s == after[q]
                   m == MergeVisit(s, p, q, distance)
        <5>1. s \in MergeStates /\ q \in Hits(s.image) /\ after[q + 1] = m
          BY <2>1, <2>2
        <5> HIDE DEF s
        <5>2. /\ p # q
              /\ \A x \in Pixels \ {p, q} : m.image[x] = s.image[x]
              /\ IF s.image[q] > s.maxValue
                 THEN m.image[q] = s.image[p] + s.image[q] /\ m.image[p] = 0
                 ELSE m.image[p] = s.image[p] + s.image[q] /\ m.image[q] = 0
          BY <1>0, <2>2, <5>1, MergeVisitFacts
        <5> QED
          BY <5>1, <5>2 DEF s
      <4> QED
        BY <4>1, <4>2
    <3> HIDE DEF i, j
    <3>2. j[p] + j[q] = i[p] + i[q]
      BY <1>0, <3>1 DEF Image
    <3>3. TotalCharge(j) = TotalCharge(i)
      <4>1. TotalCharge(j) = TotalCharge(i) + (j[p] + j[q]) - (i[p] + i[q])
        BY <1>0, <3>1, TwoPixels
      <4>2. TotalCharge(i) \in Int /\ i[p] + i[q] \in Int
        BY <1>0, <3>1, ChargeTyped DEF Image
      <4> QED
        BY <3>2, <4>1, <4>2
    <3>4. Hits(j) \subseteq Hits(in)
      <4>1. ASSUME NEW x \in Hits(j), x # p, x # q PROVE x \in Hits(i)
        BY <1>4, <3>1, <4>1 DEF Hits
      <4> QED
        BY <2>1, <2>2, <4>1
    <3> QED
      BY <2>1, <3>3, <3>4 DEF j
  <2>3. CASE ~(q \in Neighbours(p, distance) /\ q \in Hits(i))
    <3>1. after[q + 1] = after[q]
      BY <1>0, <2>1, <2>3, MergeVisitFacts
    <3> QED
      BY <2>1, <3>1
  <2> QED
    BY <2>2, <2>3
<1> HIDE DEF S
<1>7. \A k \in 0 .. image_pixels : k \in S
  BY <1>5, <1>6, ScanInduction
<1>8. /\ Hits(after[image_pixels].image) \subseteq Hits(in)
      /\ TotalCharge(after[image_pixels].image) = TotalCharge(in)
  BY <1>2, <1>7 DEF S
<1> QED
  BY <1>1, <1>2, <1>3, <1>8 DEF out

\* So does the addition as a whole.
LEMMA AdditionFacts ==
  ASSUME NEW in \in Image, NEW distance \in Nat
  PROVE  LET out == process_addition(in, distance)
         IN /\ out \in Image
            /\ Hits(out) \subseteq Hits(in)
            /\ TotalCharge(out) = TotalCharge(in)
<1> DEFINE out == process_addition(in, distance)
<1>1. PICK after \in [0 .. image_pixels -> Image] :
        /\ after[0] = in
        /\ \A p \in Pixels : after[p + 1] = AddVisit(after[p], p, distance)
        /\ out = after[image_pixels]
  BY AdditionScan
<1> HIDE DEF out
<1>2. /\ 0 \in 0 .. image_pixels /\ image_pixels \in 0 .. image_pixels
      /\ \A q \in Pixels : q \in 0 .. image_pixels /\ q + 1 \in 0 .. image_pixels
  BY ImageSize
<1> DEFINE S == {k \in 0 .. image_pixels :
                   /\ Hits(after[k]) \subseteq Hits(in)
                   /\ TotalCharge(after[k]) = TotalCharge(in)}
<1>3. 0 \in S
  BY <1>1, <1>2
<1>4. ASSUME NEW p \in Pixels, p \in S PROVE p + 1 \in S
  <2>1. after[p] \in Image /\ after[p + 1] = AddVisit(after[p], p, distance)
    BY <1>1, <1>2
  <2>2. CASE p \in Hits(after[p])
    <3>1. after[p + 1] = AddNeighbours(after[p], p, distance)
      BY <2>1, <2>2 DEF AddVisit, Hits
    <3>2. /\ Hits(after[p + 1]) \subseteq Hits(after[p])
          /\ TotalCharge(after[p + 1]) = TotalCharge(after[p])
      BY <2>1, <2>2, <3>1, AddNeighboursFacts
    <3> QED
      BY <1>2, <1>4, <3>2
  <2>3. CASE p \notin Hits(after[p])
    <3>1. after[p + 1] = after[p]
      BY <2>1, <2>3 DEF AddVisit, Hits
    <3> QED
      BY <1>2, <1>4, <3>1
  <2> QED
    BY <2>2, <2>3
<1> HIDE DEF S
<1>5. \A k \in 0 .. image_pixels : k \in S
  BY <1>3, <1>4, ScanInduction
<1>6. image_pixels \in S
  BY <1>2, <1>5
<1> QED
  BY <1>1, <1>2, <1>6 DEF out, S

-----------------------------------------------------------------------------
(* Chains *)

ImagesTyped == image \in Image /\ original \in Image

ImageInv == ImagesTyped /\ HitsOnlyDisappear

LEMMA ThresholdFacts ==
  ASSUME NEW in \in Image,
         NEW out \in {process_threshold_value(in, value) :
                        value \in threshold_values}
                     \cup {process_threshold_file(in, table) :
                             table \in thresholds_per_pixel}
  PROVE  out \in Image /\ Hits(out) \subseteq Hits(in)
<1>1. /\ out = [q \in Pixels |-> out[q]]
      /\ \A q \in Pixels : out[q] = 0 \/ out[q] = in[q]
  BY DEF process_threshold_value, process_threshold_file
<1> QED
  BY <1>1 DEF Image, Hits

LEMMA CalibrationFacts ==
  ASSUME NEW in \in Image, NEW c \in Calibrations
  PROVE  LET out == calibrate_pixels(in, c)
         IN out \in Image /\ Hits(out) \subseteq Hits(in)
<1> DEFINE out == calibrate_pixels(in, c)
<1>1. c.gradient \in [Pixels -> Int] /\ c.intercept \in [Pixels -> Int]
  BY ConfigurationAssumption
<1>2. \A q \in Pixels : in[q] * c.gradient[q] + c.intercept[q] \in Int
  BY <1>1 DEF Image
<1>3. out \in Image
  BY <1>2 DEF calibrate_pixels, Image
<1>4. \A q \in Pixels : ~(in[q] > 0) => out[q] = in[q]
  BY DEF calibrate_pixels
<1> HIDE DEF out
<1>5. Hits(out) \subseteq Hits(in)
  BY <1>4 DEF Hits
<1> QED
  BY <1>3, <1>5 DEF out

LEMMA StageFacts ==
  ASSUME ImageInv, [Next]_vars
  PROVE  /\ image' \in Image /\ original' = original
         /\ Hits(image') \subseteq Hits(image)
<1> USE DEF ImageInv, ImagesTyped
<1>1. ASSUME NEW value \in threshold_values, ThresholdByValue(value)
      PROVE  /\ image' \in Image /\ original' = original
             /\ Hits(image') \subseteq Hits(image)
  BY <1>1, ThresholdFacts DEF ThresholdByValue, Stage
<1>2. ASSUME NEW table \in thresholds_per_pixel, ThresholdByFile(table)
      PROVE  /\ image' \in Image /\ original' = original
             /\ Hits(image') \subseteq Hits(image)
  BY <1>2, ThresholdFacts DEF ThresholdByFile, Stage
<1>3. ASSUME NEW c \in Calibrations, Calibrate(c)
      PROVE  /\ image' \in Image /\ original' = original
             /\ Hits(image') \subseteq Hits(image)
  BY <1>3, CalibrationFacts DEF Calibrate, Stage
<1>4. directional_distances \subseteq Nat
  BY ConfigurationAssumption
<1>5. ASSUME NEW distance \in directional_distances, Discriminate(distance)
      PROVE  /\ image' \in Image /\ original' = original
             /\ Hits(image') \subseteq Hits(image)
  BY <1>4, <1>5, DiscriminationFacts DEF Discriminate, Stage
<1>6. ASSUME NEW distance \in directional_distances, Add(distance)
      PROVE  /\ image' \in Image /\ original' = original
             /\ Hits(image') \subseteq Hits(image)
  BY <1>4, <1>6, AdditionFacts DEF Add, Stage
<1>7. CASE UNCHANGED vars
  BY <1>7 DEF vars
<1> QED
  BY <1>1, <1>2, <1>3, <1>5, <1>6, <1>7 DEF Next

LEMMA ImageInvariant == Spec => []ImageInv
<1>1. Init => ImageInv
  <2> SUFFICES ASSUME Init PROVE ImageInv
    OBVIOUS
  <2>1. image \in [Pixels -> Nat] /\ original = image
    BY ImageAssumption DEF Init
  <2>2. image \in Image
    BY <2>1 DEF Image
  <2> QED
    BY <2>1, <2>2 DEF ImageInv, ImagesTyped, HitsOnlyDisappear
<1>2. ImageInv /\ [Next]_vars => ImageInv'
  <2> SUFFICES ASSUME ImageInv, [Next]_vars PROVE ImageInv'
    OBVIOUS
  <2>1. /\ image' \in Image /\ original' = original
        /\ Hits(image') \subseteq Hits(image)
    BY StageFacts
  <2>2. Hits(image)' = Hits(image') /\ Hits(original)' = Hits(original)
    BY <2>1 DEF Hits
  <2> QED
    BY <2>1, <2>2 DEF ImageInv, ImagesTyped, HitsOnlyDisappear
<1> QED
  BY <1>1, <1>2, PTL DEF Spec

\* No chain of plugins, however long and configured, makes a hit where the
\* detector saw none.
THEOREM NoHitAppears == Spec => []HitsOnlyDisappear
<1>1. ImageInv => HitsOnlyDisappear
  BY DEF ImageInv
<1> QED
  BY <1>1, ImageInvariant, PTL

\* Discrimination, with a grid of any size, leaves no two hits in one grid,
\* keeps those that had none beside them and wipes both of a pair.
THEOREM HitsEndIsolated == Spec => DiscriminationIsolates
<1>1. ASSUME ImageInv, NEW distance \in directional_distances,
             Discriminate(distance)
      PROVE  \A p \in Pixels :
               /\ p \in Hits(image') => Isolated(image', p, distance)
               /\ p \in Hits(image) /\ Isolated(image, p, distance)
                    => image'[p] = image[p]
               /\ \A q \in Hits(image) :
                    /\ p \in Hits(image)
                    /\ Neighbours(p, distance) \cap Hits(image) = {q}
                    /\ Neighbours(q, distance) \cap Hits(image) = {p}
                    => p \notin Hits(image')
  <2>1. distance \in Nat /\ image \in Image
        /\ image' = processDiscrimination(image, distance)
    BY <1>1, ConfigurationAssumption DEF ImageInv, ImagesTyped, Discriminate, Stage
  <2> QED
    BY <2>1, DiscriminationFacts
<1>2. ImageInv /\ [Next]_vars =>
        [\A distance \in directional_distances : Discriminate(distance) =>
           \A p \in Pixels :
             /\ p \in Hits(image') => Isolated(image', p, distance)
             /\ p \in Hits(image) /\ Isolated(image, p, distance)
                  => image'[p] = image[p]
             /\ \A q \in Hits(image) :
                  /\ p \in Hits(image)
                  /\ Neighbours(p, distance) \cap Hits(image) = {q}
                  /\ Neighbours(q, distance) \cap Hits(image) = {p}
                  => p \notin Hits(image')]_vars
  BY <1>1
<1> QED
  BY <1>2, ImageInvariant, PTL DEF Spec, DiscriminationIsolates

\* Addition, with a grid of any size, conserves the charge of any image.
THEOREM ChargeConserved == Spec => AdditionConservesCharge
<1>1. ASSUME ImageInv, NEW distance \in directional_distances, Add(distance)
      PROVE  TotalCharge(image') = TotalCharge(image)
  <2>1. distance \in Nat /\ image \in Image
        /\ image' = process_addition(image, distance)
    BY <1>1, ConfigurationAssumption DEF ImageInv, ImagesTyped, Add, Stage
  <2> QED
    BY <2>1, AdditionFacts
<1>2. ImageInv /\ [Next]_vars =>
        [\A distance \in directional_distances :
           Add(distance) => TotalCharge(image') = TotalCharge(image)]_vars
  BY <1>1
<1> QED
  BY <1>2, ImageInvariant, PTL DEF Spec, AdditionConservesCharge

-----------------------------------------------------------------------------
(* What the integration test computes *)

NoneNegative(i) == \A p \in Pixels : i[p] >= 0

GatherVisit(i, p) == IF i[p] # 0 THEN Gathered(i, p) ELSE i

LEMMA GatherVisitTyped ==
  ASSUME NEW i \in Image, NEW p \in Pixels
  PROVE  GatherVisit(i, p) \in Image
<1> DEFINE grid == Neighbours(p, 1) \cup {p}
           seen == [q \in Pixels |-> IF q \in grid THEN i[q] ELSE 0]
           IsMax(q) == \A r \in grid : i[r] < i[q] \/ (i[r] = i[q] /\ q <= r)
           max == CHOOSE q \in grid : IsMax(q)
           charge == TotalCharge(seen)
<1>1. seen \in Image
  BY DEF Image
<1>2. Gathered(i, p) = [q \in Pixels |-> IF q = max THEN charge
                                        ELSE IF q \in grid THEN 0 ELSE i[q]]
  BY DEF Gathered
<1>3. charge \in Int
  <2> HIDE DEF seen
  <2> QED BY <1>1, ChargeTyped
<1> HIDE DEF max, charge
<1>4. Gathered(i, p) \in Image
  BY <1>2, <1>3 DEF Image
<1> QED
  BY <1>4 DEF GatherVisit

\* The image after each visit of the test's computation.
LEMMA ExpectedScan ==
  ASSUME NEW in \in Image
  PROVE  \E after \in [0 .. image_pixels -> Image] :
           /\ after[0] = in
           /\ \A p \in Pixels : after[p + 1] = GatherVisit(after[p], p)
           /\ ExpectedAddition(in) = after[image_pixels]
<1> DEFINE States == Image
           first == in
           visit == [p \in Pixels |-> [x \in States |-> GatherVisit(x, p)]]
           Loop(g) == g = [k \in 0 .. image_pixels |->
                             IF k = 0 THEN first
                             ELSE GatherVisit(g[k - 1], k - 1)]
           after == CHOOSE g : Loop(g)
<1>1. first \in States /\ visit \in [Pixels -> [States -> States]]
  BY GatherVisitTyped
<1>2. \A p \in Pixels, x \in States : visit[p][x] = GatherVisit(x, p)
  OBVIOUS
<1> HIDE DEF first, visit, States
<1>3. \E g : Loop(g)
  <2>1. PICK g \in [0 .. image_pixels -> States] :
          /\ g[0] = first
          /\ \A k \in 1 .. image_pixels :
               g[k - 1] \in States /\ g[k] = visit[k - 1][g[k - 1]]
    BY <1>1, ScanExists
  <2>2. ASSUME NEW k \in 0 .. image_pixels
        PROVE  g[k] = IF k = 0 THEN first ELSE GatherVisit(g[k - 1], k - 1)
    <3>1. k # 0 => k \in 1 .. image_pixels /\ k - 1 \in Pixels
      BY ImageSize
    <3> QED
      BY <1>2, <2>1, <3>1
  <2> QED
    BY <2>2
<1>4. Loop(after)
  <2> HIDE DEF Loop
  <2> QED BY <1>3
<1>5. ExpectedAddition(in) = after[image_pixels]
  BY DEF ExpectedAddition, GatherVisit, Scan, first
<1> HIDE DEF after
<1>6. /\ after = [k \in 0 .. image_pixels |-> after[k]]
      /\ after[0] = first
      /\ \A k \in 1 .. image_pixels : after[k] = GatherVisit(after[k - 1], k - 1)
  <2>1. after = [k \in 0 .. image_pixels |-> after[k]]
    BY <1>4
  <2>2. \A k \in 0 .. image_pixels :
          after[k] = IF k = 0 THEN first ELSE GatherVisit(after[k - 1], k - 1)
    BY <1>4
  <2> HIDE DEF Loop
  <2>3. after[0] = first
    BY <2>2, ImageSize
  <2>4. ASSUME NEW k \in 1 .. image_pixels
        PROVE  after[k] = GatherVisit(after[k - 1], k - 1)
    <3>1. k \in 0 .. image_pixels /\ k # 0
      BY ImageSize
    <3> QED
      BY <2>2, <3>1
  <2> QED
    BY <2>1, <2>3, <2>4
<1>7. \A k \in 1 .. image_pixels :
        after[k - 1] \in States => after[k] = visit[k - 1][after[k - 1]]
  BY <1>2, <1>6, ImageSize
<1>8. /\ after \in [0 .. image_pixels -> States]
      /\ IsScan(after, first, visit)
  <2>1. after = [k \in 0 .. image_pixels |-> after[k]]
    BY <1>6
  <2>2. after[0] = first
    BY <1>6
  <2> HIDE DEF Loop
  <2> QED
    BY <1>1, <1>7, <2>1, <2>2, ScanFollows
<1>9. \A p \in Pixels : after[p] \in States
  BY <1>8, ImageSize
<1>10. \A p \in Pixels : after[p + 1] = GatherVisit(after[p], p)
  BY <1>2, <1>8, <1>9 DEF IsScan
<1> QED
  BY <1>5, <1>6, <1>8, <1>10 DEF first, States

\* The hit at p and the one at r as the addition leaves them.
Paired(i, p, r) ==
  LET sum == i[p] + i[r]
  IN IF i[r] > i[p] THEN [i EXCEPT ![r] = sum, ![p] = 0]
     ELSE [i EXCEPT ![p] = sum, ![r] = 0]

LEMMA PairedFacts ==
  ASSUME NEW i \in Image, NoneNegative(i), NEW p \in Hits(i), NEW r \in Hits(i),
         p # r
  PROVE  /\ Paired(i, p, r) \in Image /\ NoneNegative(Paired(i, p, r))
         /\ Hits(Paired(i, p, r)) \subseteq Hits(i)
         /\ p \notin Hits(Paired(i, p, r)) \/ r \notin Hits(Paired(i, p, r))
         /\ \A x \in Pixels \ {p, r} : Paired(i, p, r)[x] = i[x]
<1> DEFINE o == Paired(i, p, r)
<1>1. /\ p \in Pixels /\ r \in Pixels /\ i[p] > 0 /\ i[r] > 0
      /\ i[p] \in Int /\ i[r] \in Int /\ i \in [Pixels -> Int]
  BY DEF Hits, Image
<1>2. /\ o \in [Pixels -> Int] /\ \A x \in Pixels \ {p, r} : o[x] = i[x]
      /\ (o[p] = 0 /\ o[r] > 0) \/ (o[r] = 0 /\ o[p] > 0)
  <2>1. CASE i[r] > i[p]
    <3>1. o = [i EXCEPT ![r] = i[p] + i[r], ![p] = 0]
      BY <2>1 DEF Paired
    <3> HIDE DEF o
    <3>2. o \in [Pixels -> Int] /\ \A x \in Pixels \ {p, r} : o[x] = i[x]
      BY <1>1, <3>1
    <3>3. o[p] = 0 /\ o[r] = i[p] + i[r]
      BY <1>1, <3>1
    <3>4. i[p] + i[r] > 0
      BY <1>1
    <3>5. o[r] > 0
      BY <3>3, <3>4
    <3> QED BY <3>2, <3>3, <3>5
  <2>2. CASE ~(i[r] > i[p])
    <3>1. o = [i EXCEPT ![p] = i[p] + i[r], ![r] = 0]
      BY <2>2 DEF Paired
    <3> HIDE DEF o
    <3>2. o \in [Pixels -> Int] /\ \A x \in Pixels \ {p, r} : o[x] = i[x]
      BY <1>1, <3>1
    <3>3. o[r] = 0 /\ o[p] = i[p] + i[r]
      BY <1>1, <3>1
    <3>4. i[p] + i[r] > 0
      BY <1>1
    <3>5. o[p] > 0
      BY <3>3, <3>4
    <3> QED BY <3>2, <3>3, <3>5
  <2> QED BY <2>1, <2>2
<1> HIDE DEF o
<1>3. NoneNegative(o)
  BY <1>1, <1>2 DEF NoneNegative
<1>4. Hits(o) \subseteq Hits(i)
  BY <1>1, <1>2 DEF Hits
<1>5. p \notin Hits(o) \/ r \notin Hits(o)
  BY <1>1, <1>2 DEF Hits
<1> QED
  BY <1>2, <1>3, <1>4, <1>5 DEF o, Image

LEMMA AddAlone ==
  ASSUME NEW i \in Image, NEW p \in Hits(i),
         Neighbours(p, 1) \cap Hits(i) = {}
  PROVE  AddNeighbours(i, p, 1) = i
<1> DEFINE start == [image |-> i, maxValue |-> i[p]]
<1>0. p \in Pixels /\ 1 \in Nat
  BY DEF Hits
<1>1. PICK after \in [0 .. image_pixels -> MergeStates] :
        /\ after[0] = [image |-> i, maxValue |-> i[p]]
        /\ \A q \in Pixels : after[q + 1] = MergeVisit(after[q], p, q, 1)
        /\ AddNeighbours(i, p, 1) = after[image_pixels].image
  BY <1>0, MergeScan
<1>2. start.image = i /\ start \in MergeStates
  BY <1>0 DEF MergeStates, Image
<1>3. after[0] = start
  BY <1>1
<1> HIDE DEF start
<1> DEFINE S == {k \in 0 .. image_pixels : after[k] = start}
<1>4. 0 \in S
  BY <1>3, ImageSize
<1>5. ASSUME NEW q \in Pixels, q \in S PROVE q + 1 \in S
  <2>1. after[q] = start /\ after[q + 1] = MergeVisit(start, p, q, 1)
        /\ q + 1 \in 0 .. image_pixels
    BY <1>1, <1>5, ImageSize
  <2>2. q \notin Neighbours(p, 1) \/ q \notin Hits(start.image)
    BY <1>2
  <2>3. MergeVisit(start, p, q, 1) = start
    BY <1>0, <1>2, <2>2, MergeVisitFacts
  <2> QED
    BY <2>1, <2>3
<1> HIDE DEF S
<1>6. image_pixels \in S
  BY <1>4, <1>5, ScanInduction, ImageSize
<1> QED
  BY <1>1, <1>2, <1>6 DEF S

LEMMA AddPair ==
  ASSUME NEW i \in Image, NoneNegative(i), NEW p \in Hits(i), NEW r,
         Neighbours(p, 1) \cap Hits(i) = {r}
  PROVE  AddNeighbours(i, p, 1) = Paired(i, p, r)
<1> DEFINE start == [image |-> i, maxValue |-> i[p]]
           o == Paired(i, p, r)
<1>0. /\ p \in Pixels /\ r \in Pixels /\ 1 \in Nat /\ p # r /\ r \in Hits(i)
      /\ r \in Neighbours(p, 1)
  BY NeighbourFacts DEF Hits
<1>1. PICK after \in [0 .. image_pixels -> MergeStates] :
        /\ after[0] = [image |-> i, maxValue |-> i[p]]
        /\ \A q \in Pixels : after[q + 1] = MergeVisit(after[q], p, q, 1)
        /\ AddNeighbours(i, p, 1) = after[image_pixels].image
  BY <1>0, MergeScan
<1>2. start.image = i /\ start.maxValue = i[p] /\ start \in MergeStates
  BY <1>0 DEF MergeStates, Image
<1>3. after[0] = start
  BY <1>1
<1>4. /\ o \in Image /\ Hits(o) \subseteq Hits(i)
      /\ p \notin Hits(o) \/ r \notin Hits(o)
  BY <1>0, PairedFacts
<1>5. MergeVisit(start, p, r, 1).image = o
  <2>1. i[r] > 0
    BY <1>0 DEF Hits
  <2>2. MergeVisit(start, p, r, 1) = Merge(start, p, r)
    BY <1>0, <1>2, <2>1 DEF MergeVisit
  <2> HIDE DEF start
  <2>3. CASE i[r] > i[p]
    <3>1. Merge(start, p, r).image = [i EXCEPT ![r] = i[p] + i[r], ![p] = 0]
      BY <1>2, <2>3 DEF Merge
    <3> QED BY <2>2, <2>3, <3>1 DEF Paired
  <2>4. CASE ~(i[r] > i[p])
    <3>1. Merge(start, p, r).image = [i EXCEPT ![p] = i[p] + i[r], ![r] = 0]
      BY <1>2, <2>4 DEF Merge
    <3> QED BY <2>2, <2>4, <3>1 DEF Paired
  <2> QED BY <2>3, <2>4
<1> HIDE DEF start, o
<1> DEFINE S == {k \in 0 .. image_pixels :
                   IF k <= r THEN after[k] = start ELSE after[k].image = o}
<1>6. 0 \in S
  BY <1>0, <1>3, ImageSize DEF Pixels
<1>7. ASSUME NEW q \in Pixels, q \in S PROVE q + 1 \in S
  <2>1. /\ after[q] \in MergeStates /\ after[q + 1] = MergeVisit(after[q], p, q, 1)
        /\ q + 1 \in 0 .. image_pixels /\ q \in Int /\ r \in Int
    BY <1>0, <1>1, ImageSize DEF Pixels
  <2>2. CASE q < r
    <3>1. after[q] = start
      BY <1>7, <2>1, <2>2
    <3>2. q \notin Neighbours(p, 1) \/ q \notin Hits(start.image)
      BY <1>2, <2>1, <2>2
    <3>3. MergeVisit(start, p, q, 1) = start
      BY <1>0, <1>2, <3>2, MergeVisitFacts
    <3> QED
      BY <2>1, <2>2, <3>1, <3>3
  <2>3. CASE q = r
    <3>1. after[q] = start
      BY <1>7, <2>1, <2>3
    <3> QED
      BY <1>5, <2>1, <2>3, <3>1
  <2>4. CASE q > r
    <3>1. after[q].image = o
      BY <1>7, <2>1, <2>4
    <3>2. q \notin Neighbours(p, 1) \/ q \notin Hits(o)
      BY <1>4, <2>1, <2>4
    <3>3. MergeVisit(after[q], p, q, 1) = after[q]
      BY <1>0, <2>1, <3>1, <3>2, MergeVisitFacts
    <3> QED
      BY <2>1, <2>4, <3>1, <3>3
  <2> QED
    BY <2>1, <2>2, <2>3, <2>4
<1> HIDE DEF S
<1>8. image_pixels \in S
  BY <1>6, <1>7, ScanInduction, ImageSize
<1>9. ~(image_pixels <= r)
  BY <1>0, ImageSize DEF Pixels
<1> QED
  BY <1>1, <1>8, <1>9 DEF S, o

\* The charge of the grid of p at its pixel m.
GatheredAt(i, p, m) ==
  [q \in Pixels |->
     IF q = m
     THEN TotalCharge([x \in Pixels |->
            IF x \in Neighbours(p, 1) \cup {p} THEN i[x] ELSE 0])
     ELSE IF q \in Neighbours(p, 1) \cup {p} THEN 0 ELSE i[q]]

\* It goes to the largest pixel, or to the first of them.
LEMMA GatheredFields ==
  ASSUME NEW i \in Image, NEW p \in Pixels, NEW m,
         m \in Neighbours(p, 1) \cup {p},
         \A q \in Neighbours(p, 1) \cup {p} : q # m =>
           i[q] < i[m] \/ (i[q] = i[m] /\ m < q)
  PROVE  Gathered(i, p) = GatheredAt(i, p, m)
<1> DEFINE grid == Neighbours(p, 1) \cup {p}
           seen == [q \in Pixels |-> IF q \in grid THEN i[q] ELSE 0]
           IsMax(q) == \A r \in grid : i[r] < i[q] \/ (i[r] = i[q] /\ q <= r)
           max == CHOOSE q \in grid : IsMax(q)
           charge == TotalCharge(seen)
<1>1. Gathered(i, p) = [q \in Pixels |-> IF q = max THEN charge
                                        ELSE IF q \in grid THEN 0 ELSE i[q]]
  BY DEF Gathered
<1>2. /\ grid \subseteq Pixels /\ Pixels \subseteq Int
      /\ \A q \in Pixels : i[q] \in Int
      /\ m \in grid
      /\ \A q \in grid : q # m => i[q] < i[m] \/ (i[q] = i[m] /\ m < q)
  BY NeighbourFacts DEF Image, Pixels
<1> HIDE DEF grid
<1>3. IsMax(m)
  BY <1>2
<1>4. ASSUME NEW q \in grid, IsMax(q) PROVE q = m
  <2>1. i[m] < i[q] \/ (i[m] = i[q] /\ q <= m)
    BY <1>2, <1>4
  <2>2. q # m => i[q] < i[m] \/ (i[q] = i[m] /\ m < q)
    BY <1>2
  <2>3. i[q] \in Int /\ i[m] \in Int /\ q \in Int /\ m \in Int
    BY <1>2
  <2> QED
    BY <2>1, <2>2, <2>3
<1> HIDE DEF IsMax
<1>5. max = m
  BY <1>2, <1>3, <1>4
<1> HIDE DEF max
<1> QED
  BY <1>1, <1>5 DEF grid, GatheredAt

LEMMA GatheredAlone ==
  ASSUME NEW i \in Image, NoneNegative(i), NEW p \in Hits(i),
         Neighbours(p, 1) \cap Hits(i) = {}
  PROVE  Gathered(i, p) = i
<1> DEFINE grid == Neighbours(p, 1) \cup {p}
           seen == [x \in Pixels |-> IF x \in grid THEN i[x] ELSE 0]
           blank == [x \in Pixels |-> 0]
<1>1. /\ p \in Pixels /\ i[p] > 0 /\ i \in [Pixels -> Int]
      /\ grid \subseteq Pixels /\ p \in grid
      /\ \A q \in grid : q # p => i[q] = 0
  <2>1. Neighbours(p, 1) \subseteq Pixels \ {p}
    BY NeighbourFacts DEF Hits
  <2>2. p \in Pixels /\ i[p] > 0 /\ i \in [Pixels -> Int]
    BY DEF Hits, Image
  <2>3. ASSUME NEW q \in Neighbours(p, 1) PROVE i[q] = 0
    <3>1. q \in Pixels /\ q \notin Hits(i)
      BY <2>1
    <3>2. i[q] >= 0 /\ ~(i[q] > 0) /\ i[q] \in Int
      BY <2>2, <3>1 DEF NoneNegative, Hits
    <3> QED
      BY <3>2
  <2> QED
    BY <2>1, <2>2, <2>3
<1>2. /\ seen \in Image /\ blank \in Image
      /\ \A x \in Pixels \ {p} : seen[x] = blank[x]
      /\ seen[p] = i[p] /\ blank[p] = 0
  BY <1>1 DEF Image
<1>3. TotalCharge(blank) = 0
  BY NoCharge
<1> HIDE DEF seen, blank
<1>4. TotalCharge(seen) = TotalCharge(blank) + (seen[p] - blank[p])
  BY <1>1, <1>2, OnePixel
<1>5. TotalCharge(seen) = i[p]
  BY <1>1, <1>2, <1>3, <1>4
<1> USE DEF seen
<1>6. Gathered(i, p) = [q \in Pixels |->
         IF q = p THEN TotalCharge(seen) ELSE IF q \in grid THEN 0 ELSE i[q]]
  <2>1. \A q \in grid : q # p => i[q] < i[p] \/ (i[q] = i[p] /\ p < q)
    BY <1>1
  <2> QED
    BY <1>1, <2>1, GatheredFields, ZenonT(30) DEF GatheredAt
<1> HIDE DEF seen, grid
<1> QED
  BY <1>1, <1>5, <1>6

LEMMA GatheredPair ==
  ASSUME NEW i \in Image, NoneNegative(i), NEW p \in Hits(i), NEW r, p < r,
         Neighbours(p, 1) \cap Hits(i) = {r}
  PROVE  Gathered(i, p) = Paired(i, p, r)
<1> DEFINE grid == Neighbours(p, 1) \cup {p}
           seen == [x \in Pixels |-> IF x \in grid THEN i[x] ELSE 0]
           blank == [x \in Pixels |-> 0]
           sum == i[p] + i[r]
<1>1. /\ p \in Pixels /\ r \in Pixels /\ p # r /\ i[p] > 0 /\ i[r] > 0
      /\ i \in [Pixels -> Int] /\ i[p] \in Int /\ i[r] \in Int
      /\ grid \subseteq Pixels /\ p \in grid /\ r \in grid
      /\ \A q \in grid : q # p /\ q # r => i[q] = 0
  <2>1. Neighbours(p, 1) \subseteq Pixels \ {p}
    BY NeighbourFacts DEF Hits
  <2>2. p \in Pixels /\ i[p] > 0 /\ i \in [Pixels -> Int]
    BY DEF Hits, Image
  <2>3. r \in Neighbours(p, 1) /\ r \in Pixels /\ i[r] > 0
    BY DEF Hits
  <2>4. ASSUME NEW q \in Neighbours(p, 1), q # r PROVE i[q] = 0
    <3>1. q \in Pixels /\ q \notin Hits(i)
      BY <2>1, <2>4
    <3>2. i[q] >= 0 /\ ~(i[q] > 0) /\ i[q] \in Int
      BY <2>2, <3>1 DEF NoneNegative, Hits
    <3> QED
      BY <3>2
  <2> QED
    BY <2>1, <2>2, <2>3, <2>4
<1>2. /\ seen \in Image /\ blank \in Image
      /\ \A x \in Pixels \ {p, r} : seen[x] = blank[x]
      /\ seen[p] = i[p] /\ seen[r] = i[r] /\ blank[p] = 0 /\ blank[r] = 0
  <2> HIDE DEF grid
  <2> QED
    BY <1>1 DEF Image
<1>3. TotalCharge(blank) = 0
  BY NoCharge
<1> HIDE DEF seen, blank
<1>4. TotalCharge(seen)
        = TotalCharge(blank) + (seen[p] + seen[r]) - (blank[p] + blank[r])
  BY <1>1, <1>2, TwoPixels
<1>5. TotalCharge(seen) = sum
  BY <1>1, <1>2, <1>3, <1>4
<1>6. ASSUME NEW m \in {p, r},
             \A q \in grid : q # m => i[q] < i[m] \/ (i[q] = i[m] /\ m < q)
      PROVE  Gathered(i, p) = [q \in Pixels |->
               IF q = m THEN sum ELSE IF q \in grid THEN 0 ELSE i[q]]
  <2> USE DEF seen
  <2>1. m \in Neighbours(p, 1) \cup {p}
    BY <1>1
  <2>2. Gathered(i, p) = [q \in Pixels |->
          IF q = m THEN TotalCharge(seen) ELSE IF q \in grid THEN 0 ELSE i[q]]
    <3>1. \A q \in Neighbours(p, 1) \cup {p} : q # m =>
            i[q] < i[m] \/ (i[q] = i[m] /\ m < q)
      BY <1>6
    <3>2. p \in Pixels
      BY <1>1
    <3> HIDE DEF seen, grid, sum
    <3>3. Gathered(i, p) = GatheredAt(i, p, m)
      BY <2>1, <3>1, <3>2, GatheredFields
    <3> QED
      BY <3>3 DEF GatheredAt, seen, grid
  <2> HIDE DEF seen, grid
  <2> QED
    BY <1>5, <2>2
<1> HIDE DEF grid, sum
<1>7. sum \in Int
  BY <1>1 DEF sum
<1>8. CASE i[r] > i[p]
  <2>1. \A q \in grid : q # r => i[q] < i[r] \/ (i[q] = i[r] /\ r < q)
    BY <1>1, <1>8
  <2>2. Gathered(i, p) = [q \in Pixels |->
          IF q = r THEN sum ELSE IF q \in grid THEN 0 ELSE i[q]]
    BY <1>6, <2>1
  <2>3. Paired(i, p, r) = [i EXCEPT ![r] = sum, ![p] = 0]
    BY <1>8 DEF Paired, sum
  <2>4. ASSUME NEW q \in Pixels
        PROVE  [i EXCEPT ![r] = sum, ![p] = 0][q]
                 = IF q = r THEN sum ELSE IF q \in grid THEN 0 ELSE i[q]
    BY <1>1
  <2>5. [i EXCEPT ![r] = sum, ![p] = 0] = [q \in Pixels |->
          IF q = r THEN sum ELSE IF q \in grid THEN 0 ELSE i[q]]
    BY <1>1, <2>4
  <2> QED
    BY <2>2, <2>3, <2>5
<1>9. CASE ~(i[r] > i[p])
  <2>1. \A q \in grid : q # p => i[q] < i[p] \/ (i[q] = i[p] /\ p < q)
    BY <1>1, <1>9
  <2>2. Gathered(i, p) = [q \in Pixels |->
          IF q = p THEN sum ELSE IF q \in grid THEN 0 ELSE i[q]]
    BY <1>6, <2>1
  <2>3. Paired(i, p, r) = [i EXCEPT ![p] = sum, ![r] = 0]
    BY <1>9 DEF Paired, sum
  <2>4. ASSUME NEW q \in Pixels
        PROVE  [i EXCEPT ![p] = sum, ![r] = 0][q]
                 = IF q = p THEN sum ELSE IF q \in grid THEN 0 ELSE i[q]
    BY <1>1
  <2>5. [i EXCEPT ![p] = sum, ![r] = 0] = [q \in Pixels |->
          IF q = p THEN sum ELSE IF q \in grid THEN 0 ELSE i[q]]
    BY <1>1, <2>4
  <2> QED
    BY <2>2, <2>3, <2>5
<1> QED
  BY <1>8, <1>9

\* Where no hit has more than one other in its grid, the test's computation
\* and the plugin's do the same at each pixel.
LEMMA AdditionExpected ==
  ASSUME NEW in \in Image, NoneNegative(in),
         \A p \in Hits(in) : Cardinality(Neighbours(p, 1) \cap Hits(in)) <= 1
  PROVE  process_addition(in, 1) = ExpectedAddition(in)
<1>1. PICK after \in [0 .. image_pixels -> Image] :
        /\ after[0] = in
        /\ \A p \in Pixels : after[p + 1] = AddVisit(after[p], p, 1)
        /\ process_addition(in, 1) = after[image_pixels]
  BY AdditionScan
<1>2. PICK expected \in [0 .. image_pixels -> Image] :
        /\ expected[0] = in
        /\ \A p \in Pixels : expected[p + 1] = GatherVisit(expected[p], p)
        /\ ExpectedAddition(in) = expected[image_pixels]
  BY ExpectedScan
<1>3. /\ 0 \in 0 .. image_pixels /\ image_pixels \in 0 .. image_pixels
      /\ \A q \in Pixels : q \in 0 .. image_pixels /\ q + 1 \in 0 .. image_pixels
      /\ \A q \in Pixels : q \in Nat
  BY ImageSize DEF Pixels
<1>4. IsFiniteSet(Pixels)
  BY ImageSize, FS_Interval DEF Pixels
\* In the grid of a hit is at most one other.
<1>5. ASSUME NEW p \in Hits(in), NEW x \in Neighbours(p, 1) \cap Hits(in),
             NEW y \in Neighbours(p, 1) \cap Hits(in)
      PROVE  x = y
  <2> DEFINE N == Neighbours(p, 1) \cap Hits(in)
  <2>1. {x, y} \in SUBSET N /\ N \in SUBSET Pixels
    BY DEF Hits
  <2>2. IsFiniteSet(N) /\ Cardinality(N) <= 1
    BY <1>4, <2>1, FS_Subset
  <2>3. Cardinality({x, y}) <= Cardinality(N) /\ Cardinality(N) \in Nat
    BY <2>1, <2>2, FS_Subset, FS_CardinalityType
  <2>4. x # y => Cardinality({x, y}) = 2
    <3>1. IsFiniteSet({x}) /\ Cardinality({x}) = 1
      BY FS_Singleton
    <3>2. x # y => Cardinality({x} \cup {y}) = 1 + 1
      BY <3>1, FS_AddElement
    <3>3. {x, y} = {x} \cup {y}
      OBVIOUS
    <3>4. 1 + 1 = 2
      OBVIOUS
    <3> QED
      BY <3>2, <3>3, <3>4, Zenon
  <2> HIDE DEF N
  <2> QED
    BY <2>2, <2>3, <2>4
<1> DEFINE S == {k \in 0 .. image_pixels :
                   /\ after[k] = expected[k]
                   /\ NoneNegative(after[k])
                   /\ Hits(after[k]) \subseteq Hits(in)
                   /\ \A p \in Hits(after[k]) : p < k =>
                        Neighbours(p, 1) \cap Hits(after[k]) = {}}
<1>6. 0 \in S
  <2>1. \A p \in Hits(after[0]) : ~(p < 0)
    BY <1>3 DEF Hits
  <2> QED
    BY <1>1, <1>2, <1>3, <2>1
<1>7. ASSUME NEW p \in Pixels, p \in S PROVE p + 1 \in S
  <2> DEFINE i == after[p]
             o == after[p + 1]
  <2>1. /\ i = expected[p] /\ NoneNegative(i) /\ Hits(i) \subseteq Hits(in)
        /\ \A x \in Hits(i) : x < p => Neighbours(x, 1) \cap Hits(i) = {}
    BY <1>7
  <2>2. /\ i \in Image /\ o \in Image
        /\ o = AddVisit(i, p, 1) /\ expected[p + 1] = GatherVisit(i, p)
        /\ p + 1 \in 0 .. image_pixels /\ p \in Nat
    BY <1>1, <1>2, <1>3, <2>1
  <2>3. Hits(i) \subseteq Pixels /\ Hits(o) \subseteq Pixels
        /\ \A x \in Hits(i) : x \in Nat
    BY <1>3 DEF Hits
  <2> HIDE DEF i, o, S
  <2>4. SUFFICES /\ o = GatherVisit(i, p) /\ NoneNegative(o)
                 /\ Hits(o) \subseteq Hits(i)
                 /\ p \in Hits(o) => Neighbours(p, 1) \cap Hits(o) = {}
    <3>1. o = expected[p + 1] /\ Hits(o) \subseteq Hits(in)
      BY <2>1, <2>2, <2>4
    <3>2. ASSUME NEW x \in Hits(o), x < p + 1
          PROVE  Neighbours(x, 1) \cap Hits(o) = {}
      <4>1. x \in Hits(i) /\ x \in Nat /\ (x < p \/ x = p)
        BY <2>2, <2>3, <2>4, <3>2
      <4> QED
        BY <2>1, <2>4, <4>1
    <3> QED
      BY <2>2, <2>4, <3>1, <3>2 DEF S, o
  <2>5. CASE p \notin Hits(i)
    <3>1. ~(i[p] > 0) /\ i[p] = 0
      <4>1. i[p] \in Int /\ ~(i[p] > 0) /\ i[p] >= 0
        BY <2>1, <2>2, <2>5 DEF Hits, Image, NoneNegative
      <4> QED
        BY <4>1
    <3>2. o = i /\ GatherVisit(i, p) = i
      BY <2>2, <3>1 DEF AddVisit, GatherVisit
    <3> QED
      BY <2>1, <2>5, <3>2
  <2>6. CASE p \in Hits(i)
    <3>1. i[p] > 0 /\ i[p] # 0
      <4>1. i[p] > 0 /\ i[p] \in Int
        BY <2>2, <2>6 DEF Hits, Image
      <4> QED
        BY <4>1
    <3>2. o = AddNeighbours(i, p, 1) /\ GatherVisit(i, p) = Gathered(i, p)
      BY <2>2, <3>1 DEF AddVisit, GatherVisit
    <3>3. CASE Neighbours(p, 1) \cap Hits(i) = {}
      <4>1. o = i /\ Gathered(i, p) = i
        BY <2>1, <2>2, <2>6, <3>2, <3>3, AddAlone, GatheredAlone
      <4> QED
        BY <2>1, <3>2, <3>3, <4>1
    <3>4. ASSUME NEW r \in Neighbours(p, 1) \cap Hits(i)
          PROVE  /\ o = GatherVisit(i, p) /\ NoneNegative(o)
                 /\ Hits(o) \subseteq Hits(i)
                 /\ p \in Hits(o) => Neighbours(p, 1) \cap Hits(o) = {}
      <4>1. Neighbours(p, 1) \cap Hits(i) = {r}
        BY <1>5, <2>1, <2>6, <3>4
      <4>2. r # p /\ r \in Pixels /\ p \in Neighbours(r, 1)
        BY <2>3, NeighbourFacts
      <4>3. ~(r < p)
        BY <2>1, <2>6, <4>2
      <4>4. p < r
        BY <2>2, <2>3, <4>2, <4>3
      <4>5. o = Paired(i, p, r) /\ Gathered(i, p) = Paired(i, p, r)
        BY <2>1, <2>2, <2>6, <3>2, <4>1, <4>4, AddPair, GatheredPair
      <4>6. /\ NoneNegative(o) /\ Hits(o) \subseteq Hits(i)
            /\ p \notin Hits(o) \/ r \notin Hits(o)
        BY <2>1, <2>2, <2>6, <4>2, <4>5, PairedFacts
      <4> QED
        BY <3>2, <4>1, <4>5, <4>6
    <3> QED
      BY <3>3, <3>4
  <2> QED
    BY <2>5, <2>6
<1> HIDE DEF S
<1>8. image_pixels \in S
  BY <1>3, <1>6, <1>7, ScanInduction
<1> QED
  BY <1>1, <1>2, <1>8 DEF S

\* Where no hit has more than one other in its grid, the addition plugin
\* produces the frame the integration test computes, for images of any size.
THEOREM AdditionMeetsTest == Spec => AdditionIsAsExpected
<1>1. ASSUME ImageInv, Add(1), \A p \in Pixels : image[p] >= 0,
             \A p \in Hits(image) :
               Cardinality(Neighbours(p, 1) \cap Hits(image)) <= 1
      PROVE  image' = ExpectedAddition(image)
  <2>1. image \in Image /\ NoneNegative(image)
        /\ image' = process_addition(image, 1)
    BY <1>1 DEF ImageInv, ImagesTyped, Add, Stage, NoneNegative
  <2> QED
    BY <1>1, <2>1, AdditionExpected
<1>2. ImageInv /\ [Next]_vars =>
        [/\ Add(1)
         /\ \A p \in Pixels : image[p] >= 0
         /\ \A p \in Hits(image) :
              Cardinality(Neighbours(p, 1) \cap Hits(image)) <= 1
         => image' = ExpectedAddition(image)]_vars
  BY <1>1
<1> QED
  BY <1>2, ImageInvariant, PTL DEF Spec, AdditionIsAsExpected
=============================================================================
