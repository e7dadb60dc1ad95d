-------------------------- MODULE PlateTracker_proofs --------------------------
(***************************************************************************)
(* Proofs about PlateTracker, for any ring, distance, corners and          *)
(* confidences.  Apart from the types, five parts make the invariant       *)
(* inductive: the counters agree with the history, the ring holds the      *)
(* texts by their age, a track is continued by the last uid, last_point is *)
(* the corner of the last first plate, and change_count bounds the images. *)
(***************************************************************************)
EXTENDS PlateTracker, TLAPS, FiniteSetTheorems

-----------------------------------------------------------------------------
LEMMA AppendElements ==
  ASSUME NEW S, NEW s \in Seq(S), NEW x \in S
  PROVE  /\ Append(s, x) \in Seq(S)
         /\ Len(Append(s, x)) = Len(s) + 1
         /\ \A k \in 1..Len(s) : Append(s, x)[k] = s[k]
         /\ Append(s, x)[Len(s) + 1] = x
  OBVIOUS

LEMMA EmptySequence == ASSUME NEW S PROVE <<>> \in Seq(S) /\ Len(<<>>) = 0
  OBVIOUS

LEMMA RingSize ==
  /\ NUMBEROFPREVIOUSPLATES \in Nat
  /\ NUMBEROFPREVIOUSPLATES > 0
<1>1. NUMBEROFPREVIOUSPLATES \in Nat \ {0}
  BY TrackerAssumption, Zenon
<1> QED BY ONLY <1>1

LEMMA Numbers ==
  /\ Near \in Nat
  /\ \A x \in Corner \cup Stray : x \in Int
  /\ \A c \in Confidence : c \in Nat
<1>1. Near \in Nat /\ Corner \cup Stray \subseteq Int /\ Confidence \subseteq Nat \ {0}
  BY TrackerAssumption, Zenon
<1> QED BY ONLY <1>1

\* the ring index wraps round
LEMMA NextSlotWraps ==
  ASSUME CurrentPlate \in Slot
  PROVE  /\ NextSlot \in Slot
         /\ NextSlot = IF CurrentPlate + 1 = NUMBEROFPREVIOUSPLATES THEN 0
                       ELSE CurrentPlate + 1
<1>1. CurrentPlate \in 0..(NUMBEROFPREVIOUSPLATES - 1)
  BY DEF Slot
<1>2. CASE CurrentPlate + 1 = NUMBEROFPREVIOUSPLATES
  BY RingSize, <1>1, <1>2 DEF NextSlot, Slot
<1>3. CASE CurrentPlate + 1 # NUMBEROFPREVIOUSPLATES
  BY RingSize, <1>1, <1>3 DEF NextSlot, Slot
<1> QED BY <1>2, <1>3

-----------------------------------------------------------------------------
\* how many plates ago slot s was written, at the latest
Age(s) == IF s < CurrentPlate THEN CurrentPlate - s
          ELSE CurrentPlate - s + NUMBEROFPREVIOUSPLATES

Images(u) == {k \in 1..Len(handed) : handed[k].uid = u /\ handed[k].crop}

CountersAgree ==
  /\ process_count = Len(handed)
  /\ \A k \in 1..Len(handed) : handed[k].uid <= plate_uid
  /\ Len(handed) > 0 => plate_uid > 0 /\ handed[Len(handed)].uid = plate_uid
  /\ Len(handed) = 0 => plate_uid = 0

RingByAge ==
  \A s \in Slot :
    LastPlates[s] = IF Age(s) <= Len(handed) THEN handed[Len(handed) + 1 - Age(s)].rs
                    ELSE ""

LastPointKept ==
  Len(handed) > 0 /\ handed[Len(handed)].nth = 0 => last_point = handed[Len(handed)].x

ImagesCounted ==
  \A u \in Nat :
    /\ IsFiniteSet(Images(u)) /\ Cardinality(Images(u)) <= 4
    /\ u = plate_uid => Cardinality(Images(u)) <= 1 + change_count

TrackerInv ==
  /\ TypeOK /\ CountersAgree /\ RingByAge /\ LastPointKept /\ ImagesCounted
  /\ TracksBeginWithImage /\ TrackFollowsCar

\* what one plate appends to the history
Handed(text, x, conf, p) ==
  [rs |-> text, uid |-> plate_uid', nth |-> i, x |-> x,
   crop |-> Cropped(text, conf, NewTrack(p))]

LEMMA RingTypes ==
  ASSUME TrackerInv
  PROVE  /\ handed \in Seq(Calls) /\ Len(handed) \in Nat
         /\ CurrentPlate \in Slot /\ LastPlates \in [Slot -> Text \cup {""}]
<1>1. TypeOK
  BY DEF TrackerInv
<1>2. handed \in Seq(Calls)
  BY <1>1, Zenon DEF TypeOK
<1>3. Len(handed) \in Nat
  BY ONLY <1>2
<1> QED BY <1>1, <1>2, <1>3, Zenon DEF TypeOK

-----------------------------------------------------------------------------
LEMMA InitTracker == Init => TrackerInv
<1> SUFFICES ASSUME Init PROVE TrackerInv
  OBVIOUS
<1>1. handed = <<>> /\ CurrentPlate = 0 /\ LastPlates = [s \in Slot |-> ""]
  BY DEF Init
<1>0. CurrentPlate = 0 /\ handed = <<>>
  BY <1>1
<1>2. i = 0 /\ last_point = 0 /\ max_confidence = 0 /\ process_count = 0
      /\ change_count = 0 /\ plate_uid = 0
  BY DEF Init
<1>3. Len(handed) = 0 /\ handed \in Seq(Calls)
  BY <1>0, EmptySequence
<1>4. 1..Len(handed) = {} /\ 2..Len(handed) = {}
  BY ONLY <1>3
<1>5. 0 \in Slot /\ Slot \subseteq Nat /\ \A s \in Slot : s < NUMBEROFPREVIOUSPLATES
  BY RingSize DEF Slot
<1>6. LastPlates \in [Slot -> Text \cup {""}]
  BY ONLY <1>1
<1>7. TypeOK
  BY <1>1, <1>2, <1>3, <1>5, <1>6 DEF TypeOK
<1>8. CountersAgree /\ LastPointKept
  BY <1>2, <1>3, <1>4 DEF CountersAgree, LastPointKept
<1>9. TracksBeginWithImage /\ TrackFollowsCar
  BY <1>4 DEF TracksBeginWithImage, TrackFollowsCar
<1>10. RingByAge
  <2> SUFFICES ASSUME NEW s \in Slot
               PROVE  LastPlates[s] = "" /\ ~ (Age(s) <= Len(handed))
    BY DEF RingByAge
  <2>1. LastPlates[s] = ""
    BY <1>1
  <2>2. s \in Nat /\ s < NUMBEROFPREVIOUSPLATES
    BY <1>5
  <2>3. Age(s) \in Nat /\ Age(s) > 0
    BY <1>0, <2>2, RingSize DEF Age
  <2>4. \A n \in Nat : n > 0 => ~ (n <= 0)
    OBVIOUS
  <2> QED BY <1>3, <2>1, <2>3, <2>4, Zenon
<1>11. ImagesCounted
  <2>1. \A u : Images(u) = {}
    BY <1>4, Zenon DEF Images
  <2> QED BY <1>2, <2>1, FS_EmptySet DEF ImagesCounted
<1> QED BY <1>7, <1>8, <1>9, <1>10, <1>11 DEF TrackerInv

\* a step that hands nothing on keeps every part
LEMMA KeepTracker ==
  ASSUME TrackerInv, i' \in Nat, UNCHANGED <<ring, tracker, handed>>
  PROVE  TrackerInv'
<1> USE DEF ring, tracker
<1>1. TypeOK'
  BY DEF TrackerInv, TypeOK
<1>2. CountersAgree' /\ LastPointKept' /\ TracksBeginWithImage' /\ TrackFollowsCar'
  BY DEF TrackerInv, CountersAgree, LastPointKept, TracksBeginWithImage, TrackFollowsCar
<1>3. RingByAge'
  BY DEF TrackerInv, RingByAge, Age
<1>4. ImagesCounted'
  BY DEF TrackerInv, ImagesCounted, Images
<1> QED BY <1>1, <1>2, <1>3, <1>4 DEF TrackerInv

\* one plate handed on, with its corner p as it was read
LEMMA PlateTypes ==
  ASSUME TrackerInv, NEW text \in Text, NEW x \in Corner, NEW conf \in Confidence,
         ProcessPlate(text, x, conf)
  PROVE  /\ TypeOK'
         /\ \E c \in Calls :
              /\ c.rs = text /\ c.nth = i /\ c.x = x /\ c.uid = plate_uid'
              /\ handed' = Append(handed, c)
              /\ \E p \in FirstCorner(x) :
                   /\ c.crop = Cropped(text, conf, NewTrack(p))
                   /\ plate_uid' = IF NewTrack(p) THEN plate_uid + 1 ELSE plate_uid
                   /\ change_count' = Changes(text, conf, NewTrack(p))
                   /\ last_point' = p
<1>1. PICK p \in FirstCorner(x) :
        /\ plate_uid' = IF NewTrack(p) THEN plate_uid + 1 ELSE plate_uid
        /\ max_confidence' = IF NewTrack(p) \/ max_confidence < conf \/ Found(text)
                               THEN conf ELSE max_confidence
        /\ change_count' = Changes(text, conf, NewTrack(p))
        /\ handed' = Append(handed, Handed(text, x, conf, p))
        /\ last_point' = p
  BY DEF ProcessPlate, Handed
<1>2. plate_uid \in Nat /\ change_count \in Nat /\ i \in Nat /\ process_count \in Nat
  BY DEF TrackerInv, TypeOK
<1>3. plate_uid' \in Nat
  BY <1>1, <1>2
<1>4. Cropped(text, conf, NewTrack(p)) \in BOOLEAN
  BY DEF Cropped, NewTrack, Found
<1>5. Handed(text, x, conf, p) \in Calls
  BY <1>2, <1>3, <1>4 DEF Handed, Calls
<1>6. handed' \in Seq(Calls)
  BY <1>1, <1>5, AppendElements DEF TrackerInv, TypeOK
<1>7. change_count' \in Nat
  BY <1>1, <1>2 DEF Changes
<1>8. p \in Corner \cup Stray
  BY DEF FirstCorner
<1>9. max_confidence' \in Confidence \cup {0}
  BY <1>1 DEF TrackerInv, TypeOK
<1>10. CurrentPlate' \in Slot
  BY NextSlotWraps DEF TrackerInv, TypeOK, ProcessPlate
<1>11. LastPlates' \in [Slot -> Text \cup {""}]
  BY DEF TrackerInv, TypeOK, ProcessPlate, Remember
<1>12. i' \in Nat /\ process_count' \in Nat
  BY <1>2 DEF ProcessPlate
<1>13. TypeOK'
  BY <1>1, <1>3, <1>6, <1>7, <1>8, <1>9, <1>10, <1>11, <1>12 DEF TypeOK
<1>14. LET c == Handed(text, x, conf, p)
       IN  c.rs = text /\ c.nth = i /\ c.x = x /\ c.uid = plate_uid'
           /\ c.crop = Cropped(text, conf, NewTrack(p))
  BY DEF Handed
<1> QED BY <1>1, <1>5, <1>13, <1>14

-----------------------------------------------------------------------------
\* the counters and the corner of the car
LEMMA PlateCounters ==
  ASSUME TrackerInv, NEW text \in Text, NEW x \in Corner, NEW conf \in Confidence,
         ProcessPlate(text, x, conf)
  PROVE  /\ CountersAgree' /\ LastPointKept'
         /\ TracksBeginWithImage' /\ TrackFollowsCar'
<1>1. PICK c \in Calls :
        /\ c.rs = text /\ c.nth = i /\ c.x = x /\ c.uid = plate_uid'
        /\ handed' = Append(handed, c)
        /\ \E p \in FirstCorner(x) :
             /\ c.crop = Cropped(text, conf, NewTrack(p))
             /\ plate_uid' = IF NewTrack(p) THEN plate_uid + 1 ELSE plate_uid
             /\ change_count' = Changes(text, conf, NewTrack(p))
             /\ last_point' = p
  BY PlateTypes
<1>2. PICK p \in FirstCorner(x) :
        /\ c.crop = Cropped(text, conf, NewTrack(p))
        /\ plate_uid' = IF NewTrack(p) THEN plate_uid + 1 ELSE plate_uid
        /\ last_point' = p
  BY <1>1
<1>3. /\ handed \in Seq(Calls) /\ Len(handed) \in Nat /\ plate_uid \in Nat
      /\ process_count = Len(handed) /\ process_count' = process_count + 1
  BY DEF TrackerInv, TypeOK, CountersAgree, ProcessPlate
<1>4. /\ Len(handed') = Len(handed) + 1 /\ handed'[Len(handed) + 1] = c
      /\ \A k \in 1..Len(handed) : handed'[k] = handed[k]
  BY <1>1, <1>3, AppendElements
<1>5. plate_uid' \in Nat /\ plate_uid <= plate_uid'
  BY <1>2, <1>3
<1>6. \A k \in 1..Len(handed) : handed[k] \in Calls /\ handed[k].uid \in Nat
                                /\ handed[k].x \in Corner /\ handed[k].nth \in Nat
  <2>1. ASSUME NEW k \in 1..Len(handed) PROVE handed[k] \in Calls
    BY ONLY <1>3, <2>1
  <2> QED BY <2>1 DEF Calls
<1>7. Len(handed) > 0 =>
        plate_uid > 0 /\ handed[Len(handed)].uid = plate_uid /\ Len(handed) \in 1..Len(handed)
  BY <1>3 DEF TrackerInv, CountersAgree
<1>8. ~ NewTrack(p) => Len(handed) > 0
  BY <1>3 DEF NewTrack
<1>9. plate_uid' > 0
  BY <1>2, <1>3, <1>7, <1>8
<1>10. CountersAgree'
  <2>1. ASSUME NEW k \in 1..Len(handed') PROVE handed'[k].uid <= plate_uid'
    <3>1. CASE k = Len(handed) + 1
      BY <1>1, <1>4, <1>5, <3>1
    <3>2. CASE k # Len(handed) + 1
      <4>1. k \in 1..Len(handed)
        BY <1>3, <1>4, <3>2
      <4>2. handed[k].uid <= plate_uid
        BY <4>1 DEF TrackerInv, CountersAgree
      <4> QED BY <1>3, <1>4, <1>5, <1>6, <4>1, <4>2
    <3> QED BY <3>1, <3>2
  <2>2. process_count' = Len(handed')
    BY <1>3, <1>4
  <2>3. handed'[Len(handed')].uid = plate_uid'
    BY <1>1, <1>4
  <2>4. Len(handed') # 0
    BY <1>3, <1>4
  <2> QED BY <1>9, <2>1, <2>2, <2>3, <2>4 DEF CountersAgree
<1>11. c.nth = 0 => last_point' = c.x
  BY <1>1, <1>2 DEF FirstCorner
<1>12. LastPointKept'
  BY <1>4, <1>11 DEF LastPointKept
<1>13. TracksBeginWithImage'
  <2>1. ASSUME NEW k \in 1..Len(handed')
        PROVE  LET before == IF k = 1 THEN 0 ELSE handed'[k - 1].uid
               IN  \/ handed'[k].uid = before /\ before # 0
                   \/ handed'[k].uid = before + 1 /\ handed'[k].crop
    <3>1. CASE k \in 1..Len(handed)
      <4>1. k # 1 => k - 1 \in 1..Len(handed)
        BY <1>3, <3>1
      <4>2. LET before == IF k = 1 THEN 0 ELSE handed[k - 1].uid
            IN  \/ handed[k].uid = before /\ before # 0
                \/ handed[k].uid = before + 1 /\ handed[k].crop
        BY <3>1 DEF TrackerInv, TracksBeginWithImage
      <4> QED BY <1>4, <3>1, <4>1, <4>2
    <3>2. CASE k \notin 1..Len(handed)
      <4>1. k = Len(handed) + 1
        BY <1>3, <1>4, <3>2
      <4>2. NewTrack(p) => c.crop
        BY <1>2 DEF Cropped
      <4>3. CASE Len(handed) = 0
        <5>1. NewTrack(p) /\ k = 1
          BY <1>8, <4>1, <4>3
        <5>2. plate_uid = 0
          BY <4>3, <1>3 DEF TrackerInv, CountersAgree
        <5> QED BY <1>1, <1>2, <1>4, <4>1, <4>2, <5>1, <5>2
      <4>4. CASE Len(handed) # 0
        <5>1. k # 1 /\ k - 1 = Len(handed) /\ Len(handed) > 0
          BY <1>3, <4>1, <4>4
        <5>2. handed'[k - 1].uid = plate_uid
          BY <1>4, <1>7, <5>1
        <5> QED BY <1>1, <1>2, <1>3, <1>4, <1>7, <4>1, <4>2, <5>1, <5>2
      <4> QED BY <4>3, <4>4
    <3> QED BY <3>1, <3>2
  <2> QED BY <2>1 DEF TracksBeginWithImage
<1>14. TrackFollowsCar'
  <2>1. ASSUME NEW k \in 2..Len(handed'), handed'[k].nth = 0, handed'[k - 1].nth = 0
        PROVE  (handed'[k].uid = handed'[k - 1].uid) <=>
                 Distance(handed'[k].x, handed'[k - 1].x) <= Near
    <3>1. CASE k \in 1..Len(handed)
      <4>1. k \in 2..Len(handed) /\ k - 1 \in 1..Len(handed)
        BY <1>3, <3>1
      <4>2. handed'[k] = handed[k] /\ handed'[k - 1] = handed[k - 1]
        BY <1>4, <3>1, <4>1
      <4>3. (handed[k].uid = handed[k - 1].uid) <=>
              Distance(handed[k].x, handed[k - 1].x) <= Near
        BY <2>1, <4>1, <4>2 DEF TrackerInv, TrackFollowsCar
      <4> QED BY <4>2, <4>3
    <3>2. CASE k \notin 1..Len(handed)
      <4>1. k = Len(handed) + 1 /\ k - 1 = Len(handed) /\ Len(handed) \in 1..Len(handed)
        BY <1>3, <1>4, <3>2
      <4>2. handed'[k] = c /\ handed'[k - 1] = handed[Len(handed)]
        BY <1>4, <4>1
      <4>3. last_point = handed[Len(handed)].x
        BY <1>3, <2>1, <4>1, <4>2 DEF TrackerInv, LastPointKept
      <4>4. p = x
        BY <1>1, <2>1, <4>2 DEF FirstCorner
      <4>5. last_point \in Int /\ x \in Int /\ Near \in Nat
        BY <1>6, <4>1, <4>3, Numbers
      <4>6. NewTrack(p) <=> ~ (Distance(x, last_point) <= Near)
        BY <1>3, <4>1, <4>4, <4>5 DEF NewTrack, Distance
      <4>7. handed'[k].uid = plate_uid' /\ handed'[k - 1].uid = plate_uid
        BY <1>1, <1>3, <1>7, <4>1, <4>2
      <4>8. (plate_uid' = plate_uid) <=> ~ NewTrack(p)
        BY <1>2, <1>3
      <4> QED BY <1>1, <4>2, <4>3, <4>6, <4>7, <4>8
    <3> QED BY <3>1, <3>2
  <2> QED BY <2>1 DEF TrackFollowsCar
<1> QED BY <1>10, <1>12, <1>13, <1>14

-----------------------------------------------------------------------------
\* slot ages: the slot of an age, and what one step of CurrentPlate does to them
LEMMA Ages ==
  ASSUME CurrentPlate \in Slot
  PROVE  /\ \A s \in Slot : Age(s) \in 1..NUMBEROFPREVIOUSPLATES
         /\ \A a \in 1..NUMBEROFPREVIOUSPLATES : \E s \in Slot : Age(s) = a
         /\ \A s \in Slot : Age(s) = NUMBEROFPREVIOUSPLATES <=> s = CurrentPlate
<1>1. /\ NUMBEROFPREVIOUSPLATES \in Nat /\ NUMBEROFPREVIOUSPLATES > 0
      /\ CurrentPlate \in 0..(NUMBEROFPREVIOUSPLATES - 1)
  BY RingSize DEF Slot
<1>2. ASSUME NEW s \in Slot
      PROVE  /\ Age(s) \in 1..NUMBEROFPREVIOUSPLATES
             /\ Age(s) = NUMBEROFPREVIOUSPLATES <=> s = CurrentPlate
  BY <1>1 DEF Age, Slot
<1>3. ASSUME NEW a \in 1..NUMBEROFPREVIOUSPLATES
      PROVE  \E s \in Slot : Age(s) = a
  <2>1. CASE a <= CurrentPlate
    <3>1. CurrentPlate - a \in Slot /\ Age(CurrentPlate - a) = a
      BY <1>1, <2>1 DEF Age, Slot
    <3> QED BY <3>1
  <2>2. CASE ~ (a <= CurrentPlate)
    <3>1. /\ CurrentPlate - a + NUMBEROFPREVIOUSPLATES \in Slot
          /\ Age(CurrentPlate - a + NUMBEROFPREVIOUSPLATES) = a
      BY <1>1, <2>2 DEF Age, Slot
    <3> QED BY <3>1
  <2> QED BY <2>1, <2>2
<1> QED BY <1>2, <1>3

LEMMA AgesGrow ==
  ASSUME CurrentPlate \in Slot, CurrentPlate' = NextSlot
  PROVE  \A s \in Slot : Age(s)' = IF s = CurrentPlate THEN 1 ELSE Age(s) + 1
<1>1. /\ NUMBEROFPREVIOUSPLATES \in Nat /\ NUMBEROFPREVIOUSPLATES > 0
      /\ CurrentPlate \in 0..(NUMBEROFPREVIOUSPLATES - 1)
  BY RingSize DEF Slot
<1>2. CurrentPlate' = IF CurrentPlate + 1 = NUMBEROFPREVIOUSPLATES THEN 0
                      ELSE CurrentPlate + 1
  BY NextSlotWraps
<1> SUFFICES ASSUME NEW s \in Slot
             PROVE  Age(s)' = IF s = CurrentPlate THEN 1 ELSE Age(s) + 1
  OBVIOUS
<1>3. s \in 0..(NUMBEROFPREVIOUSPLATES - 1)
  BY DEF Slot
<1> QED BY <1>1, <1>2, <1>3 DEF Age

LEMMA PlateRing ==
  ASSUME TrackerInv, NEW text \in Text, NEW x \in Corner, NEW conf \in Confidence,
         ProcessPlate(text, x, conf)
  PROVE  RingByAge'
<1>1. PICK c \in Calls : c.rs = text /\ handed' = Append(handed, c)
  BY PlateTypes
<1>2. handed \in Seq(Calls) /\ Len(handed) \in Nat /\ CurrentPlate \in Slot
  BY RingTypes, Zenon
<1>3. /\ Len(handed') = Len(handed) + 1 /\ handed'[Len(handed) + 1] = c
      /\ \A k \in 1..Len(handed) : handed'[k] = handed[k]
  BY <1>1, <1>2, AppendElements
<1>4. CurrentPlate' = NextSlot /\ LastPlates' = [LastPlates EXCEPT ![CurrentPlate] = text]
  BY DEF ProcessPlate, Remember
<1> SUFFICES ASSUME NEW s \in Slot
             PROVE  LastPlates'[s] =
                      IF Age(s)' <= Len(handed') THEN handed'[Len(handed') + 1 - Age(s)'].rs
                      ELSE ""
  BY DEF RingByAge
<1>5. CASE s = CurrentPlate
  <2>1. Age(s)' = 1
    BY <1>2, <1>4, <1>5, AgesGrow
  <2>2. LastPlates'[s] = text
    BY <1>4, <1>5, RingTypes
  <2>3. 1 <= Len(handed') /\ Len(handed') + 1 - 1 = Len(handed) + 1
    BY <1>2, <1>3
  <2> QED BY <1>1, <1>3, <2>1, <2>2, <2>3
<1>6. CASE s # CurrentPlate
  <2>1. Age(s)' = Age(s) + 1
    BY <1>2, <1>4, <1>6, AgesGrow
  <2>2. LastPlates'[s] = LastPlates[s]
    BY <1>4, <1>6, RingTypes
  <2>3. Age(s) \in Nat /\ Age(s) > 0
    BY <1>2, Ages, RingSize
  <2>4. LastPlates[s] = IF Age(s) <= Len(handed) THEN handed[Len(handed) + 1 - Age(s)].rs
                        ELSE ""
    BY DEF TrackerInv, RingByAge
  <2>5. (Age(s)' <= Len(handed')) <=> (Age(s) <= Len(handed))
    BY <1>2, <1>3, <2>1, <2>3
  <2>6. Len(handed') + 1 - Age(s)' = Len(handed) + 1 - Age(s)
    BY <1>2, <1>3, <2>1, <2>3
  <2>7. Age(s) <= Len(handed) => Len(handed) + 1 - Age(s) \in 1..Len(handed)
    BY <1>2, <2>3
  <2> QED BY <1>3, <2>2, <2>4, <2>5, <2>6, <2>7
<1> QED BY <1>5, <1>6

\* a text of the ring is one of the last texts, and the other way round
LEMMA RingMeansLatest == TrackerInv => RingHoldsLatest
<1> SUFFICES ASSUME TrackerInv, NEW text \in Text
             PROVE  Found(text) <=> \E k \in 1..Len(handed) :
                                      /\ k > Len(handed) - NUMBEROFPREVIOUSPLATES
                                      /\ handed[k].rs = text
  BY DEF RingHoldsLatest
<1>1. text # ""
  BY TrackerAssumption, Zenon
<1>2. CurrentPlate \in Slot /\ Len(handed) \in Nat
  BY RingTypes, Zenon
<1>3. NUMBEROFPREVIOUSPLATES \in Nat /\ NUMBEROFPREVIOUSPLATES > 0
  BY RingSize
<1>4. ASSUME Found(text)
      PROVE  \E k \in 1..Len(handed) : /\ k > Len(handed) - NUMBEROFPREVIOUSPLATES
                                       /\ handed[k].rs = text
  <2>1. PICK s \in Slot : LastPlates[s] = text
    BY <1>4 DEF Found
  <2>2. LastPlates[s] = IF Age(s) <= Len(handed) THEN handed[Len(handed) + 1 - Age(s)].rs
                        ELSE ""
    BY DEF TrackerInv, RingByAge
  <2>3. Age(s) <= Len(handed) /\ handed[Len(handed) + 1 - Age(s)].rs = text
    BY <1>1, <2>1, <2>2, Zenon
  <2>4. Age(s) \in 1..NUMBEROFPREVIOUSPLATES
    BY <1>2, Ages
  <2>5. /\ Len(handed) + 1 - Age(s) \in 1..Len(handed)
        /\ Len(handed) + 1 - Age(s) > Len(handed) - NUMBEROFPREVIOUSPLATES
    BY <1>2, <1>3, <2>3, <2>4
  <2> QED BY <2>3, <2>5
<1>5. ASSUME NEW k \in 1..Len(handed), k > Len(handed) - NUMBEROFPREVIOUSPLATES,
             handed[k].rs = text
      PROVE  Found(text)
  <2>1. Len(handed) + 1 - k \in 1..NUMBEROFPREVIOUSPLATES
    BY <1>2, <1>3, <1>5
  <2>2. PICK s \in Slot : Age(s) = Len(handed) + 1 - k
    BY <1>2, <2>1, Ages
  <2>3. Age(s) <= Len(handed) /\ Len(handed) + 1 - Age(s) = k
    BY <1>2, <2>2
  <2>4. LastPlates[s] = handed[k].rs
    BY <2>3 DEF TrackerInv, RingByAge
  <2> QED BY <1>5, <2>4 DEF Found
<1> QED BY <1>4, <1>5

-----------------------------------------------------------------------------
\* the images of a track, and what change_count bounds
LEMMA PlateImages ==
  ASSUME TrackerInv, NEW text \in Text, NEW x \in Corner, NEW conf \in Confidence,
         ProcessPlate(text, x, conf)
  PROVE  ImagesCounted'
<1>1. PICK c \in Calls :
        /\ c.uid = plate_uid' /\ handed' = Append(handed, c)
        /\ \E p \in FirstCorner(x) :
             /\ c.crop = Cropped(text, conf, NewTrack(p))
             /\ plate_uid' = IF NewTrack(p) THEN plate_uid + 1 ELSE plate_uid
             /\ change_count' = Changes(text, conf, NewTrack(p))
  BY PlateTypes
<1>2. PICK p \in FirstCorner(x) :
        /\ c.crop = Cropped(text, conf, NewTrack(p))
        /\ plate_uid' = IF NewTrack(p) THEN plate_uid + 1 ELSE plate_uid
        /\ change_count' = Changes(text, conf, NewTrack(p))
  BY <1>1
<1>3. handed \in Seq(Calls) /\ Len(handed) \in Nat
  BY RingTypes, Zenon
<1>4. plate_uid \in Nat /\ change_count \in Nat
  BY DEF TrackerInv, TypeOK
<1>5. /\ Len(handed') = Len(handed) + 1 /\ handed'[Len(handed) + 1] = c
      /\ \A k \in 1..Len(handed) : handed'[k] = handed[k]
  BY <1>1, <1>3, AppendElements
<1>6. ASSUME NEW u
      PROVE  Images(u)' = IF u = plate_uid' /\ c.crop THEN Images(u) \cup {Len(handed) + 1}
                          ELSE Images(u)
  <2>1. 1..Len(handed') = (1..Len(handed)) \cup {Len(handed) + 1}
    BY <1>3, <1>5
  <2>2. Images(u)' = {k \in (1..Len(handed)) \cup {Len(handed) + 1} :
                        handed'[k].uid = u /\ handed'[k].crop}
    BY <2>1 DEF Images
  <2>3. Len(handed) + 1 \notin 1..Len(handed)
    BY <1>3
  <2>4. \A k \in 1..Len(handed) : handed'[k].uid = handed[k].uid /\ handed'[k].crop = handed[k].crop
    BY <1>5
  <2>5. handed'[Len(handed) + 1].uid = plate_uid' /\ handed'[Len(handed) + 1].crop = c.crop
    BY <1>1, <1>5
  <2> QED BY <2>2, <2>3, <2>4, <2>5, Zenon DEF Images
<1> SUFFICES ASSUME NEW u \in Nat
             PROVE  /\ IsFiniteSet(Images(u)') /\ Cardinality(Images(u)') <= 4
                    /\ u = plate_uid' => Cardinality(Images(u)') <= 1 + change_count'
  BY DEF ImagesCounted
<1>7. /\ IsFiniteSet(Images(u)) /\ Cardinality(Images(u)) <= 4
      /\ u = plate_uid => Cardinality(Images(u)) <= 1 + change_count
  BY DEF TrackerInv, ImagesCounted
<1>8. Cardinality(Images(u)) \in Nat
  BY <1>7, FS_CardinalityType
<1>9. Len(handed) + 1 \notin Images(u)
  BY <1>3 DEF Images
<1>10. /\ IsFiniteSet(Images(u) \cup {Len(handed) + 1})
       /\ Cardinality(Images(u) \cup {Len(handed) + 1}) = Cardinality(Images(u)) + 1
  BY <1>7, <1>9, FS_AddElement
<1>11. CASE u = plate_uid' /\ NewTrack(p)
  <2>1. u = plate_uid + 1
    BY <1>2, <1>11
  <2>2. Images(u) = {}
    <3>1. \A k \in 1..Len(handed) : handed[k].uid <= plate_uid
      BY DEF TrackerInv, CountersAgree
    <3>2. ~ (plate_uid + 1 <= plate_uid)
      BY <1>4
    <3> QED BY <2>1, <3>1, <3>2, Zenon DEF Images
  <2>3. Cardinality(Images(u)) = 0
    BY <2>2, FS_EmptySet
  <2>4. Images(u)' = Images(u) \/ Images(u)' = Images(u) \cup {Len(handed) + 1}
    BY <1>6
  <2>5. Cardinality(Images(u)') = 0 \/ Cardinality(Images(u)') = 1
    <3>1. Cardinality(Images(u) \cup {Len(handed) + 1}) = 1
      BY <1>10, <2>3
    <3> QED BY <2>3, <2>4, <3>1, Zenon
  <2>6. IsFiniteSet(Images(u)')
    BY <1>7, <1>10, <2>4
  <2>7. change_count' \in Nat
    BY <1>2, <1>4 DEF Changes
  <2> QED BY <2>5, <2>6, <2>7
<1>12. CASE u = plate_uid' /\ ~ NewTrack(p)
  <2>1. u = plate_uid
    BY <1>2, <1>12
  <2>2. Cardinality(Images(u)) <= 1 + change_count
    BY <1>7, <2>1
  <2>3. change_count' = change_count \/ change_count' = change_count + 1
    BY <1>2, <1>12 DEF Changes
  <2>4. CASE c.crop
    <3>1. change_count' = change_count + 1 /\ change_count < 3
      BY <1>2, <1>12, <2>4 DEF Cropped, Changes
    <3>2. Images(u)' = Images(u) \cup {Len(handed) + 1}
      BY <1>6, <1>12, <2>4
    <3>3. IsFiniteSet(Images(u)') /\ Cardinality(Images(u)') = Cardinality(Images(u)) + 1
      BY <1>10, <3>2
    <3> QED BY <1>4, <1>8, <2>2, <3>1, <3>3
  <2>5. CASE ~ c.crop
    <3>1. Images(u)' = Images(u)
      BY <1>6, <2>5
    <3> QED BY <1>4, <1>7, <1>8, <2>2, <2>3, <3>1
  <2> QED BY <2>4, <2>5
<1>13. CASE u # plate_uid'
  <2>1. Images(u)' = Images(u)
    BY <1>6, <1>13
  <2> QED BY <1>7, <1>13, <2>1
<1> QED BY <1>11, <1>12, <1>13

-----------------------------------------------------------------------------
LEMMA NextTracker == TrackerInv /\ [Next]_vars => TrackerInv'
<1> SUFFICES ASSUME TrackerInv, [Next]_vars PROVE TrackerInv'
  OBVIOUS
<1>0. i \in Nat
  BY DEF TrackerInv, TypeOK
<1>1. ASSUME NEW text \in Text, NEW x \in Corner, NEW conf \in Confidence,
             ProcessPlate(text, x, conf)
      PROVE  TrackerInv'
  <2>1. TypeOK'
    BY <1>1, PlateTypes
  <2>2. CountersAgree' /\ LastPointKept' /\ TracksBeginWithImage' /\ TrackFollowsCar'
    BY <1>1, PlateCounters
  <2>3. RingByAge' /\ ImagesCounted'
    BY <1>1, PlateRing, PlateImages
  <2> QED BY <2>1, <2>2, <2>3 DEF TrackerInv
<1>2. ASSUME NEW x \in Corner, SkipPlate(x) PROVE TrackerInv'
  <2>1. i' \in Nat /\ UNCHANGED <<ring, tracker, handed>>
    BY <1>0, <1>2 DEF SkipPlate
  <2> QED BY <2>1, KeepTracker
<1>3. CASE NextFrame
  <2>1. i' \in Nat /\ UNCHANGED <<ring, tracker, handed>>
    BY <1>3 DEF NextFrame
  <2> QED BY <2>1, KeepTracker
<1>4. CASE UNCHANGED vars
  <2>1. i' \in Nat /\ UNCHANGED <<ring, tracker, handed>>
    BY <1>0, <1>4 DEF vars
  <2> QED BY <2>1, KeepTracker
<1> QED BY <1>1, <1>2, <1>3, <1>4 DEF Next

LEMMA SpecTracker == Spec => []TrackerInv
<1> QED BY InitTracker, NextTracker, PTL DEF Spec

(***************************************************************************)
(* The variables of process() keep their types.                            *)
(***************************************************************************)
THEOREM TrackerTypeCorrect == Spec => []TypeOK
<1>1. TrackerInv => TypeOK
  BY DEF TrackerInv
<1> QED BY <1>1, SpecTracker, PTL

(***************************************************************************)
(* Found means seen among the last NUMBEROFPREVIOUSPLATES plates, for a    *)
(* ring of any size.                                                       *)
(***************************************************************************)
THEOREM RingIsTheLatest == Spec => []RingHoldsLatest
<1> QED BY RingMeansLatest, SpecTracker, PTL

(***************************************************************************)
(* Tracks are handed on in order, each beginning with an image, whatever   *)
(* corner is read.                                                         *)
(***************************************************************************)
THEOREM EveryTrackHasImage == Spec => []TracksBeginWithImage
<1>1. TrackerInv => TracksBeginWithImage
  BY DEF TrackerInv
<1> QED BY <1>1, SpecTracker, PTL

(***************************************************************************)
(* A car alone in its frames is one track exactly as long as it stays near.*)
(***************************************************************************)
THEOREM OneCarOneTrack == Spec => []TrackFollowsCar
<1>1. TrackerInv => TrackFollowsCar
  BY DEF TrackerInv
<1> QED BY <1>1, SpecTracker, PTL

(***************************************************************************)
(* No track has more than four images.                                     *)
(***************************************************************************)
THEOREM AtMostFourImages == Spec => []FewImages
<1>1. TrackerInv => FewImages
  <2>1. ASSUME TrackerInv, NEW u \in 1..plate_uid PROVE Cardinality(Images(u)) <= 4
    <3>1. u \in Nat
      OBVIOUS
    <3> QED BY <2>1, <3>1 DEF TrackerInv, ImagesCounted
  <2> QED BY <2>1 DEF FewImages, Images
<1> QED BY <1>1, SpecTracker, PTL

================================================================================
