----------------------------- MODULE PlateTracker ----------------------------
(***************************************************************************)
(* ALPRProcessor::process(): which car (plate_uid) a recognised text is    *)
(* handed on under, and with which images.  One step is one turn of the    *)
(* loop over the plates of a frame; recognize() gives any texts, corners   *)
(* and confidences.                                                        *)
(***************************************************************************)
EXTENDS Integers, Sequences, FiniteSets

CONSTANTS
  Text,       \* texts that are recognised
  Corner,     \* x of the first corner of a plate
  Confidence, \* values of overall_confidence
  Stray,      \* what may be found in memory behind a one-element vector
  NUMBEROFPREVIOUSPLATES,
  Near,       \* 100: how far the corner of a car moves between two plates
  PerFrame,   \* bound: plates of a frame
  MaxPlates   \* bound: plates

ASSUME TrackerAssumption ==
  /\ Corner \cup Stray \subseteq Int /\ Confidence \subseteq Nat \ {0}
  /\ "" \notin Text
  /\ {NUMBEROFPREVIOUSPLATES, PerFrame} \subseteq Nat \ {0}
  /\ {Near, MaxPlates} \subseteq Nat

VARIABLES
  i,               \* index of the plate in results.plates
  LastPlates, CurrentPlate, last_point, max_confidence, process_count, change_count,
  plate_uid,
  handed           \* history: the calls of setRecognizedInfo()

ring    == <<LastPlates, CurrentPlate>>
tracker == <<last_point, max_confidence, process_count, change_count, plate_uid>>
vars    == <<i, ring, tracker, handed>>

Slot  == 0..(NUMBEROFPREVIOUSPLATES - 1)
\* with the index and the true corner of the plate
Calls == [rs : Text, uid : Nat, crop : BOOLEAN, nth : Nat, x : Corner]

TypeOK ==
  /\ i \in Nat
  /\ LastPlates \in [Slot -> Text \cup {""}] /\ CurrentPlate \in Slot
  /\ last_point \in Corner \cup Stray \cup {0}
  /\ max_confidence \in Confidence \cup {0}
  /\ process_count \in Nat /\ change_count \in Nat /\ plate_uid \in Nat
  /\ handed \in Seq(Calls)

Init ==
  /\ i = 0
  /\ LastPlates = [s \in Slot |-> ""] /\ CurrentPlate = 0 /\ last_point = 0
  /\ max_confidence = 0 /\ process_count = 0 /\ change_count = 0 /\ plate_uid = 0
  /\ handed = <<>>

-----------------------------------------------------------------------------
Distance(a, b) == IF a < b THEN b - a ELSE a - b

\* psi[0] is pointset[i], read when pointset has one element
FirstCorner(x) == IF i = 0 THEN {x} ELSE Stray

Found(text) == \E s \in Slot : LastPlates[s] = text

NearOnly(x) == Distance(last_point, x) > Near                           \* mutant

\* the plate does not continue the track of the one before
NewTrack(x) == process_count = 0 \/ Distance(last_point, x) > Near

\* change_count after the plate
Changes(text, conf, new) ==
  LET count == IF new THEN 0 ELSE change_count
      best  == IF new THEN conf ELSE max_confidence
  IN  IF best < conf \/ Found(text) THEN count + 1 ELSE count

AlwaysImage(text, conf, new) == new \/ max_confidence < conf \/ Found(text)   \* mutant

\* an image for a new track and for its first three better or repeated plates
Cropped(text, conf, new) ==
  new \/ ((max_confidence < conf \/ Found(text)) /\ change_count < 3)

SkipFromHere(x) ==                                                     \* mutant
  /\ i < PerFrame
  /\ \E p \in FirstCorner(x) : p <= 0 /\ last_point' = p
  /\ i' = i + 1
  /\ UNCHANGED <<ring, max_confidence, process_count, change_count, plate_uid, handed>>

\* the corner is outside the frame: continue
SkipPlate(x) ==
  /\ i < PerFrame /\ \E p \in FirstCorner(x) : p <= 0
  /\ i' = i + 1
  /\ UNCHANGED <<ring, tracker, handed>>

FirstSlot(text) == LastPlates' = [LastPlates EXCEPT ![0] = text]        \* mutant

Remember(text) == LastPlates' = [LastPlates EXCEPT ![CurrentPlate] = text]

SlotBehind == CurrentPlate + 1                                         \* mutant

NextSlot == (CurrentPlate + 1) % NUMBEROFPREVIOUSPLATES

ProcessPlate(text, x, conf) ==
  /\ i < PerFrame /\ process_count < MaxPlates
  /\ \E p \in FirstCorner(x) :
       /\ p > 0
       /\ plate_uid' = IF NewTrack(p) THEN plate_uid + 1 ELSE plate_uid
       /\ max_confidence' = IF NewTrack(p) \/ max_confidence < conf \/ Found(text)
                              THEN conf ELSE max_confidence
       /\ change_count' = Changes(text, conf, NewTrack(p))
       /\ handed' = Append(handed, [rs |-> text, uid |-> plate_uid', nth |-> i, x |-> x,
                                    crop |-> Cropped(text, conf, NewTrack(p))])
       /\ last_point' = p
  /\ Remember(text)
  /\ CurrentPlate' = NextSlot
  /\ process_count' = process_count + 1
  /\ i' = i + 1

\* the next call of process()
NextFrame ==
  /\ i > 0
  /\ i' = 0
  /\ UNCHANGED <<ring, tracker, handed>>

Next ==
  \/ \E text \in Text, x \in Corner, conf \in Confidence : ProcessPlate(text, x, conf)
  \/ \E x \in Corner : SkipPlate(x)
  \/ NextFrame

Spec == Init /\ [][Next]_vars

-----------------------------------------------------------------------------
(***************************************************************************)
(* The ring holds the texts of the last plates handed on, no more and no   *)
(* fewer: found means seen among the previous ten.                         *)
(***************************************************************************)
RingHoldsLatest ==
  \A text \in Text :
    Found(text) <=> \E k \in 1..Len(handed) :
                       /\ k > Len(handed) - NUMBEROFPREVIOUSPLATES
                       /\ handed[k].rs = text

(***************************************************************************)
(* Tracks are handed on in order, and each begins with an image: whatever  *)
(* corner is read, an answer for it will have one to be shown with.        *)
(***************************************************************************)
TracksBeginWithImage ==
  \A k \in 1..Len(handed) :
    LET before == IF k = 1 THEN 0 ELSE handed[k - 1].uid
    IN  \/ handed[k].uid = before /\ before # 0
        \/ handed[k].uid = before + 1 /\ handed[k].crop

(***************************************************************************)
(* A track has at most four images: the first and three better ones.       *)
(***************************************************************************)
FewImages ==
  \A u \in 1..plate_uid :
    Cardinality({k \in 1..Len(handed) : handed[k].uid = u /\ handed[k].crop}) <= 4

(***************************************************************************)
(* A car alone in its frames is one track exactly as long as it moves no   *)
(* further than Near at a time, whatever frames in between are skipped.    *)
(* (Behind the first plate of a frame any corner may be read.)             *)
(***************************************************************************)
TrackFollowsCar ==
  \A k \in 2..Len(handed) :
    handed[k].nth = 0 /\ handed[k - 1].nth = 0 =>
      ((handed[k].uid = handed[k - 1].uid) <=> Distance(handed[k].x, handed[k - 1].x) <= Near)

==============================================================================
