----------------------------- MODULE VehicleInfo -----------------------------
(***************************************************************************)
(* VehicleInfoManager and the part of UIManager it writes to.  The video   *)
(* thread stores what is recognised (setRecognizedInfo) and the receive    *)
(* thread what is answered (receiveCommunicationData) in the same maps, and*)
(* both draw the answers (UpdateVinfo) into the same four images, without  *)
(* a lock.  The receive thread also decides, by the clock, when the loss   *)
(* of the connection is shown.                                             *)
(*                                                                         *)
(* A plate is a recognised text, a track the car ALPRProcessor follows     *)
(* under one plate_uid.                                                    *)
(***************************************************************************)
EXTENDS Integers, Sequences

CONSTANTS
  Plate,      \* texts that are recognised
  Panes,      \* what the vehicles of an answer can be: sets of "normal", "alert"
  Second,     \* clock ticks per second
  Patience,   \* seconds of failing reads before the loss is shown: 5
  MaxTrack,   \* bound: plate_uid
  MaxCount,   \* bound: how often a text is recognised again
  MaxClock,   \* bound: clock ticks
  MaxLosses   \* bound: losses of the connection

ASSUME VehicleAssumption ==
  /\ Panes \subseteq SUBSET {"normal", "alert"} \ {{}}
  /\ Second \in Nat \ {0}
  /\ MaxTrack \in Nat \ {0}
  /\ {Patience, MaxCount, MaxClock, MaxLosses} \subseteq Nat

VARIABLES
  vpc, rec,         \* video thread: place in setRecognizedInfo(), its arguments
  plate_uid,        \* the latest track of ALPRProcessor
  mapVehicleNum,    \* plate -> track it was first seen in, 0: not in the map
  mapRsCount,       \* plate -> how often it was seen again
  mapVehicleImg,    \* the tracks with an image
  mapVehicleJson,   \* track -> its exact answer
  mapPlateMatchCount, mapPuidMatchStatus, exact_count,
  newJson,          \* the exact answer receive has still to insert, or Blank
  draw,             \* thread -> what it has still to write to the display
  display,          \* connection_lost, and text and image of the two panes
  receiveError, errorStartTime,
  responses,        \* responses on the way to the laptop, in no order
  link, losses, clock,
  crashed,          \* a map was dereferenced at end()
  lostAt, polled,   \* history: when reads began to fail; one failed in this tick
  lostShownAt,      \* history: when the loss was last shown
  drawn,            \* history: the texts that were shown
  raced,            \* history: panes both threads were writing to
  recounted         \* history: tracks whose match counter was set back

maps == <<mapVehicleNum, mapRsCount, mapVehicleImg, mapVehicleJson,
          mapPlateMatchCount, mapPuidMatchStatus, exact_count, newJson>>
video == <<vpc, rec, plate_uid>>
shown == <<display, lostShownAt, drawn, raced>>
timer == <<receiveError, errorStartTime>>
net   == <<responses, link, losses, clock, lostAt, polled>>
vars  == <<maps, video, draw, shown, timer, net, crashed, recounted>>

Track    == 1..MaxTrack
Thread   == {"video", "receive"}
Pane     == {"normal", "alert"}
Exact    == 0                       \* no "~" in the query; 1 and 2: "~1", "~2"
NoMatch  == 3                       \* nothing found, or refused
None     == 0                       \* of MatchStatus and of the maps
Dist2Matched == 1
Dist1Matched == 2

\* a response, its plate_uid, how it matched, the kinds of vehicle in it; what
\* is drawn of it also has the count the plate had
Login    == [type |-> "login"]
Query    == [type : {"query"}, plate : Plate, uid : Track, dist : 0..NoMatch, panes : Panes]
Text(a, n) == [uid |-> a.uid, plate |-> a.plate, dist |-> a.dist, panes |-> a.panes, count |-> n]
Blank    == [uid |-> None]
Texts    == [uid : Track, plate : Plate, dist : 0..2, panes : Panes, count : 0..MaxCount]
Time     == clock \div Second       \* time(NULL)

TypeOK ==
  /\ vpc \in {"idle", "sending", "storing", "looking"}
  /\ rec \in [rs : Plate \cup {None}, uid : 0..MaxTrack, crop : BOOLEAN]
  /\ plate_uid \in 0..MaxTrack
  /\ mapVehicleNum \in [Plate -> 0..MaxTrack] /\ mapRsCount \in [Plate -> 0..MaxCount]
  /\ mapVehicleImg \subseteq Track /\ mapVehicleJson \in [Track -> Texts \cup {Blank}]
  /\ mapPlateMatchCount \in [Track -> Nat]
  /\ mapPuidMatchStatus \in [Track -> 0..Dist1Matched]
  /\ exact_count \in 0..MaxCount /\ newJson \in Texts \cup {Blank}
  /\ display.lost \in BOOLEAN
  /\ display.text \in [Pane -> Texts \cup {Blank}] /\ display.img \in [Pane -> 0..MaxTrack]
  /\ responses \subseteq Query \cup {Login}
  /\ receiveError \in BOOLEAN /\ errorStartTime \in 0..Time
  /\ link \in {"up", "down"} /\ losses \in 0..MaxLosses /\ clock \in 0..MaxClock
  /\ drawn \subseteq Texts /\ raced \subseteq Pane /\ recounted \subseteq Track
  /\ crashed \in BOOLEAN

Init ==
  /\ vpc = "idle" /\ rec = [rs |-> None, uid |-> 0, crop |-> FALSE] /\ plate_uid = 0
  /\ mapVehicleNum = [p \in Plate |-> None] /\ mapRsCount = [p \in Plate |-> 0]
  /\ mapVehicleImg = {} /\ mapVehicleJson = [u \in Track |-> Blank]
  /\ mapPlateMatchCount = [u \in Track |-> 0] /\ mapPuidMatchStatus = [u \in Track |-> None]
  /\ exact_count = 0 /\ newJson = Blank
  /\ draw = [t \in Thread |-> <<>>]
  /\ display = [lost |-> FALSE, text |-> [p \in Pane |-> Blank], img |-> [p \in Pane |-> None]]
  /\ receiveError = FALSE /\ errorStartTime = 0
  /\ responses = {} /\ link = "up" /\ losses = 0 /\ clock = 0
  /\ lostAt = 0 /\ polled = FALSE /\ lostShownAt = 0 /\ drawn = {} /\ raced = {}
  /\ crashed = FALSE /\ recounted = {}

-----------------------------------------------------------------------------
(* The display.  Copying one image is one step; a thread copies in order.   *)

Write(field, pane, value) == [field |-> field, pane |-> pane, value |-> value]

PaneWrites(p, text, uid) == <<Write("text", p, text), Write("img", p, uid)>>

\* UpdateVinfo() with an answer: the flag, then each pane it has a vehicle for
UpdateVinfo(text, uid) ==
  <<Write("lost", "", FALSE)>>
    \o (IF "normal" \in text.panes THEN PaneWrites("normal", text, uid) ELSE <<>>)
    \o (IF "alert" \in text.panes THEN PaneWrites("alert", text, uid) ELSE <<>>)

\* UpdateVinfo() with nError = 1
UpdateLost == <<Write("lost", "", TRUE)>>

RefreshImages ==                                                     \* mutant
  <<Write("img", "normal", None), Write("img", "alert", None)>>

RefreshUI ==
  PaneWrites("normal", Blank, None) \o PaneWrites("alert", Blank, None)

Idle(t) == draw[t] = <<>> /\ ~crashed

WritesTo(t, p) == \E k \in 1..Len(draw[t]) : draw[t][k].pane = p

\* RefreshUI() is done, and what UpdateVinfo() is called with is exact
Inserts(t) == t = "receive" /\ newJson # Blank /\ Head(draw[t]).field = "lost"

\* one copyTo() of a thread, or its assignment to connection_lost
Draw(t) ==
  /\ ~Idle(t) /\ ~crashed /\ ~Inserts(t)
  /\ LET w == Head(draw[t])
     IN  /\ display' = IF w.field = "lost" THEN [display EXCEPT !.lost = w.value]
                       ELSE [display EXCEPT ![w.field][w.pane] = w.value]
         /\ lostShownAt' = IF w.field = "lost" /\ w.value = TRUE THEN clock ELSE lostShownAt
         /\ drawn' = IF w.field = "text" /\ w.value # Blank THEN drawn \cup {w.value} ELSE drawn
         /\ raced' = raced \cup {p \in {w.pane} \cap Pane : \A u \in Thread : WritesTo(u, p)}
  /\ draw' = [draw EXCEPT ![t] = Tail(@)]
  /\ UNCHANGED <<maps, video, timer, net, crashed, recounted>>

-----------------------------------------------------------------------------
(* The video thread: setRecognizedInfo(rs, uid, pimag).                     *)

RecognisedAnyway(uid, crop) ==                                       \* mutant
  uid \in {plate_uid, plate_uid + 1} /\ uid # 0

\* ALPRProcessor starts a track only with an image
Recognised(uid, crop) ==
  \/ uid = plate_uid /\ uid # 0
  \/ uid = plate_uid + 1 /\ crop

setRecognizedInfo(rs, uid, crop) ==
  /\ vpc = "idle" /\ Idle("video") /\ Recognised(uid, crop)
  /\ plate_uid' = uid /\ rec' = [rs |-> rs, uid |-> uid, crop |-> crop]
  /\ IF mapVehicleNum[rs] = None
       THEN /\ mapVehicleNum' = [mapVehicleNum EXCEPT ![rs] = uid]
            /\ vpc' = "sending"
            /\ UNCHANGED mapRsCount
       ELSE /\ mapRsCount[rs] < MaxCount
            /\ mapRsCount' = [mapRsCount EXCEPT ![rs] = @ + 1]
            /\ vpc' = IF crop THEN "storing" ELSE "idle"
            /\ UNCHANGED mapVehicleNum
  /\ UNCHANGED <<mapVehicleImg, mapVehicleJson, mapPlateMatchCount, mapPuidMatchStatus,
                 exact_count, newJson, draw, shown, timer, net, crashed, recounted>>

\* the server answers, or (lookup failed, connection down) does not
sendRecognizedInfo ==
  /\ vpc = "sending" /\ ~crashed
  /\ vpc' = IF rec.crop THEN "storing" ELSE "idle"
  /\ responses' \in {responses} \cup
       {responses \cup {a} : a \in {q \in Query : /\ link = "up"
                                                  /\ q.plate = rec.rs /\ q.uid = rec.uid}}
  /\ UNCHANGED <<rec, plate_uid, maps, draw, shown, timer, link, losses, clock, lostAt,
                 polled, crashed, recounted>>

StoreImage ==
  /\ vpc = "storing" /\ ~crashed
  /\ mapVehicleImg' = mapVehicleImg \cup {rec.uid}
  /\ vpc' = "looking"
  /\ UNCHANGED <<rec, plate_uid, mapVehicleNum, mapRsCount, mapVehicleJson, mapPlateMatchCount,
                 mapPuidMatchStatus, exact_count, newJson, draw, shown, timer, net, crashed,
                 recounted>>

ShowStored ==
  /\ vpc = "looking" /\ ~crashed
  /\ vpc' = "idle"
  /\ IF mapVehicleJson[rec.uid] # Blank
       THEN /\ draw' = [draw EXCEPT !["video"] = UpdateVinfo(mapVehicleJson[rec.uid], rec.uid)]
            /\ UNCHANGED mapPlateMatchCount
       ELSE /\ mapPlateMatchCount' = [mapPlateMatchCount EXCEPT ![rec.uid] = 0]
            /\ UNCHANGED draw
  /\ recounted' = recounted \cup {u \in Track : mapPlateMatchCount'[u] < mapPlateMatchCount[u]}
  /\ UNCHANGED <<rec, plate_uid, mapVehicleNum, mapRsCount, mapVehicleImg, mapVehicleJson,
                 mapPuidMatchStatus, exact_count, newJson, shown, timer, net, crashed>>

-----------------------------------------------------------------------------
(* The receive thread: receiveCommunicationData().                          *)

\* a non-empty buffer
Receive(a) ==
  /\ Idle("receive") /\ link = "up" /\ a \in responses
  /\ responses' = responses \ {a}
  /\ errorStartTime' = Time /\ receiveError' = FALSE
  /\ UNCHANGED <<video, shown, link, losses, clock, lostAt, polled, recounted>>

LatestTrack(a) == plate_uid                                          \* mutant

FirstTrack(a) == mapVehicleNum[a.plate]

SightingsCount(a) == IF a.dist = Exact THEN mapRsCount[a.plate] + 1 ELSE 0  \* mutant

\* the count the text has when its exact answer comes
CurExactCount(a) == IF a.dist = Exact THEN mapRsCount[a.plate] ELSE 0

OutdatedByNothing(a) ==                                              \* mutant
  a.dist = 2 /\ mapPuidMatchStatus[FirstTrack(a)] < Dist2Matched

\* a "~2" answer after a "~1" answer
Outdated(a) == a.dist = 2 /\ mapPuidMatchStatus[FirstTrack(a)] > Dist2Matched

Shows(a) ==
  \/ mapVehicleJson[a.uid] = Blank
  \/ a.dist = Exact /\ CurExactCount(a) > exact_count

NoteMatch(a) ==
  LET s == IF a.dist = 1 THEN Dist1Matched ELSE IF a.dist = 2 THEN Dist2Matched ELSE None
  IN  mapPuidMatchStatus' =
        [mapPuidMatchStatus EXCEPT ![FirstTrack(a)] = IF @ < s THEN s ELSE @]

ReceiveLogin ==
  Receive(Login) /\ UNCHANGED <<maps, draw, crashed>>

IgnoreAnswer(a) ==
  /\ Receive(a)
  /\ a.dist = NoMatch \/ Outdated(a)
  /\ UNCHANGED <<maps, draw, crashed>>

AnswerNotShown(a) ==
  /\ Receive(a)
  /\ a.dist # NoMatch /\ ~Outdated(a) /\ ~Shows(a)
  /\ NoteMatch(a)
  /\ UNCHANGED <<mapVehicleNum, mapRsCount, mapVehicleImg, mapVehicleJson, mapPlateMatchCount,
                 exact_count, newJson, draw, crashed>>

\* the answer is here before the image: mapVehicleImg.find(puid) is end()
AnswerWithoutImage(a) ==
  /\ Receive(a)
  /\ a.dist # NoMatch /\ ~Outdated(a) /\ Shows(a) /\ FirstTrack(a) \notin mapVehicleImg
  /\ crashed' = TRUE
  /\ UNCHANGED <<maps, draw>>

ShowAnswer(a) ==
  /\ Receive(a)
  /\ a.dist # NoMatch /\ ~Outdated(a) /\ Shows(a) /\ FirstTrack(a) \in mapVehicleImg
  /\ NoteMatch(a)
  /\ mapPlateMatchCount' = [mapPlateMatchCount EXCEPT ![FirstTrack(a)] = @ + 1]
  /\ LET text == Text(a, CurExactCount(a))
     IN  /\ newJson' = IF a.dist = Exact THEN text ELSE Blank
         /\ draw' = [draw EXCEPT !["receive"] =
              (IF mapPlateMatchCount'[FirstTrack(a)] > 1 THEN RefreshUI ELSE <<>>)
                \o UpdateVinfo(text, FirstTrack(a))]
  /\ UNCHANGED <<mapVehicleNum, mapRsCount, mapVehicleImg, mapVehicleJson, exact_count, crashed>>

\* between RefreshUI() and UpdateVinfo(); insert() does not overwrite
InsertAnswer ==
  /\ ~Idle("receive") /\ ~crashed /\ Inserts("receive")
  /\ mapVehicleJson' =
       [mapVehicleJson EXCEPT ![newJson.uid] = IF @ = Blank THEN newJson ELSE @]
  /\ exact_count' = newJson.count /\ newJson' = Blank
  /\ UNCHANGED <<mapVehicleNum, mapRsCount, mapVehicleImg, mapPlateMatchCount,
                 mapPuidMatchStatus, video, draw, shown, timer, net, crashed, recounted>>

RestartTimer ==                                                      \* mutant
  /\ Idle("receive") /\ link = "down"
  /\ polled' = TRUE
  /\ errorStartTime' = Time /\ receiveError' = TRUE
  /\ draw' = IF receiveError /\ Time - errorStartTime > Patience
                THEN [draw EXCEPT !["receive"] = UpdateLost] ELSE draw
  /\ UNCHANGED <<maps, video, shown, responses, link, losses, clock, lostAt, crashed, recounted>>

\* an empty buffer, and what the timer makes of it
ReceiveNothing ==
  /\ Idle("receive") /\ link = "down"
  /\ polled' = TRUE
  /\ LET late == receiveError /\ Time - errorStartTime > Patience
     IN  /\ errorStartTime' = IF late \/ ~receiveError THEN Time ELSE errorStartTime
         /\ receiveError' = TRUE
         /\ draw' = IF late THEN [draw EXCEPT !["receive"] = UpdateLost] ELSE draw
  /\ UNCHANGED <<maps, video, shown, responses, link, losses, clock, lostAt, crashed, recounted>>

-----------------------------------------------------------------------------
(* The connection and the clock.                                            *)

LoseConnection ==
  /\ link = "up" /\ losses < MaxLosses
  /\ link' = "down" /\ losses' = losses + 1 /\ responses' = {}
  /\ lostAt' = clock /\ polled' = FALSE
  /\ UNCHANGED <<maps, video, draw, shown, timer, clock, crashed, recounted>>

\* the reconnect thread; the response to the repeated login is read here too
Reconnect ==
  /\ link = "down"
  /\ link' = "up" /\ responses' \in {{}, {Login}}
  /\ UNCHANGED <<maps, video, draw, shown, timer, losses, clock, lostAt, polled, crashed, recounted>>

\* reading again takes no time: the thread reads many times per tick
Tick ==
  /\ clock < MaxClock
  /\ link = "down" => polled
  /\ Idle("receive")
  /\ clock' = clock + 1 /\ polled' = FALSE
  /\ UNCHANGED <<maps, video, draw, shown, timer, responses, link, losses, lostAt, crashed, recounted>>

VideoNext ==
  \/ \E rs \in Plate, uid \in Track, crop \in BOOLEAN : setRecognizedInfo(rs, uid, crop)
  \/ sendRecognizedInfo \/ StoreImage \/ ShowStored
  \/ Draw("video")

ReceiveNext ==
  \/ ReceiveLogin
  \/ \E a \in responses \ {Login} :
       IgnoreAnswer(a) \/ AnswerNotShown(a) \/ AnswerWithoutImage(a) \/ ShowAnswer(a)
  \/ InsertAnswer \/ ReceiveNothing
  \/ Draw("receive")

Next == VideoNext \/ ReceiveNext \/ LoseConnection \/ Reconnect \/ Tick

Spec == Init /\ [][Next]_vars


\* both threads run; the server's responses arrive
FairSpec == Spec /\ WF_vars(VideoNext) /\ WF_vars(ReceiveNext)

-----------------------------------------------------------------------------
(***************************************************************************)
(* The two panes.  Without a step of both threads on the same pane, its    *)
(* text and its image are those of one track, although the answer, the     *)
(* image and the track come from different maps filled at different times. *)
(***************************************************************************)
PaneShowsOneTrack ==
  \A p \in Pane :
    (\A t \in Thread : ~WritesTo(t, p)) /\ p \notin raced =>
      display.text[p].uid = display.img[p]

(***************************************************************************)
(* A match is never replaced by a coarser one of the same track: an exact  *)
(* one by a "~1", a "~1" by a "~2", however late its answer comes and      *)
(* whichever thread draws it.                                              *)
(***************************************************************************)
NeverCoarser ==
  [][\A p \in Pane :
       display'.text[p] \notin {display.text[p], Blank} =>
         \A m \in drawn : m.uid = display'.text[p].uid => display'.text[p].dist <= m.dist]_vars

(***************************************************************************)
(* The panes do not show two different matches of one track: the second    *)
(* one is counted and RefreshUI() clears the first.  Where the counter was *)
(* set back, and between two exact matches, the code does not keep this.   *)
(***************************************************************************)
OneMatchPerTrack ==
  LET normal == display.text["normal"]
      alert  == display.text["alert"]
  IN  /\ \A t \in Thread : draw[t] = <<>>
      /\ Blank \notin {normal, alert} /\ normal.uid = alert.uid /\ normal # alert
      /\ {normal.dist, alert.dist} # {Exact}
      => normal.uid \in recounted

(***************************************************************************)
(* While reads keep failing, the loss is shown (again) at the latest one   *)
(* second more than Patience after the first of them or after it was last  *)
(* shown: whole seconds are compared.                                      *)
(***************************************************************************)
FailingSince(t) == link = "down" /\ polled /\ Idle("receive") /\ clock - lostAt >= t

Limit == (Patience + 1) * Second

LossShown ==
  FailingSince(Limit) => display.lost \/ clock - lostShownAt < Limit

(***************************************************************************)
(* ADR003: the laptop detects a problem of the connection within 5 seconds.*)
(***************************************************************************)
LossShownIn5Seconds == FailingSince(5 * Second + 1) => lostShownAt > lostAt

(***************************************************************************)
(* "Connection Lost" is not shown to the user once responses are read.     *)
(***************************************************************************)
BannerFollowsReception == Idle("receive") /\ display.lost => receiveError

(***************************************************************************)
(* The two threads of ADR002, recognising and answering, do not end the    *)
(* laptop: an answer finds the image of its plate.                         *)
(***************************************************************************)
AnswerFindsImage == ~crashed

(***************************************************************************)
(* An answer that is on its way belongs to a text and a track that are     *)
(* known, and can miss its image in one place only: while the video thread *)
(* is about to store that image.  No later answer can, and no answer to a  *)
(* text that was seen before under another track.                          *)
(***************************************************************************)
ImageOnlyLate ==
  \A a \in responses \ {Login} :
    /\ FirstTrack(a) = a.uid
    /\ FirstTrack(a) \notin mapVehicleImg => vpc = "storing" /\ rec.uid = FirstTrack(a)

(***************************************************************************)
(* ADR007: the best match is returned; a shown exact match is not replaced *)
(* by one of a text that was seen less often.                              *)
(***************************************************************************)
BestExactShown ==
  [][\A p \in Pane :
       display'.text[p] \notin {display.text[p], Blank} /\ display'.text[p].dist = Exact =>
         \A m \in drawn :
           m.uid = display'.text[p].uid /\ m.dist = Exact => m.count <= display'.text[p].count]_vars

==============================================================================
