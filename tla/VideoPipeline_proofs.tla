------------------------ MODULE VideoPipeline_proofs ------------------------
(***************************************************************************)
(* Proofs about VideoPipeline, for videos of any length, every save mode   *)
(* and any heights.  The invariant says which pixels the video thread's    *)
(* header leads to, and that the pixels of a saver never go back behind    *)
(* its frame.                                                              *)
(***************************************************************************)
EXTENDS VideoPipeline, TLAPS

-----------------------------------------------------------------------------
\* the header of ui->video while a frame is processed
FrameHeld ==
  pc \in {"process", "save", "banner"} =>
    captured > 0 /\ frame > 0 /\ pixels[frame].no = captured

SaverAt(f) ==
  /\ saver[f].st \in {"ready", "writing"} =>
       /\ saver[f].buf > 0
       /\ f <= pixels[saver[f].buf].no
  /\ saver[f].st = "writing" =>
       f <= saver[f].begun.no /\ saver[f].begun.no <= pixels[saver[f].buf].no

PipelineInv ==
  /\ TypeOK /\ FrameHeld
  /\ \A b \in Frames : pixels[b].no <= captured
  /\ \A f \in Frames : SaverAt(f)
  /\ SavedNotOlder

FileEntry == [for : Frames, begun : Content, done : Content]

-----------------------------------------------------------------------------
LEMMA Bounds == MaxFrames \in Nat \ {0} /\ Height \subseteq Nat
  BY VideoAssumption

LEMMA AppendElements ==
  ASSUME NEW S, NEW s \in Seq(S), NEW x \in S
  PROVE  /\ Append(s, x) \in Seq(S) /\ Len(s) \in Nat
         /\ Len(Append(s, x)) = Len(s) + 1
         /\ \A k \in 1..Len(s) : Append(s, x)[k] = s[k]
         /\ Append(s, x)[Len(s) + 1] = x
  OBVIOUS

LEMMA NothingTyped == Nothing \in Content /\ Nothing.no = 0
  BY Bounds DEF Nothing, Content

LEMMA InitPipeline == Init => PipelineInv
<1> SUFFICES ASSUME Init PROVE PipelineInv
  OBVIOUS
<1>1. /\ file = <<>> /\ captured = 0 /\ frame = 0 /\ pc = "capture"
      /\ pixels = [f \in Frames |-> Nothing] /\ saver = [f \in Frames |-> NoSaver]
  BY DEF Init
<1>2. Nothing \in Content /\ Nothing.no = 0
  BY NothingTyped
<1>3. NoSaver \in [st : {"none", "ready", "writing", "done"}, buf : 0..captured,
                   begun : Content] /\ NoSaver.st = "none"
  BY <1>1, <1>2 DEF NoSaver
<1>4. TypeOK
  <2>1. saver \in [Frames -> [st : {"none", "ready", "writing", "done"}, buf : 0..captured,
                             begun : Content]]
    BY <1>1, <1>3
  <2>2. pixels \in [Frames -> Content] /\ file \in Seq(FileEntry)
    BY <1>1, <1>2
  <2>3. captured \in 0..MaxFrames /\ frame \in 0..captured
    BY <1>1, Bounds
  <2> QED BY <2>1, <2>2, <2>3 DEF TypeOK, Init, FileEntry
<1>5. FrameHeld /\ SavedNotOlder
  BY <1>1 DEF FrameHeld, SavedNotOlder
<1>6. \A f \in Frames : SaverAt(f) /\ pixels[f].no <= captured
  BY <1>1, <1>2, <1>3 DEF SaverAt
<1> QED BY <1>4, <1>5, <1>6 DEF PipelineInv

-----------------------------------------------------------------------------
(* Steps that leave the savers, the file and the pixels' numbers alone.     *)
LEMMA PipelineKept ==
  ASSUME PipelineInv, UNCHANGED <<videosavemode, height, captured, saver, out>>,
         pixels' \in [Frames -> Content],
         \A b \in Frames : pixels'[b].no = pixels[b].no,
         pc' \in {"process", "save", "banner"} =>
           pc \in {"process", "save", "banner"} /\ frame' = frame,
         pc = "ended" => pc' = "ended", frame' \in {0, frame},
         pc' \in {"capture", "renew", "process", "save", "banner", "show", "key", "complete", "ended"},
         mpc' \in {"join", "release", "logout", "exit"},
         connection_lost' \in BOOLEAN, terminated' \in BOOLEAN
  PROVE  PipelineInv'
<1>1. TypeOK'
  BY Bounds DEF PipelineInv, TypeOK, out
<1>2. FrameHeld'
  <2>1. CASE pc' \in {"process", "save", "banner"}
    <3>1. pc \in {"process", "save", "banner"} /\ frame' = frame
      BY <2>1
    <3>2. frame \in Frames
      BY <3>1, Bounds DEF PipelineInv, TypeOK, FrameHeld, Frames
    <3> QED BY <3>1, <3>2 DEF PipelineInv, FrameHeld
  <2> QED BY <2>1 DEF FrameHeld
<1>3. \A f \in Frames : SaverAt(f)'
  <2> SUFFICES ASSUME NEW f \in Frames PROVE SaverAt(f)'
    OBVIOUS
  <2>1. saver[f].st \in {"ready", "writing"} => saver[f].buf \in Frames
    BY Bounds DEF PipelineInv, SaverAt, TypeOK, Frames
  <2> QED BY <2>1 DEF PipelineInv, SaverAt
<1>4. SavedNotOlder'
  BY DEF PipelineInv, SavedNotOlder, Sound, Deleted, out
<1> QED BY <1>1, <1>2, <1>3, <1>4 DEF PipelineInv

\* a new frame is later than everything in the memory
LEMMA PipelineCapture ==
  ASSUME PipelineInv, Capture
  PROVE  PipelineInv'
<1> DEFINE new == [no |-> captured + 1, boxes |-> FALSE, banner |-> FALSE]
<1>1. /\ captured \in Nat /\ captured' = captured + 1 /\ captured' \in 0..MaxFrames
      /\ captured + 1 \in Frames
  BY Bounds DEF PipelineInv, TypeOK, Capture, Frames
<1>2. frame' \in 1..captured' /\ frame' \in Frames
  BY <1>1, Bounds DEF PipelineInv, TypeOK, Capture, Place, Frames
<1>3. pixels' = [pixels EXCEPT ![frame'] = new] /\ pixels \in [Frames -> Content]
  BY DEF Capture, PipelineInv, TypeOK
<1>4. new \in Content /\ new.no = captured'
  BY <1>1 DEF Content
<1> HIDE DEF new
<1>5. /\ pixels' \in [Frames -> Content] /\ pixels'[frame'].no = captured'
      /\ \A b \in Frames : b # frame' => pixels'[b] = pixels[b]
  BY <1>2, <1>3, <1>4
<1>6. \A b \in Frames : /\ pixels[b].no \in Nat /\ pixels'[b].no \in Nat
                        /\ pixels[b].no <= pixels'[b].no /\ pixels'[b].no <= captured'
  <2> SUFFICES ASSUME NEW b \in Frames
               PROVE  /\ pixels[b].no \in Nat /\ pixels'[b].no \in Nat
                      /\ pixels[b].no <= pixels'[b].no /\ pixels'[b].no <= captured'
    OBVIOUS
  <2>1. pixels[b].no \in 0..MaxFrames
    BY <1>3 DEF Content
  <2>2. pixels[b].no <= captured
    BY DEF PipelineInv
  <2> QED BY <1>1, <1>5, <2>1, <2>2, Bounds
<1>7. UNCHANGED <<mpc, settings, saver, file, overlapped, connection_lost, terminated>>
      /\ pc \in {"capture", "renew"} /\ pc' = "process"
  BY DEF Capture, out
<1>8. TypeOK'
  <2>1. \A f \in Frames : saver[f].buf \in 0..captured'
    BY <1>1, Bounds DEF PipelineInv, TypeOK
  <2>2. saver' \in [Frames -> [st : {"none", "ready", "writing", "done"}, buf : 0..captured',
                              begun : Content]]
    BY <1>7, <2>1 DEF PipelineInv, TypeOK
  <2>3. frame' \in 0..captured'
    BY <1>1, <1>2
  <2> QED BY <1>1, <1>5, <1>7, <2>2, <2>3 DEF PipelineInv, TypeOK, settings
<1>9. FrameHeld'
  BY <1>1, <1>2, <1>5 DEF FrameHeld
<1>10. \A f \in Frames : SaverAt(f)'
  <2> SUFFICES ASSUME NEW f \in Frames PROVE SaverAt(f)'
    OBVIOUS
  <2>1. SaverAt(f) /\ saver[f].buf \in 0..captured /\ saver[f].begun \in Content
    BY DEF PipelineInv, TypeOK
  <2>2. saver[f].st \in {"ready", "writing"} => saver[f].buf \in Frames
    BY <1>1, <2>1, Bounds DEF SaverAt, Frames
  <2>3. saver[f].begun.no \in Nat /\ f \in Nat
    BY <2>1, Bounds DEF Content, Frames
  <2> QED BY <1>6, <1>7, <2>1, <2>2, <2>3 DEF SaverAt
<1>11. SavedNotOlder'
  <2> SUFFICES ASSUME Sound', NEW k \in 1..Len(file)
               PROVE  /\ Sound
                      /\ file[k].done.no <= captured => file[k].done.no <= captured'
    BY <1>7 DEF PipelineInv, SavedNotOlder
  <2>1. Sound /\ file \in Seq(FileEntry)
    BY <1>7 DEF PipelineInv, Sound, Deleted, TypeOK, FileEntry
  <2>2. file[k] \in FileEntry
    BY <2>1
  <2>3. file[k].done \in Content
    BY <2>2 DEF FileEntry
  <2>4. file[k].done.no \in 0..MaxFrames
    BY <2>3 DEF Content
  <2> QED BY <1>1, <2>1, <2>4, Bounds
<1> QED BY <1>6, <1>8, <1>9, <1>10, <1>11 DEF PipelineInv

LEMMA PipelineStartSaver ==
  ASSUME PipelineInv, StartSaver
  PROVE  PipelineInv'
<1>1. UNCHANGED <<mpc, settings, captured, frame, pixels, file, overlapped, connection_lost,
                  terminated>>
      /\ pc = "save" /\ pc' = "banner" /\ Sound' = Sound
  BY DEF StartSaver, out, Sound, Deleted
<1>2. captured \in Frames /\ frame \in 1..captured /\ pixels[frame].no = captured
  BY <1>1, Bounds DEF PipelineInv, TypeOK, FrameHeld, Frames
<1>3. CASE videosavemode = "vNoSave"
  <2>1. saver' = saver
    BY <1>3 DEF StartSaver
  <2>2. TypeOK' /\ FrameHeld' /\ SavedNotOlder'
    BY <1>1, <2>1 DEF PipelineInv, TypeOK, FrameHeld, SavedNotOlder, settings
  <2>3. \A f \in Frames : SaverAt(f)' /\ pixels'[f].no <= captured'
    BY <1>1, <2>1 DEF PipelineInv, SaverAt
  <2> QED BY <2>2, <2>3 DEF PipelineInv
<1>4. CASE videosavemode # "vNoSave"
  <2> DEFINE new == [NoSaver EXCEPT !.st = "ready", !.buf = frame]
  <2>1. saver' = [saver EXCEPT ![captured] = new]
    BY <1>4 DEF StartSaver
  <2>2. /\ new \in [st : {"none", "ready", "writing", "done"}, buf : 0..captured,
                    begun : Content]
        /\ new.st = "ready" /\ new.buf = frame
    <3>1. frame \in 0..captured /\ 0 \in 0..captured
      BY <1>2, Bounds DEF Frames
    <3>2. NoSaver \in [st : {"none", "ready", "writing", "done"}, buf : 0..captured,
                       begun : Content]
      BY <3>1, NothingTyped DEF NoSaver
    <3> QED BY <3>1, <3>2
  <2> HIDE DEF new
  <2>3. /\ saver'[captured] = new /\ \A f \in Frames : f # captured => saver'[f] = saver[f]
        /\ saver' \in [Frames -> [st : {"none", "ready", "writing", "done"},
                                  buf : 0..captured, begun : Content]]
    BY <1>2, <2>1, <2>2 DEF PipelineInv, TypeOK
  <2>4. TypeOK' /\ FrameHeld' /\ SavedNotOlder'
    BY <1>1, <2>3 DEF PipelineInv, TypeOK, FrameHeld, SavedNotOlder, settings
  <2>5. \A f \in Frames : SaverAt(f)' /\ pixels'[f].no <= captured'
    BY <1>1, <1>2, <2>2, <2>3, Bounds DEF PipelineInv, SaverAt, Frames
  <2> QED BY <2>4, <2>5 DEF PipelineInv
<1> QED BY <1>3, <1>4

-----------------------------------------------------------------------------
(* The savers.                                                              *)
LEMMA PipelineBeginWrite ==
  ASSUME PipelineInv, NEW f \in Frames, BeginWrite(f)
  PROVE  PipelineInv'
<1> DEFINE new == [saver[f] EXCEPT !.st = "writing", !.begun = pixels[saver[f].buf]]
<1>1. UNCHANGED <<pc, mpc, settings, captured, frame, pixels, file, connection_lost>>
      /\ overlapped' \in BOOLEAN /\ terminated' \in BOOLEAN /\ saver[f].st = "ready"
      /\ (Sound' => Sound)
  BY DEF BeginWrite, Deleted, Sound, PipelineInv, TypeOK
<1>2. saver[f].buf \in Frames /\ f <= pixels[saver[f].buf].no
  BY <1>1, Bounds DEF PipelineInv, TypeOK, SaverAt, Frames
<1>3. saver' = [saver EXCEPT ![f] = new]
  BY DEF BeginWrite, PipelineInv, TypeOK
<1>4. /\ new \in [st : {"none", "ready", "writing", "done"}, buf : 0..captured,
                  begun : Content]
      /\ new.st = "writing" /\ new.buf = saver[f].buf /\ new.begun = pixels[saver[f].buf]
  BY <1>2 DEF PipelineInv, TypeOK
<1> HIDE DEF new
<1>5. /\ saver'[f] = new /\ \A g \in Frames : g # f => saver'[g] = saver[g]
      /\ saver' \in [Frames -> [st : {"none", "ready", "writing", "done"},
                                buf : 0..captured, begun : Content]]
  BY <1>3, <1>4 DEF PipelineInv, TypeOK
<1>6. TypeOK' /\ FrameHeld' /\ SavedNotOlder'
  BY <1>1, <1>5 DEF PipelineInv, TypeOK, FrameHeld, SavedNotOlder, settings
<1>7. \A g \in Frames : SaverAt(g)' /\ pixels'[g].no <= captured'
  <2>1. pixels[saver[f].buf].no \in Nat
    BY <1>2, Bounds DEF PipelineInv, TypeOK, Content
  <2> QED BY <1>1, <1>2, <1>4, <1>5, <2>1 DEF PipelineInv, SaverAt
<1> QED BY <1>6, <1>7 DEF PipelineInv

LEMMA PipelineEndWrite ==
  ASSUME PipelineInv, NEW f \in Frames, EndWrite(f)
  PROVE  PipelineInv'
<1> DEFINE new == [NoSaver EXCEPT !.st = "done"]
<1>1. UNCHANGED <<pc, mpc, settings, captured, frame, pixels, overlapped, connection_lost>>
      /\ terminated' \in BOOLEAN /\ saver[f].st = "writing" /\ Sound' = Sound
      /\ (Sound => file' = Append(file, Written(f)))
      /\ (~Sound => file' \in {file, Append(file, Unknown(f))})
  BY DEF EndWrite, Deleted, Sound, Writing
<1>2. /\ saver[f].buf \in Frames /\ f <= saver[f].begun.no
      /\ saver[f].begun.no <= pixels[saver[f].buf].no
      /\ pixels[saver[f].buf].no <= captured
  BY <1>1, Bounds DEF PipelineInv, TypeOK, SaverAt, Frames
<1>3. saver' = [saver EXCEPT ![f] = new]
  BY DEF EndWrite
<1>4. /\ new \in [st : {"none", "ready", "writing", "done"}, buf : 0..captured,
                  begun : Content]
      /\ new.st = "done"
  <2>1. new = [st |-> "done", buf |-> 0, begun |-> Nothing]
    BY DEF NoSaver
  <2>2. 0 \in 0..captured
    BY Bounds DEF PipelineInv, TypeOK
  <2> QED BY <2>1, <2>2, NothingTyped
<1> HIDE DEF new
<1>5. /\ saver'[f] = new /\ \A g \in Frames : g # f => saver'[g] = saver[g]
      /\ saver' \in [Frames -> [st : {"none", "ready", "writing", "done"},
                                buf : 0..captured, begun : Content]]
  BY <1>3, <1>4 DEF PipelineInv, TypeOK
<1>6. Written(f) \in FileEntry /\ Unknown(f) \in FileEntry /\ file \in Seq(FileEntry)
      /\ Written(f).for = f /\ Written(f).begun = saver[f].begun
      /\ Written(f).done = pixels[saver[f].buf]
  BY <1>2, NothingTyped DEF Written, Unknown, FileEntry, PipelineInv, TypeOK
<1>7. file' \in Seq(FileEntry) /\ SavedNotOlder'
  <2>1. CASE ~Sound
    BY <1>1, <1>6, <2>1, AppendElements DEF SavedNotOlder
  <2>2. CASE Sound
    <3>1. /\ file' \in Seq(FileEntry) /\ Len(file) \in Nat /\ Len(file') = Len(file) + 1
          /\ \A k \in 1..Len(file) : file'[k] = file[k]
          /\ file'[Len(file) + 1] = Written(f)
      BY <1>1, <1>6, <2>2, AppendElements
    <3>2. ASSUME NEW k \in 1..Len(file')
          PROVE  /\ file'[k].for <= file'[k].begun.no
                 /\ file'[k].begun.no <= file'[k].done.no
                 /\ file'[k].done.no <= captured
      <4>1. CASE k = Len(file) + 1
        BY <1>2, <1>6, <3>1, <4>1
      <4>2. CASE k # Len(file) + 1
        <5>1. k \in 1..Len(file)
          BY <3>1, <4>2
        <5> QED BY <2>2, <3>1, <5>1 DEF PipelineInv, SavedNotOlder
      <4> QED BY <4>1, <4>2
    <3> QED BY <1>1, <3>1, <3>2 DEF SavedNotOlder
  <2> QED BY <2>1, <2>2
<1>8. TypeOK' /\ FrameHeld'
  BY <1>1, <1>5, <1>7 DEF PipelineInv, TypeOK, FrameHeld, settings, FileEntry
<1>9. \A g \in Frames : SaverAt(g)' /\ pixels'[g].no <= captured'
  BY <1>1, <1>4, <1>5 DEF PipelineInv, SaverAt
<1> QED BY <1>7, <1>8, <1>9 DEF PipelineInv

LEMMA PipelineDraws ==
  ASSUME PipelineInv, alpr_process \/ ShowConnectionLost
  PROVE  PipelineInv'
<1>1. frame \in Frames /\ pixels[frame] \in Content
  BY Bounds DEF PipelineInv, TypeOK, FrameHeld, Frames, alpr_process, ShowConnectionLost
<1>2. \/ pixels' = pixels
      \/ pixels' = [pixels EXCEPT ![frame].boxes = TRUE]
      \/ pixels' = [pixels EXCEPT ![frame].banner = TRUE]
  BY DEF alpr_process, ShowConnectionLost
<1>3. /\ pixels' \in [Frames -> Content]
      /\ \A b \in Frames : pixels'[b].no = pixels[b].no
  <2>1. pixels \in [Frames -> Content]
    BY DEF PipelineInv, TypeOK
  <2>2. ASSUME NEW new \in Content, new.no = pixels[frame].no,
               pixels' = [pixels EXCEPT ![frame] = new]
        PROVE  pixels' \in [Frames -> Content] /\ \A b \in Frames : pixels'[b].no = pixels[b].no
    BY <1>1, <2>1, <2>2
  <2>3. CASE pixels' = [pixels EXCEPT ![frame].boxes = TRUE]
    <3>1. PICK new \in Content : new = [pixels[frame] EXCEPT !.boxes = TRUE]
      BY <1>1 DEF Content
    <3>2. new.no = pixels[frame].no /\ pixels' = [pixels EXCEPT ![frame] = new]
      BY <1>1, <2>3, <3>1 DEF Content
    <3> QED BY <2>2, <3>2
  <2>4. CASE pixels' = [pixels EXCEPT ![frame].banner = TRUE]
    <3>1. PICK new \in Content : new = [pixels[frame] EXCEPT !.banner = TRUE]
      BY <1>1 DEF Content
    <3>2. new.no = pixels[frame].no /\ pixels' = [pixels EXCEPT ![frame] = new]
      BY <1>1, <2>4, <3>1 DEF Content
    <3> QED BY <2>2, <3>2
  <2> QED BY <1>2, <2>1, <2>3, <2>4
<1> QED BY <1>3, PipelineKept DEF alpr_process, ShowConnectionLost, settings, PipelineInv, TypeOK

LEMMA NextPipeline == PipelineInv /\ [Next]_vars => PipelineInv'
<1> SUFFICES ASSUME PipelineInv, [Next]_vars PROVE PipelineInv'
  OBVIOUS
<1>1. CASE Renew \/ PlaybackComplete \/ UpdateVideo \/ waitKey \/ MessageBox
  BY <1>1, PipelineKept DEF Renew, PlaybackComplete, UpdateVideo, waitKey, MessageBox, settings,
     PipelineInv, TypeOK
<1>2. CASE MainNext \/ RefreshUI \/ UpdateVinfo \/ UNCHANGED vars
  BY <1>2, PipelineKept DEF MainNext, Join, ClossAll, LogoutAndExit, RefreshUI, UpdateVinfo,
     settings, vars, PipelineInv, TypeOK
<1> QED BY <1>1, <1>2, PipelineCapture, PipelineStartSaver, PipelineBeginWrite,
   PipelineEndWrite, PipelineDraws DEF Next, VideoNext, Save

LEMMA SpecPipeline == Spec => []PipelineInv
  BY InitPipeline, NextPipeline, PTL DEF Spec

-----------------------------------------------------------------------------
(***************************************************************************)
(* Types: process() and the savers use no frame that was not captured.     *)
(***************************************************************************)
THEOREM PipelineTypeCorrect == Spec => []TypeOK
<1>1. PipelineInv => TypeOK
  BY DEF PipelineInv
<1> QED BY <1>1, SpecPipeline, PTL

(***************************************************************************)
(* The recording never goes back: a saver writes its own frame or a later  *)
(* one, whichever savers share its pixels and in whatever order they run,  *)
(* as long as no two of them are in write() at once.                       *)
(***************************************************************************)
THEOREM RecordingNotOlder == Spec => []SavedNotOlder
<1>1. PipelineInv => SavedNotOlder
  BY DEF PipelineInv
<1> QED BY <1>1, SpecPipeline, PTL

-----------------------------------------------------------------------------
(* The header of ui->video is empty only before the first frame, while it   *)
(* gets new pixels and after the last, and nothing takes a step once the    *)
(* laptop has ended.                                                        *)
HeaderInv ==
  /\ pc \notin {"renew", "complete", "ended"} /\ captured > 0 => frame > 0
  /\ pc \in {"renew", "process", "save", "banner", "show", "key"} => captured > 0
  /\ captured > 0 \/ frame = 0

LEMMA NextPlays ==
  PipelineInv /\ HeaderInv /\ PlaysToItsEnd /\ [Next]_vars => HeaderInv' /\ PlaysToItsEnd'
<1> SUFFICES ASSUME PipelineInv, HeaderInv, PlaysToItsEnd, [Next]_vars
             PROVE  HeaderInv' /\ PlaysToItsEnd'
  OBVIOUS
<1>1. captured \in Nat /\ frame \in Nat
  BY Bounds DEF PipelineInv, TypeOK
<1>2. CASE Capture
  BY <1>1, <1>2 DEF Capture, Place, Running, HeaderInv, PlaysToItsEnd
<1>3. CASE \/ Renew \/ PlaybackComplete \/ alpr_process \/ StartSaver \/ ShowConnectionLost
           \/ waitKey \/ MessageBox
  BY <1>1, <1>3 DEF Renew, PlaybackComplete, alpr_process, StartSaver, ShowConnectionLost, waitKey,
     MessageBox, Running, HeaderInv, PlaysToItsEnd
<1>4. CASE UpdateVideo \/ RefreshUI
  <2>1. /\ UNCHANGED <<captured, frame, height, overlapped>> /\ terminated' = ~Fits /\ captured > 0
        /\ (pc' = pc \/ (pc = "show" /\ pc' = "key"))
    BY <1>1, <1>4 DEF UpdateVideo, RefreshUI, Answered, settings, out, HeaderInv
  <2>2. HeaderInv'
    BY <2>1 DEF HeaderInv
  <2>3. pc' \notin {"renew", "complete", "ended"} /\ height = VI_HEIGHT => Fits
    BY <1>1, <2>1 DEF HeaderInv, Fits
  <2> QED BY <2>1, <2>2, <2>3 DEF PlaysToItsEnd
<1>5. ASSUME NEW f \in Frames, Save(f) PROVE HeaderInv' /\ PlaysToItsEnd'
  BY <1>5 DEF Save, BeginWrite, EndWrite, Deleted, Sound, settings, HeaderInv, PlaysToItsEnd
<1>6. CASE MainNext \/ UpdateVinfo \/ UNCHANGED vars
  BY <1>6 DEF MainNext, Join, ClossAll, LogoutAndExit, UpdateVinfo, settings, out, vars, HeaderInv,
     PlaysToItsEnd
<1> QED BY <1>2, <1>3, <1>4, <1>5, <1>6 DEF Next, VideoNext

(***************************************************************************)
(* A video of the panes' height plays to its end, for videos of any length *)
(* and every order of the threads, unless two savers are in write() at     *)
(* once or a redraw meets the header without pixels: the receive thread    *)
(* redraws the window only once there is a frame, and no saver outlives    *)
(* what it uses before process() returns.                                  *)
(***************************************************************************)
THEOREM VideoPlaysThrough == Spec => []PlaysToItsEnd
<1>1. Init => HeaderInv /\ PlaysToItsEnd
  BY DEF Init, HeaderInv, PlaysToItsEnd
<1> QED BY <1>1, NextPlays, SpecPipeline, PTL DEF Spec

=============================================================================
