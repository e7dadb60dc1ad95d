---------------------------- MODULE VideoPipeline ----------------------------
(***************************************************************************)
(* The laptop's video: IOSourceManager::process() in its thread, a detached*)
(* thread per frame that writes it to the file, main() that waits for the  *)
(* first and releases the file, and the receive thread, which redraws the  *)
(* window through RefreshUI().                                             *)
(*                                                                         *)
(* A Mat is a header that shares its pixels: ui->video, the savers' frames *)
(* and what is captured next may all be the same memory.                   *)
(***************************************************************************)
EXTENDS Integers, Sequences, FiniteSets

CONSTANTS
  SaveMode,   \* choices of the save menu: subset of vNoSave, vSave, vSaveWithNoALPR
  Height,     \* heights the capture may have
  VI_HEIGHT,  \* height of the panes beside it
  MaxFrames   \* bound: frames of the video

ASSUME VideoAssumption ==
  /\ SaveMode \subseteq {"vNoSave", "vSave", "vSaveWithNoALPR"}
  /\ Height \subseteq Nat /\ VI_HEIGHT \in Nat
  /\ MaxFrames \in Nat \ {0}

VARIABLES
  pc,               \* video thread
  mpc,              \* main()
  videosavemode, height,
  captured,         \* frames captured so far
  frame,            \* the pixels ui->video leads to, 0: it is empty
  pixels,           \* memory of a frame -> what is in it
  saver,            \* frame -> its SaveOutputVideo() thread
  file,             \* what was written to output.avi
  overlapped,       \* two savers were in write() at once: the writer is undefined
  connection_lost,
  terminated        \* an exception, or the use of a deleted object, ended the laptop

settings == <<videosavemode, height>>
out  == <<file, overlapped>>
vars == <<pc, mpc, settings, captured, frame, pixels, saver, out, connection_lost, terminated>>

Frames  == 1..MaxFrames
Content == [no : 0..MaxFrames, boxes : BOOLEAN, banner : BOOLEAN]
Nothing == [no |-> 0, boxes |-> FALSE, banner |-> FALSE]
NoSaver == [st |-> "none", buf |-> 0, begun |-> Nothing]

TypeOK ==
  /\ pc \in {"capture", "renew", "process", "save", "banner", "show", "key", "complete", "ended"}
  /\ mpc \in {"join", "release", "logout", "exit"}
  /\ videosavemode \in SaveMode /\ height \in Height
  /\ captured \in 0..MaxFrames /\ frame \in 0..captured
  /\ pixels \in [Frames -> Content]
  /\ saver \in [Frames -> [st : {"none", "ready", "writing", "done"}, buf : 0..captured,
                           begun : Content]]
  /\ file \in Seq([for : Frames, begun : Content, done : Content])
  /\ overlapped \in BOOLEAN /\ connection_lost \in BOOLEAN /\ terminated \in BOOLEAN

Init ==
  /\ pc = "capture" /\ mpc = "join"
  /\ videosavemode \in SaveMode /\ height \in Height
  /\ captured = 0 /\ frame = 0
  /\ pixels = [f \in Frames |-> Nothing] /\ saver = [f \in Frames |-> NoSaver]
  /\ file = <<>> /\ overlapped = FALSE /\ connection_lost = FALSE /\ terminated = FALSE

Running == ~terminated /\ mpc # "exit"

-----------------------------------------------------------------------------
(* The video thread.                                                        *)

\* the pixels of the new frame: those the header has, or new ones
Place == IF frame = 0 THEN captured + 1 ELSE frame

\* the frame read has other pixels: ui->video gives its own up first, and is
\* empty for the other threads until Capture gives it the new ones
Renew ==
  /\ pc = "capture" /\ Running /\ captured < MaxFrames /\ frame # 0
  /\ frame' = 0 /\ pc' = "renew"
  /\ UNCHANGED <<mpc, settings, captured, pixels, saver, out, connection_lost, terminated>>

CaptureElsewhere ==                                                     \* mutant
  /\ pc \in {"capture", "renew"} /\ Running /\ captured < MaxFrames
  /\ captured' = captured + 1 /\ frame' = Place
  /\ pixels' = [pixels EXCEPT ![captured + 1] =
                  [no |-> captured + 1, boxes |-> FALSE, banner |-> FALSE]]
  /\ pc' = "process"
  /\ UNCHANGED <<mpc, settings, saver, out, connection_lost, terminated>>

CaptureUncounted ==                                                     \* mutant
  /\ pc \in {"capture", "renew"} /\ Running /\ captured < MaxFrames
  /\ frame' = Place
  /\ pixels' = [pixels EXCEPT ![frame'] =
                  [no |-> captured + 1, boxes |-> FALSE, banner |-> FALSE]]
  /\ pc' = "process"
  /\ UNCHANGED <<captured, mpc, settings, saver, out, connection_lost, terminated>>

\* cap >> *frame
Capture ==
  /\ pc \in {"capture", "renew"} /\ Running /\ captured < MaxFrames
  /\ captured' = captured + 1 /\ frame' = Place
  /\ pixels' = [pixels EXCEPT ![frame'] =
                  [no |-> captured + 1, boxes |-> FALSE, banner |-> FALSE]]
  /\ pc' = "process"
  /\ UNCHANGED <<mpc, settings, saver, out, connection_lost, terminated>>

\* no more frames: ui->video is empty while the message box waits for the user
PlaybackComplete ==
  /\ pc = "capture" /\ Running
  /\ frame' = 0 /\ pc' = "complete"
  /\ UNCHANGED <<mpc, settings, captured, pixels, saver, out, connection_lost, terminated>>

alpr_process ==
  /\ pc = "process" /\ Running
  /\ pixels' = IF videosavemode # "vSaveWithNoALPR"
                 THEN [pixels EXCEPT ![frame].boxes = TRUE] ELSE pixels
  /\ pc' = "save"
  /\ UNCHANGED <<mpc, settings, captured, frame, saver, out, connection_lost, terminated>>

\* thread output_saver(...): the thread has a header of its own to the same pixels
StartSaver ==
  /\ pc = "save" /\ Running
  /\ saver' = IF videosavemode # "vNoSave"
                THEN [saver EXCEPT ![captured] = [NoSaver EXCEPT !.st = "ready", !.buf = frame]]
                ELSE saver
  /\ pc' = "banner"
  /\ UNCHANGED <<mpc, settings, captured, frame, pixels, out, connection_lost, terminated>>

ShowConnectionLost ==
  /\ pc = "banner" /\ Running
  /\ pixels' = IF connection_lost THEN [pixels EXCEPT ![frame].banner = TRUE] ELSE pixels
  /\ pc' = "show"
  /\ UNCHANGED <<mpc, settings, captured, frame, saver, out, connection_lost, terminated>>

\* hconcat() throws if the two images are not of one height
Fits == frame # 0 /\ height = VI_HEIGHT

UpdateVideo ==
  /\ pc = "show" /\ Running
  /\ terminated' = ~Fits
  /\ pc' = "key"
  /\ UNCHANGED <<mpc, settings, captured, frame, pixels, saver, out, connection_lost>>

waitKey ==
  /\ pc = "key" /\ Running
  /\ pc' \in {"capture", "ended"}
  /\ UNCHANGED <<mpc, settings, captured, frame, pixels, saver, out, connection_lost, terminated>>

GoOnAfterMessageBox ==                                                  \* mutant
  /\ pc = "complete" /\ Running
  /\ pc' = "capture"
  /\ UNCHANGED <<mpc, settings, captured, frame, pixels, saver, out, connection_lost, terminated>>

MessageBox ==
  /\ pc = "complete" /\ Running
  /\ pc' = "ended"
  /\ UNCHANGED <<mpc, settings, captured, frame, pixels, saver, out, connection_lost, terminated>>

-----------------------------------------------------------------------------
(* The savers.  When the thread function of process() has returned, the     *)
(* copy of IOSourceManager it ran on is deleted, and `this' leads nowhere.  *)

Deleted == pc = "ended"

Writing(f) == saver[f].st = "writing"

\* the writer is alive, and was written to by one saver at a time
Sound == ~Deleted /\ ~overlapped

\* write() takes no lock: a second one within it may do anything from then on
BeginWrite(f) ==
  /\ saver[f].st = "ready" /\ Running
  /\ saver' = [saver EXCEPT ![f].st = "writing", ![f].begun = pixels[saver[f].buf]]
  /\ overlapped' = (overlapped \/ \E g \in Frames : Writing(g))
  /\ terminated' \in {FALSE, Deleted \/ overlapped'}
  /\ UNCHANGED <<pc, mpc, settings, captured, frame, pixels, file, connection_lost>>

Written(f) == [for |-> f, begun |-> saver[f].begun, done |-> pixels[saver[f].buf]]
Unknown(f) == [for |-> f, begun |-> Nothing, done |-> Nothing]

\* outv.write() returns; on a writer that is not sound the frame may be lost, and
\* nothing is known of an entry
EndWrite(f) ==
  /\ Writing(f) /\ Running
  /\ file' \in IF Sound THEN {Append(file, Written(f))}
                         ELSE {file, Append(file, Unknown(f))}
  /\ saver' = [saver EXCEPT ![f] = [NoSaver EXCEPT !.st = "done"]]
  /\ terminated' \in {FALSE, ~Sound}
  /\ UNCHANGED <<pc, mpc, settings, captured, frame, pixels, overlapped, connection_lost>>

-----------------------------------------------------------------------------
(* main() and the receive thread.                                           *)

Join ==
  /\ mpc = "join" /\ pc = "ended" /\ Running
  /\ mpc' = "release"
  /\ UNCHANGED <<pc, settings, captured, frame, pixels, saver, out, connection_lost, terminated>>

ClossAll ==
  /\ mpc = "release" /\ Running
  /\ mpc' = "logout"
  /\ UNCHANGED <<pc, settings, captured, frame, pixels, saver, out, connection_lost, terminated>>

\* destroyAll(), logout(), and the end of every thread with the process
LogoutAndExit ==
  /\ mpc = "logout" /\ Running
  /\ mpc' = "exit"
  /\ UNCHANGED <<pc, settings, captured, frame, pixels, saver, out, connection_lost, terminated>>

AnsweredAtOnce == TRUE                                                  \* mutant

\* an answer needs a plate, and a plate a processed frame
Answered == captured > 0 /\ (captured > 1 \/ pc # "process")

RefreshUI ==
  /\ Running /\ Answered /\ videosavemode # "vSaveWithNoALPR"
  /\ terminated' = ~Fits
  /\ UNCHANGED <<pc, mpc, settings, captured, frame, pixels, saver, out, connection_lost>>

UpdateVinfo ==
  /\ Running /\ connection_lost' = ~connection_lost
  /\ UNCHANGED <<pc, mpc, settings, captured, frame, pixels, saver, out, terminated>>

Save(f) == BeginWrite(f) \/ EndWrite(f)

VideoNext ==
  \/ Renew \/ Capture \/ PlaybackComplete \/ alpr_process \/ StartSaver \/ ShowConnectionLost
  \/ UpdateVideo \/ waitKey \/ MessageBox

MainNext == Join \/ ClossAll \/ LogoutAndExit

Next == VideoNext \/ MainNext \/ RefreshUI \/ UpdateVinfo \/ \E f \in Frames : Save(f)

Spec == Init /\ [][Next]_vars

\* the threads run, and the user closes the message box
FairSpec ==
  /\ Spec /\ WF_vars(VideoNext) /\ WF_vars(MainNext)
  /\ \A f \in Frames : WF_vars(Save(f))

-----------------------------------------------------------------------------
(***************************************************************************)
(* What is written in place of a frame is that frame or a later one: the   *)
(* recording never goes back behind the frame a saver was started with,    *)
(* whatever the order of the savers and the memory they share.  It is said *)
(* of a writer that is sound: two savers in write() at once break it.      *)
(***************************************************************************)
SavedNotOlder ==
  Sound => \A k \in 1..Len(file) :
    /\ file[k].for <= file[k].begun.no /\ file[k].begun.no <= file[k].done.no
    /\ file[k].done.no <= captured

(***************************************************************************)
(* A video of the panes' height plays to its end: whatever the order in    *)
(* which the video thread, the receive thread and the savers work on the   *)
(* frame, two things only end the laptop before process() has no more      *)
(* frames: two savers in write() at once, and a redraw while ui->video     *)
(* changes its pixels.                                                     *)
(***************************************************************************)
PlaysToItsEnd ==
  terminated /\ height = VI_HEIGHT /\ ~overlapped => pc \in {"renew", "complete", "ended"}

(***************************************************************************)
(* After the end of the video or ESC main() gets to log out.               *)
(***************************************************************************)
EndsWithLogout == pc \in {"complete", "ended"} ~> mpc = "exit" \/ terminated

(***************************************************************************)
(* "Write the frame into the file": the one the thread was started for,    *)
(* from its first to its last pixel, as long as the writer is sound.       *)
(***************************************************************************)
FrameIsSaved ==
  Sound => \A k \in 1..Len(file) :
    file[k].begun.no = file[k].for /\ file[k].done.no = file[k].for

(***************************************************************************)
(* "When everything done, release the video capture and write object": no  *)
(* saver is left when the writer is released.                              *)
(***************************************************************************)
Alive == {f \in Frames : saver[f].st \in {"ready", "writing"}}

ReleasedWhenDone == mpc \in {"logout", "exit"} => Alive = {}

(***************************************************************************)
(* The message box that playback is complete is not the end of the laptop. *)
(***************************************************************************)
SurvivesPlayback == pc = "complete" => ~terminated

(***************************************************************************)
(* "Display the resulting frame": a captured frame can be displayed.       *)
(***************************************************************************)
FrameIsDisplayed == pc = "key" => ~terminated

==============================================================================
