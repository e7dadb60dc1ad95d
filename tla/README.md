# Licence plate lookup: models, checks and proofs

The repository is a patrol-car licence plate reader. A *laptop* recognises plates in a video
and asks a *lookup server* about each of them; the server authenticates the user of the laptop,
searches a Solr database and answers. Both are Windows C++ programs below
`src/OpenAPLR-3.1.1_Vs2022/` (`server/`, `LaptopApplication/`, and `common/` for the transport
both use). Everything else in the tree is third-party code, tools or data.

This directory holds TLA+ models of the parts with state, the TLC configurations that check
them, and proofs of the main safety results for every value of the constants.

## 1. Inventory

| component (source) | state it keeps | operations | talks to |
|---|---|---|---|
| select loop (`server/server.cpp`, `main`) | `connected_ports`, `ReadSet` | accept, read a length, read a text, close a port, end the process | TCP, `RequestHandler` (calls) |
| `RequestHandler` | `SessionLoginAccounts`, `statistics_`, `thread_num_` | `handle`, `disconnect` in `main()`; `loginHandler`, `plateQueryHandler` in one detached thread per request | account check, `VehicleInfoFinder`, response callback |
| response path (`sendResponse`) | `send_lock_` | header and text under the lock | TCP; called by threads and by `main()` |
| account check (`LoginRequestHandler.cpp`) | none (reads a file) | `login` | |
| `VehicleInfoFinder` | query rules (constant) | `getVehicleInformation` | Solr over HTTP |
| transport (`common/NetworkTCP.cpp`) | sockets | open, accept, read, write, close; keepalive of 100 ms | TCP, AES framing |
| AES framing (`aes256/src/aes256.cpp`) | block buffer, remaining length | encrypt and decrypt in blocks, one byte of padding size in front | |
| `CommunicationManager` (laptop) | global `TcpConnectedPort`, `saveRetry`, saved credentials | connect, send, receive, retry; reconnect thread every 100 ms | transport; used by four threads |
| `LoginManager` (laptop) | retry counter | login loop, logout | `CommunicationManager` |
| `VehicleInfoManager` (laptop) | maps plate -> id and time, id -> image, id -> answer, match counters; error timer | `setRecognizedInfo` (video thread), `receiveCommunicationData` (receive thread) | `CommunicationManager`, `UIManager` |
| `ALPRProcessor` (laptop) | `plate_uid`, `last_point`, `max_confidence`, ring of 10 plates | `process` per frame | OpenALPR, `VehicleInfoManager` |
| `IOSourceManager` (laptop) | capture, output file | `process` loop, detached savers, `ClossAll` | `ALPRProcessor`, `UIManager` |
| `UIManager` (laptop) | images, `connection_lost` | `UpdateVinfo`, `RefreshUI`, `UpdateVideo`, menus | called by video and receive thread |

What is hard, and what makes each part correct:

* **Server.** One thread reads all connections with blocking calls; threads answer on
  connections that may be gone, by descriptor numbers that may be given again. Correct means: an
  answer reaches the laptop that asked, or nobody who kept a connection; responses are whole;
  a login holds exactly as long as its connection and is nobody else's; counters add up; every
  whole request is served whatever the other laptops do; dead connections are closed.
* **Transport and framing.** Chunked reads, end of stream, partial writes, lengths computed
  in three places. Correct means: the reader finds the boundaries the writer set.
* **Laptop communication.** Four threads share one port pointer and a flag without a lock.
  Correct means: no message on a connection is torn, no thread uses a deleted port, after a loss
  the connection and the login come back (ADR004) and plates are answered again.
* **Vehicle information and display.** Maps shared by two threads, answers in any order.
  Correct means: an answer is shown with the image of its own plate, an exact match is not replaced
  by a partial one, the lost connection is shown within 5 seconds (ADR003) and cleared afterwards.
* **Video.** One detached thread per saved frame. Correct means: every frame is saved, once, in
  order, before the file is closed (the code keeps little of it: sections 8 and 10); a redraw by another thread ends nothing.

The list of hazards, each at its line and with the properties that cover it, is `hazards` in
`PROJECT.json`.

## 2. Plan

In order of importance. Everything in the table is built.

| module | models | rests on |
|---|---|---|
| `PlateServer` (`PlateServer_proofs`, `PlateServer_frames`, `PlateServer_refines`, `MCPlateServer`) | the whole server process | implements `LookupService` |
| `LookupService` | what a laptop may rely on: abstract | |
| `LaptopComm` (`LaptopComm_proofs`, `MCLaptopComm`) | `CommunicationManager`, `LoginManager`, the reconnect thread, and a server reduced to what they see of it | `LookupService`, whose verdicts its server gives |
| `FrameStream` (`FrameStream_proofs`) | `ReadDataTcp`, `WriteDataTcp` and the lengths of `Aes256`, by the byte | implements `FrameChannel` |
| `FrameChannel` | whole messages, in order: abstract | |
| `VehicleInfo` (`VehicleInfo_proofs`, `MCVehicleInfo`) | `VehicleInfoManager` and the part of `UIManager` it writes to | `PlateTracker`, which guarantees its inputs |
| `PlateTracker` (`PlateTracker_proofs`, `MCPlateTracker`) | `ALPRProcessor::process` | |
| `VideoPipeline` (`VideoPipeline_proofs`) | `IOSourceManager::process`, the savers, `main()`'s end | |

`PlateServer` and `LaptopComm` work with *parts*, a length and a text, each delivered whole and in order:
`FrameStream` is the justification. `VehicleInfo` lets a track begin only with an image: `TracksBeginWithImage` of
`PlateTracker` is the justification. A query there has one response at most: `QueriedOnce` of `LaptopComm`.

Left: a composition of `LaptopComm` and `VehicleInfo` over `LookupService`, so that a plate could be followed from
its recognition to the display in one model (its state space is the product of the two, beyond TLC here, and its
proofs are those of the parts).

## 3. PlateServer

### State

| variables | code |
|---|---|
| `mpc`, `mconn`, `mreq`, `readSet` | where `main()` is, the port of its range-for, the message it is reading or refusing, the part of `ReadSet` it has still to visit |
| `sock`, `fdOf` | the server's end of a connection and `TTcpConnectedPort::ConnectedFd`; `connected_ports` is the set of open ones |
| `peer`, `inbox`, `out`, `taken` | the laptop's end as TCP sees it; parts that arrived; parts written and how many the laptop has read |
| `rst`, `rkind`, `rconn`, `racct` | a request and later its thread: progress, kind, the port bound into its callback, its `user_id` |
| `session`, `statistics`, `threadNum`, `sendLock` | `SessionLoginAccounts`, `statistics_`, `thread_num_`, `send_lock_` |
| `granted`, `refused` | history: logins answered 200, queries answered "need to login." |

A connection is one *incarnation*: when a laptop reconnects it is another element of `Conn`, and the
operating system may give it the descriptor number of a closed one. That is the point of the model:
the code keys sessions by number and keeps the number in callbacks. A frame is two *parts*, the
two-byte length and the JSON text, because the code reads, writes and encrypts them separately.

### Actions

`Select`, `Accept`, `AcceptFails`, `PickReady`, `ScanDone`, `ReadHeader`, `HeaderError`, `BodyError` are
the steps of `main()` between two blocking calls. `HandleGarbled`, `HandleLogin`, `HandleQuery`,
`RefuseQuery` are the whole of reading a body and `handle()`; a refusal is then written by `main()`
itself through the same `AcquireSendLock`, `WriteHeader`, `WriteBody` the threads use, and
`RefusalSent` returns to the scan. `Authenticate`, `Lookup`, `LookupFails` are the bodies of the
threads. The `Client...` actions and `PeerReset` are the laptops and the network.

Details of the code the model keeps: the scan stops after it closed a port; an error in the body
leaves the port open; `recv()` returning 0 keeps `main()` in the read; results of writes are ignored;
`send()` blocks on a full buffer (`SendCap` parts) with `send_lock_` held; `operator[]` creates an
empty account name for a session that is gone; an oversize length, a message that is not JSON and a
failed `accept()` end the process and every thread with it.

Abstractions: `getVehicleInformation()` is one of four outcomes, `LoginRequestHandler::login()` one of two, so `Lookup` and
`Authenticate` are what `plateQueryHandler()` and `loginHandler()` do with them; JSON is a kind and an
account; map operations are atomic; the threads' local work between two shared accesses is one step.

### Runs

| run | instance | what it shows |
|---|---|---|
| `server_safety` | 3 connections, 2 descriptors, 2 requests, FIN and reset | types, routing of replies, whole responses, sessions, statistics, and that the server implements `LookupService` |
| `server_liveness` | 2 connections, 2 descriptors, a login and a query, garbled or oversize message, FIN, reset, reset before `accept()` | requests are served and dead ports closed; what `thread_num_` counts, on each way out of a request |
| `server_blocked` | 2 connections, FIN | *violated*: a closed laptop keeps `main()` in its read while another one's message waits (ADR005) |

*Bounds.* Three connections over two numbers make `accept()` choose between a number never used and one given again, and let a
number be given again while another laptop is connected; two requests are a login and the query that needs it, or a thread that is late
and the message that comes before it ends. `SendCap` = 1 makes every
send of a text wait for the laptop to read, the hardest case. `Conn`, `Req` and `Account` bound the number of connections,
messages and users, `Kinds` says of which kind each message may be; there are no other counters. The liveness run has one login and one
other message, which is enough for the threads to meet `main()` at the lock and for one laptop to be in another's way. Where `CHECK_DEADLOCK FALSE` is set the instance runs out of
requests, or the process has ended, and nothing is left to do. `ConnSymmetry` is used only in safety runs.

*Fairness* (`FairSpec`): `main()` and every thread run (Windows schedules them, no priorities are
used); a laptop that wrote a length writes the text and reads what it is sent, or is lost; the
keepalive that `AcceptTcpConnection()` asks for finds a laptop that is gone. Weak fairness of a thread that waits
for `send_lock_` is enough because requests are finite. Nothing obliges a laptop to connect, send, close or fail.

*Deliberately broken variants.* Operators marked `mutant` are wrong forms of the operator below them (a
session erased for everybody, no lock, a lost decrement...). Each property fails when the one
`PROJECT.json` pairs it with replaces the original, so no property holds for want of the case.

### Properties

* `ReplyRouting`: a part on a connection belongs to a request of that connection, or of a
  closed one that had the same number. The exception is real: the code cannot rule it out.
* `FrameIntegrity`: a length is followed by its own text, a text preceded by its own length.
* `LoginPromise` (a granted login holds while its connection is open), `SessionProvenance` (a session comes
  from a login granted on the number, perhaps on an earlier connection).
* `StatisticsConserved`: every lookup in `total_queries` is in exactly one other counter once its
  thread counted it, summed over names: a session that changes in between moves a count to
  another name, but loses none.
* `ThreadAccounting`: what `thread_num_` really counts: requests in service, and for ever
  those refused or failed.
* `ImplementsService`: under the mapping `Service` (a descriptor is the *place* of a connection, `rst` a *stage*,
  `granted` and `refused` the *verdicts*) every step of the server is a step of `LookupService` or none. It says in one formula
  that a request is answered at most once, looked up only if a login was granted in its place, and
  refused only if none was granted on its own connection. That the place and not the connection counts for a lookup is what the
  code does: a login that ends after its connection leaves its session to the next laptop on the descriptor.
* `RequestServed`, `DeadPortClosed`: liveness, under `FairSpec`.

## 4. LaptopComm

### State and threads

Four threads, none of which takes a lock: `main` (connect, log in, log out), `reconnect` (every 100 ms, if
`saveRetry`), `video` (queries) and `receive` (responses). `pc[t]` is the place of a thread, `msg`, `held` and
`got` its locals: the message it sends, the pointer it has passed to the transport, the response whose length it
has read. `port`, `saveRetry`, `creds` are `TcpConnectedPort`, `saveRetry` and the pair `userID`,
`userPass`; `retryCount` is the static of `checkLoginSuccess()`; `asked` is the domain of `mapVehicleNum`.

`Port` is the set of *addresses* of port objects. `CloseTcpConnectedPort()` deletes the object and a later
`new` may return the same address, so a thread that still holds the old pointer then writes to, or reads
from, the new connection; if the address is free its socket is `BAD_SOCKET_FD` or garbage and the call
returns -1. These are the outcomes of the use after free that the model has. `link`, `opener`, `srv`, `auth`, `logged`,
`resp` describe the connection of each address: a server reduced to what a laptop can see of it (a session, a
response per message, an end when the bytes are torn). A second plate adds no interleaving: the video thread
sends one query at a time.

The heart of the model is that the code reads the global pointer anew for every call: `Check` (the test for
NULL and of `saveRetry`), then `Load` and `Write` for the length, `Load` and `Write` for the text, each a step
of its own; reading is `ReadCheck`, `Load`, `ReadHeader`, `Load` and the text (`LoginSucceeds`, `LoginDenied`,
`Ignore`, `Answer`, or `Misread` when the text is not the one announced). `Load` of a NULL pointer ends the
process. Connecting, publishing the port, clearing `saveRetry` and asking for the credentials are
separate steps of the reconnect thread (`retryNetworkConnect`, `Reconnect`, `ClearRetry`, `Relogin`).

Abstractions: the test of pointer and flag in `sendCommunicationData()` is one step; closing, deleting and setting
the pointer to NULL is one step; a write never blocks (the buffers hold 200 KB); what the server had not read when a
connection is closed is dropped (`PlateServer` covers it); the credentials are one value; a server answers two logins with the
same credentials one after the other; the end of the server shows as an error on its connections;
`LoseConnection` is a fault that lasts until keepalive gives the connection up.

### Runs

| run | instance | what it shows |
|---|---|---|
| `laptop_recovery` | 2 addresses, 1 plate, 2 faults: losses, or a loss and a refused connect | the invariants below; no query is handled twice, nor answered twice; losses are repaired; without faults plates are answered |
| `laptop_crash` | the same with at most 1 loss and 1 refused connect | *violated*: the pointer is closed and NULL between another thread's test and its use |
| `laptop_server` | as `laptop_crash` | *violated*: after a refused connect and a loss two threads' lengths and texts interleave on a connection, and the server ends |

The violated runs contradict ADR004 (the connection, the login and the communication are recovered).

*Bounds.* Two addresses give both a reused and a fresh one; a third would only be a second fresh one, since at most one port
is open. Two faults allow a loss, or a refused connect, during the recovery from another. `MaxRetry` stands for the 50 of the code: at 0
the login loop gives up after two failed reads, which lets every interleaving of giving up and reconnecting happen early. Runs set
`CHECK_DEADLOCK FALSE`: a crashed or finished laptop does nothing more. The symmetry permutes addresses and
plates and is used only without liveness properties.

*Fairness* (`FairSpec`): each thread runs, and a user who is asked for credentials types some;
the server handles what it received; a query that was begun is continued. Nothing obliges the
network to fail, the user to log out, or a plate to appear. Faults are finite by their bounds.

### Properties

* `FirstConnectionWhole`: on the connection `main` opened no length is separated from its text, for the
  video thread starts only when `main` no longer sends and the reconnect thread sends only on its own
  connections. It is what remains true where `laptop_server` is violated.
* `LoginGate`: `login()` returns only if some login was granted, even if length and text of the response come from
  two connections, or the response belongs to a login the reconnect thread repeated.
* `NeverAwaitsInVain`: `main` never sits in `ReadDataTcp()` on a healthy, settled connection on which no
  login is pending: the retry counter cannot help there, for the call does not return.
* `SessionFollowsConnection`: after `login()`, whenever the reconnection has settled the current connection has a
  session, or a login on its way (with right credentials).
* `OnlyFaultsHarm`: until a connection is lost or refused, or `main` logs out, the four claims that the violated runs
  `laptop_crash`, `laptop_refused`, `laptop_credentials` and `laptop_server` refute all hold: the threads that take no lock harm each
  other in the course of a recovery only.
* `QueriedOnce`: the server handles the query of a plate at most once, also when the first response was not read, or lost
  (`handled` remembers it), and the laptop takes one answer to it, of a query that was handled and not refused,
  although lengths and texts are written to, and read from, ports that are replaced in between. `VehicleInfo` relies on it: there a query
  has one response at most.
* `LossRepaired`, `PlateAnswered`: liveness. `PlateAnswered` is stated for runs without faults only: after a loss
  the code really leaves plates unanswered.

## 5. FrameStream and FrameChannel

*State.* `wpc`, `frames`, `wdone`, `put` are `sendResponse()` and the `WriteDataTcp()` it is in: the frames begun, the bytes
of the current part written, the bytes on the stream. `rpc`, `announced`, `taken`, `rgot` are the reader (`main()` of the
server, or `GetResponses()` of the laptop): the part it waits for, `data_length`, where its `ReadDataTcp()` began and its
`i`. Bytes are positions of the stream; a read that does not begin where a part begins decrypts to anything.

*Actions.* `SendSome`, `SendRest`: one `send()` and the last one of a call; `RecvSome`, `ReadHeader`, `ReadBody`: one
`recv()` and the last one. `WriterEnds`, `ReadBodyOverrun` are the arrays of fixed size; the process may end before or
after the bytes are sent, both are steps of the model. The three computations of an encrypted length
(`ReadDataTcp`, `WriteDataTcp`, `Aes256`) are the operators `EncryptedLength`, `Encrypted` and `Decrypted`, with the
unsigned wrap of `m_remainingLength`.

*Run* `stream_frames`: buffers of 48 bytes stand for the 4096 of the code (the constants `SEND_DATA_SIZE`,
`RECEIVE_DATA_SIZE`, `Limit`); the texts have lengths just below, at and above the block size, the longest that fits, one that the
reader accepts and the writer cannot write, and one the reader refuses. Only `main()` of the server makes that check
(`server.cpp:219`); `GetResponses()` of the laptop has none, which is `Limit` = 65535, and the proofs hold for any `Limit`. Chunks are 1 byte, 5 bytes or all there is, and the
window of 20 bytes makes writer and reader wait for each other. Two frames suffice: what the reader does
depends on the current frame and its position only, which the proof confirms for any number.

*Fairness.* A write that was begun goes on and the reader comes back to `recv()`: each is the loop of a running thread.

*Properties.* `ReadsAtBoundaries`: every `ReadDataTcp()` begins where the corresponding `WriteDataTcp()` began.
`ImplementsChannel`: the stream implements `FrameChannel`, whole messages in order up to a break. `DeliversLikeChannel` implies it and adds
that a text which is on the stream is read in the end, also after the writer closed; they are kept apart because the first
one is proved. Its mutant breaks the liveness alone: a reader that gives up at the FIN with a text still to read.

## 6. VehicleInfo

*State.* The maps of `VehicleInfoManager.cpp` under their own names, `exact_count`, the timer (`receiveError`,
`errorStartTime`), `connection_lost` and the four images of the panes in `display`, what each thread has still to copy into them in
`draw`, the responses on their way, and the clock. The second of `mapVehicleNum` (a time) is only logged;
`mapPlateFoundStringCount` is unused.

*Actions.* The video thread: `setRecognizedInfo` (the tests and updates up to the query), `sendRecognizedInfo`, `StoreImage`,
`ShowStored`; the receive thread: `ReceiveLogin`, `IgnoreAnswer`, `AnswerNotShown`, `AnswerWithoutImage` (the dereference of
`end()`), `ShowAnswer`, `InsertAnswer` (an exact answer is stored after `RefreshUI()` cleared the panes and before `UpdateVinfo()`, so the video
thread may look for it in between; `newJson` holds it until then), `ReceiveNothing`; each copy into an image is a step `Draw` of its own. `LoseConnection`, `Reconnect` and
`Tick` are the world.

Abstractions: map operations are atomic; an answer is its text, its track, how precise its query was (none, `~1`, `~2`) and
the panes its vehicles belong to; while the connection is down the receive thread reads, and fails, at least once per tick,
for `timer_start()` does not sleep; the local work of a step is done with its shared access. A text recognised under a new track begins
it with an image, which `PlateTracker` guarantees.

*Run* `vehicle_answers` (6.6 million states): two texts, two tracks, an image or none with each recognition, every precision of
answers in every order, one loss, and a `Patience` of 1 second for the 5 of the code, so that three values of the clock are enough for
the loss to be shown: the comparison is of whole seconds in either case. Two texts are what it takes for an answer to replace
another, two tracks for text and image to differ. The symmetry permutes texts. `LossShown` is also checked by `vehicle_loss.cfg`
(module `VehicleInfo`, 1.1 million states, beside the regular runs): one text, a clock of half seconds, since a loss begins between two whole
ones, and six seconds of it, in which there can be two losses and the banner be taken off and due again.

*Properties.* `PaneShowsOneTrack`: unless both threads were copying into a pane at once, its text and its image are of one track,
although track, image and answer come from different maps. `OneMatchPerTrack`: the two panes do not show different
matches of a track, unless its counter was set back. `NeverCoarser`: a match is not replaced by a coarser one of the
same track. `LossShown`: while reads fail, the loss is shown one second after `Patience` at the latest, and again whenever the
other thread took it off. `ImageOnlyLate`: an answer on its way names a known text and its track, and has an image to be shown with, unless the video
thread is about to store that very image; `vehicle_order` (*violated*, ADR002): the answer is handled before the image is stored.

## 7. PlateTracker

*State.* The globals of `ALPRProcessor.cpp` and the index of the plate in its frame; `handed` is the history of calls of
`setRecognizedInfo()`.

*Actions.* One turn of the loop: `SkipPlate` (`continue`) or `ProcessPlate`; `NextFrame` is the next call. `recognize()` may give any texts,
corners and confidences. `psi[0]` is the corner at index `i` of a vector that has one element when it is read: for the first plate
that is the plate's corner, for the others (`FirstCorner`) whatever is behind the vector, one of `Stray`. (A debug
build would stop there; the project is run as a release build.) `max_confidence` is a member of a set
of two values: only its order matters.

*Run* `tracker_plates`: frames of up to two plates, five plates handed on, two texts, corners left of the frame, and near and far from
each other, confidences that rise and fall, a ring of 2 for the 10 of the code, so that it wraps round twice. Five plates are the first at
which a track could have one image too many.

*Properties.* `RingHoldsLatest`, `TracksBeginWithImage` (whatever corners are read, tracks come in order and each begins
with an image), `TrackFollowsCar` (a car alone in its frames is one track exactly as long as it moves no further than `Near`,
skipped plates included), `FewImages`.

## 8. VideoPipeline

*State.* `pc` of `process()`, `mpc` of `main()`, the capture's height and the save mode, and the memory: `frame` is what the header
`ui->video` leads to, `pixels` what is there, `saver[f]` the thread started for frame `f`, the header it holds and what it has read.

*Actions.* One per statement of the loop that touches shared data (`Renew` and `Capture`, `alpr_process`, `StartSaver`, `ShowConnectionLost`,
`UpdateVideo`, `waitKey`, `PlaybackComplete`, `MessageBox`), `BeginWrite` and `EndWrite` of a saver, `Join`, `ClossAll`,
`LogoutAndExit` of `main()`, `RefreshUI` and `UpdateVinfo` of the receive thread.

`cap >> *frame` may or may not reuse the pixels, which is OpenCV's choice; if not, `ui->video` gives its own up first (`Renew`) and
is empty for the other threads until it has the new ones. A saver reads them from first to last, so what it
writes is known by what was there at its beginning and at its end. The thread of `process()` runs on a copy of `IOSourceManager` that is
deleted when it returns: a saver that is still at work may write, lose its frame or end the laptop. The savers share one `VideoWriter`, and
`SaveOutputVideo()` takes no lock (`IOSourceManager.cpp:148-151`). Nothing is known of a writer once two of them were in `write()`
at once: `overlapped` notes that it happened, and from then on an entry may be lost or be anything, and the laptop may end. `hconcat()` throws for images
of different height and for an empty one. Left out: opening the input and the output, the mode for a single image (whose
writer is never opened), the text with the frame rate.

*Run* `video_saving`: three frames in each mode, so that a saver may be two frames behind. *Fairness:* the threads run, and the user closes the message box.

*Properties.* `SavedNotOlder`: while the writer is sound (`process()` runs, and no two savers were in `write()` at once) what is written
in place of a frame is that frame or a later one. That each frame has one entry is not claimed: a sound writer gives it at once,
and no other one promises it. `PlaysToItsEnd`: a video of the panes' height plays on until there are no more frames,
but for two causes it names: two savers in `write()` at once, and a redraw of the receive thread at the moment `ui->video` changes
its pixels. It holds for every other order of redraws, savers and captures, the first capture included, for an answer
needs a processed frame; `video_empty` and `video_height` (section 10) show that neither the end of the video nor the height can be left out. `EndsWithLogout`: after the end of the
video or ESC `main()` logs out, unless the laptop was ended. `video_overwrite` (*violated* by a sound writer, the comment at
`IOSourceManager.cpp:119`): the file gets another frame, or parts of two.

## 9. Proofs

Each module of proofs extends the module it is about. The theorems hold for every value of the constants that satisfies the
named assumptions of that module.

### PlateServer

Assumptions: `SentinelAssumption`, `BoundAssumption`. Any sets of connections and descriptors, any finite sets of requests and accounts.

| theorem | module | result |
|---|---|---|
| `TypeCorrect` | `PlateServer_proofs` | `Spec => []TypeOK` |
| `RepliesRouted` | `PlateServer_proofs` | `Spec => []ReplyRouting` |
| `SessionsGranted` | `PlateServer_proofs` | `Spec => []SessionProvenance` |
| `LoginsHold` | `PlateServer_proofs` | `Spec => []LoginPromise` |
| `ResponsesWhole` | `PlateServer_frames` | `Spec => []FrameIntegrity` |
| `ThreadsAccounted` | `PlateServer_frames` | `Spec => []ThreadAccounting` |
| `CountersAddUp` | `PlateServer_frames` | `Spec => []StatisticsConserved` |
| `ServerImplementsService` | `PlateServer_refines` | `Spec => ImplementsService` |

`TypeOK` is not inductive: that `fdOf[rconn[r]]` is a descriptor needs `r` to have a
connection and that connection to have been accepted. `IndInv` adds what each place of the control knows: a
request that was sent has a connection, one being handled an accepted connection, the part `main()`
is reading belongs to the port it reads, and so on. `IndInvariant` proves it, one step per
action. `StepStable` collects what no step undoes (a closed socket stays closed, an accepted
connection keeps its number, a request its connection), and three results use only that: `RoutingInv` says
that two open connections never share a number (accept takes a free one) and that each part written is
routed; `SessionInv` says that a granted login's session can only be erased through its number,
and so by closing the connection that holds it.

None of this says that `main()` calls `handle()` once per message. `FrameInv` does: in an inbox each length is
followed by its own text or is the last part, each text comes once and behind its length, which `main()` may have taken, and
the text `main()` waits for is that of the length it read. Its consequence `MessageWhole` (the message handled was sent whole and not
handled before) is what the four remaining theorems stand on: without it a text handled twice would start two threads
for a request.

`IntegrityInv` is `FrameIntegrity` strengthened by the reason for it: a request between its two writes holds `send_lock_`
(`LockHeld`); the length written last is the last part on the connection (`HeaderIsLast`), except where the connection
was closed, which happens after a reset only (`ClosedByReset`), and then no further part reaches the laptop.

`ThreadsAccounted` compares two sizes: `thread_num_`, which is incremented and decremented, and the set of requests that are
in service, refused, failed or garbled. `ThreadSetChanges` shows that each step that adds one adds a request that was not in the set.

`CountersAddUp` is about sums over the names. What a recursive sum computes cannot be proved by the induction theorems, but it can be by
a least counterexample: sets of names are compared by inclusion and numbers by size, both well-founded. So `SumsExist` and `SumTyped`
show that the sum over a finite set of names is a number, and `SumGrows` that it grows by one when the count of one name does. A thread
then moves its request from the counted to the answered ones by two such steps (`CountedOnce`), whichever names they are for.

`ServerImplementsService` maps each step of the server to a step of `LookupService` or to none. The guards of the service
are the point: a lookup begins only where a login was granted, which is `SessionProvenance`; a refusal needs that none
was granted on the query's own connection, which is `LoginPromise`; the rest, that a request is answered once, is `MessageWhole`.

### LaptopComm

Assumption: `LaptopAssumption`. Any sets of addresses and plates, any bounds on losses, refused connects and retries.

| theorem | module | result |
|---|---|---|
| `LaptopTypeCorrect` | `LaptopComm_proofs` | `Spec => []TypeOK` |
| `LoginNeedsGrant` | `LaptopComm_proofs` | `Spec => []LoginGate` |
| `FirstConnectionFramed` | `LaptopComm_proofs` | `Spec => []FirstConnectionWhole` |
| `WaitsForSomething` | `LaptopComm_proofs` | `Spec => []NeverAwaitsInVain` |
| `SessionIsRestored` | `LaptopComm_proofs` | `Spec => []SessionFollowsConnection` |
| `HarmNeedsFault` | `LaptopComm_proofs` | `Spec => []OnlyFaultsHarm` |
| `EachQueryOnce` | `LaptopComm_proofs` | `Spec => QueriedOnce` |

A thread's pointer may lead to any address, so nothing can be said about *which* connection
it reads. `IndInv` therefore types what travels by what has happened: a query or its response names a plate that was
asked, a response that grants a login exists only once a login was granted (`Sent`, `Given`). Both grow with
time (`TypesGrow`) and hold wherever the bytes go. The rest of `IndInv` says which of its locals a thread has
set at each place. `IndInvariant` proves it, one lemma per action.

The other theorems are about *the current* connection, of which more is known. `FirstInv` is about the connection that `main` opened, and as long as it is up, something can be said. It is still the
port and no reconnection is under way, so every pointer leads to it (`FirstPort`); and an odd number of parts was written to it exactly
while a thread is between a length and its text, whose message the last length announces (`FirstStream`). That this can be one thread only,
`main` before the login and `video` after it, is the order in which the code starts them.

`LiveInv` says that at most one address has a connection, the port, and that a closed one holds nothing. While the port is to be replaced
(`Repairing`: `saveRetry` is set, or the reconnect thread is at work) nothing is claimed; the last step of a repair is `Relogin`, after which
the thread is sending (`Resending`) until its parts are written or the connection is found lost (`SettledStep`, `ResendStep`). Therefore, on a
settled connection, what `main` waits for is under way (`AwaitInv`) and a login with the saved credentials is kept, being sent, being
checked, or granted (`SessionInv`, `PromiseKept`). `AwaitInv` needs that no bytes are taken away by a misread: until the receive thread starts,
`main` alone reads, and `RespInv` and `EvenInv` say by the parity of the parts left that it finds a length where it expects one.
`CredInv`: from the first wait on there are credentials for the reconnect thread to use.

`CalmInv` is what holds while nothing has failed: the port is the first connection, the reconnect thread idles, and the connection is in one of
two phases. In a `Conversation` `main` alone writes and reads, and one login, its response or nothing is under way; once it has joined,
the connection is `Served`: it has a session, only the video thread writes, only the receive thread reads. `PairInv` adds that
lengths and texts of responses come in pairs.

`OnceInv` holds under any faults, for it does not ask where a query is: a query has one place at a time. It is being written by the video
thread (`Asking`), or it is one text among those a server has not handled (`OneQuery`), or one response (`OneReply`), or
it was answered or lost; a query in one of the first two places was not handled, and a response is of one that was. No step makes a second one: what a step leaves in the buffers was there before (`NothingNew`), and only
four kinds of step move a query on (`OnceAsked`, `OnceWritten`, `OnceReplied`, `OnceAnswered`).

### FrameStream

Assumptions: `StreamAssumption`, and for all but `LengthsAgree` the hypothesis `ShortTexts` (a text is shorter than 65536 bytes, so
that its length fits the header; a longer one overruns the sender's array before). Any texts, any sizes of the buffers, any
number of frames, any cutting into chunks.

| theorem | module | result |
|---|---|---|
| `StreamTypeCorrect` | `FrameStream_proofs` | `Spec => []TypeOK` |
| `LengthsAgree` | `FrameStream_proofs` | reader, writer and cipher compute one encrypted length |
| `BoundariesKept` | `FrameStream_proofs` | `Spec => []ReadsAtBoundaries` |
| `StreamImplementsChannel` | `FrameStream_proofs` | `Spec => ImplementsChannel` |
| `DeliveredInOrder` | `FrameStream_proofs` | what was read is the beginning of what was written |

`LengthsAgree` is about whole numbers only: three computations written in three places give the same length for every text, also
for a multiple of 16. With it `StreamInvariant` (`IndInv`) locates everything on the stream: frames lie one behind the other
(`FramesAdjacent`), those sent are those completed (`SentFrames`), the writer stands `wdone` bytes behind the beginning of its part, the
reader at the next part it has not read, and the texts read are the first ones sent (`GotSent`). A step of writer or reader moves one of the
two, so the lemmas `WriterUndisturbed` and `ReaderUndisturbed` keep the other half. In the refinement the last byte of a write is the
channel's `Put`, the last byte of a read its `Get`, and every other step none.

### VehicleInfo

Assumption: `VehicleAssumption`. Any texts, tracks, panes, number of losses, and any `Patience`, also the 5 seconds of the code.

| theorem | module | result |
|---|---|---|
| `DisplayTypeCorrect` | `VehicleInfo_proofs` | `Spec => []TypeOK` |
| `PanesConsistent` | `VehicleInfo_proofs` | `Spec => []PaneShowsOneTrack` |
| `LossIsShown` | `VehicleInfo_proofs` | `Spec => []LossShown` |
| `CoarserNeverShown` | `VehicleInfo_proofs` | `Spec => NeverCoarser` |
| `TracksShownOnce` | `VehicleInfo_proofs` | `Spec => []OneMatchPerTrack` |
| `ImageMissedOnceOnly` | `VehicleInfo_proofs` | `Spec => []ImageOnlyLate` |

`IndInv` relates the maps to each other (`Recording`, `Stored`: a text keeps the track it was first seen in, and every stored image and
answer is filed under it), and types the responses on their way (`Answers`) and the list of writes a thread has left (`Drawing`:
pairs of a text and an image of one pane and one track); an exact answer that is still to be inserted has the list of its
`UpdateVinfo()` before it (`Inserting`). The theorems need one strengthening each:

* `PaneInv`: between the text and the image of a pair the other thread either wrote to the pane as well or left it alone.
* `TimerInv`: while reads fail the timer runs, and it was started when they began to fail or when the loss was last shown, whichever is
  later. Only here do whole seconds and the clock meet (`time(NULL)` divides).
* `MatchInv`: a match that is shown, or about to be, has left its trace in `mapVehicleJson` or the map of partial matches,
  or is about to, where the answer to be inserted counts as stored (`HasExact`); the answer the receive
  thread is drawing was the best when it looked, and nobody else writes these maps. The video thread draws exact ones only.
* `CountInv` and `Alone`: what was shown of a track is counted, so that the next match clears the other panes first, unless the counter
  was set back in between.
* `ImageInv`: every track up to `plate_uid` has an image but the one the video thread works on, and while a query is being sent no answer
  to it is on its way, and no other text leads to its track if that has no image yet.

### VideoPipeline

Assumption: `VideoAssumption`. Any number of frames, any height of the video, any save modes.

| theorem | module | result |
|---|---|---|
| `PipelineTypeCorrect` | `VideoPipeline_proofs` | `Spec => []TypeOK` |
| `RecordingNotOlder` | `VideoPipeline_proofs` | `Spec => []SavedNotOlder` |
| `VideoPlaysThrough` | `VideoPipeline_proofs` | `Spec => []PlaysToItsEnd` |

`PipelineInv` says that the header of `ui->video` leads to the frame that is being processed (`FrameHeld`), and that the pixels a saver
holds are never older than its frame (`SaverAt`), while every memory holds a frame that was captured. With the entries written so
far, which `Append` leaves as they are, that is `SavedNotOlder`; once the writer is not sound it never is again, so nothing has to be kept.
`HeaderInv`: from the first frame on, and until the last was shown, `ui->video` is empty only while it changes its pixels, so both
threads that draw it find a frame at any other moment.

### PlateTracker

Assumption: `TrackerAssumption`. Any texts, corners, confidences and sizes of the ring.

| theorem | module | result |
|---|---|---|
| `TrackerTypeCorrect` | `PlateTracker_proofs` | `Spec => []TypeOK` |
| `RingIsTheLatest` | `PlateTracker_proofs` | `Spec => []RingHoldsLatest` |
| `EveryTrackHasImage` | `PlateTracker_proofs` | `Spec => []TracksBeginWithImage` |
| `OneCarOneTrack` | `PlateTracker_proofs` | `Spec => TrackFollowsCar` |
| `AtMostFourImages` | `PlateTracker_proofs` | `Spec => []FewImages` |

`TrackerInv` has a part for each. `RingByAge` gives every slot the age at which it was written, so that overwriting the oldest one moves
all ages by one, across the wrap-around too; found in the ring then means handed on among the last `NUMBEROFPREVIOUSPLATES`.
`LastPointKept` says that `last_point` is the true corner of the last plate handed on if that was the first of its frame, which is why one
car alone is followed rightly although the corner of later plates is read from behind the vector. `ImagesCounted` bounds the images of the
current track by `1 + change_count`, a cardinality that grows by one with each.

### Only model-checked

Every liveness property (liveness under fairness is out of the prover's reach):
`RequestServed`, `DeadPortClosed`, `LossRepaired`, `PlateAnswered`, `DeliversLikeChannel`, `EndsWithLogout`.

## 10. Other claims the code does not keep

The regular runs contain one counterexample per kind of failure. The configurations below are kept beside them; each checks one property
that a document or a comment of the repository states, and TLC finds it violated within seconds
(`tlc -config <name>.cfg <module>`).

| configuration (module) | property | what happens |
|---|---|---|
| `server_thread_num` (`MCPlateServer`) | `ThreadNumIsThreadCount` | a refused query returns before `--thread_num_` (`RequestHandler.cpp:112`) |
| `laptop_refused` (`MCLaptopComm`) | `NeverAskedToLogin` | a query that began before the loss goes out on the new connection ahead of the login (`CommunicationManager.cpp:60`), is refused and never repeated: ADR004 |
| `laptop_credentials` (`MCLaptopComm`) | `SavedCredentialsAccepted` | `authenticate()` in the reconnect thread writes older credentials back over the granted ones (`CommunicationManager.cpp:215`): ADR004 |
| `stream_limit` (`FrameStream`) | `AcceptedTextFits` | a text of 4081 to 4096 bytes passes the reader's check and is too long for the sender's array (`NetworkTCP.cpp:411`) |
| `vehicle_five` (`VehicleInfo`) | `LossShownIn5Seconds` | the loss is shown at the sixth second: ADR003 |
| `vehicle_banner` (`VehicleInfo`) | `BannerFollowsReception` | "Connection Lost" stays until an answer is displayed (`VehicleInfoManager.cpp:143`): ADR004 |
| `vehicle_best` (`VehicleInfo`) | `BestExactShown` | `insert()` keeps the first exact answer, which then replaces the better one (`VehicleInfoManager.cpp:139`): ADR007 |
| `video_release` (`VideoPipeline`) | `ReleasedWhenDone` | `join()` does not wait for the savers (`LaptopApplication.cpp:110`) |
| `video_empty` (`VideoPipeline`) | `SurvivesPlayback` | `RefreshUI()` draws the empty image while the message box waits (`UIManager.cpp:375`) |
| `video_height` (`VideoPipeline`) | `FrameIsDisplayed` | a frame of 1280x720 cannot be put beside panes 480 high (`UIManager.cpp:375`) |

## 11. Not modelled, and why

* Most of the tree is not this program: OpenALPR, Tesseract, Leptonica, libjpeg, OpenCV, the JSON parser in three copies, Berkeley DB
  headers, MD5, and the tools `lgdemo`, `alpr`, `loaddb`, `faker`. They are used through a handful of calls, which the modules
  model by their outcomes. The share of the tree's lines that the models stand for is therefore small, while the program's
  own concurrent and stateful code is covered.
* `VehicleInfoFinder`: its rules are a fixed list of HTTP queries tried in order; what matters to the rest is the outcome, which
  `PlateServer` chooses. The account file is read anew for each login and never written: its outcome is chosen, too.
* `printInformation`, the SIGINT report, logging, menus, drawing: input and output only. `select()` failing, thread creation
  failing, the 64 sockets of `FD_SET`: not met by the instances.
* The data races on the `std::map`s of server and laptop: C++ gives them no meaning; operations are taken as atomic.
* `ReadDataTcp()` puts a NUL behind what it read (`NetworkTCP.cpp:374`). For a text that is the end of the string; for a length it is
  one byte behind the two of `DataStringLength` (`server.cpp:206`, `CommunicationManager.cpp:148`), on every read. What lies there is
  the compiler's choice of the stack frame, and the models go on as if it was unused.
* Two savers within `write()` of one `VideoWriter`: the library promises nothing, so `VideoPipeline` notes that it happened and claims
  nothing of the recording, or of the survival of the laptop, from then on. Two threads within `UpdateVideo()`, which write the
  same image for the window: a race on pixels only shown.
* Missing JSON keys inside a thread, which end the process like a garbled message.
* The rounds of AES-256 and the key: data. `OpenInputVideo`, `OpenOutputVideo`, camera enumeration: set-up before the threads.
