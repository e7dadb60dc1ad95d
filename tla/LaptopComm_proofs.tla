-------------------------- MODULE LaptopComm_proofs --------------------------
(***************************************************************************)
(* Proofs about LaptopComm, for every set of addresses and plates and every *)
(* number of losses and retries.                                           *)
(*                                                                         *)
(* What travels is typed by what has happened: a query on its way, and its *)
(* response, name a plate that was asked, and a response that grants a     *)
(* login exists only if some login was granted.  This holds wherever the   *)
(* bytes go, so it survives ports that are replaced under a thread's feet. *)
(* Then the connection main opened, which is never shared by two writers   *)
(* between a length and its text.                                          *)
(* Then the current connection: while it is not being replaced, what main  *)
(* waits for is under way, and the login repeated on it is not lost; and   *)
(* as long as nothing fails the threads are in nobody's way.               *)
(* Last the queries: wherever one goes, it goes there once.                *)
(***************************************************************************)
EXTENDS LaptopComm, SequenceTheorems, TLAPS

Sent  == [kind : {"login"}, key : Cred] \cup [kind : {"query"}, key : asked]
Given == {r \in Response : /\ r.kind = "granted" => granted # {}
                           /\ r.kind \in {"answer", "refusal"} => r.key \in asked}

ThreadInv ==
  /\ pc \in [Thread -> Places]
  /\ msg \in [Thread -> Sent \cup {NoMsg}]
  /\ held \in [Thread -> Port \cup {NoPort}]
  /\ got \in [Thread -> Given \cup {NoMsg}]
  /\ \A t \in Thread :
       /\ pc[t] = "save" => msg[t] \in [kind : {"login"}, key : Cred]
       /\ pc[t] \in {"check", "loadWH", "writeH", "loadWB", "writeB"} => msg[t] \in Sent
       /\ pc[t] \in {"writeH", "writeB", "readH", "readB", "lost"} => held[t] \in Port
  /\ LoginGate

FlagInv ==
  /\ proc \in {"running", "crashed", "exited"}
  /\ port \in Port \cup {NoPort}
  /\ saveRetry \in BOOLEAN
  /\ creds \in Cred \cup {NoCred}
  /\ retryCount \in 0..(MaxRetry + 1)

PlateInv ==
  /\ asked \subseteq Plate /\ answered \subseteq asked
  /\ handled \subseteq asked /\ refused \subseteq handled /\ granted \subseteq Cred

ConnInv ==
  /\ link \in [Port -> {"free", "up", "down"}]
  /\ opener \in [Port -> {"main", "reconnect"}]
  /\ auth \in [Port -> SUBSET Cred]
  /\ logged \in [Port -> BOOLEAN]

StreamInv ==
  /\ srv \in [Port -> Seq(Part(Sent))]
  /\ resp \in [Port -> Seq(Part(Given))]

FaultInv == serverUp \in BOOLEAN /\ losses \in 0..MaxLoss /\ fails \in 0..MaxFail

IndInv == ThreadInv /\ FlagInv /\ PlateInv /\ ConnInv /\ StreamInv /\ FaultInv

(***************************************************************************)
(* A sequence over a set is one over every larger set.                     *)
(***************************************************************************)
LEMMA SeqGrows ==
  ASSUME NEW S, NEW T, S \subseteq T
  PROVE  Seq(S) \subseteq Seq(T)
  OBVIOUS

LEMMA InitIndInv == Init => IndInv
<1> SUFFICES ASSUME Init PROVE IndInv
  OBVIOUS
<1>1. ThreadInv
  <2>1. pc \in [Thread -> Places] /\ LoginGate
    BY DEF Init, LoginGate, Thread, Places
  <2>2. \A t \in Thread : pc[t] \in {"connect", "off"}
    BY DEF Init
  <2>3. /\ msg \in [Thread -> Sent \cup {NoMsg}]
        /\ held \in [Thread -> Port \cup {NoPort}]
        /\ got \in [Thread -> Given \cup {NoMsg}]
    BY DEF Init
  <2> QED BY <2>1, <2>2, <2>3 DEF ThreadInv
<1>2. FlagInv /\ FaultInv
  <2>1. retryCount \in 0..(MaxRetry + 1) /\ losses \in 0..MaxLoss /\ fails \in 0..MaxFail
    BY LaptopAssumption DEF Init
  <2> QED BY <2>1 DEF Init, FlagInv, FaultInv
<1>3. PlateInv /\ ConnInv
  BY DEF Init, PlateInv, ConnInv
<1>4. StreamInv
  BY DEF Init, StreamInv
<1> QED BY <1>1, <1>2, <1>3, <1>4 DEF IndInv

(***************************************************************************)
(* The types of the module follow from those of the invariant.             *)
(***************************************************************************)
LEMMA IndInvTypeOK == IndInv => TypeOK
<1> SUFFICES ASSUME IndInv PROVE TypeOK
  OBVIOUS
<1>1. Sent \subseteq Msg /\ Given \subseteq Response
  BY DEF Sent, Given, Msg, IndInv, PlateInv
<1>2. Part(Sent) \subseteq Part(Msg) /\ Part(Given) \subseteq Part(Response)
  BY <1>1 DEF Part
<1>3. Seq(Part(Sent)) \subseteq Seq(Part(Msg))
  BY <1>2, SeqGrows
<1>4. Seq(Part(Given)) \subseteq Seq(Part(Response))
  BY <1>2, SeqGrows
<1>5. srv \in [Port -> Seq(Part(Msg))] /\ resp \in [Port -> Seq(Part(Response))]
  BY <1>3, <1>4 DEF IndInv, StreamInv
<1>6. msg \in [Thread -> Msg \cup {NoMsg}] /\ got \in [Thread -> Response \cup {NoMsg}]
  BY <1>1 DEF IndInv, ThreadInv
<1> QED BY <1>5, <1>6 DEF IndInv, TypeOK, ThreadInv, FlagInv, PlateInv, ConnInv, FaultInv

(***************************************************************************)
(* Steps that move a thread and touch no stream: what is typed by asked and *)
(* granted keeps its type, for neither changes.                            *)
(***************************************************************************)
LEMMA SameTypes ==
  ASSUME UNCHANGED <<asked, granted>>
  PROVE  Sent' = Sent /\ Given' = Given
  BY DEF Sent, Given

LEMMA ThreadStep ==
  ASSUME IndInv, UNCHANGED <<plateVars, connVars, faultVars, histVars>>, ThreadInv', FlagInv'
  PROVE  IndInv'
<1>1. Sent' = Sent /\ Given' = Given
  BY SameTypes DEF plateVars, histVars
<1>2. StreamInv'
  BY <1>1 DEF IndInv, StreamInv, connVars
<1> QED BY <1>2
   DEF IndInv, PlateInv, ConnInv, FaultInv, plateVars, connVars, faultVars, histVars

LEMMA CheckInv ==
  ASSUME IndInv, NEW t \in {"main", "reconnect", "video"}, Check(t)
  PROVE  IndInv'
<1> USE DEF restVars, flagVars, threadVars
<1>1. Sent' = Sent /\ Given' = Given
  BY SameTypes DEF Check, plateVars, histVars
<1>2. ThreadInv'
  BY <1>1
     DEF Check, At, Goto, Return, Leave, AfterSend, IndInv, ThreadInv, LoginGate, Thread,
         Places, histVars
<1>3. FlagInv'
  BY DEF Check, IndInv, FlagInv
<1> QED BY <1>1, <1>2, <1>3, ThreadStep DEF Check

LEMMA LoadInv ==
  ASSUME IndInv, NEW t \in Thread,
         NEW from \in {"loadWH", "loadWB", "loadRH", "loadRB"},
         NEW to \in {"writeH", "writeB", "readH", "readB"},
         from \in {"loadRH", "loadRB"} => to \in {"readH", "readB"},
         Load(t, from, to)
  PROVE  IndInv'
<1> USE DEF restVars, flagVars, threadVars
<1>1. Sent' = Sent /\ Given' = Given
  BY SameTypes DEF Load, plateVars, histVars
<1>2. ThreadInv'
  BY <1>1
     DEF Load, At, Crash, IndInv, ThreadInv, FlagInv, LoginGate, Thread,
         Places, histVars
<1>3. FlagInv'
  BY DEF Load, Crash, IndInv, FlagInv
<1> QED BY <1>1, <1>2, <1>3, ThreadStep DEF Load

LEMMA ReadCheckInv ==
  ASSUME IndInv, NEW t \in {"main", "receive"}, ReadCheck(t)
  PROVE  IndInv'
<1> USE DEF restVars, flagVars, threadVars
<1>1. Sent' = Sent /\ Given' = Given
  BY SameTypes DEF ReadCheck, plateVars, histVars
<1>2. ThreadInv'
  BY <1>1
     DEF ReadCheck, At, Goto, Return, Leave, AfterRead, IndInv, ThreadInv, LoginGate, Thread,
         Places, histVars
<1>3. FlagInv'
  BY DEF ReadCheck, IndInv, FlagInv
<1> QED BY <1>1, <1>2, <1>3, ThreadStep DEF ReadCheck

LEMMA ReadFailsInv ==
  ASSUME IndInv, NEW t \in {"main", "receive"}, NEW from, ReadFails(t, from)
  PROVE  IndInv'
<1> USE DEF restVars, flagVars, threadVars
<1>1. Sent' = Sent /\ Given' = Given
  BY SameTypes DEF ReadFails, plateVars, histVars
<1>2. ThreadInv'
  BY <1>1
     DEF ReadFails, At, Return, Leave, AfterRead, IndInv, ThreadInv, LoginGate, Thread,
         Places, histVars
<1>3. FlagInv'
  BY DEF ReadFails, IndInv, FlagInv
<1> QED BY <1>1, <1>2, <1>3, ThreadStep DEF ReadFails

LEMMA inputLoginInfoInv ==
  ASSUME IndInv, NEW c \in Cred, inputLoginInfo(c)
  PROVE  IndInv'
<1> USE DEF restVars, flagVars, threadVars
<1>1. Sent' = Sent /\ Given' = Given
  BY SameTypes DEF inputLoginInfo, plateVars, histVars
<1>2. ThreadInv'
  BY <1>1
     DEF inputLoginInfo, At, Login, Sent, IndInv, ThreadInv, LoginGate, Thread,
         Places, histVars
<1>3. FlagInv'
  BY DEF inputLoginInfo, IndInv, FlagInv
<1> QED BY <1>1, <1>2, <1>3, ThreadStep DEF inputLoginInfo

LEMMA SaveCredentialsInv ==
  ASSUME IndInv, NEW t \in Thread, SaveCredentials(t)
  PROVE  IndInv'
<1> USE DEF restVars, flagVars, threadVars
<1>1. Sent' = Sent /\ Given' = Given
  BY SameTypes DEF SaveCredentials, plateVars, histVars
<1>2. ThreadInv'
  BY <1>1
     DEF SaveCredentials, At, Goto, Sent, IndInv, ThreadInv, LoginGate, Thread,
         Places, histVars
<1>3. FlagInv'
  BY DEF SaveCredentials, At, ThreadInv, IndInv, FlagInv
<1> QED BY <1>1, <1>2, <1>3, ThreadStep DEF SaveCredentials

LEMMA RetryInv ==
  ASSUME IndInv, Retry
  PROVE  IndInv'
<1> USE DEF restVars, flagVars, threadVars
<1>1. Sent' = Sent /\ Given' = Given
  BY SameTypes DEF Retry, plateVars, histVars
<1>2. ThreadInv'
  BY <1>1
     DEF Retry, At, Goto, IndInv, ThreadInv, LoginGate, Thread,
         Places, histVars
<1>3. retryCount' \in 0..(MaxRetry + 1)
  BY LaptopAssumption DEF Retry, IndInv, FlagInv
<1>4. FlagInv'
  BY <1>3 DEF Retry, IndInv, FlagInv
<1> QED BY <1>1, <1>2, <1>4, ThreadStep DEF Retry

LEMMA ClearRetryInv ==
  ASSUME IndInv, ClearRetry
  PROVE  IndInv'
<1> USE DEF restVars, flagVars, threadVars
<1>1. Sent' = Sent /\ Given' = Given
  BY SameTypes DEF ClearRetry, plateVars, histVars
<1>2. ThreadInv'
  BY <1>1
     DEF ClearRetry, At, Goto, IndInv, ThreadInv, LoginGate, Thread,
         Places, histVars
<1>3. FlagInv'
  BY DEF ClearRetry, IndInv, FlagInv
<1> QED BY <1>1, <1>2, <1>3, ThreadStep DEF ClearRetry

LEMMA ReloginInv ==
  ASSUME IndInv, Relogin
  PROVE  IndInv'
<1> USE DEF restVars, flagVars, threadVars
<1>1. Sent' = Sent /\ Given' = Given
  BY SameTypes DEF Relogin, plateVars, histVars
<1>2. ThreadInv'
  BY <1>1
     DEF Relogin, At, Login, Sent, IndInv, ThreadInv, FlagInv, LoginGate, Thread,
         Places, histVars
<1>3. FlagInv'
  BY DEF Relogin, IndInv, FlagInv
<1> QED BY <1>1, <1>2, <1>3, ThreadStep DEF Relogin

LEMMA ExitInv ==
  ASSUME IndInv, Exit
  PROVE  IndInv'
<1> USE DEF restVars, flagVars, threadVars
<1>1. Sent' = Sent /\ Given' = Given
  BY SameTypes DEF Exit, plateVars, histVars
<1>2. ThreadInv'
  BY <1>1
     DEF Exit, At, IndInv, ThreadInv, LoginGate, Thread,
         Places, histVars
<1>3. FlagInv'
  BY DEF Exit, IndInv, FlagInv
<1> QED BY <1>1, <1>2, <1>3, ThreadStep DEF Exit

(***************************************************************************)
(* Writing and reading: Append and Tail keep the type of a stream.         *)
(***************************************************************************)
LEMMA WriteInv ==
  ASSUME IndInv, NEW t \in {"main", "reconnect", "video"},
         NEW from \in {"writeH", "writeB"}, NEW half \in {"header", "body"},
         Write(t, from, half)
  PROVE  IndInv'
<1> USE DEF restVars, flagVars, threadVars, At, Goto, Return, Leave
<1>1. Sent' = Sent /\ Given' = Given
  BY SameTypes DEF Write, plateVars, histVars
<1>2. held[t] \in Port /\ msg[t] \in Sent
  BY DEF Write, IndInv, ThreadInv, Thread
<1>3. Append(srv[held[t]], [half |-> half, msg |-> msg[t]]) \in Seq(Part(Sent))
  <2>1. [half |-> half, msg |-> msg[t]] \in Part(Sent)
    BY <1>2 DEF Part
  <2>2. srv[held[t]] \in Seq(Part(Sent))
    BY <1>2 DEF IndInv, StreamInv
  <2> QED BY <2>1, <2>2, AppendProperties
<1>4. StreamInv'
  BY <1>1, <1>3 DEF Write, IndInv, StreamInv
<1>5. ThreadInv'
  BY <1>1 DEF Write, AfterSend, IndInv, ThreadInv, LoginGate, Thread, Places, histVars
<1>6. FlagInv'
  BY DEF Write, IndInv, FlagInv
<1> QED BY <1>4, <1>5, <1>6 DEF Write, IndInv, PlateInv, ConnInv, FaultInv, plateVars,
           faultVars, histVars

\* the front of a stream that is not empty, and what is left
LEMMA ConsumeStep ==
  ASSUME IndInv, NEW t \in Thread, held[t] \in Port, Arrived(t), Consume(t),
         UNCHANGED <<srv, asked, granted>>
  PROVE  Front(t) \in Part(Given) /\ StreamInv' /\ Sent' = Sent /\ Given' = Given
<1>1. Sent' = Sent /\ Given' = Given
  BY SameTypes
<1>2. /\ resp[held[t]] \in Seq(Part(Given)) /\ resp[held[t]] # <<>>
  BY DEF IndInv, StreamInv, Arrived
<1>3. /\ Head(resp[held[t]]) \in Part(Given)
      /\ Tail(resp[held[t]]) \in Seq(Part(Given))
  BY <1>2
<1> QED BY <1>1, <1>3 DEF IndInv, StreamInv, Consume, Front

LEMMA ReadHeaderInv ==
  ASSUME IndInv, NEW t \in {"main", "receive"}, ReadHeader(t)
  PROVE  IndInv'
<1> USE DEF flagVars, threadVars, At, Goto
<1>1. held[t] \in Port /\ t \in Thread
  BY DEF ReadHeader, IndInv, ThreadInv, Thread
<1>2. Front(t) \in Part(Given) /\ StreamInv' /\ Sent' = Sent /\ Given' = Given
  BY <1>1, ConsumeStep DEF ReadHeader, plateVars, histVars
<1>3. Front(t).msg \in Given
  BY <1>2 DEF Part
<1>4. ThreadInv'
  BY <1>2, <1>3 DEF ReadHeader, IndInv, ThreadInv, LoginGate, Thread, Places, histVars
<1> QED BY <1>2, <1>4
   DEF ReadHeader, IndInv, FlagInv, PlateInv, ConnInv, FaultInv, plateVars,
           faultVars, histVars

LEMMA MisreadInv ==
  ASSUME IndInv, NEW t \in {"main", "receive"}, Misread(t)
  PROVE  IndInv'
<1> USE DEF flagVars, threadVars, At, Goto, Return, Leave, Crash
<1>1. held[t] \in Port /\ t \in Thread
  BY DEF Misread, IndInv, ThreadInv, Thread
<1>2. StreamInv' /\ Sent' = Sent /\ Given' = Given
  BY <1>1, ConsumeStep DEF Misread, plateVars, histVars
<1>3. ThreadInv'
  BY <1>1, <1>2 DEF Misread, IndInv, ThreadInv, LoginGate, Thread, Places, histVars
<1> QED BY <1>2, <1>3 DEF Misread, IndInv, FlagInv, PlateInv, ConnInv, FaultInv, plateVars,
           faultVars, histVars

\* a whole response of some kind, read by t
LEMMA WholeBodyStep ==
  ASSUME IndInv, NEW t \in Thread, NEW kind, WholeBody(t, kind),
         UNCHANGED <<asked, granted>>
  PROVE  /\ got[t] \in Given /\ got[t].kind = kind
         /\ StreamInv' /\ Sent' = Sent /\ Given' = Given
<1>1. held[t] \in Port
  BY DEF WholeBody, At, IndInv, ThreadInv
<1>2. Front(t) \in Part(Given) /\ StreamInv' /\ Sent' = Sent /\ Given' = Given
  BY <1>1, ConsumeStep DEF WholeBody
<1>3. got[t] \in Given
  BY <1>2 DEF WholeBody, Part
<1> QED BY <1>2, <1>3 DEF WholeBody

LEMMA LoginSucceedsInv ==
  ASSUME IndInv, LoginSucceeds
  PROVE  IndInv'
<1> USE DEF Leave, histVars
<1>1. /\ got["main"] \in Given /\ got["main"].kind = "granted"
      /\ StreamInv' /\ Sent' = Sent /\ Given' = Given
  BY WholeBodyStep DEF LoginSucceeds, WholeBody, plateVars, Thread
<1>2. granted # {}
  BY <1>1 DEF Given
<1>3. ThreadInv'
  BY <1>1, <1>2 DEF LoginSucceeds, WholeBody, IndInv, ThreadInv, LoginGate, Thread, Places
<1> QED BY <1>1, <1>3
   DEF LoginSucceeds, WholeBody, IndInv, FlagInv, PlateInv, ConnInv, FaultInv,
           plateVars, faultVars

LEMMA LoginDeniedInv ==
  ASSUME IndInv, LoginDenied
  PROVE  IndInv'
<1> USE DEF Return, Leave, histVars
<1>1. StreamInv' /\ Sent' = Sent /\ Given' = Given
  BY WholeBodyStep DEF LoginDenied, WholeBody, plateVars, Thread
<1>2. ThreadInv'
  BY <1>1 DEF LoginDenied, WholeBody, IndInv, ThreadInv, LoginGate, Thread, Places
<1>3. retryCount' \in 0..(MaxRetry + 1)
  BY LaptopAssumption DEF LoginDenied
<1> QED BY <1>1, <1>2, <1>3 DEF LoginDenied, WholeBody, IndInv, FlagInv, PlateInv, ConnInv,
           FaultInv, plateVars, faultVars

LEMMA IgnoreInv ==
  ASSUME IndInv, Ignore
  PROVE  IndInv'
<1> USE DEF Return, Leave, histVars
<1>1. PICK k \in {"granted", "denied", "refusal"} : WholeBody("receive", k)
  BY DEF Ignore
<1>2. StreamInv' /\ Sent' = Sent /\ Given' = Given
  BY <1>1, WholeBodyStep DEF Ignore, WholeBody, plateVars, Thread
<1>3. ThreadInv'
  BY <1>1, <1>2 DEF Ignore, WholeBody, IndInv, ThreadInv, LoginGate, Thread, Places
<1> QED BY <1>1, <1>2, <1>3 DEF Ignore, WholeBody, IndInv, FlagInv, PlateInv, ConnInv,
           FaultInv, plateVars, faultVars

\* the plate of an answer was asked, whatever connection the answer came from
LEMMA AnswerInv ==
  ASSUME IndInv, Answer
  PROVE  IndInv'
<1> USE DEF Return, Leave, histVars
<1>1. /\ got["receive"] \in Given /\ got["receive"].kind = "answer"
      /\ StreamInv' /\ Sent' = Sent /\ Given' = Given
  BY WholeBodyStep DEF Answer, WholeBody, Thread
<1>2. got["receive"].key \in asked
  BY <1>1 DEF Given
<1>3. ThreadInv'
  BY <1>1 DEF Answer, WholeBody, IndInv, ThreadInv, LoginGate, Thread, Places
<1>4. PlateInv'
  BY <1>2 DEF Answer, WholeBody, IndInv, PlateInv
<1> QED BY <1>1, <1>3, <1>4
   DEF Answer, WholeBody, IndInv, FlagInv, ConnInv, FaultInv, faultVars

(***************************************************************************)
(* Opening and closing the port.                                           *)
(***************************************************************************)
LEMMA CloseStep ==
  ASSUME IndInv, CloseTcpConnectedPort, UNCHANGED <<asked, granted>>
  PROVE  /\ ConnInv' /\ StreamInv' /\ port' \in Port \cup {NoPort}
         /\ Sent' = Sent /\ Given' = Given
<1>1. Sent' = Sent /\ Given' = Given
  BY SameTypes
<1>2. StreamInv'
  BY <1>1 DEF CloseTcpConnectedPort, IndInv, StreamInv, FlagInv
<1>3. ConnInv'
  BY DEF CloseTcpConnectedPort, IndInv, ConnInv, FlagInv
<1> QED BY <1>1, <1>2, <1>3 DEF CloseTcpConnectedPort

LEMMA OpenedStep ==
  ASSUME IndInv, NEW t \in {"main", "reconnect"}, NEW p \in Port, Opened(t, p),
         UNCHANGED <<asked, granted>>
  PROVE  /\ ConnInv' /\ StreamInv' /\ port' \in Port /\ fails' = fails
         /\ Sent' = Sent /\ Given' = Given
<1>1. Sent' = Sent /\ Given' = Given
  BY SameTypes
<1> QED BY <1>1 DEF Opened, IndInv, ConnInv, StreamInv

LEMMA NotOpenedStep ==
  ASSUME IndInv, NotOpened, UNCHANGED <<asked, granted>>
  PROVE  /\ ConnInv' /\ StreamInv' /\ port' = NoPort /\ saveRetry' \in BOOLEAN
         /\ fails' \in 0..MaxFail
         /\ Sent' = Sent /\ Given' = Given
<1>1. Sent' = Sent /\ Given' = Given
  BY SameTypes
<1>2. fails' \in 0..MaxFail
  BY LaptopAssumption DEF NotOpened, IndInv, FaultInv
<1> QED BY <1>1, <1>2 DEF NotOpened, IndInv, ConnInv, StreamInv, connVars

LEMMA networkConnectInv ==
  ASSUME IndInv, networkConnect
  PROVE  IndInv'
<1> USE DEF At, Goto, plateVars, histVars
<1>1. /\ ConnInv' /\ StreamInv' /\ port' \in Port \cup {NoPort} /\ saveRetry' \in BOOLEAN
      /\ fails' \in 0..MaxFail
      /\ Sent' = Sent /\ Given' = Given
  <2>1. CASE \E p \in Port : Opened("main", p) /\ saveRetry' = FALSE
    BY <2>1, OpenedStep DEF networkConnect, IndInv, FaultInv
  <2>2. CASE NotOpened
    BY <2>2, NotOpenedStep DEF networkConnect
  <2> QED BY <2>1, <2>2 DEF networkConnect
<1>2. ThreadInv'
  BY <1>1 DEF networkConnect, IndInv, ThreadInv, LoginGate, Thread, Places
<1> QED BY <1>1, <1>2 DEF networkConnect, IndInv, FlagInv, PlateInv, FaultInv

LEMMA ReconnectInv ==
  ASSUME IndInv, Reconnect
  PROVE  IndInv'
<1> USE DEF At, Goto, plateVars, histVars
<1>1. /\ ConnInv' /\ StreamInv' /\ port' \in Port \cup {NoPort} /\ saveRetry' \in BOOLEAN
      /\ fails' \in 0..MaxFail
      /\ Sent' = Sent /\ Given' = Given
  <2>1. CASE (\E p \in Port : Opened("reconnect", p)) /\ UNCHANGED saveRetry
    BY <2>1, OpenedStep DEF Reconnect, IndInv, FaultInv, FlagInv
  <2>2. CASE NotOpened
    BY <2>2, NotOpenedStep DEF Reconnect
  <2> QED BY <2>1, <2>2 DEF Reconnect
<1>2. ThreadInv'
  BY <1>1 DEF Reconnect, IndInv, ThreadInv, LoginGate, Thread, Places
<1> QED BY <1>1, <1>2 DEF Reconnect, IndInv, FlagInv, PlateInv, FaultInv

LEMMA retryNetworkConnectInv ==
  ASSUME IndInv, retryNetworkConnect
  PROVE  IndInv'
<1> USE DEF At, Goto, plateVars, histVars, faultVars
<1>1. /\ ConnInv' /\ StreamInv' /\ port' \in Port \cup {NoPort}
      /\ Sent' = Sent /\ Given' = Given
  BY CloseStep DEF retryNetworkConnect
<1>2. ThreadInv'
  BY <1>1 DEF retryNetworkConnect, IndInv, ThreadInv, LoginGate, Thread, Places
<1> QED BY <1>1, <1>2 DEF retryNetworkConnect, IndInv, FlagInv, PlateInv, FaultInv

LEMMA logoutInv ==
  ASSUME IndInv, logout
  PROVE  IndInv'
<1> USE DEF At, plateVars, histVars, faultVars
<1>1. /\ ConnInv' /\ StreamInv' /\ port' \in Port \cup {NoPort}
      /\ Sent' = Sent /\ Given' = Given
  BY CloseStep DEF logout
<1>2. ThreadInv'
  BY <1>1 DEF logout, IndInv, ThreadInv, LoginGate, Thread, Places
<1> QED BY <1>1, <1>2 DEF logout, IndInv, FlagInv, PlateInv, FaultInv

(***************************************************************************)
(* Steps that ask a plate or grant a login: more may travel than before.   *)
(***************************************************************************)
LEMMA TypesGrow ==
  ASSUME asked \subseteq asked', granted \subseteq granted'
  PROVE  /\ Sent \subseteq Sent' /\ Given \subseteq Given'
         /\ Seq(Part(Sent)) \subseteq Seq(Part(Sent'))
         /\ Seq(Part(Given)) \subseteq Seq(Part(Given'))
<1>1. Sent \subseteq Sent'
  BY DEF Sent
<1>2. Given \subseteq Given'
  BY DEF Given
<1>3. Part(Sent) \subseteq Part(Sent') /\ Part(Given) \subseteq Part(Given')
  BY <1>1, <1>2 DEF Part
<1>4. Seq(Part(Sent)) \subseteq Seq(Part(Sent'))
  BY <1>3, SeqGrows
<1>5. Seq(Part(Given)) \subseteq Seq(Part(Given'))
  BY <1>3, SeqGrows
<1> QED BY <1>1, <1>2, <1>4, <1>5

LEMMA sendRecognizedInfoInv ==
  ASSUME IndInv, NEW l \in Plate, sendRecognizedInfo(l)
  PROVE  IndInv'
<1> USE DEF At, flagVars, connVars, faultVars, histVars
<1>1. /\ Sent \subseteq Sent' /\ Given \subseteq Given'
      /\ Seq(Part(Sent)) \subseteq Seq(Part(Sent'))
      /\ Seq(Part(Given)) \subseteq Seq(Part(Given'))
  BY TypesGrow DEF sendRecognizedInfo
<1>2. Query(l) \in Sent'
  BY DEF sendRecognizedInfo, Query, Sent
<1>3. ThreadInv'
  <2>1. /\ pc' \in [Thread -> Places] /\ held' \in [Thread -> Port \cup {NoPort}]
        /\ got' \in [Thread -> Given' \cup {NoMsg}]
    BY <1>1 DEF sendRecognizedInfo, IndInv, ThreadInv, Thread, Places
  <2>2. msg' \in [Thread -> Sent' \cup {NoMsg}]
    BY <1>1, <1>2 DEF sendRecognizedInfo, IndInv, ThreadInv
  <2>3. LoginGate'
    BY DEF sendRecognizedInfo, IndInv, ThreadInv, LoginGate, Thread
  <2>4. ASSUME NEW t \in Thread
        PROVE  /\ pc'[t] = "save" => msg'[t] \in [kind : {"login"}, key : Cred]
               /\ pc'[t] \in {"check", "loadWH", "writeH", "loadWB", "writeB"} =>
                    msg'[t] \in Sent'
               /\ pc'[t] \in {"writeH", "writeB", "readH", "readB", "lost"} =>
                    held'[t] \in Port
    BY <1>1, <1>2 DEF sendRecognizedInfo, IndInv, ThreadInv
  <2> QED BY <2>1, <2>2, <2>3, <2>4 DEF ThreadInv
<1>4. StreamInv'
  BY <1>1 DEF sendRecognizedInfo, IndInv, StreamInv
<1>5. PlateInv'
  BY DEF sendRecognizedInfo, IndInv, PlateInv
<1> QED BY <1>3, <1>4, <1>5 DEF sendRecognizedInfo, IndInv, FlagInv, ConnInv, FaultInv

(***************************************************************************)
(* The server and the network.                                             *)
(***************************************************************************)
LEMMA WholeStep ==
  ASSUME IndInv, NEW p \in Port, NEW m, Whole(p, m)
  PROVE  m \in Sent /\ SubSeq(srv[p], 3, Len(srv[p])) \in Seq(Part(Sent))
<1>1. srv[p] \in Seq(Part(Sent)) /\ Len(srv[p]) \in Nat /\ Len(srv[p]) >= 2
  BY DEF Whole, IndInv, StreamInv
<1>2. \A i \in 1..Len(srv[p]) : srv[p][i] \in Part(Sent)
  BY <1>1
<1>3. SubSeq(srv[p], 1, 2)[1] = srv[p][1]
  <2>1. \A i \in 1..2 : srv[p][i] \in Part(Sent)
    BY <1>1, <1>2
  <2>2. \A i \in 1..(2 - 1 + 1) : SubSeq(srv[p], 1, 2)[i] = srv[p][1 + i - 1]
    BY <2>1, SubSeqProperties
  <2> QED BY <2>2
<1>4. srv[p][1] = [half |-> "header", msg |-> m]
  <2>1. SubSeq(srv[p], 1, 2) = Both(m)
    BY DEF Whole
  <2>2. Both(m)[1] = [half |-> "header", msg |-> m]
    BY DEF Both
  <2> QED BY <1>3, <2>1, <2>2
<1>5. m \in Sent
  BY <1>1, <1>2, <1>4 DEF Part
<1>6. SubSeq(srv[p], 3, Len(srv[p])) \in Seq(Part(Sent))
  BY <1>1, <1>2, SubSeqProperties
<1> QED BY <1>5, <1>6

LEMMA BothGiven ==
  ASSUME NEW S, NEW r \in S, NEW s \in Seq(Part(S))
  PROVE  s \o Both(r) \in Seq(Part(S))
<1>1. Both(r) \in Seq(Part(S))
  BY DEF Both, Part
<1> QED BY <1>1, ConcatProperties

LEMMA ServerReadsLoginInv ==
  ASSUME IndInv, NEW p \in Port, ServerReadsLogin(p)
  PROVE  IndInv'
<1> USE DEF laptopVars, threadVars, flagVars, plateVars, faultVars, histVars
<1>1. Sent' = Sent /\ Given' = Given
  BY SameTypes DEF ServerReadsLogin
<1>2. PICK c \in Cred : Whole(p, Login(c)) /\ auth' = [auth EXCEPT ![p] = @ \cup {c}]
  BY DEF ServerReadsLogin
<1>3. StreamInv'
  BY <1>1, <1>2, WholeStep DEF ServerReadsLogin, Take, IndInv, StreamInv
<1>4. ConnInv'
  BY <1>2 DEF ServerReadsLogin, IndInv, ConnInv
<1>5. ThreadInv'
  BY <1>1 DEF ServerReadsLogin, IndInv, ThreadInv, LoginGate
<1> QED BY <1>3, <1>4, <1>5 DEF ServerReadsLogin, IndInv, FlagInv, PlateInv, FaultInv

LEMMA ServerAnswersLoginInv ==
  ASSUME IndInv, NEW p \in Port, NEW c \in Cred, ServerAnswersLogin(p, c)
  PROVE  IndInv'
<1> USE DEF laptopVars, threadVars, flagVars, plateVars, faultVars
<1> DEFINE r == [kind |-> IF c = "right" THEN "granted" ELSE "denied", key |-> c]
<1>1. granted' = IF c = "right" THEN granted \cup {c} ELSE granted
  BY DEF ServerAnswersLogin
<1>2. /\ Sent \subseteq Sent' /\ Given \subseteq Given'
      /\ Seq(Part(Sent)) \subseteq Seq(Part(Sent'))
      /\ Seq(Part(Given)) \subseteq Seq(Part(Given'))
  BY <1>1, TypesGrow DEF ServerAnswersLogin
<1>3. r \in Given'
  BY <1>1 DEF Given, Response
<1>4. resp[p] \in Seq(Part(Given'))
  BY <1>2 DEF IndInv, StreamInv
<1>5. resp[p] \o Both(r) \in Seq(Part(Given'))
  BY <1>3, <1>4, BothGiven
<1>6. StreamInv'
  <2>1. srv' \in [Port -> Seq(Part(Sent'))]
    BY <1>2 DEF ServerAnswersLogin, IndInv, StreamInv
  <2>2. resp' = [resp EXCEPT ![p] = resp[p] \o Both(r)]
    BY DEF ServerAnswersLogin
  <2>3. resp \in [Port -> Seq(Part(Given'))]
    BY <1>2 DEF IndInv, StreamInv
  <2>4. resp' \in [Port -> Seq(Part(Given'))]
    BY <1>5, <2>2, <2>3
  <2> QED BY <2>1, <2>4 DEF StreamInv
<1>7. ConnInv'
  BY DEF ServerAnswersLogin, Session, IndInv, ConnInv
<1>8. PlateInv'
  BY <1>1 DEF ServerAnswersLogin, IndInv, PlateInv
<1>9. ThreadInv'
  <2>1. /\ msg' \in [Thread -> Sent' \cup {NoMsg}]
        /\ got' \in [Thread -> Given' \cup {NoMsg}]
    BY <1>2 DEF ServerAnswersLogin, IndInv, ThreadInv
  <2>2. LoginGate'
    BY <1>1 DEF ServerAnswersLogin, IndInv, ThreadInv, LoginGate
  <2> QED BY <1>2, <2>1, <2>2 DEF ServerAnswersLogin, IndInv, ThreadInv
<1> QED BY <1>6, <1>7, <1>8, <1>9 DEF ServerAnswersLogin, IndInv, FlagInv, FaultInv

LEMMA ServerAnswersQueryInv ==
  ASSUME IndInv, NEW p \in Port, NEW l \in Plate, ServerAnswersQuery(p, l)
  PROVE  IndInv'
<1> USE DEF laptopVars, threadVars, flagVars, plateVars, faultVars
<1> DEFINE r == [kind |-> IF logged[p] THEN "answer" ELSE "refusal", key |-> l]
<1>1. Sent' = Sent /\ Given' = Given
  BY SameTypes DEF ServerAnswersQuery
<1>2. Query(l) \in Sent /\ SubSeq(srv[p], 3, Len(srv[p])) \in Seq(Part(Sent))
  BY WholeStep DEF ServerAnswersQuery
<1>3. l \in asked
  BY <1>2 DEF Query, Sent
<1>4. r \in Given
  BY <1>3 DEF Given, Response
<1>5. resp[p] \o Both(r) \in Seq(Part(Given))
  BY <1>4, BothGiven DEF IndInv, StreamInv
<1>6. StreamInv'
  <2>1. resp' = [resp EXCEPT ![p] = resp[p] \o Both(r)]
    BY DEF ServerAnswersQuery
  <2>2. resp' \in [Port -> Seq(Part(Given))]
    BY <1>5, <2>1 DEF IndInv, StreamInv
  <2>3. srv' \in [Port -> Seq(Part(Sent))]
    BY <1>2 DEF ServerAnswersQuery, Take, IndInv, StreamInv
  <2> QED BY <1>1, <2>2, <2>3 DEF StreamInv
<1>7. ThreadInv'
  BY <1>1 DEF ServerAnswersQuery, IndInv, ThreadInv, LoginGate
<1>8. PlateInv'
  BY <1>3 DEF ServerAnswersQuery, IndInv, PlateInv
<1> QED BY <1>6, <1>7, <1>8 DEF ServerAnswersQuery, IndInv, FlagInv, ConnInv, FaultInv

LEMMA FaultStep ==
  ASSUME IndInv, NEW p \in Port, ServerEnds(p) \/ LoseConnection(p)
  PROVE  IndInv'
<1> USE DEF laptopVars, threadVars, flagVars, plateVars, histVars
<1>1. Sent' = Sent /\ Given' = Given
  BY SameTypes DEF ServerEnds, LoseConnection
<1>2. ConnInv'
  BY DEF ServerEnds, LoseConnection, IndInv, ConnInv
<1>3. losses' \in 0..MaxLoss
  BY LaptopAssumption DEF ServerEnds, LoseConnection, IndInv, FaultInv
<1>4. FaultInv' /\ StreamInv'
  BY <1>1, <1>3 DEF ServerEnds, LoseConnection, IndInv, FaultInv, StreamInv
<1>5. ThreadInv'
  BY <1>1 DEF ServerEnds, LoseConnection, IndInv, ThreadInv, LoginGate
<1> QED BY <1>2, <1>4, <1>5 DEF ServerEnds, LoseConnection, IndInv, FlagInv, PlateInv

(***************************************************************************)
(* Every step of the program keeps IndInv.                                 *)
(***************************************************************************)
LEMMA SendingInv ==
  ASSUME IndInv, NEW t \in {"main", "reconnect", "video"}, Sending(t)
  PROVE  IndInv'
<1>1. t \in Thread
  BY DEF Thread
<1>2. CASE Check(t)
  BY <1>2, CheckInv
<1>3. CASE Load(t, "loadWH", "writeH") \/ Load(t, "loadWB", "writeB")
  BY <1>1, <1>3, LoadInv
<1>4. CASE Write(t, "writeH", "header") \/ Write(t, "writeB", "body")
  BY <1>4, WriteInv
<1> QED BY <1>2, <1>3, <1>4 DEF Sending

LEMMA ReceivingInv ==
  ASSUME IndInv, NEW t \in {"main", "receive"}, Receiving(t)
  PROVE  IndInv'
<1>1. t \in Thread
  BY DEF Thread
<1>2. CASE Load(t, "loadRH", "readH") \/ Load(t, "loadRB", "readB")
  BY <1>1, <1>2, LoadInv
<1>3. CASE ReadCheck(t) \/ ReadHeader(t) \/ Misread(t)
  BY <1>3, ReadCheckInv, ReadHeaderInv, MisreadInv
<1>4. CASE \E from \in {"readH", "readB", "lost"} : ReadFails(t, from)
  BY <1>4, ReadFailsInv
<1> QED BY <1>2, <1>3, <1>4 DEF Receiving

LEMMA NextIndInv == IndInv /\ [Next]_vars => IndInv'
<1> SUFFICES ASSUME IndInv, [Next]_vars PROVE IndInv'
  OBVIOUS
<1>1. CASE MainNext
  <2>1. "main" \in Thread
    BY DEF Thread
  <2> QED BY <1>1, <2>1, networkConnectInv, inputLoginInfoInv, SaveCredentialsInv, SendingInv,
             ReceivingInv, LoginSucceedsInv, LoginDeniedInv, RetryInv, logoutInv, ExitInv
          DEF MainNext
<1>2. CASE ReconnectNext
  <2>1. "reconnect" \in Thread
    BY DEF Thread
  <2> QED BY <1>2, <2>1, retryNetworkConnectInv, ReconnectInv, ClearRetryInv, ReloginInv,
             SaveCredentialsInv, SendingInv DEF ReconnectNext
<1>3. CASE VideoNext
  BY <1>3, sendRecognizedInfoInv, SendingInv DEF VideoNext
<1>4. CASE ReceiveNext
  BY <1>4, ReceivingInv, IgnoreInv, AnswerInv DEF ReceiveNext
<1>5. CASE \E p \in Port : ServerNext(p) \/ LoseConnection(p)
  BY <1>5, ServerReadsLoginInv, ServerAnswersLoginInv, ServerAnswersQueryInv, FaultStep
     DEF ServerNext
<1>6. CASE UNCHANGED vars
  <2> USE <1>6
     DEF vars, restVars, threadVars, flagVars, plateVars, connVars, faultVars, histVars
  <2>1. Sent' = Sent /\ Given' = Given
    BY SameTypes
  <2>2. ThreadInv' /\ StreamInv'
    BY <2>1 DEF IndInv, ThreadInv, StreamInv, LoginGate
  <2> QED BY <2>2 DEF IndInv, FlagInv, PlateInv, ConnInv, FaultInv
<1> QED BY <1>1, <1>2, <1>3, <1>4, <1>5, <1>6 DEF Next

(***************************************************************************)
(* The invariant holds of the program, and with it the types.              *)
(***************************************************************************)
THEOREM IndInvariant == Spec => []IndInv
<1>1. Init => IndInv
  BY InitIndInv
<1>2. IndInv /\ [Next]_vars => IndInv'
  BY NextIndInv
<1> QED BY <1>1, <1>2, PTL DEF Spec

(***************************************************************************)
(* Every variable keeps its type.  In particular a plate that is answered  *)
(* or refused was asked, and the retry counter stops at MaxRetry + 1,      *)
(* whatever connections come and go between two reads.                     *)
(***************************************************************************)
THEOREM LaptopTypeCorrect == Spec => []TypeOK
<1>1. IndInv => TypeOK
  BY IndInvTypeOK
<1> QED BY <1>1, IndInvariant, PTL

(***************************************************************************)
(* login() returns only after the server granted a login, although length  *)
(* and text of the response may be read from two connections.              *)
(***************************************************************************)
THEOREM LoginNeedsGrant == Spec => []LoginGate
<1>1. IndInv => LoginGate
  BY DEF IndInv, ThreadInv
<1> QED BY <1>1, IndInvariant, PTL

-----------------------------------------------------------------------------
(***************************************************************************)
(* The connection main opened.  Only main, and once it has joined the video *)
(* thread, write on it; the reconnect thread has not begun.                 *)
(***************************************************************************)
Half(t)  == pc[t] \in {"loadWB", "writeB"}
First(p) == link[p] = "up" /\ opener[p] = "main"
Writer   == {"main", "video"}

FirstPort(p) ==
  /\ port = p /\ pc["reconnect"] \in {"off", "idle"}
  /\ \A t \in Writer : pc[t] \in {"writeH", "writeB"} => held[t] = p

FirstStream(p) ==
  /\ Framed(srv[p])
  /\ Len(srv[p]) % 2 = 1 <=> \E t \in Writer : Half(t)
  /\ \A t \in Writer : Half(t) => srv[p][Len(srv[p])].msg = msg[t]

FirstInv ==
  /\ pc["main"] = "connect" =>
       /\ \A p \in Port : link[p] = "free"
       /\ pc["reconnect"] = "off"
  /\ pc["video"] # "off" \/ pc["receive"] # "off" => pc["main"] \in {"joined", "logout"}
  /\ \A p \in Port : link[p] = "free" => srv[p] = <<>>
  /\ \A p \in Port : First(p) => FirstPort(p) /\ FirstStream(p)

LEMMA FramedAppend ==
  ASSUME NEW S, NEW s \in Seq(S), NEW x \in S, Framed(s),
         IF Len(s) % 2 = 0 THEN x.half = "header" ELSE x = [half |-> "body", msg |-> s[Len(s)].msg]
  PROVE  /\ Framed(Append(s, x)) /\ Len(Append(s, x)) = Len(s) + 1
         /\ Append(s, x)[Len(s) + 1] = x
<1> DEFINE t == Append(s, x)
<1>1. /\ Len(s) \in Nat /\ Len(t) = Len(s) + 1 /\ t[Len(s) + 1] = x
      /\ \A k \in 1..Len(s) : t[k] = s[k]
  OBVIOUS
<1> HIDE DEF t
<1>2. ASSUME NEW k \in 1..Len(t)
      PROVE  IF k % 2 = 1 THEN t[k].half = "header" ELSE t[k] = [half |-> "body", msg |-> t[k - 1].msg]
  <2>1. CASE k \in 1..Len(s)
    <3>1. t[k] = s[k]
      BY <1>1, <2>1
    <3>2. k % 2 # 1 => k - 1 \in 1..Len(s)
      BY <1>1, <2>1
    <3>3. k % 2 # 1 => t[k - 1] = s[k - 1]
      BY <1>1, <3>2
    <3> QED BY <2>1, <3>1, <3>3 DEF Framed
  <2>2. CASE k = Len(s) + 1
    <3>1. t[k] = x
      BY <1>1, <2>2
    <3>2. k % 2 = 1 <=> Len(s) % 2 = 0
      BY <1>1, <2>2
    <3>3. Len(s) % 2 # 0 => k - 1 \in 1..Len(s) /\ k - 1 = Len(s)
      BY <1>1, <2>2
    <3>4. Len(s) % 2 # 0 => t[k - 1] = s[Len(s)]
      BY <1>1, <3>3
    <3> QED BY <3>1, <3>2, <3>4
  <2> QED BY <1>1, <2>1, <2>2
<1>3. Framed(t)
  BY <1>2 DEF Framed
<1> QED BY <1>1, <1>3 DEF t

LEMMA FramedTake ==
  ASSUME NEW S, NEW s \in Seq(S), Len(s) >= 2, Framed(s)
  PROVE  LET t == SubSeq(s, 3, Len(s))
         IN  /\ Framed(t) /\ Len(t) % 2 = Len(s) % 2
             /\ Len(s) % 2 = 1 => t[Len(t)] = s[Len(s)]
<1> DEFINE t == SubSeq(s, 3, Len(s))
<1>1. /\ Len(s) \in Nat /\ t \in Seq(S) /\ Len(t) = Len(s) - 2
      /\ \A k \in 1..Len(t) : t[k] = s[k + 2]
  <2>1. Len(s) \in Nat
    OBVIOUS
  <2>2. \A k \in 3..Len(s) : s[k] \in S
    OBVIOUS
  <2>3. t \in Seq(S) /\ Len(t) = (IF 3 <= Len(s) THEN Len(s) - 3 + 1 ELSE 0)
        /\ \A k \in 1..(Len(s) - 3 + 1) : t[k] = s[3 + k - 1]
    BY <2>1, <2>2, SubSeqProperties
  <2> HIDE DEF t
  <2>4. Len(t) = Len(s) - 2
    <3>1. \A n \in Nat : n >= 2 => (IF 3 <= n THEN n - 3 + 1 ELSE 0) = n - 2
      OBVIOUS
    <3>2. (IF 3 <= Len(s) THEN Len(s) - 3 + 1 ELSE 0) = Len(s) - 2
      BY <2>1, <3>1
    <3> QED BY <2>3, <3>2
  <2>5. \A k \in 1..Len(t) : t[k] = s[3 + k - 1] /\ 3 + k - 1 = k + 2
    BY <2>1, <2>3, <2>4
  <2> QED BY <2>1, <2>3, <2>4, <2>5
<1> HIDE DEF t
<1>2. ASSUME NEW k \in 1..Len(t)
      PROVE  IF k % 2 = 1 THEN t[k].half = "header" ELSE t[k] = [half |-> "body", msg |-> t[k - 1].msg]
  <2>1. k + 2 \in 1..Len(s) /\ (k + 2) % 2 = k % 2 /\ t[k] = s[k + 2]
    BY <1>1
  <2>2. k % 2 # 1 => k - 1 \in 1..Len(t) /\ (k - 1) + 2 = (k + 2) - 1
    BY <1>1
  <2>3. k % 2 # 1 => t[k - 1] = s[(k + 2) - 1]
    BY <1>1, <2>2
  <2>4. IF (k + 2) % 2 = 1 THEN s[k + 2].half = "header"
        ELSE s[k + 2] = [half |-> "body", msg |-> s[(k + 2) - 1].msg]
    BY <2>1 DEF Framed
  <2> QED BY <2>1, <2>3, <2>4
<1>3. Len(t) % 2 = Len(s) % 2
  BY <1>1
<1>4. Len(s) % 2 = 1 => t[Len(t)] = s[Len(s)]
  <2>1. Len(s) % 2 = 1 => Len(t) \in 1..Len(t) /\ Len(t) + 2 = Len(s)
    BY <1>1
  <2> QED BY <1>1, <2>1
<1> QED BY <1>2, <1>3, <1>4 DEF Framed, t

LEMMA Parity ==
  ASSUME NEW n \in Nat
  PROVE  /\ n % 2 \in {0, 1} /\ ((n + 1) % 2 = 1 <=> ~(n % 2 = 1))
         /\ n % 2 = 0 <=> ~(n % 2 = 1)
  OBVIOUS

\* a step that writes nothing and moves no writer between its length and its text
LEMMA FirstQuiet ==
  ASSUME FirstInv, UNCHANGED <<port, link, opener, srv>>,
         pc'["main"] # "connect",
         pc'["video"] # "off" \/ pc'["receive"] # "off" => pc'["main"] \in {"joined", "logout"},
         pc'["reconnect"] \in {"off", "idle"} \/ pc["reconnect"] \notin {"off", "idle"},
         \A t \in Writer :
           /\ Half(t)' <=> Half(t)
           /\ Half(t) => msg'[t] = msg[t]
           /\ pc'[t] \in {"writeH", "writeB"} =>
                held'[t] = port \/ (pc[t] = pc'[t] /\ held'[t] = held[t])
  PROVE  FirstInv'
<1>1. ASSUME NEW p \in Port, First(p)' PROVE FirstPort(p)' /\ FirstStream(p)'
  <2>1. First(p) /\ FirstPort(p) /\ FirstStream(p)
    BY <1>1 DEF First, FirstInv
  <2>2. FirstPort(p)'
    BY <2>1 DEF FirstPort
  <2>3. FirstStream(p)'
    BY <2>1 DEF FirstStream
  <2> QED BY <2>2, <2>3
<1> QED BY <1>1 DEF FirstInv

\* one thread moves, neither to nor from where it is sending
LEMMA FirstMove ==
  ASSUME IndInv, FirstInv, UNCHANGED <<port, link, opener, srv>>, NEW t \in Thread,
         pc[t] \notin {"connect", "off", "joined", "logout", "idle", "loadWB", "writeB"},
         NEW to \in Places \ {"connect", "off", "loadWB", "writeH", "writeB"},
         pc' = [pc EXCEPT ![t] = to],
         \A u \in Thread : u # t => msg'[u] = msg[u] /\ held'[u] = held[u]
  PROVE  FirstInv'
<1>1. pc \in [Thread -> Places]
  BY DEF IndInv, ThreadInv
<1>2. pc'[t] = to /\ \A u \in Thread : u # t => pc'[u] = pc[u]
  BY <1>1
<1>3. pc'["main"] # "connect"
  BY <1>2 DEF Thread, FirstInv
<1>4. pc'["video"] # "off" \/ pc'["receive"] # "off" => pc'["main"] \in {"joined", "logout"}
  BY <1>2 DEF Thread, FirstInv
<1>5. pc'["reconnect"] \in {"off", "idle"} \/ pc["reconnect"] \notin {"off", "idle"}
  BY <1>2 DEF Thread
<1>6. ASSUME NEW u \in Writer
      PROVE  /\ Half(u)' <=> Half(u)
             /\ Half(u) => msg'[u] = msg[u]
             /\ pc'[u] \in {"writeH", "writeB"} => pc[u] = pc'[u] /\ held'[u] = held[u]
  <2>1. u \in Thread
    BY DEF Writer, Thread
  <2> QED BY <1>2, <2>1 DEF Half
<1> QED BY <1>3, <1>4, <1>5, <1>6, FirstQuiet

LEMMA FirstSame ==
  ASSUME FirstInv, UNCHANGED <<pc, msg, held, port, link, opener, srv>>
  PROVE  FirstInv'
  BY DEF FirstInv, First, FirstPort, FirstStream, Half

\* what a call does when it returns
LEMMA LeaveOthers ==
  ASSUME IndInv, NEW t \in Thread, Leave(t) \/ UNCHANGED <<msg, held>>
  PROVE  \A u \in Thread : u # t => msg'[u] = msg[u] /\ held'[u] = held[u]
  BY DEF Leave, IndInv, ThreadInv

LEMMA FirstCheck ==
  ASSUME IndInv, FirstInv, NEW t \in Writer, Check(t)
  PROVE  FirstInv'
<1>1. /\ UNCHANGED <<port, link, opener, srv>> /\ pc[t] = "check" /\ t \in Thread
      /\ Leave(t) \/ UNCHANGED <<msg, held>>
  BY DEF Check, restVars, connVars, At, Return, Goto, Writer, Thread
<1>2. PICK to \in {"rcheck", "watch", "loadWH"} : pc' = [pc EXCEPT ![t] = to]
  BY DEF Check, Return, Goto, AfterSend, Writer
<1>3. to \in Places \ {"connect", "off", "loadWB", "writeH", "writeB"}
  BY DEF Places
<1> QED BY <1>1, <1>2, <1>3, LeaveOthers, FirstMove

LEMMA FirstLoad ==
  ASSUME IndInv, FirstInv, NEW t \in Thread, t # "reconnect",
         NEW from, NEW to, Load(t, from, to),
         <<from, to>> \in {<<"loadWH", "writeH">>, <<"loadWB", "writeB">>,
                           <<"loadRH", "readH">>, <<"loadRB", "readB">>}
  PROVE  FirstInv'
<1>1. UNCHANGED <<msg, port, link, opener, srv>> /\ pc[t] = from
  BY DEF Load, flagVars, restVars, connVars, At
<1>2. CASE port = NoPort
  BY <1>1, <1>2, FirstSame DEF Load
<1>3. CASE port # NoPort
  <2>1. /\ pc[t] = from /\ pc' = [pc EXCEPT ![t] = to] /\ held' = [held EXCEPT ![t] = port]
        /\ pc \in [Thread -> Places] /\ held \in [Thread -> Port \cup {NoPort}]
    BY <1>1, <1>3 DEF Load, IndInv, ThreadInv
  <2>2. /\ pc'[t] = to /\ held'[t] = port
        /\ \A u \in Thread : u # t => pc'[u] = pc[u] /\ held'[u] = held[u]
    BY <2>1
  <2>3. /\ from \in {"loadWH", "loadWB", "loadRH", "loadRB"}
        /\ from = "loadWB" <=> to = "writeB"
        /\ to \notin {"connect", "off", "loadWB"} /\ from # "writeB"
    OBVIOUS
  <2>4. pc'["main"] # "connect"
    BY <2>1, <2>2, <2>3 DEF Thread, FirstInv
  <2>5. pc'["video"] # "off" \/ pc'["receive"] # "off" => pc'["main"] \in {"joined", "logout"}
    BY <2>1, <2>2, <2>3 DEF Thread, FirstInv
  <2>6. pc'["reconnect"] \in {"off", "idle"} \/ pc["reconnect"] \notin {"off", "idle"}
    BY <2>2 DEF Thread
  <2>7. ASSUME NEW u \in Writer
        PROVE  /\ Half(u)' <=> Half(u)
               /\ Half(u) => msg'[u] = msg[u]
               /\ pc'[u] \in {"writeH", "writeB"} =>
                    held'[u] = port \/ (pc[u] = pc'[u] /\ held'[u] = held[u])
    <3>1. u \in Thread
      BY DEF Writer, Thread
    <3> QED BY <1>1, <2>1, <2>2, <2>3, <3>1 DEF Half
  <2> QED BY <1>1, <2>4, <2>5, <2>6, <2>7, FirstQuiet
<1> QED BY <1>2, <1>3

\* the two writers are never between length and text at once
LEMMA OneHalf ==
  ASSUME IndInv, FirstInv, NEW t \in Writer, NEW u \in Writer, u # t,
         pc[t] \in {"writeH", "loadWB", "writeB"}
  PROVE  ~Half(u)
  BY DEF Writer, FirstInv, Half, IndInv, ThreadInv

LEMMA FirstWrite ==
  ASSUME IndInv, FirstInv, NEW t \in Writer, NEW from, NEW half, Write(t, from, half),
         <<from, half>> \in {<<"writeH", "header">>, <<"writeB", "body">>}
  PROVE  FirstInv'
<1> DEFINE x == [half |-> half, msg |-> msg[t]]
           h == held[t]
<1>1. /\ UNCHANGED <<port, link, opener>> /\ pc[t] = from /\ t \in Thread
      /\ from = "writeH" <=> half = "header"
      /\ from \in {"writeH", "writeB"} /\ half \in {"header", "body"}
  BY DEF Write, At, Writer, Thread
<1>2. /\ h \in Port /\ msg[t] \in Sent
      /\ pc \in [Thread -> Places] /\ srv \in [Port -> Seq(Part(Sent))]
  BY <1>1 DEF IndInv, ThreadInv, StreamInv
<1>3. x \in Part(Sent)
  BY <1>1, <1>2 DEF Part
<1>4. PICK to \in {"loadWB", "rcheck", "watch"} :
        /\ pc' = [pc EXCEPT ![t] = to]
        /\ to = "loadWB" <=> link[h] = "up" /\ half = "header"
        /\ to = "loadWB" => UNCHANGED <<msg, held>>
  BY <1>1 DEF Write, Return, Goto, AfterSend, Writer
<1>5. srv' = IF link[h] = "up" THEN [srv EXCEPT ![h] = Append(srv[h], x)] ELSE srv
  BY DEF Write
<1>6. \A u \in Thread : u # t => msg'[u] = msg[u] /\ held'[u] = held[u]
  <2>1. Leave(t) \/ UNCHANGED <<msg, held>>
    BY DEF Write, Return, Goto
  <2> QED BY <1>1, <2>1, LeaveOthers
<1>7. pc'[t] = to /\ \A u \in Thread : u # t => pc'[u] = pc[u]
  BY <1>1, <1>2, <1>4
<1>8. /\ pc'["main"] # "connect"
      /\ pc'["video"] # "off" \/ pc'["receive"] # "off" => pc'["main"] \in {"joined", "logout"}
  BY <1>1, <1>4, <1>7 DEF Thread, Writer, FirstInv
<1>9. \A p \in Port : link'[p] = "free" => srv'[p] = <<>>
  BY <1>1, <1>2, <1>5 DEF FirstInv
<1>10. ASSUME NEW p \in Port, First(p)'
       PROVE  FirstPort(p)' /\ FirstStream(p)'
  <2>1. First(p) /\ FirstPort(p) /\ FirstStream(p) /\ link[p] = "up"
    BY <1>1, <1>10 DEF First, FirstInv
  <2>2. h = p
    BY <1>1, <2>1 DEF FirstPort
  <2>3. FirstPort(p)'
    <3>1. pc'["reconnect"] = pc["reconnect"]
      BY <1>7 DEF Thread, Writer
    <3>2. ASSUME NEW u \in Writer, pc'[u] \in {"writeH", "writeB"} PROVE held'[u] = p
      <4>1. u # t /\ u \in Thread
        BY <1>4, <1>7, <3>2 DEF Writer, Thread
      <4> QED BY <1>6, <1>7, <2>1, <3>2, <4>1 DEF FirstPort
    <3> QED BY <1>1, <2>1, <3>1, <3>2 DEF FirstPort
  <2>4. srv'[p] = Append(srv[p], x) /\ srv[p] \in Seq(Part(Sent)) /\ Len(srv[p]) \in Nat
    BY <1>2, <1>5, <2>1, <2>2
  <2>5. \A u \in Writer : u # t => ~Half(u) /\ ~Half(u)'
    <3> SUFFICES ASSUME NEW u \in Writer, u # t PROVE ~Half(u) /\ ~Half(u)'
      OBVIOUS
    <3>1. ~Half(u) /\ u \in Thread
      BY <1>1, OneHalf DEF Writer, Thread
    <3> QED BY <1>7, <3>1 DEF Half
  <2>6. Half(t) <=> from = "writeB"
    BY <1>1 DEF Half
  <2>7. Half(t)' <=> half = "header"
    BY <1>4, <1>7, <2>1, <2>2 DEF Half
  <2>8. IF Len(srv[p]) % 2 = 0 THEN x.half = "header"
        ELSE x = [half |-> "body", msg |-> srv[p][Len(srv[p])].msg]
    <3>1. Len(srv[p]) % 2 = 1 <=> from = "writeB"
      BY <2>1, <2>5, <2>6 DEF FirstStream
    <3>2. Len(srv[p]) % 2 \in {0, 1}
      BY <2>4, Parity
    <3>3. CASE from = "writeB"
      <4>1. half = "body"
        BY <1>1, <3>3
      <4>2. srv[p][Len(srv[p])].msg = msg[t]
        BY <2>1, <2>6, <3>3 DEF FirstStream
      <4>3. x = [half |-> "body", msg |-> srv[p][Len(srv[p])].msg]
        BY <4>1, <4>2
      <4>4. ~(Len(srv[p]) % 2 = 0)
        BY <2>4, <3>1, <3>3, Parity
      <4> QED BY <4>3, <4>4
    <3>4. CASE from = "writeH"
      BY <1>1, <3>1, <3>2, <3>4
    <3> QED BY <1>1, <3>3, <3>4
  <2> HIDE DEF x
  <2>9. Framed(srv'[p]) /\ Len(srv'[p]) = Len(srv[p]) + 1 /\ srv'[p][Len(srv[p]) + 1] = x
    <3>1. Framed(srv[p])
      BY <2>1 DEF FirstStream
    <3>2. /\ Framed(Append(srv[p], x)) /\ Len(Append(srv[p], x)) = Len(srv[p]) + 1
          /\ Append(srv[p], x)[Len(srv[p]) + 1] = x
      BY <1>3, <2>4, <2>8, <3>1, FramedAppend
    <3> QED BY <2>4, <3>2
  <2>10. Len(srv'[p]) % 2 = 1 <=> half = "header"
    <3>1. Len(srv[p]) % 2 = 1 <=> from = "writeB"
      BY <2>1, <2>5, <2>6 DEF FirstStream
    <3>2. Len(srv'[p]) % 2 = 1 <=> ~(Len(srv[p]) % 2 = 1)
      BY <2>4, <2>9, Parity
    <3> QED BY <1>1, <3>1, <3>2
  <2>11. half = "header" => srv'[p][Len(srv'[p])].msg = msg'[t]
    <3>1. half = "header" => msg' = msg
      BY <1>4, <2>1, <2>2
    <3> QED BY <2>9, <3>1 DEF x
  <2>12. (\E u \in Writer : Half(u)') <=> half = "header"
    BY <2>5, <2>7
  <2>13. FirstStream(p)'
    BY <2>5, <2>7, <2>9, <2>10, <2>11, <2>12 DEF FirstStream
  <2> QED BY <2>3, <2>13
<1> QED BY <1>8, <1>9, <1>10 DEF FirstInv

\* the reconnect thread at work: main's connection is gone
LEMMA FirstGone ==
  ASSUME IndInv, FirstInv, pc["reconnect"] \notin {"off", "idle"},
         \/ UNCHANGED <<link, opener>>
         \/ \E p : opener' = [opener EXCEPT ![p] = "reconnect"] /\ link' = [link EXCEPT ![p] = "up"],
         \A p \in Port : link'[p] = "free" => srv'[p] = <<>>,
         \A t \in Thread : t # "reconnect" => pc'[t] = pc[t]
  PROVE  FirstInv'
<1>1. \A p \in Port : ~First(p)
  BY DEF FirstInv, FirstPort
<1>2. \A p \in Port : ~First(p)'
  BY <1>1 DEF First, IndInv, ConnInv
<1> QED BY <1>2 DEF FirstInv, Thread

LEMMA FirstReconnect ==
  ASSUME IndInv, FirstInv,
         Reconnect \/ ClearRetry \/ Relogin \/ SaveCredentials("reconnect") \/ Sending("reconnect")
  PROVE  FirstInv'
<1> USE DEF connVars, restVars, flagVars
<1>1. pc["reconnect"] \notin {"off", "idle"}
  BY DEF Reconnect, ClearRetry, Relogin, SaveCredentials, Sending, Check, Load, Write, At
<1>2. \A t \in Thread : t # "reconnect" => pc'[t] = pc[t]
  <2>1. pc' = pc \/ \E to : pc' = [pc EXCEPT !["reconnect"] = to]
    BY DEF Reconnect, ClearRetry, Relogin, SaveCredentials, Sending, Check, Load, Write, Goto, Return
  <2> QED BY <2>1 DEF IndInv, ThreadInv
<1>3. CASE Reconnect
  <2>1. /\ srv' = srv
        /\ \/ UNCHANGED <<link, opener>>
           \/ \E p \in Port : /\ opener' = [opener EXCEPT ![p] = "reconnect"]
                              /\ link' = [link EXCEPT ![p] = "up"]
    BY <1>3 DEF Reconnect, Opened, NotOpened
  <2>2. \A p \in Port : link'[p] = "free" => srv'[p] = <<>>
    BY <2>1 DEF FirstInv, IndInv, ConnInv
  <2> QED BY <1>1, <1>2, <2>1, <2>2, FirstGone
<1>4. CASE ClearRetry \/ Relogin \/ SaveCredentials("reconnect") \/ Sending("reconnect")
  <2>1. UNCHANGED <<link, opener>>
    BY <1>4 DEF ClearRetry, Relogin, SaveCredentials, Sending, Check, Load, Write
  <2>2. \/ srv' = srv
        \/ LET h == held["reconnect"]
           IN  link[h] = "up" /\ \E s : srv' = [srv EXCEPT ![h] = s]
    BY <1>4 DEF ClearRetry, Relogin, SaveCredentials, Sending, Check, Load, Write
  <2>3. \A p \in Port : link'[p] = "free" => srv'[p] = <<>>
    BY <2>1, <2>2 DEF FirstInv, IndInv, StreamInv
  <2> QED BY <1>1, <1>2, <2>1, <2>3, FirstGone
<1> QED BY <1>3, <1>4

\* closing the port closes main's connection
LEMMA FirstClose ==
  ASSUME IndInv, FirstInv, CloseTcpConnectedPort,
         pc'["main"] # "connect",
         pc'["video"] # "off" \/ pc'["receive"] # "off" => pc'["main"] \in {"joined", "logout"}
  PROVE  FirstInv'
<1>1. link \in [Port -> {"free", "up", "down"}] /\ srv \in [Port -> Seq(Part(Sent))]
      /\ port \in Port \cup {NoPort} /\ NoPort \notin Port
  BY LaptopAssumption DEF IndInv, ConnInv, StreamInv, FlagInv
<1>2. opener' = opener
  BY DEF CloseTcpConnectedPort
<1>3. CASE port = NoPort
  <2>1. link' = link /\ srv' = srv
    BY <1>3 DEF CloseTcpConnectedPort
  <2>2. \A p \in Port : ~First(p)
    BY <1>1, <1>3 DEF FirstInv, FirstPort
  <2> QED BY <1>2, <2>1, <2>2 DEF FirstInv, First
<1>4. CASE port # NoPort
  <2>1. link' = [link EXCEPT ![port] = "free"] /\ srv' = [srv EXCEPT ![port] = <<>>]
    BY <1>4 DEF CloseTcpConnectedPort
  <2>2. \A p \in Port : First(p)' => First(p) /\ p # port
    BY <1>1, <1>2, <2>1 DEF First
  <2>3. \A p \in Port : ~First(p)'
    BY <2>2 DEF FirstInv, FirstPort
  <2>4. \A p \in Port : link'[p] = "free" => srv'[p] = <<>>
    BY <1>1, <2>1 DEF FirstInv
  <2> QED BY <2>3, <2>4 DEF FirstInv
<1> QED BY <1>3, <1>4

LEMMA FirstRead ==
  ASSUME IndInv, FirstInv, NEW t \in {"main", "receive"}, Receiving(t)
  PROVE  FirstInv'
<1> USE DEF connVars, restVars, flagVars, threadVars
<1>1. t \in Thread /\ t # "reconnect"
  BY DEF Thread
<1>2. CASE Load(t, "loadRH", "readH") \/ Load(t, "loadRB", "readB")
  BY <1>1, <1>2, FirstLoad
<1>3. CASE Misread(t) /\ UNCHANGED threadVars
  BY <1>3, FirstSame DEF Misread
<1>4. CASE \/ ReadCheck(t) \/ ReadHeader(t) \/ (Misread(t) /\ ~UNCHANGED threadVars)
           \/ \E from \in {"readH", "readB", "lost"} : ReadFails(t, from)
  <2>1. UNCHANGED <<port, link, opener, srv>> /\ (Leave(t) \/ UNCHANGED <<msg, held>>)
    BY <1>4 DEF ReadCheck, ReadHeader, Misread, ReadFails, Return, Goto
  <2>2. pc[t] \in {"rcheck", "readH", "readB", "lost"}
    BY <1>4 DEF ReadCheck, ReadHeader, Misread, ReadFails, At
  <2>3. PICK to \in {"retry", "rcheck", "loadRH", "loadRB", "lost"} : pc' = [pc EXCEPT ![t] = to]
    BY <1>4 DEF ReadCheck, ReadHeader, Misread, ReadFails, Return, Goto, AfterRead
  <2>4. to \in Places \ {"connect", "off", "loadWB", "writeH", "writeB"}
    BY DEF Places
  <2> QED BY <1>1, <2>1, <2>2, <2>3, <2>4, LeaveOthers, FirstMove
<1> QED BY <1>2, <1>3, <1>4 DEF Receiving

LEMMA FirstConnects ==
  ASSUME IndInv, FirstInv, networkConnect
  PROVE  FirstInv'
<1>1. /\ pc["main"] = "connect" /\ \A p \in Port : link[p] = "free"
      /\ pc["reconnect"] = "off" /\ pc["video"] = "off" /\ pc["receive"] = "off"
      /\ \A p \in Port : srv[p] = <<>>
  BY DEF networkConnect, At, FirstInv
<1>2. /\ pc'["main"] = "input" /\ pc'["reconnect"] = "off"
      /\ pc'["video"] = "off" /\ pc'["receive"] = "off"
  <2>1. pc' = [pc EXCEPT !["main"] = "input"] /\ pc \in [Thread -> Places]
    BY DEF networkConnect, Goto, IndInv, ThreadInv
  <2> QED BY <1>1, <2>1 DEF Thread
<1>3. srv' = srv
  BY DEF networkConnect, Opened, NotOpened, connVars
<1>4. ASSUME NEW p \in Port, First(p)' PROVE FirstPort(p)' /\ FirstStream(p)'
  <2>1. port' = p
    <3>1. PICK q \in Port : Opened("main", q)
      BY <1>1, <1>4 DEF networkConnect, NotOpened, connVars, First
    <3>2. port' = q /\ link' = [link EXCEPT ![q] = "up"]
      BY <3>1 DEF Opened
    <3> QED BY <1>1, <1>4, <3>2 DEF First, IndInv, ConnInv
  <2>2. FirstPort(p)'
    BY <1>2, <2>1 DEF FirstPort, Writer
  <2>3. srv'[p] = <<>> /\ \A t \in Writer : ~Half(t)'
    BY <1>1, <1>2, <1>3 DEF Half, Writer
  <2>4. Len(srv'[p]) % 2 # 1 /\ Framed(srv'[p])
    <3>1. Len(srv'[p]) = 0
      BY <2>3
    <3> QED BY <3>1 DEF Framed
  <2> QED BY <2>2, <2>3, <2>4 DEF FirstStream
<1> QED BY <1>1, <1>2, <1>3, <1>4 DEF FirstInv

LEMMA FirstMain ==
  ASSUME IndInv, FirstInv, MainNext
  PROVE  FirstInv'
<1> USE DEF connVars, restVars, flagVars, At
<1>1. "main" \in Thread /\ "main" \in Writer
  BY DEF Thread, Writer
<1>2. ASSUME NEW c \in Cred, inputLoginInfo(c) PROVE FirstInv'
  <2>1. /\ UNCHANGED <<port, link, opener, srv, held>> /\ pc["main"] = "input"
        /\ \A t \in Thread : t # "main" => msg'[t] = msg[t]
    BY <1>2 DEF inputLoginInfo, IndInv, ThreadInv
  <2>2. /\ pc'["main"] = "save" /\ pc'["video"] = pc["video"] /\ pc'["receive"] = pc["receive"]
        /\ pc'["reconnect"] = IF pc["reconnect"] = "off" THEN "idle" ELSE pc["reconnect"]
    BY <1>2 DEF inputLoginInfo, IndInv, ThreadInv, Thread
  <2>3. pc["video"] = "off" /\ pc["receive"] = "off"
    BY <2>1 DEF FirstInv
  <2> QED BY <2>1, <2>2, <2>3, FirstQuiet DEF Half, Writer, Thread
<1>3. CASE LoginSucceeds
  <2>1. /\ UNCHANGED <<port, link, opener, srv>> /\ pc["main"] = "readB"
        /\ Leave("main") /\ pc \in [Thread -> Places]
    BY <1>3 DEF LoginSucceeds, WholeBody, IndInv, ThreadInv
  <2>2. /\ pc'["main"] = "joined" /\ pc'["video"] = "watch" /\ pc'["receive"] = "rcheck"
        /\ pc'["reconnect"] = pc["reconnect"]
    BY <1>3, <2>1 DEF LoginSucceeds, Thread
  <2>3. pc["video"] = "off"
    BY <2>1 DEF FirstInv
  <2> QED BY <2>1, <2>2, <2>3, FirstQuiet DEF Half, Writer
<1>4. CASE SaveCredentials("main") \/ LoginDenied \/ Retry
  <2>1. UNCHANGED <<port, link, opener, srv>> /\ (Leave("main") \/ UNCHANGED <<msg, held>>)
    BY <1>4 DEF SaveCredentials, LoginDenied, WholeBody, Retry, Return, Goto
  <2>2. pc["main"] \in {"save", "readB", "retry"}
    BY <1>4 DEF SaveCredentials, LoginDenied, WholeBody, Retry
  <2>3. PICK to \in {"check", "input", "rcheck"} : pc' = [pc EXCEPT !["main"] = to]
    BY <1>4 DEF SaveCredentials, LoginDenied, Retry, Return, Goto
  <2>4. to \in Places \ {"connect", "off", "loadWB", "writeH", "writeB"}
    BY DEF Places
  <2> QED BY <1>1, <2>1, <2>2, <2>3, <2>4, LeaveOthers, FirstMove
<1>5. CASE logout
  <2>1. pc'["main"] = "logout" /\ CloseTcpConnectedPort
    BY <1>1, <1>5 DEF logout, IndInv, ThreadInv
  <2> QED BY <2>1, FirstClose
<1>6. CASE Exit
  BY <1>6, FirstSame DEF Exit, threadVars
<1>7. CASE Sending("main")
  <2>1. CASE Check("main")
    BY <1>1, <2>1, FirstCheck
  <2>2. CASE Load("main", "loadWH", "writeH") \/ Load("main", "loadWB", "writeB")
    BY <1>1, <2>2, FirstLoad
  <2>3. CASE Write("main", "writeH", "header") \/ Write("main", "writeB", "body")
    BY <1>1, <2>3, FirstWrite
  <2> QED BY <1>7, <2>1, <2>2, <2>3 DEF Sending
<1> QED BY <1>2, <1>3, <1>4, <1>5, <1>6, <1>7, FirstConnects, FirstRead DEF MainNext

LEMMA FirstVideo ==
  ASSUME IndInv, FirstInv, VideoNext
  PROVE  FirstInv'
<1> USE DEF connVars, restVars, flagVars, At
<1>1. "video" \in Thread /\ "video" \in Writer /\ "video" # "reconnect"
  BY DEF Thread, Writer
<1>2. ASSUME NEW l \in Plate, sendRecognizedInfo(l) PROVE FirstInv'
  <2>1. /\ UNCHANGED <<port, link, opener, srv>> /\ pc["video"] = "watch"
        /\ pc' = [pc EXCEPT !["video"] = "check"]
        /\ \A u \in Thread : u # "video" => msg'[u] = msg[u] /\ held'[u] = held[u]
    BY <1>2 DEF sendRecognizedInfo, IndInv, ThreadInv
  <2>2. "check" \in Places \ {"connect", "off", "loadWB", "writeH", "writeB"}
    BY DEF Places
  <2> QED BY <1>1, <2>1, <2>2, FirstMove
<1>3. CASE Sending("video")
  <2>1. CASE Check("video")
    BY <1>1, <2>1, FirstCheck
  <2>2. CASE Load("video", "loadWH", "writeH") \/ Load("video", "loadWB", "writeB")
    BY <1>1, <2>2, FirstLoad
  <2>3. CASE Write("video", "writeH", "header") \/ Write("video", "writeB", "body")
    BY <1>1, <2>3, FirstWrite
  <2> QED BY <1>3, <2>1, <2>2, <2>3 DEF Sending
<1> QED BY <1>2, <1>3 DEF VideoNext

LEMMA FirstReceive ==
  ASSUME IndInv, FirstInv, ReceiveNext
  PROVE  FirstInv'
<1> USE DEF connVars, restVars, flagVars, At
<1>1. CASE Ignore \/ Answer
  <2>1. /\ UNCHANGED <<port, link, opener, srv>> /\ pc["receive"] = "readB"
        /\ pc' = [pc EXCEPT !["receive"] = "rcheck"] /\ Leave("receive")
    BY <1>1 DEF Ignore, Answer, WholeBody, Return
  <2>2. "receive" \in Thread /\ "rcheck" \in Places \ {"connect", "off", "loadWB", "writeH", "writeB"}
    BY DEF Places, Thread
  <2> QED BY <2>1, <2>2, LeaveOthers, FirstMove
<1> QED BY <1>1, FirstRead DEF ReceiveNext

\* the server takes a length and its text
LEMMA FirstServer ==
  ASSUME IndInv, FirstInv, NEW p \in Port,
         UNCHANGED <<pc, msg, held, port, link, opener>>,
         srv' = srv \/ (link[p] = "up" /\ Len(srv[p]) >= 2 /\ Take(p))
  PROVE  FirstInv'
<1>1. CASE srv' = srv
  BY <1>1, FirstSame
<1>2. CASE link[p] = "up" /\ Len(srv[p]) >= 2 /\ Take(p)
  <2>1. /\ srv \in [Port -> Seq(Part(Sent))] /\ srv[p] \in Seq(Part(Sent))
        /\ srv' = [srv EXCEPT ![p] = SubSeq(srv[p], 3, Len(srv[p]))]
    BY <1>2 DEF IndInv, StreamInv, Take
  <2>2. /\ srv'[p] = SubSeq(srv[p], 3, Len(srv[p]))
        /\ \A q \in Port : q # p => srv'[q] = srv[q]
    BY <2>1
  <2>3. \A q \in Port : link'[q] = "free" => srv'[q] = <<>>
    BY <1>2, <2>2 DEF FirstInv
  <2>4. ASSUME NEW q \in Port, First(q)' PROVE FirstPort(q)' /\ FirstStream(q)'
    <3>1. First(q) /\ FirstPort(q) /\ FirstStream(q)
      BY <2>4 DEF First, FirstInv
    <3>2. FirstPort(q)'
      BY <3>1 DEF FirstPort
    <3>3. CASE q # p
      BY <2>2, <3>1, <3>2, <3>3 DEF FirstStream, Half
    <3>4. CASE q = p
      <4>1. Framed(srv[p])
        BY <3>1, <3>4 DEF FirstStream
      <4>2. /\ Framed(srv'[p]) /\ Len(srv'[p]) % 2 = Len(srv[p]) % 2
            /\ Len(srv[p]) % 2 = 1 => srv'[p][Len(srv'[p])] = srv[p][Len(srv[p])]
        BY <1>2, <2>1, <2>2, <4>1, FramedTake
      <4>3. \A t \in Writer : Half(t) => srv'[p][Len(srv'[p])].msg = msg[t]
        BY <3>1, <3>4, <4>2 DEF FirstStream
      <4>4. Len(srv'[p]) % 2 = 1 <=> \E t \in Writer : Half(t)
        BY <3>1, <3>4, <4>2 DEF FirstStream
      <4>5. FirstStream(p)'
        BY <4>2, <4>3, <4>4 DEF FirstStream, Half
      <4> QED BY <3>2, <3>4, <4>5
    <3> QED BY <3>3, <3>4
  <2> QED BY <2>3, <2>4 DEF FirstInv
<1> QED BY <1>1, <1>2

LEMMA FirstFault ==
  ASSUME IndInv, FirstInv, NEW p \in Port, ServerEnds(p) \/ LoseConnection(p)
  PROVE  FirstInv'
<1>1. UNCHANGED <<pc, msg, held, port, opener, srv>>
  BY DEF ServerEnds, LoseConnection, laptopVars, threadVars, flagVars
<1>2. /\ \A q \in Port : link'[q] = "free" <=> link[q] = "free"
      /\ \A q \in Port : First(q)' => First(q)
  BY <1>1 DEF ServerEnds, LoseConnection, First, IndInv, ConnInv
<1> QED BY <1>1, <1>2 DEF FirstInv, FirstPort, FirstStream, Half

LEMMA NextFirst == IndInv /\ FirstInv /\ [Next]_vars => FirstInv'
<1> SUFFICES ASSUME IndInv, FirstInv, [Next]_vars PROVE FirstInv'
  OBVIOUS
<1>1. CASE ReconnectNext
  <2>1. CASE retryNetworkConnect
    <3>1. /\ CloseTcpConnectedPort /\ pc["reconnect"] = "idle"
          /\ pc' = [pc EXCEPT !["reconnect"] = "connect"]
      BY <2>1 DEF retryNetworkConnect, At, Goto
    <3>2. \A t \in Thread : t # "reconnect" => pc'[t] = pc[t]
      BY <3>1 DEF IndInv, ThreadInv
    <3> QED BY <3>1, <3>2, FirstClose DEF Thread, FirstInv
  <2> QED BY <1>1, <2>1, FirstReconnect DEF ReconnectNext
<1>2. ASSUME NEW p \in Port, ServerNext(p) \/ LoseConnection(p) PROVE FirstInv'
  <2>1. CASE ServerEnds(p) \/ LoseConnection(p)
    BY <2>1, FirstFault
  <2>2. CASE \/ ServerReadsLogin(p) \/ (\E c \in Cred : ServerAnswersLogin(p, c))
             \/ \E l \in Plate : ServerAnswersQuery(p, l)
    <3>1. UNCHANGED <<pc, msg, held, port, link, opener>>
      BY <2>2 DEF ServerReadsLogin, ServerAnswersLogin, ServerAnswersQuery, laptopVars, threadVars,
         flagVars
    <3>2. srv' = srv \/ (link[p] = "up" /\ Len(srv[p]) >= 2 /\ Take(p))
      BY <2>2 DEF ServerReadsLogin, ServerAnswersLogin, ServerAnswersQuery, Whole
    <3> QED BY <3>1, <3>2, FirstServer
  <2> QED BY <1>2, <2>1, <2>2 DEF ServerNext
<1>3. CASE UNCHANGED vars
  BY <1>3, FirstSame DEF vars, threadVars, flagVars, restVars, connVars
<1> QED BY <1>1, <1>2, <1>3, FirstMain, FirstVideo, FirstReceive DEF Next

(***************************************************************************)
(* The connection main opened carries whole messages only, for any number  *)
(* of plates, losses and addresses, although main and the video thread     *)
(* write length and text in two calls and take no lock.                    *)
(***************************************************************************)
THEOREM FirstConnectionFramed == Spec => []FirstConnectionWhole
<1>1. Init => FirstInv
  BY DEF Init, FirstInv, First, Thread
<1>2. FirstInv => FirstConnectionWhole
  BY DEF FirstInv, First, FirstStream, FirstConnectionWhole
<1> QED BY <1>1, <1>2, NextFirst, IndInvariant, PTL DEF Spec

-----------------------------------------------------------------------------
(***************************************************************************)
(* The current connection.  At most one address has a connection, and that *)
(* is the port; what was closed holds nothing; a response that grants a    *)
(* login is on a connection that has a session.                            *)
(***************************************************************************)
Closed(p) == srv[p] = <<>> /\ auth[p] = {} /\ resp[p] = <<>> /\ ~logged[p]

LiveInv ==
  /\ \A p \in Port : link[p] # "free" => port = p
  /\ \A p \in Port : link[p] = "free" => Closed(p)
  /\ pc["reconnect"] = "connect" => \A p \in Port : link[p] = "free"

\* the responses of a connection end with a whole one
RespInv ==
  \A p \in Port : \A i \in 1..Len(resp[p]) :
    /\ resp[p][i].half = "header" <=> (Len(resp[p]) - i) % 2 = 1
    /\ resp[p][i].msg.kind = "granted" => logged[p]

\* until the receive thread starts only main can be between length and text
AtText(p) == pc["main"] \in {"loadRB", "readB", "lost"} /\ held["main"] = p

EvenInv ==
  pc["receive"] = "off" =>
    \A p \in Port : link[p] = "up" => AtText(p) \/ Len(resp[p]) % 2 = 0

(***************************************************************************)
(* The port is replaced, or it will be: saveRetry is read by the reconnect *)
(* thread, which then closes, connects and logs in again.                  *)
(***************************************************************************)
Repairing == \/ saveRetry \/ port = NoPort \/ link[port] # "up"
             \/ pc["reconnect"] \in {"connect", "clear", "relogin"}
Resending == pc["reconnect"] \in {"save", "check", "loadWH", "writeH", "loadWB", "writeB"}

Promised(p) == \/ logged[p] \/ "right" \in auth[p]
               \/ \E i \in 1..Len(srv[p]) : srv[p][i].msg = Login("right")
Underway(p) == srv[p] # <<>> \/ auth[p] # {} \/ resp[p] # <<>>

Waits == {"rcheck", "loadRH", "readH", "retry"}

CredInv == pc["main"] \notin {"connect", "input", "save"} => creds # NoCred

AwaitInv == pc["main"] \in Waits => Repairing \/ Resending \/ Underway(port)

SessionInv ==
  pc["main"] = "joined" /\ creds = "right" =>
    \/ Repairing \/ Promised(port)
    \/ Resending /\ msg["reconnect"] = Login("right")

\* the steps that leave the port alone, and what is not up
SameConn(p) == /\ srv'[p] = srv[p] /\ auth'[p] = auth[p]
               /\ logged'[p] = logged[p] /\ resp'[p] = resp[p]
Steady == /\ port' = port /\ (saveRetry => saveRetry')
          /\ \A p \in Port : /\ link'[p] = "free" <=> link[p] = "free"
                             /\ link'[p] = "up" => link[p] = "up"
                             /\ link[p] # "up" => SameConn(p)
ReconnectKept == /\ msg'["reconnect"] = msg["reconnect"]
                 /\ \/ pc'["reconnect"] = pc["reconnect"]
                    \/ pc["reconnect"] = "off" /\ pc'["reconnect"] = "idle"

LEMMA SteadyIfSame ==
  ASSUME IndInv, UNCHANGED <<port, link, srv, auth, logged, resp>>, saveRetry => saveRetry'
  PROVE  Steady
  BY DEF Steady, SameConn

\* a step of another thread
LEMMA OtherKept ==
  ASSUME IndInv, NEW t \in Thread \ {"reconnect"},
         pc' = pc \/ \E to : pc' = [pc EXCEPT ![t] = to],
         msg' = msg \/ \E m : msg' = [msg EXCEPT ![t] = m]
  PROVE  ReconnectKept
<1>1. pc \in [Thread -> Places] /\ DOMAIN msg = Thread /\ "reconnect" \in Thread /\ t # "reconnect"
  BY DEF IndInv, ThreadInv, Thread
<1>2. pc'["reconnect"] = pc["reconnect"]
  BY <1>1
<1>3. msg'["reconnect"] = msg["reconnect"]
  BY <1>1
<1> QED BY <1>2, <1>3 DEF ReconnectKept

LEMMA SendingSteady ==
  ASSUME IndInv, NEW t \in {"main", "reconnect", "video"}, Sending(t)
  PROVE  Steady /\ (t # "reconnect" => ReconnectKept)
<1> USE DEF restVars, connVars, flagVars
<1>1. t \in Thread /\ held \in [Thread -> Port \cup {NoPort}]
  BY DEF Thread, IndInv, ThreadInv
<1>2. /\ pc' = pc \/ \E to : pc' = [pc EXCEPT ![t] = to]
      /\ msg' = msg \/ \E m : msg' = [msg EXCEPT ![t] = m]
  BY DEF Sending, Check, Load, Write, Goto, Return, Leave
<1>3. t # "reconnect" => ReconnectKept
  BY <1>1, <1>2, OtherKept
<1>4. Steady
  <2>1. CASE Check(t) \/ Load(t, "loadWH", "writeH") \/ Load(t, "loadWB", "writeB")
    BY <2>1, SteadyIfSame DEF Check, Load
  <2>2. ASSUME NEW from \in {"writeH", "writeB"}, NEW half, Write(t, from, half)
        PROVE  Steady
    <3>1. /\ UNCHANGED <<port, link, auth, logged, resp>> /\ (saveRetry => saveRetry')
          /\ srv' = srv \/ (link[held[t]] = "up" /\ \E s : srv' = [srv EXCEPT ![held[t]] = s])
      BY <2>2 DEF Write
    <3>2. \A p \in Port : link[p] # "up" => srv'[p] = srv[p]
      BY <3>1 DEF IndInv, StreamInv
    <3> QED BY <3>1, <3>2 DEF Steady, SameConn
  <2> QED BY <2>1, <2>2 DEF Sending
<1> QED BY <1>3, <1>4

LEMMA ReadingSteady ==
  ASSUME IndInv, NEW t \in {"main", "receive"},
         Receiving(t) \/ \E kind : WholeBody(t, kind)
  PROVE  Steady
<1> USE DEF restVars, connVars, flagVars
<1>1. /\ UNCHANGED <<port, link, srv, auth, logged>> /\ (saveRetry => saveRetry')
      /\ resp' = resp \/ (link[held[t]] = "up" /\ \E s : resp' = [resp EXCEPT ![held[t]] = s])
  BY DEF Receiving, ReadCheck, ReadFails, Load, ReadHeader, Misread, WholeBody, Arrived, Consume
<1>2. \A p \in Port : link[p] # "up" => resp'[p] = resp[p]
  BY <1>1 DEF IndInv, StreamInv
<1> QED BY <1>1, <1>2 DEF Steady, SameConn

LEMMA ServerSteady ==
  ASSUME IndInv, NEW p \in Port, ServerNext(p) \/ LoseConnection(p)
  PROVE  Steady /\ ReconnectKept
<1> USE DEF laptopVars, threadVars, flagVars
<1>1. UNCHANGED <<pc, msg, port, saveRetry>>
  BY DEF ServerNext, ServerReadsLogin, ServerAnswersLogin, ServerAnswersQuery, ServerEnds,
     LoseConnection
<1>2. CASE ServerEnds(p) \/ LoseConnection(p)
  <2>1. \A q \in Port : /\ link'[q] = "free" <=> link[q] = "free"
                        /\ link'[q] = "up" => link[q] = "up"
    BY <1>2 DEF ServerEnds, LoseConnection, IndInv, ConnInv
  <2>2. UNCHANGED <<srv, auth, logged, resp>>
    BY <1>2 DEF ServerEnds, LoseConnection
  <2> QED BY <1>1, <2>1, <2>2 DEF Steady, SameConn, ReconnectKept
<1>3. CASE \/ ServerReadsLogin(p) \/ (\E c \in Cred : ServerAnswersLogin(p, c))
           \/ \E l \in Plate : ServerAnswersQuery(p, l)
  <2>1. /\ link' = link /\ link[p] = "up"
        /\ srv' = srv \/ \E s : srv' = [srv EXCEPT ![p] = s]
        /\ auth' = auth \/ \E s : auth' = [auth EXCEPT ![p] = s]
        /\ logged' = logged \/ \E s : logged' = [logged EXCEPT ![p] = s]
        /\ resp' = resp \/ \E s : resp' = [resp EXCEPT ![p] = s]
    BY <1>3 DEF ServerReadsLogin, ServerAnswersLogin, ServerAnswersQuery, Take
  <2>2. \A q \in Port : link[q] # "up" => SameConn(q)
    BY <2>1 DEF SameConn, IndInv, StreamInv, ConnInv
  <2> QED BY <1>1, <2>1, <2>2 DEF Steady, ReconnectKept
<1> QED BY <1>2, <1>3 DEF ServerNext

LEMMA StepCases ==
  ASSUME IndInv, [Next]_vars
  PROVE  \/ Steady /\ ReconnectKept
         \/ Steady /\ (Relogin \/ SaveCredentials("reconnect") \/ Sending("reconnect"))
         \/ ClearRetry
         \/ CloseTcpConnectedPort /\ (retryNetworkConnect \/ logout)
         \/ Reconnect \/ networkConnect
<1> USE DEF restVars, connVars, flagVars
<1>1. CASE MainNext
  <2>1. CASE Sending("main")
    BY <2>1, SendingSteady
  <2>2. CASE Receiving("main") \/ LoginSucceeds \/ LoginDenied
    <3>1. Steady
      BY <2>2, ReadingSteady DEF LoginSucceeds, LoginDenied
    <3>2. CASE LoginSucceeds
      BY <3>1, <3>2 DEF LoginSucceeds, Leave, ReconnectKept, IndInv, ThreadInv, Thread
    <3>3. CASE Receiving("main") \/ LoginDenied
      <4>1. /\ pc' = pc \/ \E to : pc' = [pc EXCEPT !["main"] = to]
            /\ msg' = msg \/ \E m : msg' = [msg EXCEPT !["main"] = m]
        BY <3>3 DEF Receiving, ReadCheck, ReadFails, Load, ReadHeader, Misread, LoginDenied,
           Goto, Return, Leave, threadVars
      <4> QED BY <3>1, <4>1, OtherKept DEF Thread
    <3> QED BY <2>2, <3>2, <3>3
  <2>3. CASE \/ (\E c \in Cred : inputLoginInfo(c)) \/ SaveCredentials("main")
             \/ Retry \/ Exit
    <3>1. Steady
      BY <2>3, SteadyIfSame DEF inputLoginInfo, SaveCredentials, Retry, Exit
    <3>2. CASE \E c \in Cred : inputLoginInfo(c)
      BY <3>1, <3>2 DEF inputLoginInfo, ReconnectKept, IndInv, ThreadInv, Thread
    <3>3. CASE SaveCredentials("main") \/ Retry \/ Exit
      <4>1. /\ pc' = pc \/ \E to : pc' = [pc EXCEPT !["main"] = to]
            /\ msg' = msg
        BY <3>3 DEF SaveCredentials, Retry, Exit, Goto, threadVars
      <4> QED BY <3>1, <4>1, OtherKept DEF Thread
    <3> QED BY <2>3, <3>2, <3>3
  <2> QED BY <1>1, <2>1, <2>2, <2>3 DEF MainNext, logout
<1>2. CASE ReconnectNext
  <2>1. Relogin \/ SaveCredentials("reconnect") => Steady
    BY SteadyIfSame DEF Relogin, SaveCredentials
  <2> QED BY <1>2, <2>1, SendingSteady DEF ReconnectNext, retryNetworkConnect
<1>3. CASE VideoNext
  <2>1. ASSUME NEW l \in Plate, sendRecognizedInfo(l) PROVE Steady /\ ReconnectKept
    <3>1. Steady
      BY <2>1, SteadyIfSame DEF sendRecognizedInfo
    <3>2. /\ \E to : pc' = [pc EXCEPT !["video"] = to]
          /\ \E m : msg' = [msg EXCEPT !["video"] = m]
      BY <2>1 DEF sendRecognizedInfo
    <3> QED BY <3>1, <3>2, OtherKept DEF Thread
  <2> QED BY <1>3, <2>1, SendingSteady DEF VideoNext
<1>4. CASE ReceiveNext
  <2>1. Steady
    BY <1>4, ReadingSteady DEF ReceiveNext, Ignore, Answer
  <2>2. /\ pc' = pc \/ \E to : pc' = [pc EXCEPT !["receive"] = to]
        /\ msg' = msg \/ \E m : msg' = [msg EXCEPT !["receive"] = m]
    BY <1>4 DEF ReceiveNext, Ignore, Answer, Receiving, ReadCheck, ReadFails, Load, ReadHeader,
       Misread, Goto, Return, Leave, threadVars
  <2> QED BY <2>1, <2>2, OtherKept DEF Thread
<1>5. CASE \E p \in Port : ServerNext(p) \/ LoseConnection(p)
  BY <1>5, ServerSteady
<1>6. CASE UNCHANGED vars
  <2>1. UNCHANGED <<pc, msg, port, link, srv, auth, logged, resp, saveRetry>>
    BY <1>6 DEF vars, threadVars
  <2> QED BY <2>1, SteadyIfSame DEF ReconnectKept
<1> QED BY <1>1, <1>2, <1>3, <1>4, <1>5, <1>6 DEF Next

LEMMA NextLive == IndInv /\ FirstInv /\ LiveInv /\ [Next]_vars => LiveInv'
<1> SUFFICES ASSUME IndInv, FirstInv, LiveInv, [Next]_vars PROVE LiveInv'
  OBVIOUS
<1> USE DEF restVars, connVars, flagVars
<1>0. /\ pc \in [Thread -> Places] /\ "reconnect" \in Thread /\ "main" \in Thread
      /\ link \in [Port -> {"free", "up", "down"}]
      /\ srv \in [Port -> Seq(Part(Sent))] /\ resp \in [Port -> Seq(Part(Given))]
      /\ auth \in [Port -> SUBSET Cred] /\ logged \in [Port -> BOOLEAN]
      /\ port \in Port \cup {NoPort} /\ NoPort \notin Port
  BY LaptopAssumption DEF IndInv, ThreadInv, ConnInv, StreamInv, FlagInv, Thread
<1>1. ASSUME Steady, pc'["reconnect"] = "connect" => pc["reconnect"] = "connect"
      PROVE  LiveInv'
  BY <1>1 DEF LiveInv, Steady, SameConn, Closed
<1>2. CASE Steady /\ ReconnectKept
  BY <1>1, <1>2 DEF ReconnectKept
<1>3. CASE Steady /\ (Relogin \/ SaveCredentials("reconnect") \/ Sending("reconnect"))
  <2>1. pc'["reconnect"] = "connect" => pc["reconnect"] = "connect"
    BY <1>0, <1>3 DEF Relogin, SaveCredentials, Sending, Check, Load, Write, Goto, Return, AfterSend
  <2> QED BY <1>1, <1>3, <2>1
<1>4. CASE ClearRetry
  <2>1. UNCHANGED <<port, link, srv, auth, logged, resp>> /\ pc'["reconnect"] = "relogin"
    BY <1>0, <1>4 DEF ClearRetry, Goto
  <2> QED BY <2>1 DEF LiveInv, Closed
<1>5. CASE CloseTcpConnectedPort
  <2>1. CASE port = NoPort
    <3>1. UNCHANGED <<link, srv, auth, logged, resp>>
      BY <1>5, <2>1 DEF CloseTcpConnectedPort
    <3>2. \A p \in Port : link[p] = "free"
      BY <1>0, <2>1 DEF LiveInv
    <3> QED BY <3>1, <3>2 DEF LiveInv, Closed
  <2>2. CASE port # NoPort
    <3>1. /\ link' = [link EXCEPT ![port] = "free"] /\ srv' = [srv EXCEPT ![port] = <<>>]
          /\ resp' = [resp EXCEPT ![port] = <<>>] /\ auth' = [auth EXCEPT ![port] = {}]
          /\ logged' = [logged EXCEPT ![port] = FALSE]
      BY <1>5, <2>2 DEF CloseTcpConnectedPort
    <3>2. \A p \in Port : p # port => link[p] = "free"
      BY DEF LiveInv
    <3>3. \A p \in Port : link'[p] = "free"
      BY <1>0, <3>1, <3>2
    <3>4. \A p \in Port : Closed(p)'
      BY <1>0, <3>1, <3>2 DEF LiveInv, Closed
    <3> QED BY <3>3, <3>4 DEF LiveInv
  <2> QED BY <2>1, <2>2
<1>6. CASE Reconnect \/ networkConnect
  <2>1. \A p \in Port : link[p] = "free" /\ Closed(p)
    BY <1>6 DEF Reconnect, networkConnect, At, LiveInv, FirstInv
  <2>2. UNCHANGED <<srv, auth, logged, resp>> /\ pc'["reconnect"] # "connect"
    <3>1. UNCHANGED <<srv, auth, logged, resp>>
      BY <1>6 DEF Reconnect, networkConnect, Opened, NotOpened
    <3>2. CASE Reconnect
      BY <1>0, <3>1, <3>2 DEF Reconnect, Goto
    <3>3. CASE networkConnect
      BY <1>0, <3>1, <3>3 DEF networkConnect, Goto, At, FirstInv
    <3> QED BY <1>6, <3>1, <3>2, <3>3
  <2>3. link' = link \/ \E p \in Port : link' = [link EXCEPT ![p] = "up"] /\ port' = p
    BY <1>6 DEF Reconnect, networkConnect, Opened, NotOpened
  <2> QED BY <1>0, <2>1, <2>2, <2>3 DEF LiveInv, Closed
<1> QED BY <1>2, <1>3, <1>4, <1>5, <1>6, StepCases

(***************************************************************************)
(* What a step does to the responses of one connection.                    *)
(***************************************************************************)
LEMMA BothElements ==
  ASSUME NEW S, NEW s \in Seq(S), NEW r
  PROVE  LET t == s \o Both(r)
         IN  /\ Len(s) \in Nat /\ Len(t) = Len(s) + 2 /\ t # <<>>
             /\ \A i \in 1..Len(s) : t[i] = s[i]
             /\ t[Len(s) + 1] = [half |-> "header", msg |-> r]
             /\ t[Len(s) + 2] = [half |-> "body", msg |-> r]
<1> DEFINE b == Both(r)
           T == S \cup {[half |-> "header", msg |-> r], [half |-> "body", msg |-> r]}
<1>1. /\ b \in Seq(T) /\ Len(b) = 2
      /\ b[1] = [half |-> "header", msg |-> r] /\ b[2] = [half |-> "body", msg |-> r]
  BY DEF Both
<1>2. s \in Seq(T) /\ Len(s) \in Nat
  BY SeqGrows
<1> HIDE DEF b, T
<1>3. /\ Len(s \o b) = Len(s) + Len(b)
      /\ \A i \in 1..(Len(s) + Len(b)) : (s \o b)[i] = IF i <= Len(s) THEN s[i] ELSE b[i - Len(s)]
  BY <1>1, <1>2, ConcatProperties
<1>4. Len(s \o b) = Len(s) + 2
  BY <1>1, <1>3
<1>5. \A i \in 1..Len(s) : (s \o b)[i] = s[i]
  BY <1>1, <1>2, <1>3
<1>6. (s \o b)[Len(s) + 1] = b[1] /\ (s \o b)[Len(s) + 2] = b[2]
  BY <1>1, <1>2, <1>3
<1>7. s \o b # <<>>
  <2>1. Len(<<>>) = 0
    OBVIOUS
  <2> QED BY <1>2, <1>4, <2>1
<1> QED BY <1>1, <1>2, <1>4, <1>5, <1>6, <1>7 DEF b

LEMMA TailElements ==
  ASSUME NEW S, NEW s \in Seq(S), s # <<>>
  PROVE  /\ Len(s) \in Nat \ {0} /\ Len(Tail(s)) = Len(s) - 1
         /\ \A i \in 1..(Len(s) - 1) : Tail(s)[i] = s[i + 1]
         /\ Head(s) = s[1]
  BY HeadTailProperties

\* t takes what is at the front of connection p
Reads(t, p) ==
  /\ held[t] = p /\ link[p] = "up" /\ resp[p] # <<>>
  /\ resp'[p] = Tail(resp[p]) /\ logged'[p] = logged[p]
  /\ ReadHeader(t) \/ Misread(t) \/ \E kind : WholeBody(t, kind)
Answers(p) ==
  \E r : /\ resp'[p] = resp[p] \o Both(r) /\ (logged[p] => logged'[p])
         /\ r.kind = "granted" => logged'[p]

LEMMA ReadStep ==
  ASSUME IndInv, NEW t \in {"main", "receive"}, NEW p \in Port,
         Receiving(t) \/ \E kind : WholeBody(t, kind)
  PROVE  (resp'[p] = resp[p] /\ logged'[p] = logged[p]) \/ Reads(t, p)
<1> USE DEF restVars, connVars
<1>1. CASE ReadHeader(t) \/ Misread(t) \/ \E kind : WholeBody(t, kind)
  <2>1. /\ Arrived(t) /\ Consume(t) /\ logged' = logged
        /\ pc[t] \in {"readH", "readB", "lost"} /\ t \in Thread
    BY <1>1 DEF ReadHeader, Misread, WholeBody, At, Thread
  <2>2. held[t] \in Port /\ resp \in [Port -> Seq(Part(Given))]
    BY <2>1 DEF IndInv, ThreadInv, StreamInv
  <2>3. CASE held[t] = p
    BY <1>1, <2>1, <2>2, <2>3 DEF Reads, Arrived, Consume
  <2>4. CASE held[t] # p
    BY <2>1, <2>2, <2>4 DEF Consume
  <2> QED BY <2>3, <2>4
<1>2. CASE ~(ReadHeader(t) \/ Misread(t) \/ \E kind : WholeBody(t, kind))
  BY <1>2 DEF Receiving, ReadCheck, Load, ReadFails
<1> QED BY <1>1, <1>2

LEMMA RespStep ==
  ASSUME IndInv, [Next]_vars, NEW p \in Port
  PROVE  \/ resp'[p] = resp[p] /\ logged'[p] = logged[p]
         \/ port' = NoPort /\ resp'[p] = <<>> /\ logged'[p] = FALSE
         \/ (\E t \in {"main", "receive"} : Reads(t, p))
         \/ Answers(p)
<1> USE DEF restVars, connVars
<1>1. CASE MainNext
  <2>1. CASE Receiving("main") \/ LoginSucceeds \/ LoginDenied
    BY <2>1, ReadStep DEF LoginSucceeds, LoginDenied
  <2>2. CASE logout
    <3>1. CloseTcpConnectedPort /\ resp \in [Port -> Seq(Part(Given))] /\ logged \in [Port -> BOOLEAN]
      BY <2>2 DEF logout, IndInv, StreamInv, ConnInv
    <3> QED BY <3>1 DEF CloseTcpConnectedPort
  <2>3. CASE ~(Receiving("main") \/ LoginSucceeds \/ LoginDenied \/ logout)
    BY <1>1, <2>3 DEF MainNext, networkConnect, inputLoginInfo, SaveCredentials, Sending, Check,
       Load, Write, Retry, Exit, Opened, NotOpened
  <2> QED BY <2>1, <2>2, <2>3
<1>2. CASE ReconnectNext
  <2>1. CASE retryNetworkConnect
    <3>1. CloseTcpConnectedPort /\ resp \in [Port -> Seq(Part(Given))] /\ logged \in [Port -> BOOLEAN]
      BY <2>1 DEF retryNetworkConnect, IndInv, StreamInv, ConnInv
    <3> QED BY <3>1 DEF CloseTcpConnectedPort
  <2>2. CASE ~retryNetworkConnect
    BY <1>2, <2>2 DEF ReconnectNext, Reconnect, ClearRetry, Relogin, SaveCredentials, Sending, Check,
       Load, Write, Opened, NotOpened
  <2> QED BY <2>1, <2>2
<1>3. CASE VideoNext
  BY <1>3 DEF VideoNext, sendRecognizedInfo, Sending, Check, Load, Write
<1>4. CASE ReceiveNext
  BY <1>4, ReadStep DEF ReceiveNext, Ignore, Answer
<1>5. ASSUME NEW q \in Port, ServerNext(q) \/ LoseConnection(q)
      PROVE  (resp'[p] = resp[p] /\ logged'[p] = logged[p]) \/ Answers(p)
  <2>1. CASE ServerReadsLogin(q) \/ ServerEnds(q) \/ LoseConnection(q)
    BY <2>1 DEF ServerReadsLogin, ServerEnds, LoseConnection
  <2>2. ASSUME NEW c \in Cred, ServerAnswersLogin(q, c)
        PROVE  (resp'[p] = resp[p] /\ logged'[p] = logged[p]) \/ Answers(p)
    <3>1. PICK r : /\ r.kind = "granted" => c = "right"
                   /\ resp' = [resp EXCEPT ![q] = @ \o Both(r)]
      BY <2>2 DEF ServerAnswersLogin
    <3>2. logged' = [logged EXCEPT ![q] = logged[q] \/ c = "right"]
      BY <2>2 DEF ServerAnswersLogin, Session
    <3>3. resp \in [Port -> Seq(Part(Given))] /\ logged \in [Port -> BOOLEAN]
      BY DEF IndInv, StreamInv, ConnInv
    <3> QED BY <3>1, <3>2, <3>3 DEF Answers
  <2>3. ASSUME NEW l \in Plate, ServerAnswersQuery(q, l)
        PROVE  (resp'[p] = resp[p] /\ logged'[p] = logged[p]) \/ Answers(p)
    <3>1. PICK r : r.kind # "granted" /\ resp' = [resp EXCEPT ![q] = @ \o Both(r)]
      <4>1. resp' = [resp EXCEPT ![q] = @ \o Both([kind |-> IF logged[q] THEN "answer" ELSE "refusal", key |-> l])]
        BY <2>3 DEF ServerAnswersQuery
      <4>2. [kind |-> IF logged[q] THEN "answer" ELSE "refusal", key |-> l].kind # "granted"
        OBVIOUS
      <4> QED BY <4>1, <4>2
    <3>2. logged' = logged /\ resp \in [Port -> Seq(Part(Given))]
      BY <2>3 DEF ServerAnswersQuery, IndInv, StreamInv
    <3> QED BY <3>1, <3>2 DEF Answers
  <2> QED BY <1>5, <2>1, <2>2, <2>3 DEF ServerNext
<1>6. CASE UNCHANGED vars
  BY <1>6 DEF vars
<1> QED BY <1>1, <1>2, <1>3, <1>4, <1>5, <1>6 DEF Next

LEMMA NextResp == IndInv /\ RespInv /\ [Next]_vars => RespInv'
<1> SUFFICES ASSUME IndInv, RespInv, [Next]_vars,
                    NEW p \in Port, NEW i \in 1..Len(resp'[p])
             PROVE  /\ resp'[p][i].half = "header" <=> (Len(resp'[p]) - i) % 2 = 1
                    /\ resp'[p][i].msg.kind = "granted" => logged'[p]
  BY DEF RespInv
<1> DEFINE s == resp[p]
<1>1. s \in Seq(Part(Given)) /\ Len(s) \in Nat
  BY DEF IndInv, StreamInv
<1>2. \A k \in 1..Len(s) : /\ s[k].half = "header" <=> (Len(s) - k) % 2 = 1
                           /\ s[k].msg.kind = "granted" => logged[p]
  BY DEF RespInv
<1>3. CASE resp'[p] = resp[p] /\ logged'[p] = logged[p]
  BY <1>2, <1>3
<1>4. CASE resp'[p] = <<>>
  BY <1>4
<1>5. CASE \E t \in {"main", "receive"} : Reads(t, p)
  <2>1. s # <<>> /\ resp'[p] = Tail(s) /\ logged'[p] = logged[p]
    BY <1>5 DEF Reads
  <2> HIDE DEF s
  <2>2. /\ Len(resp'[p]) = Len(s) - 1 /\ resp'[p][i] = s[i + 1]
        /\ i \in 1..(Len(s) - 1) /\ Len(s) \in Nat \ {0}
    BY <1>1, <2>1, TailElements
  <2>3. i + 1 \in 1..Len(s) /\ Len(resp'[p]) - i = Len(s) - (i + 1)
    BY <2>2
  <2> QED BY <1>2, <2>1, <2>2, <2>3
<1>6. CASE Answers(p)
  <2>1. PICK r : /\ resp'[p] = s \o Both(r) /\ (logged[p] => logged'[p])
                 /\ r.kind = "granted" => logged'[p]
    BY <1>6 DEF Answers
  <2> HIDE DEF s
  <2>2. /\ Len(resp'[p]) = Len(s) + 2 /\ \A k \in 1..Len(s) : resp'[p][k] = s[k]
        /\ resp'[p][Len(s) + 1] = [half |-> "header", msg |-> r]
        /\ resp'[p][Len(s) + 2] = [half |-> "body", msg |-> r]
    BY <1>1, <2>1, BothElements
  <2>3. CASE i \in 1..Len(s)
    <3>1. (Len(resp'[p]) - i) % 2 = (Len(s) - i) % 2
      BY <1>1, <2>2, <2>3
    <3> QED BY <1>2, <2>1, <2>2, <2>3, <3>1
  <2>4. CASE i = Len(s) + 1
    <3>1. (Len(resp'[p]) - i) % 2 = 1
      BY <1>1, <2>2, <2>4
    <3> QED BY <2>1, <2>2, <2>4, <3>1
  <2>5. CASE i = Len(s) + 2
    <3>1. (Len(resp'[p]) - i) % 2 # 1
      BY <1>1, <2>2, <2>5
    <3> QED BY <2>1, <2>2, <2>5, <3>1
  <2>6. i \in 1..Len(s) \/ i = Len(s) + 1 \/ i = Len(s) + 2
    BY <1>1, <2>2
  <2> QED BY <2>3, <2>4, <2>5, <2>6
<1> QED BY <1>3, <1>4, <1>5, <1>6, RespStep

\* what main does while it is between length and text
LEMMA MainStays ==
  ASSUME IndInv, [Next]_vars, ~MainNext
  PROVE  pc'["main"] = pc["main"] /\ held'["main"] = held["main"]
<1> USE DEF restVars, flagVars
<1>1. /\ pc \in [Thread -> Places] /\ held \in [Thread -> Port \cup {NoPort}]
      /\ {"main", "reconnect", "video", "receive"} = Thread
  BY DEF IndInv, ThreadInv, Thread
<1>2. ASSUME NEW t \in Thread \ {"main"},
             pc' = pc \/ \E to : pc' = [pc EXCEPT ![t] = to],
             held' = held \/ \E q : held' = [held EXCEPT ![t] = q]
      PROVE  pc'["main"] = pc["main"] /\ held'["main"] = held["main"]
  BY <1>1, <1>2
<1>3. CASE ReconnectNext
  <2>1. /\ pc' = pc \/ \E to : pc' = [pc EXCEPT !["reconnect"] = to]
        /\ held' = held \/ \E q : held' = [held EXCEPT !["reconnect"] = q]
    BY <1>3 DEF ReconnectNext, retryNetworkConnect, Reconnect, ClearRetry, Relogin, SaveCredentials,
       Sending, Check, Load, Write, Goto, Return, Leave
  <2> QED BY <1>1, <1>2, <2>1
<1>4. CASE VideoNext
  <2>1. /\ pc' = pc \/ \E to : pc' = [pc EXCEPT !["video"] = to]
        /\ held' = held \/ \E q : held' = [held EXCEPT !["video"] = q]
    BY <1>4 DEF VideoNext, sendRecognizedInfo, Sending, Check, Load, Write, Goto, Return, Leave
  <2> QED BY <1>1, <1>2, <2>1
<1>5. CASE ReceiveNext
  <2>1. /\ pc' = pc \/ \E to : pc' = [pc EXCEPT !["receive"] = to]
        /\ held' = held \/ \E q : held' = [held EXCEPT !["receive"] = q]
    BY <1>5 DEF ReceiveNext, Ignore, Answer, Receiving, ReadCheck, ReadFails, Load, ReadHeader,
       Misread, Goto, Return, Leave, threadVars
  <2> QED BY <1>1, <1>2, <2>1
<1>6. CASE \E p \in Port : ServerNext(p) \/ LoseConnection(p)
  BY <1>6 DEF ServerNext, ServerReadsLogin, ServerAnswersLogin, ServerAnswersQuery, ServerEnds,
     LoseConnection, laptopVars, threadVars
<1>7. CASE UNCHANGED vars
  BY <1>7 DEF vars, threadVars
<1> QED BY <1>3, <1>4, <1>5, <1>6, <1>7 DEF Next

LEMMA ReceiveStays ==
  ASSUME IndInv, [Next]_vars, pc'["receive"] = "off"
  PROVE  pc["receive"] = "off" /\ ~ReceiveNext
<1> USE DEF restVars, flagVars
<1>1. pc \in [Thread -> Places] /\ {"main", "reconnect", "video", "receive"} = Thread
  BY DEF IndInv, ThreadInv, Thread
<1>2. ~ReceiveNext
  <2>1. ReceiveNext => /\ pc["receive"] # "off"
                       /\ pc' = pc \/ \E to \in Places \ {"off"} : pc' = [pc EXCEPT !["receive"] = to]
    BY DEF ReceiveNext, Ignore, Answer, WholeBody, Receiving, ReadCheck, ReadFails, Load, ReadHeader,
       Misread, Goto, Return, AfterRead, threadVars, At, Places
  <2> QED BY <1>1, <2>1
<1>3. ASSUME NEW t \in Thread \ {"receive"},
             pc' = pc \/ \E to : pc' = [pc EXCEPT ![t] = to]
      PROVE  pc["receive"] = "off"
  BY <1>1, <1>3
<1>4. CASE MainNext
  <2>1. CASE logout \/ LoginSucceeds \/ \E c \in Cred : inputLoginInfo(c)
    BY <1>1, <1>2, <2>1 DEF logout, LoginSucceeds, inputLoginInfo
  <2>2. CASE ~(logout \/ LoginSucceeds \/ \E c \in Cred : inputLoginInfo(c))
    <3>1. pc' = pc \/ \E to : pc' = [pc EXCEPT !["main"] = to]
      BY <1>4, <2>2 DEF MainNext, networkConnect, SaveCredentials, Sending, Check, Load, Write,
         Receiving, ReadCheck, ReadFails, ReadHeader, Misread, LoginDenied, Retry, Exit,
         Goto, Return, threadVars
    <3> QED BY <1>1, <1>2, <1>3, <3>1
  <2> QED BY <2>1, <2>2
<1>5. CASE ReconnectNext
  <2>1. pc' = pc \/ \E to : pc' = [pc EXCEPT !["reconnect"] = to]
    BY <1>5 DEF ReconnectNext, retryNetworkConnect, Reconnect, ClearRetry, Relogin, SaveCredentials,
       Sending, Check, Load, Write, Goto, Return
  <2> QED BY <1>1, <1>2, <1>3, <2>1
<1>6. CASE VideoNext
  <2>1. pc' = pc \/ \E to : pc' = [pc EXCEPT !["video"] = to]
    BY <1>6 DEF VideoNext, sendRecognizedInfo, Sending, Check, Load, Write, Goto, Return
  <2> QED BY <1>1, <1>2, <1>3, <2>1
<1>7. CASE \E p \in Port : ServerNext(p) \/ LoseConnection(p)
  BY <1>2, <1>7 DEF ServerNext, ServerReadsLogin, ServerAnswersLogin, ServerAnswersQuery, ServerEnds,
     LoseConnection, laptopVars, threadVars
<1>8. CASE UNCHANGED vars
  BY <1>2, <1>8 DEF vars, threadVars
<1> QED BY <1>2, <1>4, <1>5, <1>6, <1>7, <1>8 DEF Next

\* a connection that is up after a step was up before, or is new
LEMMA UpBefore ==
  ASSUME IndInv, FirstInv, LiveInv, [Next]_vars, NEW p \in Port, link'[p] = "up"
  PROVE  \/ link[p] = "up" /\ port' = port /\ port = p
         \/ /\ Reconnect \/ networkConnect
            /\ \A q \in Port : link[q] = "free"
            /\ UNCHANGED <<srv, auth, logged, resp>>
<1>1. link \in [Port -> {"free", "up", "down"}] /\ port \in Port \cup {NoPort}
  BY DEF IndInv, ConnInv, FlagInv
<1>2. CASE Steady
  BY <1>2 DEF Steady, LiveInv
<1>3. CASE ClearRetry
  BY <1>3 DEF ClearRetry, restVars, connVars, LiveInv
<1>4. CASE CloseTcpConnectedPort
  <2>1. (link' = link /\ port = NoPort) \/ link' = [link EXCEPT ![port] = "free"]
    BY <1>4 DEF CloseTcpConnectedPort
  <2>2. link[p] = "up" /\ port # p
    <3>1. CASE link' = link /\ port = NoPort
      BY <3>1, LaptopAssumption
    <3>2. CASE link' = [link EXCEPT ![port] = "free"]
      BY <1>1, <3>2
    <3> QED BY <2>1, <3>1, <3>2
  <2> QED BY <2>2 DEF LiveInv
<1>5. CASE Reconnect \/ networkConnect
  <2>1. \A q \in Port : link[q] = "free"
    BY <1>5 DEF Reconnect, networkConnect, At, LiveInv, FirstInv
  <2>2. UNCHANGED <<srv, auth, logged, resp>>
    BY <1>5 DEF Reconnect, networkConnect, Opened, NotOpened, connVars
  <2> QED BY <1>5, <2>1, <2>2
<1> QED BY <1>2, <1>3, <1>4, <1>5, StepCases

\* what is at the front of the responses, and whether whole ones are left behind it
LEMMA FrontParity ==
  ASSUME IndInv, RespInv, NEW p \in Port, resp[p] # <<>>
  PROVE  /\ Head(resp[p]).half = "header" <=> Len(resp[p]) % 2 = 0
         /\ Head(resp[p]).half # "header" => Len(Tail(resp[p])) % 2 = 0
<1>1. /\ Len(resp[p]) \in Nat \ {0} /\ Len(Tail(resp[p])) = Len(resp[p]) - 1
      /\ Head(resp[p]) = resp[p][1]
  BY TailElements DEF IndInv, StreamInv
<1>2. resp[p][1].half = "header" <=> (Len(resp[p]) - 1) % 2 = 1
  <2>1. 1 \in 1..Len(resp[p])
    BY <1>1
  <2> QED BY <2>1 DEF RespInv
<1>3. PICK n \in Nat : Len(resp[p]) = n + 1 /\ Len(resp[p]) - 1 = n
  <2>1. Len(resp[p]) - 1 \in Nat /\ Len(resp[p]) = (Len(resp[p]) - 1) + 1
    BY <1>1
  <2> QED BY <2>1
<1>4. ((n + 1) % 2 = 0 <=> n % 2 = 1) /\ (n % 2 # 1 => n % 2 = 0)
  BY Parity
<1> QED BY <1>1, <1>2, <1>3, <1>4

\* no text is taken for a length while nothing was read out of step
LEMMA HeaderInFront ==
  ASSUME IndInv, RespInv, EvenInv, pc["receive"] = "off", pc["main"] = "readH"
  PROVE  ~Misread("main")
<1> SUFFICES ASSUME Misread("main") PROVE FALSE
  OBVIOUS
<1> DEFINE p == held["main"]
<1>1. p \in Port /\ link[p] = "up" /\ resp[p] # <<>> /\ Head(resp[p]).half = "body"
  BY DEF Misread, At, Arrived, Front, IndInv, ThreadInv, Thread
<1>2. Len(resp[p]) % 2 = 0
  BY <1>1 DEF EvenInv, AtText
<1> QED BY <1>1, <1>2, FrontParity

LEMMA NextEven == IndInv /\ FirstInv /\ LiveInv /\ RespInv /\ EvenInv /\ [Next]_vars => EvenInv'
<1> SUFFICES ASSUME IndInv, FirstInv, LiveInv, RespInv, EvenInv, [Next]_vars,
                    pc'["receive"] = "off", NEW p \in Port, link'[p] = "up"
             PROVE  AtText(p)' \/ Len(resp'[p]) % 2 = 0
  BY DEF EvenInv
<1> USE DEF restVars, flagVars
<1>1. /\ pc \in [Thread -> Places] /\ held \in [Thread -> Port \cup {NoPort}] /\ "main" \in Thread
      /\ resp[p] \in Seq(Part(Given)) /\ Len(resp[p]) \in Nat /\ NoPort \notin Port
  BY LaptopAssumption DEF IndInv, ThreadInv, StreamInv, Thread
<1>2. pc["receive"] = "off" /\ ~ReceiveNext
  BY ReceiveStays
<1>3. CASE \A q \in Port : link[q] = "free" /\ resp' = resp
  <2>1. resp'[p] = <<>>
    BY <1>3 DEF LiveInv, Closed
  <2>2. Len(resp'[p]) = 0
    BY <2>1
  <2> QED BY <2>2
<1>4. CASE link[p] = "up" /\ port' = port /\ port = p
  <2>1. AtText(p) \/ Len(resp[p]) % 2 = 0
    BY <1>2, <1>4 DEF EvenInv
  <2>2. CASE Reads("main", p)
    <3>1. held["main"] = p /\ resp[p] # <<>> /\ resp'[p] = Tail(resp[p])
      BY <2>2 DEF Reads
    <3>2. CASE ReadHeader("main")
      BY <1>1, <3>1, <3>2 DEF ReadHeader, AtText
    <3>3. CASE Misread("main")
      <4>1. pc["main"] \in {"readB", "lost"}
        BY <1>2, <3>3, HeaderInFront DEF Misread, At
      <4>2. (pc' = pc /\ held' = held) \/ (pc' = [pc EXCEPT !["main"] = "lost"] /\ held' = held)
        BY <3>3 DEF Misread, threadVars, Goto
      <4> QED BY <1>1, <3>1, <4>1, <4>2 DEF AtText
    <3>4. ASSUME NEW kind, WholeBody("main", kind) PROVE Len(resp'[p]) % 2 = 0
      <4>1. Head(resp[p]).half = "body"
        BY <3>1, <3>4 DEF WholeBody, Front
      <4> QED BY <3>1, <4>1, FrontParity
    <3> QED BY <2>2, <3>2, <3>3, <3>4 DEF Reads
  <2>3. CASE ~Reads("main", p)
    <3>1. AtText(p) => AtText(p)'
      <4> SUFFICES ASSUME AtText(p) PROVE AtText(p)'
        OBVIOUS
      <4>1. CASE ~MainNext
        BY <4>1, MainStays DEF AtText
      <4>2. CASE MainNext
        <5>1. ~(ReadHeader("main") \/ Misread("main") \/ \E kind : WholeBody("main", kind))
          <6>1. resp \in [Port -> Seq(Part(Given))]
            BY DEF IndInv, StreamInv
          <6> QED BY <2>3, <6>1 DEF AtText, Reads, ReadHeader, Misread, WholeBody, Arrived, Consume
        <5>2. \A from : ~ReadFails("main", from)
          BY <1>4 DEF ReadFails, AtText
        <5>3. \/ Load("main", "loadRB", "readB") \/ Exit
          BY <4>2, <5>1, <5>2 DEF MainNext, AtText, networkConnect, inputLoginInfo, SaveCredentials,
             Sending, Check, Load, Write, Receiving, ReadCheck, LoginSucceeds, LoginDenied, Retry,
             logout, At
        <5>4. CASE Load("main", "loadRB", "readB")
          BY <1>1, <1>4, <5>4 DEF Load, AtText
        <5>5. CASE Exit
          BY <5>5 DEF Exit, threadVars, AtText
        <5> QED BY <5>3, <5>4, <5>5
      <4> QED BY <4>1, <4>2
    <3>2. resp'[p] = resp[p] \/ Answers(p)
      <4>1. ~Reads("receive", p)
        <5>1. Reads("receive", p) => pc["receive"] # "off"
          BY DEF Reads, ReadHeader, Misread, WholeBody, At
        <5> QED BY <1>2, <5>1
      <4> QED BY <1>1, <1>4, <2>3, <4>1, RespStep
    <3>3. Len(resp[p]) % 2 = 0 => Len(resp'[p]) % 2 = 0
      <4>1. CASE Answers(p)
        <5>1. PICK r : resp'[p] = resp[p] \o Both(r)
          BY <4>1 DEF Answers
        <5>2. PICK s : s = resp[p] /\ s \in Seq(Part(Given))
          BY <1>1
        <5>3. Len(s \o Both(r)) = Len(s) + 2
          BY <5>2, BothElements
        <5>4. \A n \in Nat : n % 2 = 0 => (n + 2) % 2 = 0
          OBVIOUS
        <5>5. Len(resp'[p]) = Len(resp[p]) + 2
          BY <5>1, <5>2, <5>3
        <5> QED BY <1>1, <5>4, <5>5
      <4> QED BY <3>2, <4>1
    <3> QED BY <2>1, <3>1, <3>3
  <2> QED BY <2>2, <2>3
<1> QED BY <1>3, <1>4, UpBefore

(***************************************************************************)
(* What a step does to what the server has to handle on the current        *)
(* connection.                                                             *)
(***************************************************************************)
LEMMA WholeParts ==
  ASSUME IndInv, NEW p \in Port, NEW m, Whole(p, m)
  PROVE  LET s == srv[p]
             t == SubSeq(s, 3, Len(s))
         IN  /\ Len(s) \in Nat /\ Len(s) >= 2 /\ Len(t) = Len(s) - 2
             /\ \A k \in 1..Len(t) : t[k] = s[k + 2]
             /\ s[1].msg = m /\ s[2].msg = m /\ s[2].half = "body"
<1> DEFINE s == srv[p]
           t == SubSeq(s, 3, Len(s))
<1>1. s \in Seq(Part(Sent)) /\ Len(s) \in Nat /\ Len(s) >= 2 /\ SubSeq(s, 1, 2) = Both(m)
  BY DEF Whole, IndInv, StreamInv
<1> HIDE DEF s
<1>2. \A k \in 1..Len(s) : s[k] \in Part(Sent)
  BY <1>1
<1>3. s[1].msg = m /\ s[2].msg = m /\ s[2].half = "body"
  <2>1. \A k \in 1..2 : s[k] \in Part(Sent)
    BY <1>1, <1>2
  <2>2. \A k \in 1..(2 - 1 + 1) : SubSeq(s, 1, 2)[k] = s[1 + k - 1]
    BY <2>1, SubSeqProperties
  <2>3. Both(m)[1].msg = m /\ Both(m)[2].msg = m /\ Both(m)[2].half = "body"
    BY DEF Both
  <2> QED BY <1>1, <2>2, <2>3
<1>4. \A k \in 3..Len(s) : s[k] \in Part(Sent)
  BY <1>1, <1>2
<1>5. /\ Len(t) = (IF 3 <= Len(s) THEN Len(s) - 3 + 1 ELSE 0)
      /\ \A k \in 1..(Len(s) - 3 + 1) : t[k] = s[3 + k - 1]
  BY <1>1, <1>4, SubSeqProperties
<1> HIDE DEF t
<1>6. Len(t) = Len(s) - 2
  <2>1. \A n \in Nat : n >= 2 => (IF 3 <= n THEN n - 3 + 1 ELSE 0) = n - 2
    OBVIOUS
  <2>2. (IF 3 <= Len(s) THEN Len(s) - 3 + 1 ELSE 0) = Len(s) - 2
    BY <1>1, <2>1
  <2> QED BY <1>5, <2>2
<1>7. \A k \in 1..Len(t) : t[k] = s[3 + k - 1] /\ 3 + k - 1 = k + 2
  BY <1>1, <1>5, <1>6
<1> QED BY <1>1, <1>3, <1>6, <1>7 DEF s, t

SameSrv(p) == srv'[p] = srv[p] /\ auth'[p] = auth[p] /\ logged'[p] = logged[p]
Written(p) == /\ \E x : srv'[p] = Append(srv[p], x)
              /\ auth'[p] = auth[p] /\ logged'[p] = logged[p]
LoginTaken(p) == \E c \in Cred : /\ Whole(p, Login(c)) /\ srv'[p] = SubSeq(srv[p], 3, Len(srv[p]))
                                 /\ auth'[p] = auth[p] \cup {c} /\ logged'[p] = logged[p]
QueryTaken(p) == /\ \E l \in Plate : Whole(p, Query(l))
                 /\ srv'[p] = SubSeq(srv[p], 3, Len(srv[p]))
                 /\ auth'[p] = auth[p] /\ logged'[p] = logged[p] /\ Answers(p)
LoginChecked(p) == \E c \in Cred : /\ srv'[p] = srv[p] /\ auth'[p] = auth[p] \ {c}
                                   /\ logged'[p] = (logged[p] \/ c = "right") /\ Answers(p)

LEMMA SrvStep ==
  ASSUME IndInv, [Next]_vars, NEW p \in Port, port = p, port' = p
  PROVE  SameSrv(p) \/ Written(p) \/ LoginTaken(p) \/ QueryTaken(p) \/ LoginChecked(p)
<1> USE DEF restVars, connVars
<1>1. /\ srv \in [Port -> Seq(Part(Sent))] /\ resp \in [Port -> Seq(Part(Given))]
      /\ auth \in [Port -> SUBSET Cred] /\ logged \in [Port -> BOOLEAN] /\ NoPort # p
  BY LaptopAssumption DEF IndInv, StreamInv, ConnInv
<1>2. ASSUME NEW t \in {"main", "reconnect", "video"}, Sending(t)
      PROVE  SameSrv(p) \/ Written(p)
  <2>1. CASE Check(t) \/ Load(t, "loadWH", "writeH") \/ Load(t, "loadWB", "writeB")
    BY <2>1 DEF Check, Load, SameSrv
  <2>2. ASSUME NEW from, NEW half, Write(t, from, half) PROVE SameSrv(p) \/ Written(p)
    <3>1. /\ UNCHANGED <<auth, logged>>
          /\ srv' = srv \/ \E x : srv' = [srv EXCEPT ![held[t]] = Append(@, x)]
      BY <2>2 DEF Write
    <3> QED BY <1>1, <3>1 DEF SameSrv, Written
  <2> QED BY <1>2, <2>1, <2>2 DEF Sending
<1>3. CASE MainNext \/ ReceiveNext
  <2>1. CASE ~Sending("main")
    BY <1>1, <1>3, <2>1 DEF SameSrv, MainNext, ReceiveNext, networkConnect, inputLoginInfo, SaveCredentials,
       Receiving, ReadCheck, ReadFails, Load, ReadHeader, Misread, WholeBody, LoginSucceeds, LoginDenied,
       Retry, logout, Exit, Opened, NotOpened, CloseTcpConnectedPort, Ignore, Answer
  <2> QED BY <1>2, <2>1
<1>4. CASE ReconnectNext \/ VideoNext
  <2>1. CASE ~Sending("reconnect") /\ ~Sending("video")
    BY <1>1, <1>4, <2>1 DEF SameSrv, ReconnectNext, retryNetworkConnect, Reconnect, ClearRetry, Relogin,
       SaveCredentials, Opened, NotOpened, CloseTcpConnectedPort, VideoNext, sendRecognizedInfo
  <2> QED BY <1>2, <2>1
<1>5. ASSUME NEW q \in Port, ServerNext(q) \/ LoseConnection(q)
      PROVE  SameSrv(p) \/ LoginTaken(p) \/ QueryTaken(p) \/ LoginChecked(p)
  <2>1. CASE ServerEnds(q) \/ LoseConnection(q)
    BY <2>1 DEF ServerEnds, LoseConnection, SameSrv
  <2>2. CASE q # p
    BY <1>1, <1>5, <2>2 DEF ServerNext, ServerReadsLogin, ServerAnswersLogin, ServerAnswersQuery, ServerEnds,
       LoseConnection, Take, SameSrv
  <2>3. CASE q = p /\ ServerReadsLogin(q)
    BY <1>1, <2>3 DEF ServerReadsLogin, Take, LoginTaken
  <2>4. ASSUME q = p, NEW c \in Cred, ServerAnswersLogin(q, c) PROVE LoginChecked(p)
    <3>1. /\ srv' = srv /\ auth' = [auth EXCEPT ![p] = @ \ {c}]
          /\ logged' = [logged EXCEPT ![p] = logged[p] \/ c = "right"]
      BY <2>4 DEF ServerAnswersLogin, Session
    <3>2. PICK r : /\ r.kind = "granted" => c = "right"
                   /\ resp' = [resp EXCEPT ![p] = @ \o Both(r)]
      BY <2>4 DEF ServerAnswersLogin
    <3>3. Answers(p)
      BY <1>1, <3>1, <3>2 DEF Answers
    <3> QED BY <1>1, <3>1, <3>3 DEF LoginChecked
  <2>5. ASSUME q = p, NEW l \in Plate, ServerAnswersQuery(q, l) PROVE QueryTaken(p)
    <3>1. /\ Whole(p, Query(l)) /\ srv' = [srv EXCEPT ![p] = SubSeq(@, 3, Len(@))]
          /\ UNCHANGED <<auth, logged>>
      BY <2>5 DEF ServerAnswersQuery, Take
    <3>2. \E r : r.kind # "granted" /\ resp' = [resp EXCEPT ![p] = @ \o Both(r)]
      <4>1. resp' = [resp EXCEPT ![p] = @ \o Both([kind |-> IF logged[p] THEN "answer" ELSE "refusal",
                                                   key |-> l])]
        BY <2>5 DEF ServerAnswersQuery
      <4>2. [kind |-> IF logged[p] THEN "answer" ELSE "refusal", key |-> l].kind # "granted"
        OBVIOUS
      <4> QED BY <4>1, <4>2
    <3>3. Answers(p)
      BY <1>1, <3>1, <3>2 DEF Answers
    <3> QED BY <1>1, <3>1, <3>3 DEF QueryTaken
  <2> QED BY <1>5, <2>1, <2>2, <2>3, <2>4, <2>5 DEF ServerNext
<1>6. CASE UNCHANGED vars
  BY <1>6 DEF vars, SameSrv
<1> QED BY <1>3, <1>4, <1>5, <1>6 DEF Next

\* a promise to log in is kept on a connection that lives
LEMMA PromiseKept ==
  ASSUME IndInv, [Next]_vars, NEW p \in Port, port = p, port' = p, Promised(p)
  PROVE  Promised(p)'
<1>1. srv[p] \in Seq(Part(Sent)) /\ Len(srv[p]) \in Nat
  BY DEF IndInv, StreamInv
<1>2. CASE SameSrv(p)
  BY <1>2 DEF SameSrv, Promised
<1>3. CASE Written(p)
  <2>1. PICK x : srv'[p] = Append(srv[p], x)
    BY <1>3 DEF Written
  <2>2. \A i \in 1..Len(srv[p]) : i \in 1..Len(srv'[p]) /\ srv'[p][i] = srv[p][i]
    BY <1>1, <2>1
  <2> QED BY <1>3, <2>2 DEF Written, Promised
<1>4. ASSUME NEW m, Whole(p, m), srv'[p] = SubSeq(srv[p], 3, Len(srv[p])),
             NEW i \in 1..Len(srv[p]), srv[p][i].msg # m
      PROVE  \E k \in 1..Len(srv'[p]) : srv'[p][k].msg = srv[p][i].msg
  <2>1. /\ Len(srv'[p]) = Len(srv[p]) - 2 /\ \A k \in 1..Len(srv'[p]) : srv'[p][k] = srv[p][k + 2]
        /\ srv[p][1].msg = m /\ srv[p][2].msg = m /\ Len(srv[p]) >= 2
    BY <1>4, WholeParts
  <2>2. i # 1 /\ i # 2
    BY <1>4, <2>1
  <2>3. i - 2 \in 1..Len(srv'[p]) /\ (i - 2) + 2 = i
    BY <1>1, <2>1, <2>2
  <2> QED BY <2>1, <2>3
<1>5. CASE LoginTaken(p)
  <2>1. PICK c \in Cred : /\ Whole(p, Login(c)) /\ srv'[p] = SubSeq(srv[p], 3, Len(srv[p]))
                          /\ auth'[p] = auth[p] \cup {c} /\ logged'[p] = logged[p]
    BY <1>5 DEF LoginTaken
  <2>2. CASE logged[p] \/ "right" \in auth[p] \/ c = "right"
    BY <2>1, <2>2 DEF Promised
  <2>3. CASE c # "right" /\ \E i \in 1..Len(srv[p]) : srv[p][i].msg = Login("right")
    <3>1. Login(c) # Login("right")
      BY <2>3 DEF Login
    <3> QED BY <1>4, <2>1, <2>3, <3>1 DEF Promised
  <2> QED BY <2>2, <2>3 DEF Promised
<1>6. CASE QueryTaken(p)
  <2>1. PICK l \in Plate : Whole(p, Query(l))
    BY <1>6 DEF QueryTaken
  <2>2. Query(l) # Login("right")
    BY DEF Query, Login
  <2> QED BY <1>4, <1>6, <2>1, <2>2 DEF QueryTaken, Promised
<1>7. CASE LoginChecked(p)
  BY <1>7 DEF LoginChecked, Promised
<1> QED BY <1>2, <1>3, <1>5, <1>6, <1>7, SrvStep

\* what is under way to the server comes back as a response
LEMMA UnderwayKept ==
  ASSUME IndInv, [Next]_vars, NEW p \in Port, port = p, port' = p, Underway(p)
  PROVE  Underway(p)' \/ \E t \in {"main", "receive"} : Reads(t, p)
<1>1. srv[p] \in Seq(Part(Sent)) /\ resp[p] \in Seq(Part(Given)) /\ NoPort # p
  BY LaptopAssumption DEF IndInv, StreamInv
<1>2. Answers(p) => resp'[p] # <<>>
  <2>1. PICK s : s = resp[p] /\ s \in Seq(Part(Given))
    BY <1>1
  <2>2. \A r : s \o Both(r) # <<>>
    BY <2>1, BothElements
  <2> QED BY <2>1, <2>2 DEF Answers
<1>3. resp'[p] = resp[p] \/ Answers(p) \/ \E t \in {"main", "receive"} : Reads(t, p)
  BY <1>1, RespStep
<1>4. CASE SameSrv(p)
  BY <1>2, <1>3, <1>4 DEF SameSrv, Underway
<1>5. CASE Written(p)
  <2>1. PICK x : srv'[p] = Append(srv[p], x)
    BY <1>5 DEF Written
  <2>2. Append(srv[p], x) # <<>>
    BY <1>1
  <2> QED BY <2>1, <2>2 DEF Underway
<1>6. CASE LoginTaken(p)
  BY <1>6 DEF LoginTaken, Underway
<1>7. CASE QueryTaken(p) \/ LoginChecked(p)
  BY <1>2, <1>7 DEF QueryTaken, LoginChecked, Underway
<1> QED BY <1>4, <1>5, <1>6, <1>7, SrvStep

(***************************************************************************)
(* The end of a repair is the repeated login; what is being sent then is   *)
(* written, or the connection is found lost.                               *)
(***************************************************************************)
LEMMA SettledStep ==
  ASSUME IndInv, FirstInv, LiveInv, [Next]_vars, ~Repairing'
  PROVE  \/ networkConnect
         \/ Relogin /\ port' = port /\ port \in Port
         \/ ~Repairing /\ port' = port /\ port \in Port /\ link[port] = "up"
<1> USE DEF restVars, flagVars
<1>1. /\ pc \in [Thread -> Places] /\ "reconnect" \in Thread /\ port \in Port \cup {NoPort}
      /\ NoPort \notin Port
  BY LaptopAssumption DEF IndInv, ThreadInv, FlagInv, Thread
<1>2. /\ ~saveRetry' /\ port' # NoPort /\ link'[port'] = "up"
      /\ pc'["reconnect"] \notin {"connect", "clear", "relogin"}
  BY DEF Repairing
<1>3. ASSUME Steady, pc["reconnect"] \notin {"connect", "clear", "relogin"}
      PROVE  ~Repairing /\ port' = port /\ port \in Port /\ link[port] = "up"
  BY <1>1, <1>2, <1>3 DEF Steady, Repairing
<1>4. CASE Steady /\ ReconnectKept
  BY <1>2, <1>3, <1>4 DEF ReconnectKept
<1>5. CASE Steady /\ Relogin
  BY <1>1, <1>2, <1>5 DEF Steady
<1>6. CASE Steady /\ (SaveCredentials("reconnect") \/ Sending("reconnect"))
  <2>1. pc["reconnect"] \notin {"connect", "clear", "relogin"}
    BY <1>6 DEF SaveCredentials, Sending, Check, Load, Write, At
  <2> QED BY <1>3, <1>6, <2>1
<1>7. ~ClearRetry
  BY <1>1, <1>2 DEF ClearRetry, Goto
<1>8. ~CloseTcpConnectedPort
  BY <1>2 DEF CloseTcpConnectedPort
<1>9. ~Reconnect
  BY <1>1, <1>2 DEF Reconnect, NotOpened, Goto
<1> QED BY <1>4, <1>5, <1>6, <1>7, <1>8, <1>9, StepCases

LEMMA ResendStep ==
  ASSUME IndInv, FirstInv, LiveInv, [Next]_vars, ~Repairing, ~Repairing', Resending
  PROVE  \/ Resending' /\ msg'["reconnect"] = msg["reconnect"]
         \/ \E half : srv'[port] = Append(srv[port], [half |-> half, msg |-> msg["reconnect"]])
<1> USE DEF restVars, flagVars
<1>1. /\ pc \in [Thread -> Places] /\ "reconnect" \in Thread
      /\ srv \in [Port -> Seq(Part(Sent))]
  BY DEF IndInv, ThreadInv, StreamInv, Thread
<1>2. ~saveRetry /\ ~saveRetry' /\ port # NoPort
  BY DEF Repairing
<1>3. CASE Steady /\ ReconnectKept
  BY <1>3 DEF ReconnectKept, Resending
<1>4. CASE SaveCredentials("reconnect")
  BY <1>1, <1>4 DEF SaveCredentials, Goto, Resending
<1>5. CASE Check("reconnect")
  BY <1>1, <1>2, <1>5 DEF Check, Goto, Resending
<1>6. CASE Load("reconnect", "loadWH", "writeH") \/ Load("reconnect", "loadWB", "writeB")
  BY <1>1, <1>2, <1>6 DEF Load, Resending
<1>7. ASSUME NEW from, NEW half, Write("reconnect", from, half), from \in {"writeH", "writeB"}
      PROVE  srv'[port] = Append(srv[port], [half |-> half, msg |-> msg["reconnect"]])
  <2>1. held["reconnect"] \in Port
    BY <1>1, <1>7 DEF Write, At, IndInv, ThreadInv
  <2>2. link[held["reconnect"]] = "up"
    BY <1>2, <1>7 DEF Write
  <2>3. held["reconnect"] = port
    BY <2>1, <2>2 DEF LiveInv
  <2> QED BY <1>1, <1>7, <2>1, <2>2, <2>3 DEF Write
<1>8. ~Relogin /\ ~ClearRetry /\ ~Reconnect /\ ~networkConnect
  BY DEF Relogin, ClearRetry, Reconnect, networkConnect, At, Resending, FirstInv
<1>9. ~CloseTcpConnectedPort
  BY DEF CloseTcpConnectedPort, Repairing
<1>10. Sending("reconnect") =>
         \/ Check("reconnect")
         \/ Load("reconnect", "loadWH", "writeH") \/ Load("reconnect", "loadWB", "writeB")
         \/ \E half : Write("reconnect", "writeH", half) \/ Write("reconnect", "writeB", half)
  BY DEF Sending
<1> QED BY <1>3, <1>4, <1>5, <1>6, <1>7, <1>8, <1>9, <1>10, StepCases

(***************************************************************************)
(* The credentials are saved before main waits, and not forgotten.         *)
(***************************************************************************)
LEMMA CredStep ==
  ASSUME IndInv, [Next]_vars
  PROVE  /\ creds' = creds \/ SaveCredentials("main") \/ SaveCredentials("reconnect")
         /\ \A t \in Thread : SaveCredentials(t) =>
              /\ creds' \in Cred /\ msg[t] = Login(creds')
              /\ pc'[t] = "check" /\ msg' = msg
<1> USE DEF restVars, flagVars
<1>1. creds' = creds \/ SaveCredentials("main") \/ SaveCredentials("reconnect")
  <2>1. CASE MainNext \/ ReceiveNext
    BY <2>1 DEF MainNext, ReceiveNext, networkConnect, inputLoginInfo, Sending, Check, Load, Write,
       Receiving, ReadCheck, ReadFails, ReadHeader, Misread, WholeBody, LoginSucceeds, LoginDenied,
       Retry, logout, Exit, Ignore, Answer
  <2>2. CASE ReconnectNext \/ VideoNext
    BY <2>2 DEF ReconnectNext, retryNetworkConnect, Reconnect, ClearRetry, Relogin, Sending, Check,
       Load, Write, VideoNext, sendRecognizedInfo
  <2>3. CASE \E p \in Port : ServerNext(p) \/ LoseConnection(p)
    BY <2>3 DEF ServerNext, ServerReadsLogin, ServerAnswersLogin, ServerAnswersQuery, ServerEnds,
       LoseConnection, laptopVars
  <2> QED BY <2>1, <2>2, <2>3 DEF Next, vars
<1>2. ASSUME NEW t \in Thread, SaveCredentials(t)
      PROVE  /\ creds' \in Cred /\ msg[t] = Login(creds')
             /\ pc'[t] = "check" /\ msg' = msg
  <2>1. msg[t] \in [kind : {"login"}, key : Cred] /\ creds' = msg[t].key
    BY <1>2 DEF SaveCredentials, At, IndInv, ThreadInv
  <2>2. pc'[t] = "check" /\ msg' = msg
    BY <1>2 DEF SaveCredentials, Goto, IndInv, ThreadInv
  <2> QED BY <2>1, <2>2 DEF Login
<1> QED BY <1>1, <1>2

LEMMA NextCred == IndInv /\ CredInv /\ [Next]_vars => CredInv'
<1> SUFFICES ASSUME IndInv, CredInv, [Next]_vars, pc'["main"] \notin {"connect", "input", "save"}
             PROVE  creds' # NoCred
  BY DEF CredInv
<1>1. pc \in [Thread -> Places] /\ "main" \in Thread /\ "reconnect" \in Thread
  BY DEF IndInv, ThreadInv, Thread
<1>2. CASE SaveCredentials("main") \/ SaveCredentials("reconnect")
  BY <1>1, <1>2, CredStep, LaptopAssumption
<1>3. CASE creds' = creds /\ ~SaveCredentials("main")
  <2>1. pc["main"] \notin {"connect", "input", "save"}
    <3>1. CASE ~MainNext
      BY <3>1, MainStays
    <3>2. CASE MainNext
      BY <1>1, <1>3, <3>2 DEF MainNext, networkConnect, inputLoginInfo, Sending, Check, Load, Write,
         Receiving, ReadCheck, ReadFails, ReadHeader, Misread, WholeBody, LoginSucceeds, LoginDenied,
         Retry, logout, Exit, At, Goto
    <3> QED BY <3>1, <3>2
  <2> QED BY <1>3, <2>1 DEF CredInv
<1> QED BY <1>2, <1>3, CredStep

(***************************************************************************)
(* How main comes to wait: it has written a login, or it waited before and *)
(* read nothing.                                                           *)
(***************************************************************************)
LEMMA WaitStep ==
  ASSUME IndInv, FirstInv, LiveInv, RespInv, EvenInv, [Next]_vars,
         ~saveRetry', pc'["main"] \in Waits
  PROVE  \/ networkConnect
         \/ \E x : srv'[port] = Append(srv[port], x)
         \/ pc["main"] \in Waits /\ \A p \in Port : ~Reads("main", p) /\ ~Reads("receive", p)
<1> USE DEF restVars, flagVars
<1>1. /\ pc \in [Thread -> Places] /\ "main" \in Thread
      /\ srv \in [Port -> Seq(Part(Sent))]
  BY DEF IndInv, ThreadInv, StreamInv, Thread
<1>2. ASSUME NEW from, NEW half, Write("main", from, half), from \in {"writeH", "writeB"}
      PROVE  srv'[port] = Append(srv[port], [half |-> half, msg |-> msg["main"]])
  <2>1. held["main"] \in Port
    BY <1>1, <1>2 DEF Write, At, IndInv, ThreadInv
  <2>2. link[held["main"]] = "up"
    BY <1>2 DEF Write
  <2>3. held["main"] = port
    BY <2>1, <2>2 DEF LiveInv
  <2> QED BY <1>1, <1>2, <2>1, <2>2, <2>3 DEF Write
<1>3. CASE pc["main"] \in Waits
  <2>1. pc["receive"] = "off"
    BY <1>3 DEF Waits, FirstInv
  <2>2. \A p \in Port : ~Reads("receive", p)
    BY <2>1 DEF Reads, ReadHeader, Misread, WholeBody, At
  <2>3. ~ReadHeader("main")
    BY <1>1 DEF ReadHeader, Waits
  <2>4. ~Misread("main")
    <3>1. Misread("main") => pc["main"] = "readH"
      BY <1>3 DEF Misread, At, Waits
    <3> QED BY <2>1, <3>1, HeaderInFront
  <2>5. \A kind : ~WholeBody("main", kind)
    BY <1>3 DEF WholeBody, At, Waits
  <2> QED BY <1>3, <2>2, <2>3, <2>4, <2>5 DEF Reads
<1>4. CASE pc["main"] \notin Waits
  <2>1. MainNext
    BY <1>4, MainStays
  <2>2. ~Receiving("main") /\ ~LoginSucceeds /\ ~LoginDenied
    BY <1>1, <1>4 DEF Waits, Receiving, ReadCheck, ReadFails, Load, ReadHeader, Misread, WholeBody,
       LoginSucceeds, LoginDenied, At, Goto, Return, threadVars
  <2>3. ~((\E c \in Cred : inputLoginInfo(c)) \/ SaveCredentials("main") \/ Retry \/ logout \/ Exit)
    BY <1>1, <1>4 DEF Waits, inputLoginInfo, SaveCredentials, Retry, logout, Exit, At, Goto, threadVars
  <2>4. ~(Check("main") \/ Load("main", "loadWH", "writeH") \/ Load("main", "loadWB", "writeB"))
    BY <1>1, <1>4 DEF Waits, Check, Load, At, Goto, Return
  <2> QED BY <1>2, <2>1, <2>2, <2>3, <2>4 DEF MainNext, Sending
<1> QED BY <1>3, <1>4

LEMMA NextAwait ==
  (IndInv /\ FirstInv /\ LiveInv /\ RespInv /\ EvenInv /\ CredInv) /\ AwaitInv /\ [Next]_vars
    => AwaitInv'
<1> SUFFICES ASSUME IndInv, FirstInv, LiveInv, RespInv, EvenInv, CredInv, AwaitInv, [Next]_vars,
                    pc'["main"] \in Waits, ~Repairing'
             PROVE  Resending' \/ Underway(port)'
  BY DEF AwaitInv
<1>1. /\ pc \in [Thread -> Places] /\ "main" \in Thread /\ "reconnect" \in Thread
      /\ srv \in [Port -> Seq(Part(Sent))]
  BY DEF IndInv, ThreadInv, StreamInv, Thread
<1>2. ~networkConnect
  BY <1>1 DEF networkConnect, Goto, Waits
<1>3. CASE Relogin
  <2>1. pc["main"] \in Waits
    BY <1>1, <1>3 DEF Relogin
  <2>2. creds # NoCred
    BY <2>1 DEF CredInv, Waits
  <2> QED BY <1>1, <1>3, <2>2 DEF Relogin, Resending
<1>4. CASE ~Repairing /\ port' = port /\ port \in Port /\ link[port] = "up"
  <2>1. ASSUME NEW x, srv'[port] = Append(srv[port], x) PROVE Underway(port)'
    <3>1. PICK s : s = srv[port] /\ s \in Seq(Part(Sent))
      BY <1>1, <1>4
    <3>2. Append(s, x) # <<>>
      BY <3>1
    <3> QED BY <1>4, <2>1, <3>1, <3>2 DEF Underway
  <2>2. CASE pc["main"] \in Waits /\ \A p \in Port : ~Reads("main", p) /\ ~Reads("receive", p)
    <3>1. CASE Resending
      BY <1>4, <2>1, <3>1, ResendStep
    <3>2. CASE Underway(port)
      BY <1>4, <2>2, <3>2, UnderwayKept
    <3> QED BY <1>4, <2>2, <3>1, <3>2 DEF AwaitInv
  <2>3. ~saveRetry'
    BY DEF Repairing
  <2> QED BY <1>2, <2>1, <2>2, <2>3, WaitStep
<1> QED BY <1>2, <1>3, <1>4, SettledStep

LEMMA NextSession ==
  IndInv /\ FirstInv /\ LiveInv /\ RespInv /\ SessionInv /\ [Next]_vars => SessionInv'
<1> SUFFICES ASSUME IndInv, FirstInv, LiveInv, RespInv, SessionInv, [Next]_vars,
                    pc'["main"] = "joined", creds' = "right", ~Repairing'
             PROVE  Promised(port)' \/ (Resending' /\ msg'["reconnect"] = Login("right"))
  BY DEF SessionInv
<1>1. /\ pc \in [Thread -> Places] /\ "main" \in Thread /\ "reconnect" \in Thread
      /\ srv \in [Port -> Seq(Part(Sent))] /\ msg \in [Thread -> Sent \cup {NoMsg}]
  BY DEF IndInv, ThreadInv, StreamInv, Thread
<1>2. ~networkConnect
  BY <1>1 DEF networkConnect, Goto
<1>3. CASE Relogin
  <2>1. creds = "right" /\ "right" # NoCred
    BY <1>3, LaptopAssumption DEF Relogin, flagVars, Cred
  <2> QED BY <1>1, <1>3, <2>1 DEF Relogin, Resending
<1>4. CASE ~Repairing /\ port' = port /\ port \in Port /\ link[port] = "up"
  <2>1. CASE LoginSucceeds
    <3>1. /\ held["main"] \in Port /\ link[held["main"]] = "up" /\ resp[held["main"]] # <<>>
          /\ Front("main").msg.kind = "granted"
      BY <2>1 DEF LoginSucceeds, WholeBody, At, Arrived, IndInv, ThreadInv, Thread
    <3>2. held["main"] = port
      BY <3>1 DEF LiveInv
    <3>3. Head(resp[port]) = resp[port][1] /\ 1 \in 1..Len(resp[port])
      BY <1>4, <3>1, <3>2, TailElements DEF IndInv, StreamInv
    <3>4. logged[port]
      BY <1>4, <3>1, <3>2, <3>3 DEF RespInv, Front
    <3> QED BY <1>4, <2>1, <3>4 DEF LoginSucceeds, WholeBody, Promised
  <2>2. CASE SaveCredentials("reconnect")
    BY <1>1, <2>2, CredStep DEF Resending
  <2>3. CASE ~LoginSucceeds /\ ~SaveCredentials("reconnect")
    <3>1. ~SaveCredentials("main")
      BY <1>1, CredStep
    <3>2. pc["main"] = "joined"
      <4>1. CASE ~MainNext
        BY <4>1, MainStays
      <4>2. CASE MainNext
        BY <1>1, <1>2, <2>3, <3>1, <4>2 DEF MainNext, inputLoginInfo, Sending, Check, Load, Write,
           Receiving, ReadCheck, ReadFails, ReadHeader, Misread, LoginDenied, Retry, logout, Exit,
           At, Goto, Return, AfterSend, AfterRead, threadVars
      <4> QED BY <4>1, <4>2
    <3>3. creds = "right"
      BY <2>3, <3>1, CredStep
    <3>4. CASE Promised(port)
      BY <1>4, <3>4, PromiseKept
    <3>5. CASE Resending /\ msg["reconnect"] = Login("right")
      <4>1. CASE Resending' /\ msg'["reconnect"] = msg["reconnect"]
        BY <3>5, <4>1
      <4>2. ASSUME NEW half,
                   srv'[port] = Append(srv[port], [half |-> half, msg |-> msg["reconnect"]])
            PROVE  Promised(port)'
        <5>1. PICK s : s = srv[port] /\ s \in Seq(Part(Sent)) /\ Len(s) \in Nat
          BY <1>1, <1>4
        <5>2. PICK x : x = [half |-> half, msg |-> msg["reconnect"]]
          OBVIOUS
        <5>3. /\ Len(s) + 1 \in 1..Len(Append(s, x)) /\ Append(s, x)[Len(s) + 1] = x
          BY <5>1
        <5>4. x.msg = Login("right")
          BY <3>5, <5>2
        <5> QED BY <1>4, <4>2, <5>1, <5>2, <5>3, <5>4 DEF Promised
      <4> QED BY <1>4, <3>5, <4>1, <4>2, ResendStep
    <3> QED BY <1>4, <3>2, <3>3, <3>4, <3>5 DEF SessionInv
  <2> QED BY <2>1, <2>2, <2>3
<1> QED BY <1>2, <1>3, <1>4, SettledStep

\* nothing is connected yet
LEMMA InitCurrent == Init => LiveInv /\ RespInv /\ EvenInv /\ CredInv /\ AwaitInv /\ SessionInv
<1> SUFFICES ASSUME Init PROVE LiveInv /\ RespInv /\ EvenInv /\ CredInv /\ AwaitInv /\ SessionInv
  OBVIOUS
<1>1. /\ pc["main"] = "connect" /\ pc["reconnect"] = "off"
      /\ \A p \in Port : link[p] = "free" /\ Closed(p)
  BY DEF Init, Thread, Closed
<1>2. LiveInv /\ EvenInv
  BY <1>1 DEF LiveInv, EvenInv
<1>3. RespInv
  <2>1. \A p \in Port : resp[p] = <<>>
    BY <1>1 DEF Closed
  <2> QED BY <2>1 DEF RespInv
<1>4. CredInv /\ AwaitInv /\ SessionInv
  BY <1>1 DEF CredInv, AwaitInv, SessionInv, Waits
<1> QED BY <1>2, <1>3, <1>4

LEMMA SpecCurrent == Spec => [](FirstInv /\ LiveInv /\ RespInv /\ EvenInv /\ CredInv)
<1>1. Init => FirstInv
  BY DEF Init, FirstInv, First, Thread
<1> QED BY <1>1, InitCurrent, NextFirst, NextLive, NextResp, NextEven, NextCred, IndInvariant, PTL
        DEF Spec

(***************************************************************************)
(* main does not wait in ReadDataTcp() for a response to nothing, for any  *)
(* number of losses and addresses: what it reads for was sent, or will be  *)
(* sent again by the reconnect thread.                                     *)
(***************************************************************************)
THEOREM WaitsForSomething == Spec => []NeverAwaitsInVain
<1>1. AwaitInv => NeverAwaitsInVain
  BY DEF AwaitInv, NeverAwaitsInVain, Settled, Repairing, Resending, Underway, Waits
<1> QED BY <1>1, InitCurrent, NextAwait, SpecCurrent, IndInvariant, PTL DEF Spec

(***************************************************************************)
(* After login() every connection that has settled has a session, or a     *)
(* login on its way to one: the reconnect thread repeats the saved login   *)
(* on each connection it opens.                                            *)
(***************************************************************************)
THEOREM SessionIsRestored == Spec => []SessionFollowsConnection
<1>1. SessionInv => SessionFollowsConnection
  <2> SUFFICES ASSUME SessionInv, Settled, pc["main"] = "joined", creds = "right"
               PROVE  logged[port] \/ LoginUnderWay(port)
    BY DEF SessionFollowsConnection
  <2>1. Promised(port)
    BY DEF SessionInv, Settled, Repairing, Resending
  <2>2. Login("right").kind = "login"
    BY DEF Login
  <2> QED BY <2>1, <2>2 DEF Promised, LoginUnderWay
<1> QED BY <1>1, InitCurrent, NextSession, SpecCurrent, IndInvariant, PTL DEF Spec

-----------------------------------------------------------------------------
(***************************************************************************)
(* As long as nothing failed.  Until main has joined it talks alone with   *)
(* the server: it writes one login and reads one response before it writes *)
(* the next.  Then only the video thread writes, only receive reads, and   *)
(* the connection has a session.                                           *)
(***************************************************************************)
Calm == losses + fails = 0 /\ pc["main"] # "logout"

\* in the responses of a connection each length is followed by its own text
PairInv ==
  \A p \in Port : \A i \in 1..Len(resp[p]) :
    resp[p][i].half = "header" =>
      i + 1 \in 1..Len(resp[p]) /\ resp[p][i + 1] = [half |-> "body", msg |-> resp[p][i].msg]

Quiet(p)  == srv[p] = <<>> /\ auth[p] = {} /\ resp[p] = <<>>
TextOf(m) == [half |-> "body", msg |-> m]
Verdict   == {r \in Response : /\ r.kind \in {"granted", "denied"} /\ r.key = creds
                               /\ r.kind = "granted" => creds \in granted}
HoldsPort(t) == pc[t] \in {"readH", "readB"} => held[t] = port

\* the login main sends, then waits for, and where it is
Conversation(p) ==
  /\ pc["main"] \in {"input", "save", "check", "loadWH", "writeH"} => Quiet(p)
  /\ pc["main"] \in {"loadWB", "writeB"} =>
       /\ srv[p] = <<[half |-> "header", msg |-> Login(creds)]>>
       /\ auth[p] = {} /\ resp[p] = <<>>
  /\ pc["main"] \in {"rcheck", "loadRH", "readH"} =>
       \/ srv[p] = Both(Login(creds)) /\ auth[p] = {} /\ resp[p] = <<>>
       \/ srv[p] = <<>> /\ auth[p] = {creds} /\ resp[p] = <<>>
       \/ srv[p] = <<>> /\ auth[p] = {} /\ \E r \in Verdict : resp[p] = Both(r)
  /\ pc["main"] \in {"loadRB", "readB"} =>
       /\ srv[p] = <<>> /\ auth[p] = {} /\ got["main"] \in Verdict
       /\ resp[p] = <<TextOf(got["main"])>>
  /\ pc["main"] \in {"check", "loadWH", "writeH", "loadWB", "writeB"} => msg["main"] = Login(creds)
  /\ HoldsPort("main")
  /\ pc["main"] \in {"input", "save", "check", "loadWH", "writeH", "loadWB", "writeB",
                     "rcheck", "loadRH", "readH", "loadRB", "readB"}

\* what the receive thread reads once the login succeeded
Served(p) ==
  /\ creds \in granted /\ logged[p]
  /\ pc["receive"] \in {"rcheck", "loadRH", "readH", "loadRB", "readB"}
  /\ HoldsPort("receive")
  /\ IF pc["receive"] \in {"loadRB", "readB"}
     THEN resp[p] # <<>> /\ resp[p][1] = TextOf(got["receive"])
     ELSE Len(resp[p]) % 2 = 0

Undisturbed ==
  /\ proc = "running" /\ serverUp /\ ~saveRetry /\ refused = {}
  /\ pc["reconnect"] \in {"off", "idle"}
  /\ pc["main"] # "connect" =>
       /\ port \in Port /\ First(port)
       /\ IF pc["main"] = "joined" THEN Served(port) ELSE Conversation(port)

CalmInv == Calm => Undisturbed

LEMMA NextPair == IndInv /\ PairInv /\ [Next]_vars => PairInv'
<1> SUFFICES ASSUME IndInv, PairInv, [Next]_vars,
                    NEW p \in Port, NEW i \in 1..Len(resp'[p]), resp'[p][i].half = "header"
             PROVE  /\ i + 1 \in 1..Len(resp'[p])
                    /\ resp'[p][i + 1] = [half |-> "body", msg |-> resp'[p][i].msg]
  BY DEF PairInv
<1> DEFINE s == resp[p]
<1>1. s \in Seq(Part(Given)) /\ Len(s) \in Nat
  BY DEF IndInv, StreamInv
<1>2. \A k \in 1..Len(s) : s[k].half = "header" =>
        k + 1 \in 1..Len(s) /\ s[k + 1] = [half |-> "body", msg |-> s[k].msg]
  BY DEF PairInv
<1>3. CASE resp'[p] = resp[p]
  BY <1>2, <1>3
<1>4. CASE resp'[p] = <<>>
  BY <1>4
<1>5. CASE \E t \in {"main", "receive"} : Reads(t, p)
  <2>1. s # <<>> /\ resp'[p] = Tail(s)
    BY <1>5 DEF Reads
  <2> HIDE DEF s
  <2>2. /\ Len(resp'[p]) = Len(s) - 1 /\ i \in 1..(Len(s) - 1) /\ Len(s) \in Nat \ {0}
        /\ \A k \in 1..(Len(s) - 1) : resp'[p][k] = s[k + 1]
    BY <1>1, <2>1, TailElements
  <2>3. i + 1 \in 1..Len(s) /\ s[i + 1].half = "header"
    BY <2>2
  <2>4. /\ (i + 1) + 1 \in 1..Len(s)
        /\ s[(i + 1) + 1] = [half |-> "body", msg |-> s[i + 1].msg]
    BY <1>2, <2>3
  <2>5. i + 1 \in 1..(Len(s) - 1)
    BY <2>2, <2>4
  <2> QED BY <2>2, <2>4, <2>5
<1>6. CASE Answers(p)
  <2>1. PICK r : resp'[p] = s \o Both(r)
    BY <1>6 DEF Answers
  <2> HIDE DEF s
  <2>2. /\ Len(resp'[p]) = Len(s) + 2 /\ \A k \in 1..Len(s) : resp'[p][k] = s[k]
        /\ resp'[p][Len(s) + 1] = [half |-> "header", msg |-> r]
        /\ resp'[p][Len(s) + 2] = [half |-> "body", msg |-> r]
    BY <1>1, <2>1, BothElements
  <2>3. CASE i \in 1..Len(s)
    <3>1. i + 1 \in 1..Len(s) /\ s[i + 1] = [half |-> "body", msg |-> s[i].msg]
      BY <1>2, <2>2, <2>3
    <3>2. i + 1 \in 1..Len(resp'[p])
      BY <1>1, <2>2, <3>1
    <3> QED BY <2>2, <2>3, <3>1, <3>2
  <2>4. CASE i = Len(s) + 1
    <3>1. i + 1 = Len(s) + 2 /\ i + 1 \in 1..Len(resp'[p])
      BY <1>1, <2>2, <2>4
    <3> QED BY <2>2, <2>4, <3>1
  <2>5. i # Len(s) + 2
    BY <2>2
  <2>6. i \in 1..Len(s) \/ i = Len(s) + 1 \/ i = Len(s) + 2
    BY <1>1, <2>2
  <2> QED BY <2>3, <2>4, <2>5, <2>6
<1> QED BY <1>3, <1>4, <1>5, <1>6, RespStep

(***************************************************************************)
(* A fault is never taken back, and nobody leaves logout().                *)
(***************************************************************************)
LEMMA CalmBefore ==
  ASSUME IndInv, [Next]_vars, IndInv', Calm'
  PROVE  Calm /\ losses' = losses /\ fails' = fails
<1>1. losses \in Nat /\ fails \in Nat /\ losses' \in Nat /\ fails' \in Nat
  BY DEF IndInv, FaultInv
<1>2. /\ losses' = losses \/ losses' = losses + 1
      /\ fails' = fails \/ fails' = fails + 1
  <2> USE DEF restVars, connVars, faultVars
  <2>1. CASE MainNext
    BY <2>1 DEF MainNext, networkConnect, inputLoginInfo, SaveCredentials, Sending, Check, Load, Write,
       Receiving, ReadCheck, ReadFails, ReadHeader, Misread, WholeBody, LoginSucceeds, LoginDenied,
       Retry, logout, Exit, Opened, NotOpened
  <2>2. CASE ReconnectNext \/ VideoNext
    BY <2>2 DEF ReconnectNext, retryNetworkConnect, Reconnect, ClearRetry, Relogin, SaveCredentials,
       Sending, Check, Load, Write, VideoNext, sendRecognizedInfo, Opened, NotOpened
  <2>3. CASE ReceiveNext
    BY <2>3 DEF ReceiveNext, Receiving, ReadCheck, ReadFails, Load, ReadHeader, Misread, WholeBody,
       Ignore, Answer
  <2>4. CASE \E p \in Port : ServerNext(p) \/ LoseConnection(p)
    BY <2>4 DEF ServerNext, ServerReadsLogin, ServerAnswersLogin, ServerAnswersQuery, ServerEnds,
       LoseConnection
  <2>5. CASE UNCHANGED vars
    BY <2>5 DEF vars
  <2> QED BY <2>1, <2>2, <2>3, <2>4, <2>5 DEF Next
<1>3. losses' = losses /\ fails' = fails /\ losses + fails = 0
  <2>1. losses' + fails' = 0
    BY DEF Calm
  <2>2. \A m, n \in Nat : m + n = 0 => m = 0 /\ n = 0
    OBVIOUS
  <2>3. losses' = 0 /\ fails' = 0
    BY <1>1, <2>1, <2>2
  <2> QED BY <1>1, <1>2, <2>3
<1>4. pc["main"] # "logout"
  <2> SUFFICES ASSUME pc["main"] = "logout" PROVE pc'["main"] = "logout"
    BY DEF Calm
  <2>1. CASE ~MainNext
    BY <2>1, MainStays
  <2>2. CASE MainNext
    BY <2>2 DEF MainNext, networkConnect, inputLoginInfo, SaveCredentials, Sending, Check, Load, Write,
       Receiving, ReadCheck, ReadFails, ReadHeader, Misread, WholeBody, LoginSucceeds, LoginDenied,
       Retry, logout, Exit, At, threadVars
  <2> QED BY <2>1, <2>2
<1> QED BY <1>3, <1>4 DEF Calm

\* nobody has begun to repair, so the reconnect thread does nothing
LEMMA NoRepair ==
  ASSUME ~saveRetry, pc["reconnect"] \in {"off", "idle"}
  PROVE  ~ReconnectNext
  BY DEF ReconnectNext, retryNetworkConnect, Reconnect, ClearRetry, Relogin, SaveCredentials, Sending,
     Check, Load, Write, At

\* what is framed does not end the server
LEMMA NotTorn ==
  ASSUME IndInv, NEW p \in Port, Framed(srv[p])
  PROVE  ~Torn(p)
<1> SUFFICES ASSUME Torn(p) PROVE FALSE
  OBVIOUS
<1>1. srv[p] \in Seq(Part(Sent)) /\ srv[p] # <<>> /\ Len(srv[p]) \in Nat \ {0}
  BY DEF Torn, IndInv, StreamInv
<1>2. Head(srv[p]) = srv[p][1] /\ srv[p][1].half = "header"
  <2>1. PICK i \in 1..Len(srv[p]) : i = 1 /\ i % 2 = 1
    BY <1>1
  <2>2. srv[p][i].half = "header"
    BY <2>1 DEF Framed
  <2> QED BY <1>1, <2>1, <2>2
<1>3. Len(srv[p]) >= 2 /\ srv[p][2] # [half |-> "body", msg |-> srv[p][1].msg]
  BY <1>2 DEF Torn
<1>4. PICK i \in 1..Len(srv[p]) : i = 2 /\ i % 2 # 1 /\ i - 1 = 1
  BY <1>1, <1>3
<1>5. srv[p][i] = [half |-> "body", msg |-> srv[p][i - 1].msg]
  BY <1>4 DEF Framed
<1> QED BY <1>3, <1>4, <1>5

\* short sequences, part by part
LEMMA ShortSequences ==
  ASSUME NEW x, NEW y
  PROVE  /\ Append(<<>>, x) = <<x>> /\ Append(<<x>>, y) = <<x, y>>
         /\ Head(<<x>>) = x /\ Tail(<<x>>) = <<>>
         /\ Head(<<x, y>>) = x /\ Tail(<<x, y>>) = <<y>>
         /\ <<>> \o <<x, y>> = <<x, y>>
<1>1. Append(<<>>, x) = <<x>>
  OBVIOUS
<1>2. Append(<<x>>, y) = <<x, y>>
  <2> DEFINE S == {x, y}
             s == Append(<<x>>, y)
             t == <<x, y>>
  <2>1. <<x>> \in Seq(S) /\ Len(<<x>>) = 1 /\ <<x>>[1] = x /\ y \in S
    OBVIOUS
  <2>2. s \in Seq(S) /\ Len(s) = 2 /\ s[1] = x /\ s[2] = y
    BY <2>1, AppendProperties
  <2>3. t \in Seq(S) /\ Len(t) = 2 /\ t[1] = x /\ t[2] = y
    OBVIOUS
  <2> HIDE DEF S, s, t
  <2>4. \A i \in 1..Len(s) : s[i] = t[i]
    BY <2>2, <2>3
  <2>5. s = t
    BY <2>2, <2>3, <2>4, SeqEqual
  <2> QED BY <2>5 DEF s, t
<1>3. Head(<<x>>) = x /\ Head(<<x, y>>) = x
  OBVIOUS
<1>4. Tail(<<x>>) = <<>> /\ Tail(<<x, y>>) = <<y>>
  OBVIOUS
<1>5. <<>> \o <<x, y>> = <<x, y>>
  OBVIOUS
<1> QED BY <1>1, <1>2, <1>3, <1>4, <1>5

\* the conversation goes on: the connection is the same, and nobody repairs it
LEMMA StaysCalm ==
  ASSUME Undisturbed, pc["main"] # "connect",
         UNCHANGED <<proc, serverUp, saveRetry, refused, port, link, opener>>,
         pc'["reconnect"] \in {"off", "idle"},
         IF pc'["main"] = "joined" THEN Served(port)' ELSE Conversation(port)'
  PROVE  Undisturbed'
  BY DEF Undisturbed, First

LEMMA CalmConnects ==
  ASSUME IndInv, FirstInv, LiveInv, Undisturbed, networkConnect, fails' = fails
  PROVE  Undisturbed'
<1> USE DEF restVars, flagVars, plateVars, histVars
<1>1. /\ pc \in [Thread -> Places] /\ "main" \in Thread /\ "reconnect" \in Thread
      /\ link \in [Port -> {"free", "up", "down"}] /\ opener \in [Port -> {"main", "reconnect"}]
      /\ fails \in Nat
  BY DEF IndInv, ThreadInv, ConnInv, FaultInv, Thread
<1>2. \A p \in Port : link[p] = "free" /\ Closed(p)
  BY DEF networkConnect, At, FirstInv, LiveInv
<1>3. ~NotOpened
  BY <1>1 DEF NotOpened, Undisturbed
<1>4. PICK p \in Port : Opened("main", p) /\ saveRetry' = FALSE
  BY <1>3 DEF networkConnect
<1>5. /\ pc' = [pc EXCEPT !["main"] = "input"] /\ port' = p
      /\ link' = [link EXCEPT ![p] = "up"] /\ opener' = [opener EXCEPT ![p] = "main"]
      /\ UNCHANGED <<proc, serverUp, refused, srv, auth, resp>>
  BY <1>4 DEF networkConnect, Goto, Opened
<1>6. pc'["main"] = "input" /\ pc'["reconnect"] = pc["reconnect"]
  BY <1>1, <1>5
<1>7. First(p)'
  BY <1>1, <1>5 DEF First
<1>8. Conversation(p)'
  BY <1>2, <1>5, <1>6 DEF Conversation, Quiet, Closed, HoldsPort
<1> QED BY <1>4, <1>5, <1>6, <1>7, <1>8 DEF Undisturbed

(***************************************************************************)
(* main types, saves and writes one login.                                 *)
(***************************************************************************)
Talking == pc["main"] \notin {"connect", "joined", "logout"}

LEMMA CalmTypes ==
  ASSUME IndInv, Undisturbed, pc["main"] # "connect"
  PROVE  /\ port \in Port /\ port # NoPort /\ link[port] = "up" /\ opener[port] = "main"
         /\ pc \in [Thread -> Places] /\ held \in [Thread -> Port \cup {NoPort}]
         /\ msg \in [Thread -> Sent \cup {NoMsg}] /\ got \in [Thread -> Given \cup {NoMsg}]
         /\ srv \in [Port -> Seq(Part(Sent))] /\ resp \in [Port -> Seq(Part(Given))]
         /\ auth \in [Port -> SUBSET Cred] /\ Thread = {"main", "reconnect", "video", "receive"}
  BY LaptopAssumption DEF Undisturbed, First, IndInv, ThreadInv, StreamInv, ConnInv, Thread

LEMMA CalmTypesLogin ==
  ASSUME IndInv, FirstInv, Undisturbed, Talking,
         (\E c \in Cred : inputLoginInfo(c)) \/ SaveCredentials("main")
  PROVE  Undisturbed'
<1> USE DEF restVars, flagVars, plateVars, connVars, histVars, faultVars
<1>1. Conversation(port)
  BY DEF Undisturbed, Talking
<1>2. CASE \E c \in Cred : inputLoginInfo(c)
  <2>1. /\ pc'["main"] = "save" /\ pc'["reconnect"] \in {"off", "idle"} /\ pc["main"] = "input"
    BY <1>2, CalmTypes DEF inputLoginInfo, At, Talking, Undisturbed
  <2>2. Conversation(port)'
    BY <1>1, <1>2, <2>1 DEF Conversation, Quiet, HoldsPort, inputLoginInfo
  <2> QED BY <1>2, <2>1, <2>2, StaysCalm DEF inputLoginInfo
<1>3. CASE SaveCredentials("main")
  <2>1. /\ pc["main"] = "save" /\ pc'["main"] = "check" /\ pc'["reconnect"] = pc["reconnect"]
    BY <1>3, CalmTypes DEF SaveCredentials, At, Goto, Talking
  <2>2. msg'["main"] = Login(creds')
    BY <1>3, <2>1, CredStep, CalmTypes DEF Talking, Next, MainNext
  <2>3. Conversation(port)'
    BY <1>1, <1>3, <2>1, <2>2 DEF Conversation, Quiet, HoldsPort, SaveCredentials
  <2> QED BY <1>3, <2>1, <2>3, StaysCalm DEF SaveCredentials, Undisturbed
<1> QED BY <1>2, <1>3

LEMMA CalmSends ==
  ASSUME IndInv, FirstInv, Undisturbed, Talking, Sending("main")
  PROVE  Undisturbed'
<1> USE DEF restVars, flagVars, plateVars, connVars, histVars, faultVars
<1>1. Conversation(port) /\ ~saveRetry
  BY DEF Undisturbed, Talking
<1>2. CASE Check("main")
  <2>1. /\ pc["main"] = "check" /\ pc'["main"] = "loadWH" /\ pc'["reconnect"] = pc["reconnect"]
        /\ msg' = msg /\ saveRetry' = saveRetry
    BY <1>1, <1>2, CalmTypes DEF Check, At, Goto, Talking
  <2>2. Conversation(port)'
    BY <1>1, <1>2, <2>1 DEF Conversation, Quiet, HoldsPort, Check
  <2> QED BY <1>2, <2>1, <2>2, StaysCalm DEF Check, Undisturbed
<1>3. ASSUME NEW from, NEW to, Load("main", from, to),
             <<from, to>> \in {<<"loadWH", "writeH">>, <<"loadWB", "writeB">>}
      PROVE  Undisturbed'
  <2>1. /\ pc["main"] = from /\ pc'["main"] = to /\ pc'["reconnect"] = pc["reconnect"]
        /\ proc' = proc
    BY <1>3, CalmTypes DEF Load, At, Talking
  <2>2. Conversation(port)'
    BY <1>1, <1>3, <2>1 DEF Conversation, Quiet, HoldsPort, Load
  <2> QED BY <1>3, <2>1, <2>2, StaysCalm DEF Load, Undisturbed
<1>4. ASSUME NEW from, NEW half, Write("main", from, half),
             <<from, half>> \in {<<"writeH", "header">>, <<"writeB", "body">>}
      PROVE  Undisturbed'
  <2> DEFINE x == [half |-> half, msg |-> Login(creds)]
  <2>1. /\ pc["main"] = from /\ held["main"] = port /\ msg["main"] = Login(creds)
    <3>1. FirstPort(port) /\ pc["main"] = from
      BY <1>4, CalmTypes DEF FirstInv, First, Talking, Write, At
    <3> QED BY <1>1, <1>4, <3>1 DEF FirstPort, Writer, Conversation
  <2>2. /\ srv'[port] = Append(srv[port], x) /\ saveRetry' = saveRetry
        /\ pc'["reconnect"] = pc["reconnect"]
        /\ IF half = "header" THEN pc'["main"] = "loadWB" /\ msg' = msg ELSE pc'["main"] = "rcheck"
    BY <1>4, <2>1, CalmTypes DEF Write, Goto, Return, AfterSend, Talking
  <2>3. UNCHANGED <<creds, auth, resp>>
    BY <1>4 DEF Write
  <2>4. CASE half = "header"
    <3>1. srv[port] = <<>> /\ auth[port] = {} /\ resp[port] = <<>>
      BY <1>1, <1>4, <2>1, <2>4 DEF Conversation, Quiet
    <3>2. srv'[port] = <<x>>
      BY <2>2, <3>1, ShortSequences
    <3>3. Conversation(port)'
      BY <1>1, <1>4, <2>1, <2>2, <2>3, <2>4, <3>1, <3>2 DEF Conversation, HoldsPort, Write
    <3> QED BY <1>4, <2>2, <2>4, <3>3, StaysCalm DEF Write, Undisturbed, Talking
  <2>5. CASE half = "body"
    <3>1. /\ srv[port] = <<[half |-> "header", msg |-> Login(creds)]>>
          /\ auth[port] = {} /\ resp[port] = <<>>
      BY <1>1, <1>4, <2>1, <2>5 DEF Conversation
    <3>2. srv'[port] = Both(Login(creds))
      BY <2>2, <2>5, <3>1, ShortSequences DEF Both
    <3>3. Conversation(port)'
      BY <1>4, <2>2, <2>3, <2>5, <3>1, <3>2 DEF Conversation, HoldsPort, Write
    <3> QED BY <1>4, <2>2, <2>5, <3>3, StaysCalm DEF Write, Undisturbed, Talking
  <2> QED BY <1>4, <2>4, <2>5
<1> QED BY <1>2, <1>3, <1>4 DEF Sending

(***************************************************************************)
(* main reads the response to that login: nothing else is on its way.      *)
(***************************************************************************)
LEMMA CalmReads ==
  ASSUME IndInv, LiveInv, RespInv, Undisturbed, Talking,
         Receiving("main") \/ LoginSucceeds \/ LoginDenied
  PROVE  Undisturbed'
<1> USE DEF restVars, flagVars, plateVars, connVars, histVars, faultVars
<1>1. /\ Conversation(port) /\ ~saveRetry /\ pc["main"] \notin {"retry", "lost"}
      /\ HoldsPort("main")
  BY DEF Undisturbed, Talking, Conversation
<1>2. CASE ReadCheck("main")
  <2>1. /\ pc["main"] = "rcheck" /\ pc'["main"] = "loadRH" /\ pc'["reconnect"] = pc["reconnect"]
        /\ saveRetry' = saveRetry
    BY <1>1, <1>2, CalmTypes DEF ReadCheck, At, Goto, Talking
  <2>2. Conversation(port)'
    BY <1>1, <1>2, <2>1 DEF Conversation, Verdict, HoldsPort, ReadCheck
  <2> QED BY <1>2, <2>1, <2>2, StaysCalm DEF ReadCheck, Undisturbed
<1>3. ASSUME NEW from, NEW to, Load("main", from, to),
             <<from, to>> \in {<<"loadRH", "readH">>, <<"loadRB", "readB">>}
      PROVE  Undisturbed'
  <2>1. /\ pc["main"] = from /\ pc'["main"] = to /\ pc'["reconnect"] = pc["reconnect"]
        /\ proc' = proc /\ held'["main"] = port
    BY <1>3, CalmTypes DEF Load, At, Talking
  <2>2. Conversation(port)'
    BY <1>1, <1>3, <2>1 DEF Conversation, Verdict, HoldsPort, Load
  <2> QED BY <1>3, <2>1, <2>2, StaysCalm DEF Load, Undisturbed
<1>4. ASSUME pc["main"] = "readH", Arrived("main")
      PROVE  /\ srv[port] = <<>> /\ auth[port] = {}
             /\ \E r \in Verdict : /\ resp[port] = Both(r) /\ Front("main") = [half |-> "header", msg |-> r]
                                   /\ Tail(resp[port]) = <<TextOf(r)>>
  <2>1. held["main"] = port /\ resp[port] # <<>>
    BY <1>1, <1>4 DEF HoldsPort, Arrived
  <2>2. /\ srv[port] = <<>> /\ auth[port] = {}
        /\ \E r \in Verdict : resp[port] = Both(r)
    BY <1>1, <1>4, <2>1 DEF Conversation
  <2>3. PICK r \in Verdict : resp[port] = Both(r)
    BY <2>2
  <2>4. Head(resp[port]) = [half |-> "header", msg |-> r] /\ Tail(resp[port]) = <<TextOf(r)>>
    BY <2>3, ShortSequences DEF Both, TextOf
  <2> QED BY <2>1, <2>2, <2>3, <2>4 DEF Front
<1>5. ASSUME pc["main"] = "readB", Arrived("main")
      PROVE  /\ srv[port] = <<>> /\ auth[port] = {} /\ got["main"] \in Verdict
             /\ held["main"] = port /\ Front("main") = TextOf(got["main"])
             /\ Tail(resp[port]) = <<>>
  <2>1. held["main"] = port
    BY <1>1, <1>5 DEF HoldsPort
  <2> QED BY <1>1, <1>5, <2>1, ShortSequences DEF Conversation, Front
<1>6. CASE ReadHeader("main")
  <2>1. pc["main"] = "readH" /\ held["main"] = port /\ Arrived("main")
    BY <1>1, <1>6 DEF ReadHeader, At, HoldsPort
  <2>2. PICK r \in Verdict : /\ Front("main") = [half |-> "header", msg |-> r]
                             /\ Tail(resp[port]) = <<TextOf(r)>>
    BY <1>4, <2>1
  <2>3. /\ pc'["main"] = "loadRB" /\ pc'["reconnect"] = pc["reconnect"]
        /\ got'["main"] = r /\ resp'[port] = <<TextOf(r)>>
    BY <1>6, <2>1, <2>2, CalmTypes DEF ReadHeader, Consume, Talking
  <2>4. Conversation(port)'
    BY <1>4, <1>6, <2>1, <2>3 DEF Conversation, Verdict, HoldsPort, ReadHeader
  <2> QED BY <1>6, <2>1, <2>3, <2>4, StaysCalm DEF ReadHeader, Undisturbed
<1>7. ~Misread("main")
  <2>1. pc["main"] = "readH" /\ Arrived("main") => Front("main").half = "header"
    BY <1>4
  <2>2. pc["main"] = "readB" /\ Arrived("main") => Front("main") = TextOf(got["main"])
    BY <1>5
  <2> QED BY <1>1, <2>1, <2>2 DEF Misread, At, TextOf
<1>8. \A from \in {"readH", "readB", "lost"} : ~ReadFails("main", from)
  BY <1>1, CalmTypes DEF ReadFails, At, HoldsPort, Talking
<1>9. CASE LoginSucceeds
  <2>1. /\ pc["main"] = "readB" /\ Arrived("main") /\ got["main"].kind = "granted"
        /\ Front("main") = TextOf(got["main"])
    BY <1>9 DEF LoginSucceeds, WholeBody, At, TextOf
  <2>2. held["main"] = port /\ creds \in granted /\ Tail(resp[port]) = <<>>
    BY <1>5, <2>1 DEF Verdict
  <2>3. logged[port]
    <3>1. Head(resp[port]) = resp[port][1] /\ 1 \in 1..Len(resp[port])
      BY <2>1, <2>2, TailElements, CalmTypes DEF Arrived, Talking
    <3>2. resp[port][1].msg.kind = "granted"
      BY <2>1, <2>2, <3>1 DEF Front, TextOf
    <3> QED BY <3>1, <3>2, CalmTypes DEF RespInv, Talking
  <2>4. /\ pc'["main"] = "joined" /\ pc'["receive"] = "rcheck" /\ pc'["reconnect"] = pc["reconnect"]
        /\ resp'[port] = <<>>
    BY <1>9, <2>1, <2>2, CalmTypes DEF LoginSucceeds, WholeBody, Consume, Talking
  <2>5. Len(resp'[port]) % 2 = 0
    <3>1. PICK n \in Nat : n = Len(resp'[port]) /\ n = 0
      BY <2>4
    <3> QED BY <3>1
  <2>6. Served(port)'
    BY <1>9, <2>2, <2>3, <2>4, <2>5 DEF LoginSucceeds, WholeBody, Served, HoldsPort
  <2> QED BY <1>9, <2>1, <2>4, <2>6, StaysCalm DEF LoginSucceeds, WholeBody, Undisturbed
<1>10. CASE LoginDenied
  <2>1. /\ pc["main"] = "readB" /\ Arrived("main")
    BY <1>10 DEF LoginDenied, WholeBody, At
  <2>2. /\ pc'["main"] = "input" /\ pc'["reconnect"] = pc["reconnect"]
        /\ resp'[port] = <<>>
    BY <1>5, <1>10, <2>1, CalmTypes DEF LoginDenied, Return, WholeBody, Consume, Talking
  <2>3. Conversation(port)'
    BY <1>5, <1>10, <2>1, <2>2 DEF Conversation, Quiet, HoldsPort, LoginDenied, WholeBody
  <2> QED BY <1>10, <2>1, <2>2, <2>3, StaysCalm DEF LoginDenied, WholeBody, Undisturbed
<1> QED BY <1>2, <1>3, <1>6, <1>7, <1>8, <1>9, <1>10 DEF Receiving

(***************************************************************************)
(* The server answers that login with the credentials main saved.          *)
(***************************************************************************)
LEMMA CalmChecks ==
  ASSUME IndInv, FirstInv, LiveInv, Undisturbed, Talking,
         ServerReadsLogin(port) \/ (\E c \in Cred : ServerAnswersLogin(port, c))
           \/ \E l \in Plate : ServerAnswersQuery(port, l)
  PROVE  Undisturbed'
<1> USE DEF laptopVars, threadVars, flagVars, plateVars, faultVars, histVars
<1>1. Conversation(port)
  BY DEF Undisturbed, Talking
<1>2. ASSUME NEW m, Whole(port, m)
      PROVE  /\ pc["main"] \in {"rcheck", "loadRH", "readH"} /\ m = Login(creds)
             /\ auth[port] = {} /\ resp[port] = <<>> /\ SubSeq(srv[port], 3, Len(srv[port])) = <<>>
  <2>1. /\ Len(srv[port]) >= 2 /\ srv[port][1].msg = m
        /\ Len(SubSeq(srv[port], 3, Len(srv[port]))) = Len(srv[port]) - 2
    BY <1>2, WholeParts, CalmTypes DEF Talking
  <2>2. srv[port] = Both(Login(creds)) /\ auth[port] = {} /\ resp[port] = <<>>
        /\ pc["main"] \in {"rcheck", "loadRH", "readH"}
    <3>1. srv[port] # <<>>
      BY <2>1
    <3>2. ASSUME NEW x, srv[port] = <<x>> PROVE FALSE
      <4>1. Len(<<x>>) = 1
        OBVIOUS
      <4> QED BY <2>1, <3>2, <4>1
    <3> QED BY <1>1, <3>1, <3>2 DEF Conversation, Quiet
  <2>3. Len(srv[port]) = 2 /\ srv[port][1].msg = Login(creds)
    BY <2>2 DEF Both
  <2>4. SubSeq(srv[port], 3, Len(srv[port])) = <<>>
    <3>1. Len(SubSeq(srv[port], 3, Len(srv[port]))) = 0
      BY <2>1, <2>3
    <3>2. SubSeq(srv[port], 3, Len(srv[port])) \in Seq(Part(Sent))
      BY CalmTypes DEF Talking
    <3> QED BY <3>1, <3>2, EmptySeq
  <2> QED BY <2>1, <2>2, <2>3, <2>4
<1>3. CASE ServerReadsLogin(port)
  <2>1. PICK c \in Cred : /\ Whole(port, Login(c)) /\ auth' = [auth EXCEPT ![port] = @ \cup {c}]
                          /\ Take(port)
    BY <1>3 DEF ServerReadsLogin
  <2>2. c = creds
    BY <1>2, <2>1 DEF Login
  <2>3. srv'[port] = <<>> /\ auth'[port] = {creds} /\ resp'[port] = <<>>
    BY <1>2, <1>3, <2>1, <2>2, CalmTypes DEF Take, Talking, ServerReadsLogin
  <2>4. Conversation(port)'
    BY <1>2, <1>3, <2>1, <2>3, <1>1 DEF Conversation, HoldsPort, ServerReadsLogin
  <2> QED BY <1>3, <2>4, StaysCalm DEF ServerReadsLogin, Undisturbed, Talking
<1>4. ASSUME NEW c \in Cred, ServerAnswersLogin(port, c)
      PROVE  Undisturbed'
  <2> DEFINE r == [kind |-> IF c = "right" THEN "granted" ELSE "denied", key |-> c]
  <2>1. c \in auth[port]
    BY <1>4 DEF ServerAnswersLogin
  <2>2. /\ auth[port] = {creds} /\ srv[port] = <<>> /\ resp[port] = <<>> /\ c = creds
        /\ pc["main"] \in {"rcheck", "loadRH", "readH"}
    <3>1. auth[port] # {}
      BY <2>1
    <3> QED BY <1>1, <2>1, <3>1 DEF Conversation, Quiet
  <2>3. /\ UNCHANGED <<port, srv, creds, pc, held>> /\ auth'[port] = {}
        /\ resp' = [resp EXCEPT ![port] = @ \o Both(r)]
        /\ granted' = IF c = "right" THEN granted \cup {c} ELSE granted
    BY <1>4, <2>2, CalmTypes DEF ServerAnswersLogin, Talking
  <2>4. resp'[port] = Both(r)
    <3>1. resp'[port] = <<>> \o Both(r)
      BY <2>2, <2>3, CalmTypes DEF Talking
    <3> QED BY <3>1, ShortSequences DEF Both
  <2>5. r \in Verdict'
    BY <2>2, <2>3 DEF Verdict, Response
  <2>6. Conversation(port)'
    <3>1. srv'[port] = <<>> /\ auth'[port] = {} /\ \E v \in Verdict' : resp'[port] = Both(v)
      BY <2>2, <2>3, <2>4, <2>5
    <3> QED BY <1>1, <2>2, <2>3, <3>1 DEF Conversation, HoldsPort
  <2> QED BY <1>4, <2>2, <2>6, StaysCalm DEF ServerAnswersLogin, Undisturbed
<1>5. ASSUME NEW l \in Plate, ServerAnswersQuery(port, l)
      PROVE  FALSE
  BY <1>2, <1>5 DEF ServerAnswersQuery, Query, Login
<1> QED BY <1>3, <1>4, <1>5

(***************************************************************************)
(* After the login: the video thread alone writes.                         *)
(***************************************************************************)
Joined == pc["main"] = "joined"

\* what is not about the responses leaves what receive reads as it was
LEMMA CalmVideo ==
  ASSUME IndInv, FirstInv, Undisturbed, Joined, VideoNext
  PROVE  Undisturbed'
<1> USE DEF restVars, flagVars, plateVars, connVars, histVars, faultVars
<1>1. Served(port) /\ ~saveRetry /\ FirstPort(port)
  BY CalmTypes DEF Undisturbed, Joined, FirstInv, First
<1>2. ASSUME pc' = pc \/ \E to : pc' = [pc EXCEPT !["video"] = to],
             got' = got \/ got' = [got EXCEPT !["video"] = NoMsg],
             held' = held \/ \E h : held' = [held EXCEPT !["video"] = h],
             UNCHANGED <<proc, flagVars, refused, granted, serverUp, link, opener, logged, resp>>
      PROVE  Undisturbed'
  <2>1. /\ pc'["main"] = "joined" /\ pc'["reconnect"] = pc["reconnect"]
        /\ pc'["receive"] = pc["receive"] /\ got'["receive"] = got["receive"]
        /\ held'["receive"] = held["receive"]
    BY <1>2, CalmTypes DEF Joined
  <2>2. Served(port)'
    BY <1>1, <1>2, <2>1 DEF Served, HoldsPort
  <2> QED BY <1>2, <2>1, <2>2, StaysCalm DEF Joined, Undisturbed
<1>3. CASE \E l \in Plate : sendRecognizedInfo(l)
  BY <1>2, <1>3 DEF sendRecognizedInfo
<1>4. CASE Check("video")
  <2>1. saveRetry' = saveRetry /\ pc' = [pc EXCEPT !["video"] = "loadWH"] /\ UNCHANGED <<msg, held, got>>
    BY <1>1, <1>4, CalmTypes DEF Check, Goto, Joined
  <2> QED BY <1>2, <1>4, <2>1 DEF Check
<1>5. ASSUME NEW from, NEW to, Load("video", from, to) PROVE Undisturbed'
  BY <1>2, <1>5, CalmTypes DEF Load, Joined
<1>6. ASSUME NEW from, NEW half, Write("video", from, half),
             <<from, half>> \in {<<"writeH", "header">>, <<"writeB", "body">>}
      PROVE  Undisturbed'
  <2>1. link[held["video"]] = "up"
    BY <1>1, <1>6, CalmTypes DEF Write, At, FirstPort, Writer, Joined
  <2>2. /\ saveRetry' = saveRetry /\ \E to : pc' = [pc EXCEPT !["video"] = to]
        /\ got' = got \/ got' = [got EXCEPT !["video"] = NoMsg]
        /\ held' = held \/ held' = [held EXCEPT !["video"] = NoPort]
    BY <1>6, <2>1 DEF Write, Goto, Return, Leave
  <2> QED BY <1>2, <1>6, <2>2 DEF Write
<1> QED BY <1>3, <1>4, <1>5, <1>6 DEF VideoNext, Sending

(***************************************************************************)
(* The receive thread reads whole responses, each with the length and the  *)
(* text that belong together.                                              *)
(***************************************************************************)
LEMMA CalmReceives ==
  ASSUME IndInv, RespInv, PairInv, Undisturbed, Joined, ReceiveNext
  PROVE  Undisturbed'
<1> USE DEF restVars, flagVars, plateVars, connVars, histVars, faultVars
<1> DEFINE s == resp[port]
<1>1. /\ Served(port) /\ ~saveRetry /\ HoldsPort("receive") /\ pc["receive"] # "lost"
  BY DEF Undisturbed, Joined, Served
<1>2. ASSUME NEW to, pc' = [pc EXCEPT !["receive"] = to],
             UNCHANGED <<proc, flagVars, refused, granted, serverUp, link, opener, logged>>,
             Served(port)'
      PROVE  Undisturbed'
  <2>1. pc'["main"] = "joined" /\ pc'["reconnect"] = pc["reconnect"]
    BY <1>2, CalmTypes DEF Joined
  <2> QED BY <1>2, <2>1, StaysCalm DEF Joined, Undisturbed
<1>3. CASE ReadCheck("receive")
  <2>1. /\ pc["receive"] = "rcheck" /\ pc' = [pc EXCEPT !["receive"] = "loadRH"]
        /\ pc'["receive"] = "loadRH" /\ saveRetry' = saveRetry
    BY <1>3, CalmTypes DEF ReadCheck, At, Goto, Joined
  <2>2. Served(port)'
    BY <1>1, <1>3, <2>1 DEF Served, HoldsPort, ReadCheck
  <2> QED BY <1>2, <1>3, <2>1, <2>2 DEF ReadCheck
<1>4. ASSUME NEW from, NEW to, Load("receive", from, to),
             <<from, to>> \in {<<"loadRH", "readH">>, <<"loadRB", "readB">>}
      PROVE  Undisturbed'
  <2>1. /\ pc["receive"] = from /\ pc' = [pc EXCEPT !["receive"] = to]
        /\ pc'["receive"] = to /\ proc' = proc /\ held'["receive"] = port
    BY <1>4, CalmTypes DEF Load, At, Joined
  <2>2. Served(port)'
    BY <1>1, <1>4, <2>1 DEF Served, HoldsPort, Load
  <2> QED BY <1>2, <1>4, <2>1, <2>2 DEF Load
<1>5. ASSUME pc["receive"] \in {"readH", "readB"}, Arrived("receive")
      PROVE  /\ held["receive"] = port /\ s # <<>> /\ Front("receive") = s[1] /\ Head(s) = s[1]
             /\ s \in Seq(Part(Given)) /\ Len(s) \in Nat \ {0} /\ Len(Tail(s)) = Len(s) - 1
             /\ \A k \in 1..(Len(s) - 1) : Tail(s)[k] = s[k + 1]
  <2>1. held["receive"] = port /\ s # <<>> /\ s \in Seq(Part(Given))
    BY <1>1, <1>5, CalmTypes DEF HoldsPort, Arrived, Joined
  <2> QED BY <2>1, TailElements DEF Front
<1>6. ASSUME pc["receive"] = "readH", Arrived("receive") PROVE Front("receive").half = "header"
  <2>1. Len(s) % 2 = 0
    BY <1>1, <1>6 DEF Served
  <2> QED BY <1>5, <1>6, <2>1, FrontParity, CalmTypes DEF Joined
<1>7. ASSUME pc["receive"] = "readB", Arrived("receive")
      PROVE  Front("receive") = TextOf(got["receive"])
  BY <1>1, <1>5, <1>7 DEF Served
<1>8. CASE ReadHeader("receive")
  <2>1. /\ pc["receive"] = "readH" /\ Arrived("receive") /\ pc' = [pc EXCEPT !["receive"] = "loadRB"]
        /\ pc'["receive"] = "loadRB" /\ got'["receive"] = s[1].msg
    BY <1>5, <1>8, CalmTypes DEF ReadHeader, At, Joined
  <2>2. resp'[port] = Tail(s)
    BY <1>5, <1>8, <2>1, CalmTypes DEF ReadHeader, Consume, Joined
  <2>3. 1 + 1 \in 1..Len(s) /\ s[1 + 1] = TextOf(s[1].msg)
    <3>1. 1 \in 1..Len(s) /\ s[1].half = "header"
      BY <1>5, <1>6, <2>1
    <3> QED BY <3>1, CalmTypes DEF PairInv, TextOf, Joined
  <2>4. resp'[port] # <<>> /\ resp'[port][1] = TextOf(got'["receive"])
    <3>1. 1 \in 1..(Len(s) - 1) /\ Len(Tail(s)) # 0
      BY <1>5, <2>1, <2>3
    <3>2. Tail(s)[1] = s[1 + 1]
      BY <1>5, <2>1, <3>1
    <3>3. Tail(s) # <<>>
      <4>1. Len(<<>>) = 0
        OBVIOUS
      <4> QED BY <3>1, <4>1
    <3> QED BY <2>1, <2>2, <2>3, <3>2, <3>3
  <2>5. Served(port)'
    BY <1>1, <1>8, <2>1, <2>4 DEF Served, HoldsPort, TextOf, ReadHeader
  <2> QED BY <1>2, <1>8, <2>1, <2>5 DEF ReadHeader
<1>9. ~Misread("receive")
  BY <1>1, <1>6, <1>7 DEF Misread, At, TextOf
<1>10. \A from \in {"readH", "readB", "lost"} : ~ReadFails("receive", from)
  BY <1>1, CalmTypes DEF ReadFails, At, HoldsPort, Joined
<1>11. CASE Ignore \/ Answer
  <2>1. PICK kind : WholeBody("receive", kind)
    BY <1>11 DEF Ignore, Answer
  <2>2. /\ pc["receive"] = "readB" /\ Arrived("receive") /\ pc' = [pc EXCEPT !["receive"] = "rcheck"]
        /\ pc'["receive"] = "rcheck"
    BY <1>11, <2>1, CalmTypes DEF Ignore, Answer, Return, WholeBody, At, Joined
  <2>3. resp'[port] = Tail(s) /\ s # <<>> /\ Head(s).half # "header"
    <3>1. held["receive"] = port /\ s # <<>> /\ Head(s) = Front("receive")
      BY <1>5, <2>2
    <3>2. Front("receive").half = "body"
      BY <1>7, <2>2 DEF TextOf
    <3>3. resp'[port] = Tail(s)
      BY <2>1, <3>1, CalmTypes DEF WholeBody, Consume, Joined
    <3> QED BY <3>1, <3>2, <3>3
  <2>4. Len(resp'[port]) % 2 = 0
    BY <2>3, FrontParity, CalmTypes DEF Joined
  <2>5. Served(port)'
    BY <1>1, <2>1, <2>2, <2>4 DEF Served, HoldsPort, WholeBody
  <2> QED BY <1>2, <1>11, <2>1, <2>2, <2>5 DEF WholeBody, Ignore, Answer
<1> QED BY <1>3, <1>4, <1>8, <1>9, <1>10, <1>11 DEF ReceiveNext, Receiving

(***************************************************************************)
(* The server answers every query, for the connection has a session.       *)
(***************************************************************************)
LEMMA CalmAnswers ==
  ASSUME IndInv, Undisturbed, Joined,
         ServerReadsLogin(port) \/ (\E c \in Cred : ServerAnswersLogin(port, c))
           \/ \E l \in Plate : ServerAnswersQuery(port, l)
  PROVE  Undisturbed'
<1> USE DEF laptopVars, threadVars, flagVars, plateVars, faultVars, histVars
<1> DEFINE s == resp[port]
<1>1. Served(port) /\ s \in Seq(Part(Given)) /\ Len(s) \in Nat
  BY CalmTypes DEF Undisturbed, Joined
<1>2. /\ UNCHANGED <<proc, serverUp, saveRetry, port, link, opener, pc, got, held, creds>>
      /\ refused' = refused
      /\ creds \in granted => creds \in granted'
  BY <1>1 DEF ServerReadsLogin, ServerAnswersLogin, ServerAnswersQuery, Served
<1>3. logged'[port]
  <2>1. logged \in [Port -> BOOLEAN]
    BY DEF IndInv, ConnInv
  <2> QED BY <1>1, <2>1, CalmTypes DEF ServerReadsLogin, ServerAnswersLogin, ServerAnswersQuery,
      Served, Session, Joined
<1>4. resp'[port] = s \/ \E r : resp'[port] = s \o Both(r)
  BY CalmTypes DEF ServerReadsLogin, ServerAnswersLogin, ServerAnswersQuery, Joined
<1>5. /\ Len(s) % 2 = 0 => Len(resp'[port]) % 2 = 0
      /\ s # <<>> => resp'[port] # <<>> /\ resp'[port][1] = s[1]
  <2>1. CASE resp'[port] = s
    BY <2>1
  <2>2. ASSUME NEW r, resp'[port] = s \o Both(r)
        PROVE  /\ Len(s) % 2 = 0 => Len(resp'[port]) % 2 = 0
               /\ s # <<>> => resp'[port] # <<>> /\ resp'[port][1] = s[1]
    <3> HIDE DEF s
    <3>1. /\ Len(s \o Both(r)) = Len(s) + 2 /\ s \o Both(r) # <<>>
          /\ \A i \in 1..Len(s) : (s \o Both(r))[i] = s[i]
      <4>1. Len(s \o Both(r)) = Len(s) + 2
        BY <1>1, BothElements
      <4>2. s \o Both(r) # <<>>
        BY <1>1, BothElements
      <4>3. \A i \in 1..Len(s) : (s \o Both(r))[i] = s[i]
        BY <1>1, BothElements
      <4> QED BY <4>1, <4>2, <4>3
    <3>2. s # <<>> => 1 \in 1..Len(s)
      BY <1>1, EmptySeq
    <3>3. \A n \in Nat : n % 2 = 0 => (n + 2) % 2 = 0
      OBVIOUS
    <3> QED BY <1>1, <2>2, <3>1, <3>2, <3>3
  <2> QED BY <1>4, <2>1, <2>2
<1>6. Served(port)'
  BY <1>1, <1>2, <1>3, <1>5 DEF Served, HoldsPort, TextOf
<1> QED BY <1>2, <1>6, StaysCalm DEF Joined, Undisturbed

(***************************************************************************)
(* A step that brings no fault leaves everything calm.                     *)
(***************************************************************************)
LEMMA NextCalm ==
  (IndInv /\ FirstInv /\ LiveInv /\ RespInv /\ PairInv) /\ CalmInv /\ [Next]_vars /\ IndInv'
    => CalmInv'
<1> SUFFICES ASSUME IndInv, FirstInv, LiveInv, RespInv, PairInv, CalmInv, [Next]_vars, IndInv', Calm'
             PROVE  Undisturbed'
  BY DEF CalmInv
<1>1. Calm /\ Undisturbed /\ losses' = losses /\ fails' = fails
  BY CalmBefore DEF CalmInv
<1>2. ~ReconnectNext
  BY <1>1, NoRepair DEF Undisturbed
<1>3. CASE UNCHANGED vars
  BY <1>1, <1>3 DEF vars, threadVars, flagVars, restVars, plateVars, connVars, faultVars, histVars,
     Undisturbed, First, Served, Conversation, HoldsPort, Quiet, Verdict
<1>4. ASSUME NEW p \in Port, ServerNext(p) \/ LoseConnection(p) PROVE Undisturbed'
  <2>1. link[p] = "up"
    BY <1>4 DEF ServerNext, ServerReadsLogin, ServerAnswersLogin, ServerAnswersQuery, ServerEnds, Torn,
       LoseConnection
  <2>2. p = port /\ pc["main"] # "connect"
    BY <2>1 DEF LiveInv, FirstInv
  <2>3. ~ServerEnds(p)
    BY <1>1, <2>1, <2>2, NotTorn DEF Undisturbed, FirstInv, FirstStream, ServerEnds
  <2>4. ~LoseConnection(p)
    BY <1>1 DEF LoseConnection, IndInv, FaultInv
  <2> QED BY <1>1, <1>4, <2>2, <2>3, <2>4, CalmChecks, CalmAnswers DEF ServerNext, Joined, Talking, Calm
<1>5. CASE MainNext /\ pc["main"] = "connect"
  <2>1. networkConnect
    BY <1>5 DEF MainNext, inputLoginInfo, SaveCredentials, Sending, Check, Load, Write, Receiving,
       ReadCheck, ReadFails, ReadHeader, Misread, WholeBody, LoginSucceeds, LoginDenied, Retry,
       logout, Exit, At
  <2> QED BY <1>1, <2>1, CalmConnects
<1>6. CASE MainNext /\ Talking
  <2>1. Conversation(port)
    BY <1>1, <1>6 DEF Undisturbed, Talking
  <2>2. ~networkConnect /\ ~Retry /\ ~logout /\ ~Exit
    BY <1>6, <2>1 DEF networkConnect, Retry, logout, Exit, At, Conversation, Talking
  <2> QED BY <1>1, <1>6, <2>2, CalmTypesLogin, CalmSends, CalmReads DEF MainNext
<1>7. ~(MainNext /\ pc["main"] = "joined")
  <2> SUFFICES ASSUME MainNext, pc["main"] = "joined" PROVE FALSE
    OBVIOUS
  <2>1. logout
    BY DEF MainNext, networkConnect, inputLoginInfo, SaveCredentials, Sending, Check, Load, Write,
       Receiving, ReadCheck, ReadFails, ReadHeader, Misread, WholeBody, LoginSucceeds, LoginDenied,
       Retry, Exit, At
  <2>2. pc'["main"] = "logout"
    BY <2>1 DEF logout, IndInv, ThreadInv, Thread
  <2> QED BY <2>2 DEF Calm
<1>8. CASE VideoNext \/ ReceiveNext
  <2>1. pc["video"] # "off" \/ pc["receive"] # "off"
    BY <1>8 DEF VideoNext, sendRecognizedInfo, Sending, Check, Load, Write, ReceiveNext, Receiving,
       ReadCheck, ReadFails, ReadHeader, Misread, WholeBody, Ignore, Answer, At
  <2>2. Joined
    BY <1>1, <2>1 DEF FirstInv, Calm, Joined
  <2> QED BY <1>1, <1>8, <2>2, CalmVideo, CalmReceives
<1> QED BY <1>1, <1>2, <1>3, <1>4, <1>5, <1>6, <1>7, <1>8 DEF Next, Talking, Calm

(***************************************************************************)
(* Where no connection was lost or refused, and until main logs out, the   *)
(* laptop does not crash, no plate is refused, the saved credentials are   *)
(* granted ones and the server runs, for any number of addresses, plates,  *)
(* and logins typed: the missing lock does no harm but in a recovery.      *)
(***************************************************************************)
THEOREM HarmNeedsFault == Spec => []OnlyFaultsHarm
<1>1. Init => PairInv /\ CalmInv
  <2> SUFFICES ASSUME Init PROVE PairInv /\ CalmInv
    OBVIOUS
  <2>1. \A p \in Port : Len(resp[p]) = 0
    BY DEF Init
  <2>2. PairInv
    BY <2>1 DEF PairInv
  <2>3. CalmInv
    BY DEF Init, CalmInv, Undisturbed, Thread
  <2> QED BY <2>2, <2>3
<1>2. CalmInv => OnlyFaultsHarm
  BY DEF CalmInv, Calm, Undisturbed, OnlyFaultsHarm, SurvivesLoss, NeverAskedToLogin,
     SavedCredentialsAccepted, ServerOutlivesRecovery, Served
<1> QED BY <1>1, <1>2, NextPair, NextCalm, SpecCurrent, IndInvariant, PTL DEF Spec

-----------------------------------------------------------------------------
(***************************************************************************)
(* Each query has one place: with the video thread that sends it, among    *)
(* what the server has not handled, or as a response not yet read.  Ports  *)
(* that are replaced can lose it, but nothing makes a second one of it.    *)
(***************************************************************************)
IsQuery(x, l) == x = TextOf(Query(l))
IsReply(x, l) == \E k \in {"answer", "refusal"} : x = TextOf([kind |-> k, key |-> l])

Asking(l) == /\ pc["video"] \in {"check", "loadWH", "writeH", "loadWB", "writeB"}
             /\ msg["video"] = Query(l)

NoQuery(l, p) == \A i \in 1..Len(srv[p]) : ~IsQuery(srv[p][i], l)
NoReply(l, p) == \A i \in 1..Len(resp[p]) : ~IsReply(resp[p][i], l)

OneQuery(l, p) ==
  \A i \in 1..Len(srv[p]) : IsQuery(srv[p][i], l) =>
    /\ \A j \in 1..Len(srv[p]) : IsQuery(srv[p][j], l) => i = j
    /\ l \notin handled /\ NoReply(l, p)

OneReply(l, p) ==
  \A i \in 1..Len(resp[p]) : IsReply(resp[p][i], l) =>
    /\ \A j \in 1..Len(resp[p]) : IsReply(resp[p][j], l) => i = j
    /\ l \in handled \ answered /\ (resp[p][i].msg.kind = "answer" => l \notin refused)

NotYetSent(l, p) ==
  Asking(l) => l \notin handled /\ NoQuery(l, p) /\ NoReply(l, p)

OnceInv ==
  /\ answered \subseteq handled
  /\ \A l \in Plate, p \in Port : OneQuery(l, p) /\ OneReply(l, p) /\ NotYetSent(l, p)
  /\ \A t \in {"main", "reconnect"} : \A l \in Plate : msg[t] # Query(l)

\* each query of l, or response to one, was there before, and stays behind those before it
SrvKept(l, p) ==
  \E k \in Nat : \A i \in 1..Len(srv'[p]) : IsQuery(srv'[p][i], l) =>
    i + k \in 1..Len(srv[p]) /\ IsQuery(srv[p][i + k], l)
RespKept(l, p) ==
  \E k \in Nat : \A i \in 1..Len(resp'[p]) : IsReply(resp'[p][i], l) =>
    i + k \in 1..Len(resp[p]) /\ resp[p][i + k] = resp'[p][i]

ToldKept(l) == /\ (l \in answered)' <=> l \in answered
               /\ (l \in refused)' <=> l \in refused
               /\ (l \in handled)' <=> l \in handled

LEMMA NothingNew ==
  ASSUME NEW p \in Port, NEW l \in Plate, SrvKept(l, p), RespKept(l, p),
         ToldKept(l),
         OneQuery(l, p), OneReply(l, p), NotYetSent(l, p), Asking(l)' => Asking(l)
  PROVE  OneQuery(l, p)' /\ OneReply(l, p)' /\ NotYetSent(l, p)'
<1>1. PICK k \in Nat : \A i \in 1..Len(srv'[p]) : IsQuery(srv'[p][i], l) =>
        i + k \in 1..Len(srv[p]) /\ IsQuery(srv[p][i + k], l)
  BY DEF SrvKept
<1>2. PICK n \in Nat : \A i \in 1..Len(resp'[p]) : IsReply(resp'[p][i], l) =>
        i + n \in 1..Len(resp[p]) /\ resp[p][i + n] = resp'[p][i]
  BY DEF RespKept
<1>3. NoReply(l, p) => NoReply(l, p)'
  BY <1>2 DEF NoReply
<1>4. NoQuery(l, p) => NoQuery(l, p)'
  BY <1>1 DEF NoQuery
<1>5. OneQuery(l, p)'
  <2> SUFFICES ASSUME NEW i \in 1..Len(srv'[p]), IsQuery(srv'[p][i], l)
               PROVE  /\ \A j \in 1..Len(srv'[p]) : IsQuery(srv'[p][j], l) => i = j
                      /\ l \notin handled /\ NoReply(l, p)'
    BY DEF OneQuery, IsQuery, ToldKept
  <2>1. i + k \in 1..Len(srv[p]) /\ IsQuery(srv[p][i + k], l)
    BY <1>1
  <2>2. l \notin handled /\ NoReply(l, p)'
    BY <1>3, <2>1 DEF OneQuery
  <2>3. ASSUME NEW j \in 1..Len(srv'[p]), IsQuery(srv'[p][j], l) PROVE i = j
    <3>1. j + k \in 1..Len(srv[p]) /\ IsQuery(srv[p][j + k], l)
      BY <1>1, <2>3
    <3>2. i + k = j + k
      BY <2>1, <3>1 DEF OneQuery
    <3> QED BY <3>2
  <2> QED BY <2>2, <2>3
<1>6. OneReply(l, p)'
  <2> SUFFICES ASSUME NEW i \in 1..Len(resp'[p]), IsReply(resp'[p][i], l)
               PROVE  /\ \A j \in 1..Len(resp'[p]) : IsReply(resp'[p][j], l) => i = j
                      /\ l \in handled \ answered
                      /\ resp'[p][i].msg.kind = "answer" => l \notin refused
    BY DEF OneReply, IsReply, ToldKept
  <2>1. i + n \in 1..Len(resp[p]) /\ resp[p][i + n] = resp'[p][i]
    BY <1>2
  <2>2. l \in handled \ answered /\ (resp'[p][i].msg.kind = "answer" => l \notin refused)
    BY <2>1 DEF OneReply
  <2>3. ASSUME NEW j \in 1..Len(resp'[p]), IsReply(resp'[p][j], l) PROVE i = j
    <3>1. j + n \in 1..Len(resp[p]) /\ resp[p][j + n] = resp'[p][j]
      BY <1>2, <2>3
    <3>2. i + n = j + n
      BY <2>1, <2>3, <3>1 DEF OneReply
    <3> QED BY <3>2
  <2> QED BY <2>2, <2>3
<1>7. NotYetSent(l, p)'
  BY <1>3, <1>4 DEF NotYetSent, ToldKept
<1> QED BY <1>5, <1>6, <1>7

\* what is shorter in front, or ends with something else, has nothing new
LEMMA SrvKeptIf ==
  ASSUME IndInv, NEW l \in Plate, NEW p \in Port,
         \/ srv'[p] = srv[p] \/ srv'[p] = <<>>
         \/ \E x : srv'[p] = Append(srv[p], x) /\ ~IsQuery(x, l)
         \/ \E m : Whole(p, m) /\ srv'[p] = SubSeq(srv[p], 3, Len(srv[p]))
  PROVE  SrvKept(l, p)
<1> DEFINE s == srv[p]
<1>1. s \in Seq(Part(Sent)) /\ Len(s) \in Nat
  BY DEF IndInv, StreamInv
<1>2. CASE srv'[p] = s
  <2>1. \A i \in 1..Len(srv'[p]) : i + 0 = i /\ i + 0 \in 1..Len(s)
    BY <1>1, <1>2
  <2> QED BY <1>2, <2>1 DEF SrvKept
<1>3. CASE srv'[p] = <<>>
  <2>1. 1..Len(srv'[p]) = {} /\ 0 \in Nat
    BY <1>3
  <2> QED BY <2>1 DEF SrvKept
<1>4. ASSUME NEW x, srv'[p] = Append(s, x), ~IsQuery(x, l) PROVE SrvKept(l, p)
  <2> HIDE DEF s
  <2>1. /\ Len(Append(s, x)) = Len(s) + 1 /\ Append(s, x)[Len(s) + 1] = x
        /\ \A i \in 1..Len(s) : Append(s, x)[i] = s[i]
    BY <1>1
  <2>2. ASSUME NEW i \in 1..Len(srv'[p]), IsQuery(srv'[p][i], l)
        PROVE  i + 0 \in 1..Len(s) /\ IsQuery(s[i + 0], l)
    <3>1. i # Len(s) + 1
      BY <1>4, <2>1, <2>2
    <3>2. i \in 1..Len(s) /\ i + 0 = i
      BY <1>1, <1>4, <2>1, <3>1
    <3> QED BY <1>4, <2>1, <2>2, <3>2
  <2> QED BY <2>2 DEF SrvKept, s
<1>5. ASSUME NEW m, Whole(p, m), srv'[p] = SubSeq(s, 3, Len(s)) PROVE SrvKept(l, p)
  <2>1. /\ Len(srv'[p]) = Len(s) - 2 /\ Len(s) >= 2
        /\ \A i \in 1..Len(srv'[p]) : srv'[p][i] = s[i + 2]
    BY <1>5, WholeParts
  <2>2. \A i \in 1..Len(srv'[p]) : i + 2 \in 1..Len(s)
    BY <1>1, <2>1
  <2> QED BY <2>1, <2>2 DEF SrvKept
<1> QED BY <1>2, <1>3, <1>4, <1>5

LEMMA RespKeptIf ==
  ASSUME IndInv, NEW l \in Plate, NEW p \in Port,
         \/ resp'[p] = resp[p] \/ resp'[p] = <<>>
         \/ resp[p] # <<>> /\ resp'[p] = Tail(resp[p])
         \/ \E r : resp'[p] = resp[p] \o Both(r) /\ ~IsReply(TextOf(r), l)
  PROVE  RespKept(l, p)
<1> DEFINE s == resp[p]
<1>1. s \in Seq(Part(Given)) /\ Len(s) \in Nat
  BY DEF IndInv, StreamInv
<1>2. CASE resp'[p] = s
  <2>1. \A i \in 1..Len(resp'[p]) : i + 0 = i /\ i + 0 \in 1..Len(s)
    BY <1>1, <1>2
  <2> QED BY <1>2, <2>1 DEF RespKept
<1>3. CASE resp'[p] = <<>>
  <2>1. 1..Len(resp'[p]) = {} /\ 0 \in Nat
    BY <1>3
  <2> QED BY <2>1 DEF RespKept
<1>4. CASE s # <<>> /\ resp'[p] = Tail(s)
  <2> HIDE DEF s
  <2>1. /\ Len(resp'[p]) = Len(s) - 1 /\ Len(s) \in Nat \ {0}
        /\ \A i \in 1..(Len(s) - 1) : resp'[p][i] = s[i + 1]
    BY <1>1, <1>4, TailElements
  <2>2. \A i \in 1..Len(resp'[p]) : i + 1 \in 1..Len(s) /\ s[i + 1] = resp'[p][i]
    BY <2>1
  <2> QED BY <2>2 DEF RespKept, s
<1>5. ASSUME NEW r, resp'[p] = s \o Both(r), ~IsReply(TextOf(r), l) PROVE RespKept(l, p)
  <2> HIDE DEF s
  <2>1. /\ Len(resp'[p]) = Len(s) + 2 /\ \A i \in 1..Len(s) : resp'[p][i] = s[i]
        /\ resp'[p][Len(s) + 1] = [half |-> "header", msg |-> r]
        /\ resp'[p][Len(s) + 2] = [half |-> "body", msg |-> r]
    BY <1>1, <1>5, BothElements
  <2>2. ASSUME NEW i \in 1..Len(resp'[p]), IsReply(resp'[p][i], l)
        PROVE  i + 0 \in 1..Len(s) /\ s[i + 0] = resp'[p][i]
    <3>1. resp'[p][i].half = "body"
      BY <2>2 DEF IsReply, TextOf
    <3>2. i # Len(s) + 1 /\ i # Len(s) + 2
      BY <1>5, <2>1, <2>2, <3>1 DEF TextOf
    <3>3. i \in 1..Len(s) /\ i + 0 = i
      BY <1>1, <2>1, <3>2
    <3> QED BY <2>1, <3>3
  <2> QED BY <2>2 DEF RespKept, s
<1> QED BY <1>2, <1>3, <1>4, <1>5

\* a text a thread writes, with the message it sends
LEMMA OnceWrite ==
  ASSUME IndInv, NEW t \in {"main", "reconnect", "video"}, NEW from, NEW half, Write(t, from, half),
         from \in {"writeH", "writeB"}, NEW l \in Plate, NEW p \in Port,
         half = "body" => msg[t] # Query(l)
  PROVE  SrvKept(l, p)
<1>1. held[t] \in Port /\ srv \in [Port -> Seq(Part(Sent))]
  BY DEF Write, At, IndInv, ThreadInv, StreamInv, Thread
<1>2. srv' = srv \/ srv' = [srv EXCEPT ![held[t]] = Append(@, [half |-> half, msg |-> msg[t]])]
  BY DEF Write
<1>3. ~IsQuery([half |-> half, msg |-> msg[t]], l)
  BY DEF IsQuery, TextOf
<1>4. srv'[p] = srv[p] \/ srv'[p] = Append(srv[p], [half |-> half, msg |-> msg[t]])
  BY <1>1, <1>2
<1> QED BY <1>3, <1>4, SrvKeptIf

LEMMA OnceSrv ==
  ASSUME IndInv, OnceInv, [Next]_vars, NEW l \in Plate, NEW p \in Port,
         ~(Write("video", "writeB", "body") /\ msg["video"] = Query(l))
  PROVE  SrvKept(l, p)
<1> USE DEF restVars, connVars
<1>1. srv \in [Port -> Seq(Part(Sent))]
  BY DEF IndInv, StreamInv
<1>2. ASSUME NEW t \in {"main", "reconnect", "video"}, Sending(t) PROVE SrvKept(l, p)
  <2>1. CASE Check(t) \/ Load(t, "loadWH", "writeH") \/ Load(t, "loadWB", "writeB")
    <3>1. srv' = srv
      BY <2>1 DEF Check, Load
    <3> QED BY <3>1, SrvKeptIf
  <2>2. CASE Write(t, "writeH", "header")
    BY <2>2, OnceWrite
  <2>3. CASE Write(t, "writeB", "body")
    <3>1. msg[t] # Query(l)
      BY <2>3 DEF OnceInv
    <3> QED BY <2>3, <3>1, OnceWrite
  <2> QED BY <1>2, <2>1, <2>2, <2>3 DEF Sending
<1>3. CASE CloseTcpConnectedPort
  <2>1. srv'[p] = srv[p] \/ srv'[p] = <<>>
    BY <1>1, <1>3 DEF CloseTcpConnectedPort
  <2> QED BY <2>1, SrvKeptIf
<1>4. CASE srv' = srv
  BY <1>4, SrvKeptIf
<1>5. CASE MainNext \/ ReceiveNext
  <2>1. CASE ~Sending("main") /\ ~CloseTcpConnectedPort
    <3>1. srv' = srv
      BY <1>5, <2>1 DEF MainNext, ReceiveNext, networkConnect, inputLoginInfo, SaveCredentials,
         Receiving, ReadCheck, ReadFails, Load, ReadHeader, Misread, WholeBody, LoginSucceeds,
         LoginDenied, Retry, logout, Exit, Opened, NotOpened, Ignore, Answer
    <3> QED BY <1>4, <3>1
  <2> QED BY <1>2, <1>3, <2>1
<1>6. CASE ReconnectNext \/ VideoNext
  <2>1. CASE ~Sending("reconnect") /\ ~Sending("video") /\ ~CloseTcpConnectedPort
    <3>1. srv' = srv
      BY <1>6, <2>1 DEF ReconnectNext, retryNetworkConnect, Reconnect, ClearRetry, Relogin,
         SaveCredentials, Opened, NotOpened, VideoNext, sendRecognizedInfo
    <3> QED BY <1>4, <3>1
  <2> QED BY <1>2, <1>3, <2>1
<1>7. ASSUME NEW q \in Port, ServerNext(q) \/ LoseConnection(q) PROVE SrvKept(l, p)
  <2>1. srv' = srv \/ \E m : Whole(q, m) /\ srv' = [srv EXCEPT ![q] = SubSeq(@, 3, Len(@))]
    BY <1>7 DEF ServerNext, ServerReadsLogin, ServerAnswersLogin, ServerAnswersQuery, ServerEnds,
       LoseConnection, Take
  <2>2. srv'[p] = srv[p] \/ \E m : Whole(p, m) /\ srv'[p] = SubSeq(srv[p], 3, Len(srv[p]))
    BY <1>1, <2>1
  <2> QED BY <2>2, SrvKeptIf
<1>8. CASE UNCHANGED vars
  BY <1>4, <1>8 DEF vars
<1> QED BY <1>5, <1>6, <1>7, <1>8 DEF Next

LEMMA OnceResp ==
  ASSUME IndInv, [Next]_vars, NEW l \in Plate, NEW p \in Port,
         \A q \in Port : ~ServerAnswersQuery(q, l)
  PROVE  RespKept(l, p)
<1> USE DEF restVars, connVars
<1>1. resp \in [Port -> Seq(Part(Given))]
  BY DEF IndInv, StreamInv
<1>2. CASE \E q \in Port : \E c \in Cred : ServerAnswersLogin(q, c)
  <2>1. PICK q \in Port, c \in Cred : ServerAnswersLogin(q, c)
    BY <1>2
  <2> DEFINE r == [kind |-> IF c = "right" THEN "granted" ELSE "denied", key |-> c]
  <2>2. resp' = [resp EXCEPT ![q] = @ \o Both(r)]
    BY <2>1 DEF ServerAnswersLogin
  <2>3. resp'[p] = resp[p] \/ resp'[p] = resp[p] \o Both(r)
    BY <1>1, <2>2
  <2>4. ~IsReply(TextOf(r), l)
    BY DEF IsReply, TextOf
  <2> HIDE DEF r
  <2> QED BY <2>3, <2>4, RespKeptIf
<1>3. CASE \E q \in Port : \E m \in Plate : ServerAnswersQuery(q, m)
  <2>1. PICK q \in Port, m \in Plate : ServerAnswersQuery(q, m)
    BY <1>3
  <2> DEFINE r == [kind |-> IF logged[q] THEN "answer" ELSE "refusal", key |-> m]
  <2>2. m # l /\ resp' = [resp EXCEPT ![q] = @ \o Both(r)]
    BY <2>1 DEF ServerAnswersQuery
  <2>3. resp'[p] = resp[p] \/ resp'[p] = resp[p] \o Both(r)
    BY <1>1, <2>2
  <2>4. ~IsReply(TextOf(r), l)
    BY <2>2 DEF IsReply, TextOf
  <2> HIDE DEF r
  <2> QED BY <2>3, <2>4, RespKeptIf
<1>4. CASE ~\E q \in Port : \/ \E c \in Cred : ServerAnswersLogin(q, c)
                          \/ \E m \in Plate : ServerAnswersQuery(q, m)
  <2>1. CASE resp' = resp
    BY <2>1, RespKeptIf
  <2>2. ASSUME NEW t \in {"main", "receive"}, Receiving(t) \/ \E kind : WholeBody(t, kind)
        PROVE  RespKept(l, p)
    BY <2>2, ReadStep, RespKeptIf DEF Reads
  <2>3. CASE CloseTcpConnectedPort
    <3>1. resp'[p] = resp[p] \/ resp'[p] = <<>>
      BY <1>1, <2>3 DEF CloseTcpConnectedPort
    <3> QED BY <3>1, RespKeptIf
  <2>4. CASE MainNext
    <3>1. CASE Receiving("main") \/ LoginSucceeds \/ LoginDenied
      BY <2>2, <3>1 DEF LoginSucceeds, LoginDenied
    <3>2. CASE logout
      BY <2>3, <3>2 DEF logout
    <3>3. CASE ~(Receiving("main") \/ LoginSucceeds \/ LoginDenied \/ logout)
      BY <2>1, <2>4, <3>3 DEF MainNext, networkConnect, inputLoginInfo, SaveCredentials, Sending,
         Check, Load, Write, Retry, Exit, Opened, NotOpened
    <3> QED BY <3>1, <3>2, <3>3
  <2>5. CASE ReconnectNext
    <3>1. CASE retryNetworkConnect
      BY <2>3, <3>1 DEF retryNetworkConnect
    <3>2. CASE ~retryNetworkConnect
      BY <2>1, <2>5, <3>2 DEF ReconnectNext, Reconnect, ClearRetry, Relogin, SaveCredentials,
         Sending, Check, Load, Write, Opened, NotOpened
    <3> QED BY <3>1, <3>2
  <2>6. CASE VideoNext
    BY <2>1, <2>6 DEF VideoNext, sendRecognizedInfo, Sending, Check, Load, Write
  <2>7. CASE ReceiveNext
    BY <2>2, <2>7 DEF ReceiveNext, Ignore, Answer
  <2>8. CASE \E q \in Port : ServerNext(q) \/ LoseConnection(q)
    <3>1. resp' = resp
      BY <1>4, <2>8 DEF ServerNext, ServerReadsLogin, ServerEnds, LoseConnection
    <3> QED BY <2>1, <3>1
  <2>9. CASE UNCHANGED vars
    BY <2>1, <2>9 DEF vars
  <2> QED BY <2>4, <2>5, <2>6, <2>7, <2>8, <2>9 DEF Next
<1> QED BY <1>2, <1>3, <1>4

(***************************************************************************)
(* The video thread begins to send a query that was never sent, and only   *)
(* it sends queries.                                                       *)
(***************************************************************************)
LEMMA OnceAsking ==
  ASSUME IndInv, [Next]_vars, NEW l \in Plate, Asking(l)',
         ~(sendRecognizedInfo(l) /\ l \notin asked)
  PROVE  Asking(l)
<1> USE DEF restVars, flagVars
<1>1. /\ pc \in [Thread -> Places] /\ msg \in [Thread -> Sent \cup {NoMsg}]
      /\ {"main", "reconnect", "video", "receive"} = Thread
  BY DEF IndInv, ThreadInv, Thread
<1>2. pc'["video"] \in {"check", "loadWH", "writeH", "loadWB", "writeB"} /\ msg'["video"] = Query(l)
  BY DEF Asking
<1>3. ASSUME NEW t \in Thread \ {"video"},
             pc' = pc \/ \E to : pc' = [pc EXCEPT ![t] = to],
             msg' = msg \/ \E m : msg' = [msg EXCEPT ![t] = m]
      PROVE  Asking(l)
  <2>1. pc'["video"] = pc["video"] /\ msg'["video"] = msg["video"]
    BY <1>1, <1>3
  <2> QED BY <1>2, <2>1 DEF Asking
<1>4. CASE VideoNext
  <2>1. ASSUME NEW m \in Plate, sendRecognizedInfo(m) PROVE FALSE
    <3>1. msg'["video"] = Query(m) /\ m \notin asked
      BY <1>1, <2>1 DEF sendRecognizedInfo
    <3>2. m = l
      BY <1>2, <3>1 DEF Query
    <3> QED BY <2>1, <3>1, <3>2
  <2>2. Sending("video")
    BY <1>4, <2>1 DEF VideoNext
  <2>3. /\ pc["video"] \in {"check", "loadWH", "writeH", "loadWB", "writeB"}
        /\ msg' = msg \/ pc'["video"] = "watch"
    BY <1>1, <2>2 DEF Sending, Check, Load, Write, At, Goto, Return, AfterSend
  <2> QED BY <1>2, <2>3 DEF Asking
<1>5. CASE MainNext
  <2>1. ~logout /\ ~LoginSucceeds
    BY <1>1, <1>2 DEF logout, LoginSucceeds
  <2>2. CASE \E c \in Cred : inputLoginInfo(c)
    <3>1. pc'["video"] = pc["video"] /\ msg'["video"] = msg["video"]
      BY <1>1, <2>2 DEF inputLoginInfo
    <3> QED BY <1>2, <3>1 DEF Asking
  <2>3. CASE ~(logout \/ LoginSucceeds \/ \E c \in Cred : inputLoginInfo(c))
    <3>1. /\ pc' = pc \/ \E to : pc' = [pc EXCEPT !["main"] = to]
          /\ msg' = msg \/ \E m : msg' = [msg EXCEPT !["main"] = m]
      BY <1>5, <2>3 DEF MainNext, networkConnect, SaveCredentials, Sending, Check, Load, Write,
         Receiving, ReadCheck, ReadFails, ReadHeader, Misread, LoginDenied, Retry, Exit,
         Goto, Return, Leave, threadVars
    <3> QED BY <1>1, <1>3, <3>1
  <2> QED BY <2>1, <2>2, <2>3
<1>6. CASE ReconnectNext \/ ReceiveNext
  <2>1. PICK t \in {"reconnect", "receive"} :
          /\ pc' = pc \/ \E to : pc' = [pc EXCEPT ![t] = to]
          /\ msg' = msg \/ \E m : msg' = [msg EXCEPT ![t] = m]
    BY <1>6 DEF ReconnectNext, retryNetworkConnect, Reconnect, ClearRetry, Relogin, SaveCredentials,
       Sending, Check, Load, Write, ReceiveNext, Ignore, Answer, Receiving, ReadCheck, ReadFails,
       ReadHeader, Misread, Goto, Return, Leave, threadVars
  <2> QED BY <1>1, <1>3, <2>1
<1>7. CASE (\E p \in Port : ServerNext(p) \/ LoseConnection(p)) \/ UNCHANGED vars
  <2>1. pc' = pc /\ msg' = msg
    BY <1>7 DEF ServerNext, ServerReadsLogin, ServerAnswersLogin, ServerAnswersQuery, ServerEnds,
       LoseConnection, laptopVars, threadVars, vars
  <2> QED BY <1>2, <2>1 DEF Asking
<1> QED BY <1>4, <1>5, <1>6, <1>7 DEF Next

LEMMA OnceOthers ==
  ASSUME IndInv, OnceInv, [Next]_vars, NEW t \in {"main", "reconnect"}, NEW l \in Plate
  PROVE  msg'[t] # Query(l)
<1> USE DEF restVars, flagVars
<1>1. /\ msg \in [Thread -> Sent \cup {NoMsg}] /\ t \in Thread /\ t # "video" /\ t # "receive"
      /\ {"main", "reconnect", "video", "receive"} = Thread
  BY DEF IndInv, ThreadInv, Thread
<1>2. msg[t] # Query(l) /\ NoMsg # Query(l) /\ \A c : Login(c) # Query(l)
  BY NoMsgAssumption DEF OnceInv, Query, Login, Msg
<1>3. ASSUME NEW u \in Thread, NEW m, msg' = msg \/ msg' = [msg EXCEPT ![u] = m],
             u \in {"video", "receive"} \/ m = NoMsg \/ \E c : m = Login(c)
      PROVE  msg'[t] # Query(l)
  BY <1>1, <1>2, <1>3
<1>4. ASSUME NEW u \in Thread, \/ Sending(u) \/ Receiving(u) \/ SaveCredentials(u)
      PROVE  msg' = msg \/ msg' = [msg EXCEPT ![u] = NoMsg]
  BY <1>4 DEF Sending, Check, Load, Write, Receiving, ReadCheck, ReadFails, ReadHeader, Misread,
     SaveCredentials, Goto, Return, Leave, threadVars
<1>5. CASE MainNext
  <2>1. CASE \E c \in Cred : inputLoginInfo(c)
    BY <1>1, <1>3, <2>1 DEF inputLoginInfo
  <2>2. CASE ~\E c \in Cred : inputLoginInfo(c)
    <3>1. msg' = msg \/ msg' = [msg EXCEPT !["main"] = NoMsg]
      BY <1>1, <1>4, <1>5, <2>2 DEF MainNext, networkConnect, LoginSucceeds, LoginDenied, Retry, logout,
         Exit, Goto, Return, Leave, threadVars
    <3> QED BY <1>1, <1>3, <3>1
  <2> QED BY <2>1, <2>2
<1>6. CASE ReconnectNext
  <2>1. CASE Relogin
    BY <1>1, <1>3, <2>1 DEF Relogin
  <2>2. CASE ~Relogin
    <3>1. msg' = msg \/ msg' = [msg EXCEPT !["reconnect"] = NoMsg]
      BY <1>1, <1>4, <1>6, <2>2 DEF ReconnectNext, retryNetworkConnect, Reconnect, ClearRetry, Goto
    <3> QED BY <1>1, <1>3, <3>1
  <2> QED BY <2>1, <2>2
<1>7. CASE VideoNext \/ ReceiveNext
  <2>1. PICK u \in {"video", "receive"} : msg' = msg \/ \E m : msg' = [msg EXCEPT ![u] = m]
    BY <1>1, <1>4, <1>7 DEF VideoNext, sendRecognizedInfo, ReceiveNext, Ignore, Answer, Return, Leave
  <2> QED BY <1>1, <1>3, <2>1
<1>8. CASE (\E p \in Port : ServerNext(p) \/ LoseConnection(p)) \/ UNCHANGED vars
  <2>1. msg' = msg
    BY <1>8 DEF ServerNext, ServerReadsLogin, ServerAnswersLogin, ServerAnswersQuery, ServerEnds,
       LoseConnection, laptopVars, threadVars, vars
  <2> QED BY <1>2, <2>1
<1> QED BY <1>5, <1>6, <1>7, <1>8 DEF Next

\* what was answered, refused and handled
LEMMA OnceTold ==
  ASSUME [Next]_vars, NEW l \in Plate, \A q \in Port : ~ServerAnswersQuery(q, l),
         ~(Answer /\ got["receive"].key = l)
  PROVE  ToldKept(l)
<1> USE DEF restVars, plateVars, histVars, ToldKept
<1>1. CASE MainNext
  BY <1>1 DEF MainNext, networkConnect, inputLoginInfo, SaveCredentials, Sending, Check, Load, Write,
     Receiving, ReadCheck, ReadFails, ReadHeader, Misread, WholeBody, LoginSucceeds, LoginDenied,
     Retry, logout, Exit
<1>2. CASE ReconnectNext \/ VideoNext
  BY <1>2 DEF ReconnectNext, retryNetworkConnect, Reconnect, ClearRetry, Relogin, SaveCredentials,
     Sending, Check, Load, Write, VideoNext, sendRecognizedInfo
<1>3. CASE ReceiveNext
  BY <1>3 DEF ReceiveNext, Receiving, ReadCheck, Load, ReadHeader, Misread, ReadFails, WholeBody,
     Ignore, Answer
<1>4. ASSUME NEW q \in Port, ServerNext(q) \/ LoseConnection(q)
      PROVE  ToldKept(l)
  <2>1. CASE \E m \in Plate : ServerAnswersQuery(q, m)
    <3>1. PICK m \in Plate : ServerAnswersQuery(q, m)
      BY <2>1
    <3>2. /\ m # l /\ answered' = answered /\ handled' = handled \cup {m}
          /\ refused' = refused \/ refused' = refused \cup {m}
      BY <3>1 DEF ServerAnswersQuery, laptopVars
    <3> QED BY <3>2
  <2>2. CASE ~\E m \in Plate : ServerAnswersQuery(q, m)
    BY <1>4, <2>2 DEF ServerNext, ServerReadsLogin, ServerAnswersLogin, ServerEnds, LoseConnection,
       laptopVars
  <2> QED BY <2>1, <2>2
<1>5. CASE UNCHANGED vars
  BY <1>5 DEF vars
<1> QED BY <1>1, <1>2, <1>3, <1>4, <1>5 DEF Next

\* a connection that holds nothing has no query and no response
LEMMA OnceEmpty ==
  ASSUME NEW l, NEW p, srv'[p] = <<>>, resp'[p] = <<>>
  PROVE  OneQuery(l, p)' /\ OneReply(l, p)' /\ NoQuery(l, p)' /\ NoReply(l, p)'
<1>1. Len(srv'[p]) = 0 /\ Len(resp'[p]) = 0
  OBVIOUS
<1>2. 1..0 = {}
  OBVIOUS
<1> QED BY <1>1, <1>2 DEF OneQuery, OneReply, NoQuery, NoReply

(***************************************************************************)
(* The steps a query takes: it is asked for the first time, written on the *)
(* current connection, handled by the server, and its answer is read.      *)
(***************************************************************************)
LEMMA OnceAsked ==
  ASSUME IndInv, NEW l \in Plate, sendRecognizedInfo(l), NEW p \in Port
  PROVE  OneQuery(l, p)' /\ OneReply(l, p)' /\ NotYetSent(l, p)'
<1>1. /\ srv'[p] = srv[p] /\ resp'[p] = resp[p] /\ handled' = handled /\ l \notin asked
  BY DEF sendRecognizedInfo, connVars, histVars
<1>2. l \notin handled
  BY <1>1 DEF IndInv, PlateInv
<1>3. ASSUME NEW i \in 1..Len(srv[p]) PROVE ~IsQuery(srv[p][i], l)
  <2>1. srv[p][i] \in Part(Sent)
    BY DEF IndInv, StreamInv
  <2>2. srv[p][i].msg \in Sent
    BY <2>1 DEF Part
  <2> QED BY <1>1, <2>2 DEF IsQuery, TextOf, Query, Sent
<1>4. ASSUME NEW i \in 1..Len(resp[p]) PROVE ~IsReply(resp[p][i], l)
  <2>1. resp[p][i] \in Part(Given)
    BY DEF IndInv, StreamInv
  <2>2. resp[p][i].msg \in Given
    BY <2>1 DEF Part
  <2> QED BY <1>1, <2>2 DEF IsReply, TextOf, Given
<1> QED BY <1>1, <1>2, <1>3, <1>4 DEF OneQuery, OneReply, NotYetSent, NoQuery, NoReply

LEMMA OnceWritten ==
  ASSUME IndInv, LiveInv, OnceInv, NEW l \in Plate, NEW p \in Port,
         Write("video", "writeB", "body"), msg["video"] = Query(l)
  PROVE  OneQuery(l, p)' /\ OneReply(l, p)' /\ NotYetSent(l, p)'
<1> DEFINE s == srv[p]
           x == [half |-> "body", msg |-> Query(l)]
<1>1. /\ held["video"] \in Port /\ pc \in [Thread -> Places] /\ "video" \in Thread
      /\ srv \in [Port -> Seq(Part(Sent))] /\ s \in Seq(Part(Sent)) /\ Len(s) \in Nat
  BY DEF Write, At, IndInv, ThreadInv, StreamInv, Thread
<1>2. /\ UNCHANGED <<answered, refused, handled>> /\ resp'[p] = resp[p]
      /\ pc'["video"] = "watch"
      /\ srv' = srv \/ srv' = [srv EXCEPT ![held["video"]] = Append(@, x)]
  BY <1>1 DEF Write, Return, AfterSend, plateVars, histVars
<1>3. ~Asking(l)' /\ Asking(l)
  BY <1>2 DEF Asking, Write, At
<1>4. OneQuery(l, p) /\ OneReply(l, p) /\ NotYetSent(l, p)
  BY DEF OnceInv
<1>5. CASE srv'[p] = s
  BY <1>2, <1>3, <1>4, <1>5 DEF OneQuery, OneReply, NotYetSent, NoReply
<1>6. CASE srv'[p] = Append(s, x)
  <2>1. l \notin handled /\ NoQuery(l, p) /\ NoReply(l, p)
    BY <1>3, <1>4 DEF NotYetSent
  <2> HIDE DEF s
  <2>2. Len(Append(s, x)) = Len(s) + 1 /\ \A i \in 1..Len(s) : Append(s, x)[i] = s[i]
    BY <1>1
  <2>3. \A i \in 1..Len(srv'[p]) : IsQuery(srv'[p][i], l) => i = Len(s) + 1
    BY <1>1, <1>6, <2>1, <2>2 DEF NoQuery, s
  <2>4. NoReply(l, p)'
    BY <1>2, <2>1 DEF NoReply
  <2>5. OneQuery(l, p)'
    BY <1>2, <2>1, <2>3, <2>4 DEF OneQuery
  <2>6. OneReply(l, p)'
    BY <1>2, <1>4 DEF OneReply
  <2> QED BY <1>3, <2>5, <2>6 DEF NotYetSent
<1>7. srv'[p] = s \/ srv'[p] = Append(s, x)
  BY <1>1, <1>2
<1> QED BY <1>5, <1>6, <1>7

\* before the server handles a query nobody else has it, and no response to it exists
LEMMA OnceHandled ==
  ASSUME IndInv, LiveInv, OnceInv, NEW q \in Port, NEW l \in Plate, ServerAnswersQuery(q, l)
  PROVE  /\ l \notin handled /\ NoReply(l, q) /\ ~Asking(l)
         /\ \A i \in 1..Len(srv[q]) : IsQuery(srv[q][i], l) => i = 2
<1>1. Whole(q, Query(l))
  BY DEF ServerAnswersQuery
<1>2. srv[q] \in Seq(Part(Sent)) /\ Len(srv[q]) >= 2 /\ Len(srv[q]) \in Nat
      /\ srv[q][2].msg = Query(l) /\ srv[q][2].half = "body"
  BY <1>1, WholeParts DEF IndInv, StreamInv
<1>3. 2 \in 1..Len(srv[q]) /\ srv[q][2] \in Part(Sent)
  BY <1>2
<1>4. IsQuery(srv[q][2], l)
  BY <1>2, <1>3 DEF IsQuery, TextOf, Part
<1>5. OneQuery(l, q) /\ NotYetSent(l, q)
  BY DEF OnceInv
<1> QED BY <1>3, <1>4, <1>5 DEF OneQuery, NotYetSent, NoQuery

LEMMA OnceReplied ==
  ASSUME IndInv, LiveInv, OnceInv, NEW q \in Port, NEW l \in Plate, ServerAnswersQuery(q, l),
         NEW p \in Port
  PROVE  OneQuery(l, p)' /\ OneReply(l, p)' /\ NotYetSent(l, p)'
<1>1. /\ l \notin handled /\ NoReply(l, q) /\ ~Asking(l)
      /\ \A i \in 1..Len(srv[q]) : IsQuery(srv[q][i], l) => i = 2
  BY OnceHandled
<1>2. ~Asking(l)'
  BY <1>1 DEF Asking, ServerAnswersQuery, laptopVars, threadVars
<1>3. /\ srv \in [Port -> Seq(Part(Sent))] /\ resp \in [Port -> Seq(Part(Given))]
  BY DEF IndInv, StreamInv
<1>4. CASE p # q
  <2>1. link[p] = "free"
    BY <1>4 DEF LiveInv, ServerAnswersQuery
  <2>2. srv'[p] = srv[p] /\ resp'[p] = resp[p]
    BY <1>3, <1>4 DEF ServerAnswersQuery, Take
  <2>3. srv'[p] = <<>> /\ resp'[p] = <<>>
    BY <2>1, <2>2 DEF LiveInv, Closed
  <2> QED BY <1>2, <2>3, OnceEmpty DEF NotYetSent
<1>5. CASE p = q
  <2> DEFINE r == [kind |-> IF logged[q] THEN "answer" ELSE "refusal", key |-> l]
             s == resp[q]
  <2>1. NoQuery(l, p)'
    <3>1. /\ Len(srv'[q]) = Len(srv[q]) - 2 /\ Len(srv[q]) \in Nat
          /\ \A i \in 1..Len(srv'[q]) : srv'[q][i] = srv[q][i + 2]
      BY <1>3, WholeParts DEF ServerAnswersQuery, Take
    <3>2. \A i \in 1..Len(srv'[q]) : i + 2 \in 1..Len(srv[q]) /\ i + 2 # 2
      BY <3>1
    <3> QED BY <1>1, <1>5, <3>1, <3>2 DEF NoQuery, IsQuery
  <2>2. OneQuery(l, p)'
    BY <2>1 DEF OneQuery, NoQuery
  <2>3. resp'[q] = s \o Both(r) /\ s \in Seq(Part(Given))
    BY <1>3 DEF ServerAnswersQuery
  <2>4. /\ answered' = answered /\ handled' = handled \cup {l}
        /\ r.kind = "answer" => refused' = refused
        /\ l \notin answered /\ l \notin refused
    BY <1>1 DEF ServerAnswersQuery, laptopVars, plateVars, OnceInv, IndInv, PlateInv
  <2> HIDE DEF r, s
  <2>5. /\ Len(s) \in Nat /\ Len(resp'[q]) = Len(s) + 2
        /\ \A i \in 1..Len(s) : resp'[q][i] = s[i]
        /\ resp'[q][Len(s) + 1] = [half |-> "header", msg |-> r]
        /\ resp'[q][Len(s) + 2] = [half |-> "body", msg |-> r]
    BY <2>3, BothElements
  <2>6. ASSUME NEW i \in 1..Len(resp'[q]), IsReply(resp'[q][i], l)
        PROVE  i = Len(s) + 2
    <3>1. resp'[q][i].half = "body"
      BY <2>6 DEF IsReply, TextOf
    <3>2. i # Len(s) + 1
      BY <2>5, <3>1
    <3>3. ~(i \in 1..Len(s))
      BY <1>1, <2>5, <2>6 DEF NoReply, s
    <3> QED BY <2>5, <3>2, <3>3
  <2>7. OneReply(l, p)'
    BY <1>1, <1>5, <2>4, <2>5, <2>6 DEF OneReply, IsReply
  <2> QED BY <1>2, <2>2, <2>7 DEF NotYetSent
<1> QED BY <1>4, <1>5

\* the answer that is taken is the only response, and the query is nowhere any more
LEMMA OnceTaken ==
  ASSUME IndInv, OnceInv, NEW l \in Plate, Answer, got["receive"].key = l
  PROVE  LET q == held["receive"]
         IN  /\ q \in Port /\ link[q] = "up" /\ resp[q] # <<>> /\ resp[q] \in Seq(Part(Given))
             /\ l \in handled \ (answered \cup refused) /\ NoQuery(l, q) /\ ~Asking(l)
             /\ \A i \in 1..Len(resp[q]) : IsReply(resp[q][i], l) => i = 1
<1> DEFINE q == held["receive"]
<1>1. /\ q \in Port /\ link[q] = "up" /\ resp[q] # <<>> /\ resp[q] \in Seq(Part(Given))
      /\ Head(resp[q]) = TextOf(got["receive"]) /\ got["receive"].kind = "answer"
  BY DEF Answer, WholeBody, At, Arrived, Front, TextOf, IndInv, ThreadInv, StreamInv, Thread
<1>2. Len(resp[q]) \in Nat \ {0} /\ 1 \in 1..Len(resp[q]) /\ resp[q][1] = TextOf(got["receive"])
  BY <1>1, TailElements
<1>3. got["receive"] \in Given
  <2>1. resp[q][1] \in Part(Given)
    BY <1>1, <1>2
  <2> QED BY <1>2, <2>1 DEF Part, TextOf
<1>4. got["receive"] = [kind |-> "answer", key |-> l]
  BY <1>1, <1>3 DEF Given, Response
<1>5. IsReply(resp[q][1], l) /\ resp[q][1].msg.kind = "answer"
  BY <1>2, <1>4 DEF IsReply, TextOf
<1>6. OneQuery(l, q) /\ OneReply(l, q) /\ NotYetSent(l, q)
  BY <1>1 DEF OnceInv
<1>7. ~NoReply(l, q)
  BY <1>2, <1>5 DEF NoReply
<1> QED BY <1>1, <1>2, <1>5, <1>6, <1>7 DEF OneQuery, OneReply, NotYetSent, NoQuery

LEMMA OnceAnswered ==
  ASSUME IndInv, LiveInv, OnceInv, NEW l \in Plate, Answer, got["receive"].key = l, NEW p \in Port
  PROVE  OneQuery(l, p)' /\ OneReply(l, p)' /\ NotYetSent(l, p)'
<1> DEFINE q == held["receive"]
<1>1. /\ q \in Port /\ link[q] = "up" /\ resp[q] # <<>> /\ resp[q] \in Seq(Part(Given))
      /\ l \in handled \ (answered \cup refused) /\ NoQuery(l, q) /\ ~Asking(l)
      /\ \A i \in 1..Len(resp[q]) : IsReply(resp[q][i], l) => i = 1
  BY OnceTaken
<1>2. /\ resp \in [Port -> Seq(Part(Given))] /\ pc \in [Thread -> Places]
      /\ msg \in [Thread -> Sent \cup {NoMsg}] /\ "receive" # "video" /\ "video" \in Thread
  BY DEF IndInv, ThreadInv, StreamInv, Thread
<1>3. ~Asking(l)'
  BY <1>1, <1>2 DEF Asking, Answer, Return, Leave
<1>4. srv' = srv /\ resp' = [resp EXCEPT ![q] = Tail(@)]
  BY DEF Answer, WholeBody, Consume
<1> HIDE DEF q
<1>5. CASE p # q
  <2>1. srv[p] = <<>> /\ resp[p] = <<>>
    BY <1>1, <1>5 DEF LiveInv, Closed
  <2>2. srv'[p] = <<>> /\ resp'[p] = <<>>
    BY <1>2, <1>4, <1>5, <2>1
  <2> QED BY <1>3, <2>2, OnceEmpty DEF NotYetSent
<1>6. CASE p = q
  <2>1. /\ Len(resp[p]) \in Nat \ {0} /\ Len(resp'[p]) = Len(resp[p]) - 1
        /\ \A i \in 1..(Len(resp[p]) - 1) : resp'[p][i] = resp[p][i + 1]
    BY <1>1, <1>2, <1>4, <1>6, TailElements
  <2>2. \A i \in 1..Len(resp'[p]) : i + 1 \in 1..Len(resp[p]) /\ i + 1 # 1
                                   /\ resp'[p][i] = resp[p][i + 1]
    BY <2>1
  <2>3. NoReply(l, p)'
    BY <1>1, <1>6, <2>2 DEF NoReply, IsReply
  <2>4. NoQuery(l, p)'
    BY <1>1, <1>4, <1>6 DEF NoQuery
  <2> QED BY <1>3, <2>3, <2>4 DEF OneQuery, OneReply, NoQuery, NoReply, NotYetSent
<1> QED BY <1>5, <1>6

LEMMA NextOnce == IndInv /\ LiveInv /\ OnceInv /\ [Next]_vars => OnceInv'
<1> SUFFICES ASSUME IndInv, LiveInv, OnceInv, [Next]_vars PROVE OnceInv'
  OBVIOUS
<1>1. ASSUME NEW l \in Plate, NEW p \in Port
      PROVE  OneQuery(l, p)' /\ OneReply(l, p)' /\ NotYetSent(l, p)'
  <2>1. CASE sendRecognizedInfo(l)
    BY <2>1, OnceAsked
  <2>2. CASE Write("video", "writeB", "body") /\ msg["video"] = Query(l)
    BY <2>2, OnceWritten
  <2>3. CASE \E q \in Port : ServerAnswersQuery(q, l)
    BY <2>3, OnceReplied
  <2>4. CASE Answer /\ got["receive"].key = l
    BY <2>4, OnceAnswered
  <2>5. CASE /\ ~sendRecognizedInfo(l) /\ ~(Answer /\ got["receive"].key = l)
             /\ ~(Write("video", "writeB", "body") /\ msg["video"] = Query(l))
             /\ \A q \in Port : ~ServerAnswersQuery(q, l)
    <3>1. SrvKept(l, p)
      BY <2>5, OnceSrv
    <3>2. RespKept(l, p)
      BY <2>5, OnceResp
    <3>3. ToldKept(l)
      BY <2>5, OnceTold
    <3>4. Asking(l)' => Asking(l)
      BY <2>5, OnceAsking
    <3>5. OneQuery(l, p) /\ OneReply(l, p) /\ NotYetSent(l, p)
      BY DEF OnceInv
    <3> QED BY <3>1, <3>2, <3>3, <3>4, <3>5, NothingNew
  <2> QED BY <2>1, <2>2, <2>3, <2>4, <2>5
<1>2. \A t \in {"main", "reconnect"}, l \in Plate : msg'[t] # Query(l)
  BY OnceOthers
<1>3. (answered \subseteq handled)'
  <2> SUFFICES ASSUME NEW l \in answered' PROVE l \in handled'
    OBVIOUS
  <2>1. l \in Plate
    BY NextIndInv DEF IndInv, PlateInv
  <2>2. CASE \E q \in Port : ServerAnswersQuery(q, l)
    BY <2>2 DEF ServerAnswersQuery
  <2>3. CASE Answer /\ got["receive"].key = l
    <3>1. l \in handled
      BY <2>1, <2>3, OnceTaken
    <3>2. handled' = handled
      BY <2>3 DEF Answer, WholeBody, histVars
    <3> QED BY <3>1, <3>2
  <2>4. CASE /\ \A q \in Port : ~ServerAnswersQuery(q, l)
             /\ ~(Answer /\ got["receive"].key = l)
    <3>1. ToldKept(l)
      BY <2>1, <2>4, OnceTold
    <3> QED BY <3>1 DEF ToldKept, OnceInv
  <2> QED BY <2>2, <2>3, <2>4
<1> QED BY <1>1, <1>2, <1>3 DEF OnceInv

LEMMA InitOnce == Init => OnceInv
<1> SUFFICES ASSUME Init PROVE OnceInv
  OBVIOUS
<1>1. \A p \in Port : Len(srv[p]) = 0 /\ Len(resp[p]) = 0
  BY DEF Init
<1>2. \A t \in Thread : msg[t] = NoMsg
  BY DEF Init
<1>3. \A l \in Plate : ~Asking(l)
  BY DEF Asking, Init, Thread
<1>4. \A t \in {"main", "reconnect"}, l \in Plate : msg[t] # Query(l)
  BY <1>2, NoMsgAssumption DEF Thread, Query, Msg
<1>5. 1..0 = {} /\ answered = {}
  BY DEF Init
<1> QED BY <1>1, <1>3, <1>4, <1>5 DEF OnceInv, OneQuery, OneReply, NotYetSent

(***************************************************************************)
(* No plate is handled twice by the server, and none answered twice, for   *)
(* any number of plates, addresses, losses and reconnections: a query and  *)
(* its response can be lost with their connection, and neither is ever     *)
(* sent again.                                                             *)
(***************************************************************************)
THEOREM EachQueryOnce == Spec => QueriedOnce
<1> DEFINE P == \A l \in Plate :
       /\ (\E p \in Port : ServerAnswersQuery(p, l)) => l \notin handled
       /\ Answer /\ got["receive"].key = l => l \in handled \ (answered \cup refused)
<1>1. IndInv /\ LiveInv /\ OnceInv /\ [Next]_vars => [P]_vars
  BY OnceHandled, OnceTaken
<1> QED BY <1>1, InitOnce, NextOnce, SpecCurrent, IndInvariant, PTL DEF Spec, QueriedOnce

=============================================================================
