------------------------------ MODULE LaptopComm ------------------------------
(***************************************************************************)
(* The communication of the laptop application: CommunicationManager and   *)
(* LoginManager, with the four threads that share the global pointer       *)
(* TcpConnectedPort and the flag saveRetry and take no lock:               *)
(*   main       connects, logs in, and at the end logs out;                *)
(*   reconnect  replaces the port while saveRetry is set, and logs in;     *)
(*   video      queries each plate it recognises for the first time;       *)
(*   receive    reads the responses.                                       *)
(*                                                                         *)
(* A port p \in Port is the address of a TTcpConnectedPort: free once it   *)
(* is deleted, and given again by a later new.  link[p] is the connection  *)
(* of the port at that address.  A thread passes the pointer it read (held)*)
(* to ReadDataTcp() or WriteDataTcp(), which uses it some time later.      *)
(*                                                                         *)
(* The server is a small one for each connection; PlateServer has it whole.*)
(***************************************************************************)
EXTENDS Naturals, Sequences

CONSTANTS
  Port,        \* addresses of port objects
  Plate,       \* plates the video shows
  MaxRetry,    \* failed reads before the login is asked again (50)
  MaxLoss,     \* bound: connections lost to the network
  MaxFail,     \* bound: connects refused although the server runs
  MaxFaults,   \* bound: both together
  NoPort, NoMsg, NoCred

Thread == {"main", "reconnect", "video", "receive"}
Cred   == {"right", "wrong"}                   \* what a user can type

ASSUME LaptopAssumption ==
  /\ NoPort \notin Port
  /\ MaxRetry \in Nat /\ {MaxLoss, MaxFail, MaxFaults} \subseteq Nat
  /\ NoCred \notin Cred

Msg == [kind : {"login"}, key : Cred] \cup [kind : {"query"}, key : Plate]
Response == [kind : {"granted", "denied"}, key : Cred]
            \cup [kind : {"answer", "refusal"}, key : Plate]
Part(M) == [half : {"header", "body"}, msg : M]

ASSUME NoMsgAssumption == NoMsg \notin Msg \cup Response

VARIABLES
  proc,       \* the laptop's process
  pc,         \* where each thread is
  msg,        \* the message a thread sends
  held,       \* the pointer it passed to the transport
  got,        \* the response whose length it read
  port,       \* TcpConnectedPort
  saveRetry,  \* CommunicationManager::saveRetry
  creds,      \* userID and userPass
  retryCount, \* retryCount of checkLoginSuccess()
  asked,      \* keys of mapVehicleNum
  answered,   \* plates whose response_code was 200
  link,       \* the connection of each address: free, up or down
  opener,     \* the thread that opened it
  srv,        \* parts written on it that the server has not handled
  auth,       \* logins being checked by the server
  logged,     \* whether the server has a session for it
  resp,       \* response parts the laptop has not read
  serverUp,   \* the server's process runs
  granted,    \* credentials ever granted
  refused,    \* plates refused with "need to login."
  handled,    \* plates whose query the server has handled, refused or not
  losses, fails

threadVars == <<pc, msg, held, got>>
flagVars   == <<port, saveRetry, creds, retryCount>>
plateVars  == <<asked, answered>>
connVars   == <<link, opener, srv, auth, logged, resp>>
faultVars  == <<serverUp, losses, fails>>
histVars   == <<granted, refused, handled>>   \* what the properties remember
laptopVars == <<proc, threadVars, flagVars, plateVars>>
restVars   == <<plateVars, connVars, faultVars, histVars>>
vars == <<proc, threadVars, flagVars, restVars>>

Places == {"off", "connect", "input", "idle", "clear", "relogin", "watch", "retry",
           "logout", "joined", "done",
           "save", "check", "loadWH", "writeH", "loadWB", "writeB",
           "rcheck", "loadRH", "readH", "loadRB", "readB", "lost"}

TypeOK ==
  /\ proc \in {"running", "crashed", "exited"}
  /\ pc \in [Thread -> Places]
  /\ msg \in [Thread -> Msg \cup {NoMsg}]
  /\ held \in [Thread -> Port \cup {NoPort}]
  /\ got \in [Thread -> Response \cup {NoMsg}]
  /\ port \in Port \cup {NoPort}
  /\ saveRetry \in BOOLEAN
  /\ creds \in Cred \cup {NoCred}
  /\ retryCount \in 0..(MaxRetry + 1)
  /\ asked \subseteq Plate /\ answered \subseteq asked
  /\ link \in [Port -> {"free", "up", "down"}]
  /\ opener \in [Port -> {"main", "reconnect"}]
  /\ srv \in [Port -> Seq(Part(Msg))]
  /\ auth \in [Port -> SUBSET Cred]
  /\ logged \in [Port -> BOOLEAN]
  /\ resp \in [Port -> Seq(Part(Response))]
  /\ serverUp \in BOOLEAN
  /\ granted \subseteq Cred /\ handled \subseteq asked /\ refused \subseteq handled
  /\ losses \in 0..MaxLoss /\ fails \in 0..MaxFail

Init ==
  /\ proc = "running"
  /\ pc = [t \in Thread |-> IF t = "main" THEN "connect" ELSE "off"]
  /\ msg = [t \in Thread |-> NoMsg]
  /\ held = [t \in Thread |-> NoPort]
  /\ got = [t \in Thread |-> NoMsg]
  /\ port = NoPort /\ saveRetry = FALSE /\ creds = NoCred /\ retryCount = 0
  /\ asked = {} /\ answered = {}
  /\ link = [p \in Port |-> "free"]
  /\ opener = [p \in Port |-> "main"]
  /\ srv = [p \in Port |-> <<>>]
  /\ auth = [p \in Port |-> {}]
  /\ logged = [p \in Port |-> FALSE]
  /\ resp = [p \in Port |-> <<>>]
  /\ serverUp = TRUE
  /\ granted = {} /\ refused = {} /\ handled = {}
  /\ losses = 0 /\ fails = 0

Login(c) == [kind |-> "login", key |-> c]
Query(l) == [kind |-> "query", key |-> l]
Both(m)  == <<[half |-> "header", msg |-> m], [half |-> "body", msg |-> m]>>

\* thread t at place "from" goes to place "to"
At(t, from)    == proc = "running" /\ pc[t] = from
Goto(t, to)    == pc' = [pc EXCEPT ![t] = to] /\ UNCHANGED <<msg, held, got>>
\* the call t is in returns, and its arguments and locals are gone
Leave(t)       == /\ msg' = [msg EXCEPT ![t] = NoMsg]
                  /\ held' = [held EXCEPT ![t] = NoPort]
                  /\ got' = [got EXCEPT ![t] = NoMsg]
Return(t, to)  == pc' = [pc EXCEPT ![t] = to] /\ Leave(t)
Crash          == proc' = "crashed"

-----------------------------------------------------------------------------
(* Opening and closing the port.                                            *)

\* OpenTcpConnection() succeeded for thread t: a new port at address p
Opened(t, p) ==
  /\ serverUp /\ link[p] = "free"
  /\ port' = p
  /\ link' = [link EXCEPT ![p] = "up"]
  /\ opener' = [opener EXCEPT ![p] = t]
  /\ UNCHANGED <<srv, auth, logged, resp, fails>>

\* it did not: a fault of the network, or there is no server
NotOpened ==
  /\ IF serverUp THEN fails < MaxFail /\ losses + fails < MaxFaults /\ fails' = fails + 1
                 ELSE UNCHANGED fails
  /\ saveRetry' = TRUE
  /\ port' = NoPort
  /\ UNCHANGED connVars

\* CloseTcpConnectedPort(): what the laptop has not read is gone
CloseTcpConnectedPort ==
  LET Fresh(f, e) == IF port = NoPort THEN f ELSE [f EXCEPT ![port] = e]
  IN  /\ link' = Fresh(link, "free")
      /\ srv' = Fresh(srv, <<>>) /\ resp' = Fresh(resp, <<>>)
      /\ auth' = Fresh(auth, {}) /\ logged' = Fresh(logged, FALSE)
      /\ port' = NoPort
      /\ UNCHANGED opener

-----------------------------------------------------------------------------
(* sendCommunicationData(), called by main, reconnect and video.            *)

\* where the caller goes on
AfterSend(t) ==
  CASE t = "main" -> "rcheck" [] t = "reconnect" -> "idle" [] t = "video" -> "watch"

Check(t) ==
  /\ At(t, "check")
  /\ IF port = NoPort \/ saveRetry
     THEN saveRetry' = TRUE /\ Return(t, AfterSend(t))
     ELSE UNCHANGED saveRetry /\ Goto(t, "loadWH")
  /\ UNCHANGED <<proc, port, creds, retryCount, restVars>>

\* the global is read again for each call; the transport has no test for NULL
Load(t, from, to) ==
  /\ At(t, from)
  /\ IF port = NoPort THEN Crash /\ UNCHANGED <<pc, held>>
     ELSE /\ UNCHANGED proc
          /\ pc' = [pc EXCEPT ![t] = to]
          /\ held' = [held EXCEPT ![t] = port]
  /\ UNCHANGED <<msg, got, flagVars, restVars>>

\* WriteDataTcp(): -1 on a connection that is lost and on a deleted port
Write(t, from, half) ==
  LET p == held[t]
  IN  /\ At(t, from)
      /\ IF link[p] = "up"
         THEN /\ srv' = [srv EXCEPT ![p] = Append(@, [half |-> half, msg |-> msg[t]])]
              /\ IF half = "header" THEN Goto(t, "loadWB") ELSE Return(t, AfterSend(t))
              /\ UNCHANGED saveRetry
         ELSE /\ saveRetry' = TRUE
              /\ Return(t, AfterSend(t))
              /\ UNCHANGED srv
      /\ UNCHANGED <<proc, port, creds, retryCount, plateVars, link, opener, auth,
                     logged, resp, faultVars, histVars>>

Sending(t) ==
  \/ Check(t)
  \/ Load(t, "loadWH", "writeH") \/ Write(t, "writeH", "header")
  \/ Load(t, "loadWB", "writeB") \/ Write(t, "writeB", "body")

-----------------------------------------------------------------------------
(* receiveAuthenticateData() of main, receiveCommunicationData() of receive. *)

\* where a failed call continues; it has set saveRetry
AfterRead(t) == IF t = "main" THEN "retry" ELSE "rcheck"

ReadCheck(t) ==
  /\ At(t, "rcheck")
  /\ IF port = NoPort
     THEN saveRetry' = TRUE /\ Return(t, AfterRead(t))
     ELSE UNCHANGED saveRetry /\ Goto(t, "loadRH")
  /\ UNCHANGED <<proc, port, creds, retryCount, restVars>>

QuietReadFails(t, from) ==                                 \* mutant
  /\ At(t, from) /\ link[held[t]] # "up"
  /\ Return(t, AfterRead(t))
  /\ UNCHANGED <<proc, flagVars, restVars>>

\* recv() returns -1
ReadFails(t, from) ==
  /\ At(t, from) /\ link[held[t]] # "up"
  /\ saveRetry' = TRUE
  /\ Return(t, AfterRead(t))
  /\ UNCHANGED <<proc, port, creds, retryCount, restVars>>

Front(t) == Head(resp[held[t]])
Arrived(t) == link[held[t]] = "up" /\ resp[held[t]] # <<>>
Consume(t) == resp' = [resp EXCEPT ![held[t]] = Tail(@)]

ReadHeader(t) ==
  /\ At(t, "readH") /\ Arrived(t) /\ Front(t).half = "header"
  /\ Consume(t)
  /\ got' = [got EXCEPT ![t] = Front(t).msg]
  /\ pc' = [pc EXCEPT ![t] = "loadRB"]
  /\ UNCHANGED <<proc, msg, held, flagVars, plateVars, link, opener, srv, auth, logged,
                 faultVars, histVars>>

\* A text taken for a length, or a text not of the length that was read: the
\* bytes do not parse.  receive catches that and goes on, or waits for more
\* bytes (lost), or has written beyond its buffer; main catches nothing.
Misread(t) ==
  /\ \/ At(t, "readH") /\ Arrived(t) /\ Front(t).half = "body"
     \/ At(t, "readB") /\ Arrived(t) /\ Front(t) # [half |-> "body", msg |-> got[t]]
     \/ At(t, "lost") /\ Arrived(t)
  /\ Consume(t)
  /\ \/ Crash /\ UNCHANGED threadVars
     \/ t = "receive" /\ Return(t, "rcheck") /\ UNCHANGED proc
     \/ Goto(t, "lost") /\ UNCHANGED proc
  /\ UNCHANGED <<flagVars, plateVars, link, opener, srv, auth, logged, faultVars, histVars>>

WholeBody(t, kind) ==
  /\ At(t, "readB") /\ Arrived(t)
  /\ Front(t) = [half |-> "body", msg |-> got[t]]
  /\ got[t].kind = kind
  /\ Consume(t)
  /\ UNCHANGED <<proc, port, saveRetry, creds, link, opener, srv, auth, logged,
                 faultVars, histVars>>

Receiving(t) ==
  \/ ReadCheck(t)
  \/ Load(t, "loadRH", "readH") \/ ReadHeader(t)
  \/ Load(t, "loadRB", "readB")
  \/ Misread(t)
  \/ \E from \in {"readH", "readB", "lost"} : ReadFails(t, from)

-----------------------------------------------------------------------------
(* main(): networkConnect(), login(), and at the end logout().              *)

networkConnect ==
  /\ At("main", "connect")
  /\ \/ \E p \in Port : Opened("main", p) /\ saveRetry' = FALSE
     \/ NotOpened
  /\ Goto("main", "input")
  /\ UNCHANGED <<proc, creds, retryCount, plateVars, serverUp, losses, histVars>>

VideoBeforeLogin(c) ==                                     \* mutant
  /\ At("main", "input")
  /\ msg' = [msg EXCEPT !["main"] = Login(c)]
  /\ pc' = [pc EXCEPT !["main"] = "save",
                     !["reconnect"] = IF @ = "off" THEN "idle" ELSE @,
                     !["video"] = IF @ = "off" THEN "watch" ELSE @]
  /\ UNCHANGED <<proc, held, got, flagVars, restVars>>

\* authenticate() starts the reconnect thread before it saves what was typed
inputLoginInfo(c) ==
  /\ At("main", "input")
  /\ msg' = [msg EXCEPT !["main"] = Login(c)]
  /\ pc' = [pc EXCEPT !["main"] = "save",
                     !["reconnect"] = IF @ = "off" THEN "idle" ELSE @]
  /\ UNCHANGED <<proc, held, got, flagVars, restVars>>

ForgetCredentials(t) ==                                    \* mutant
  /\ At(t, "save")
  /\ Goto(t, "check")
  /\ UNCHANGED <<proc, flagVars, restVars>>

SaveCredentials(t) ==
  /\ At(t, "save")
  /\ creds' = msg[t].key
  /\ Goto(t, "check")
  /\ UNCHANGED <<proc, port, saveRetry, retryCount, restVars>>

LoginSucceedsAnyway ==                                     \* mutant
  /\ \E k \in {"granted", "denied"} : WholeBody("main", k)
  /\ pc' = [pc EXCEPT !["main"] = "joined", !["receive"] = "rcheck", !["video"] = "watch"]
  /\ Leave("main")
  /\ UNCHANGED <<retryCount, plateVars>>

NoReceiver ==                                              \* mutant
  /\ WholeBody("main", "granted")
  /\ pc' = [pc EXCEPT !["main"] = "joined", !["video"] = "watch"]
  /\ Leave("main")
  /\ UNCHANGED <<retryCount, plateVars>>

\* the receive and the video thread start once the login succeeded
LoginSucceeds ==
  /\ WholeBody("main", "granted")
  /\ pc' = [pc EXCEPT !["main"] = "joined", !["receive"] = "rcheck", !["video"] = "watch"]
  /\ Leave("main")
  /\ UNCHANGED <<retryCount, plateVars>>

LoginDenied ==
  /\ WholeBody("main", "denied")
  /\ retryCount' = 1
  /\ Return("main", "input")
  /\ UNCHANGED plateVars

RetryWithoutReset ==                                       \* mutant
  /\ At("main", "retry")
  /\ retryCount' = retryCount + 1
  /\ IF retryCount > MaxRetry
     THEN saveRetry' = TRUE /\ Goto("main", "input")
     ELSE UNCHANGED saveRetry /\ Goto("main", "rcheck")
  /\ UNCHANGED <<proc, port, creds, restVars>>

Retry ==
  /\ At("main", "retry")
  /\ IF retryCount > MaxRetry
     THEN saveRetry' = TRUE /\ retryCount' = 0 /\ Goto("main", "input")
     ELSE UNCHANGED saveRetry /\ retryCount' = retryCount + 1 /\ Goto("main", "rcheck")
  /\ UNCHANGED <<proc, port, creds, restVars>>

\* the video has ended and its thread was joined
logout ==
  /\ At("main", "joined") /\ pc["video"] = "watch"
  /\ CloseTcpConnectedPort
  /\ pc' = [pc EXCEPT !["main"] = "logout", !["video"] = "done"]
  /\ UNCHANGED <<proc, msg, held, got, saveRetry, creds, retryCount, plateVars,
                 faultVars, histVars>>

Exit ==
  /\ At("main", "logout")
  /\ proc' = "exited"
  /\ UNCHANGED <<threadVars, flagVars, restVars>>

MainNext ==
  \/ networkConnect \/ (\E c \in Cred : inputLoginInfo(c)) \/ SaveCredentials("main")
  \/ Sending("main") \/ Receiving("main")
  \/ LoginSucceeds \/ LoginDenied \/ Retry \/ logout \/ Exit

-----------------------------------------------------------------------------
(* reconnectThread(), every 100 ms: retryNetworkConnect() if saveRetry.     *)

retryNetworkConnect ==
  /\ At("reconnect", "idle") /\ saveRetry
  /\ CloseTcpConnectedPort
  /\ Goto("reconnect", "connect")
  /\ UNCHANGED <<proc, saveRetry, creds, retryCount, plateVars, faultVars, histVars>>

Reconnect ==
  /\ At("reconnect", "connect")
  /\ \/ /\ \E p \in Port : Opened("reconnect", p)
        /\ Goto("reconnect", "clear") /\ UNCHANGED saveRetry
     \/ NotOpened /\ Goto("reconnect", "idle")
  /\ UNCHANGED <<proc, creds, retryCount, plateVars, serverUp, losses, histVars>>

ClearRetry ==
  /\ At("reconnect", "clear")
  /\ saveRetry' = FALSE
  /\ Goto("reconnect", "relogin")
  /\ UNCHANGED <<proc, port, creds, retryCount, restVars>>

\* authenticate(userID, userPass), which saves its arguments again
Relogin ==
  /\ At("reconnect", "relogin")
  /\ IF creds = NoCred
     THEN pc' = [pc EXCEPT !["reconnect"] = "idle"] /\ UNCHANGED msg
     ELSE /\ pc' = [pc EXCEPT !["reconnect"] = "save"]
          /\ msg' = [msg EXCEPT !["reconnect"] = Login(creds)]
  /\ UNCHANGED <<proc, held, got, flagVars, restVars>>

ReconnectNext ==
  \/ retryNetworkConnect \/ Reconnect \/ ClearRetry \/ Relogin
  \/ SaveCredentials("reconnect") \/ Sending("reconnect")

-----------------------------------------------------------------------------
(* The video thread: setRecognizedInfo() queries a plate the first time.    *)

AskAgain(l) ==                                             \* mutant
  /\ At("video", "watch") /\ l \notin answered
  /\ asked' = asked \cup {l}
  /\ msg' = [msg EXCEPT !["video"] = Query(l)]
  /\ pc' = [pc EXCEPT !["video"] = "check"]
  /\ UNCHANGED <<proc, held, got, flagVars, answered, connVars, faultVars, histVars>>

sendRecognizedInfo(l) ==
  /\ At("video", "watch") /\ l \notin asked
  /\ asked' = asked \cup {l}
  /\ msg' = [msg EXCEPT !["video"] = Query(l)]
  /\ pc' = [pc EXCEPT !["video"] = "check"]
  /\ UNCHANGED <<proc, held, got, flagVars, answered, connVars, faultVars, histVars>>

VideoNext == (\E l \in Plate : sendRecognizedInfo(l)) \/ Sending("video")

-----------------------------------------------------------------------------
(* The receive thread.                                                      *)

\* a response to a login, or a refusal, changes nothing the module keeps
Ignore ==
  /\ \E k \in {"granted", "denied", "refusal"} : WholeBody("receive", k)
  /\ Return("receive", "rcheck")
  /\ UNCHANGED <<retryCount, plateVars>>

Answer ==
  /\ WholeBody("receive", "answer")
  /\ answered' = answered \cup {got["receive"].key}
  /\ Return("receive", "rcheck")
  /\ UNCHANGED <<retryCount, asked>>

ReceiveNext == Receiving("receive") \/ Ignore \/ Answer

-----------------------------------------------------------------------------
(* The server, for each connection, and the network.                        *)

Whole(p, m) == Len(srv[p]) >= 2 /\ SubSeq(srv[p], 1, 2) = Both(m)
Take(p)     == srv' = [srv EXCEPT ![p] = SubSeq(@, 3, Len(@))]

\* a second login with the same credentials waits for the answer to the first
ServerReadsLogin(p) ==
  /\ link[p] = "up"
  /\ \E c \in Cred \ auth[p] :
       Whole(p, Login(c)) /\ auth' = [auth EXCEPT ![p] = @ \cup {c}]
  /\ Take(p)
  /\ UNCHANGED <<laptopVars, link, opener, logged, resp, faultVars, histVars>>

FirstSessionOnly(p, c) == logged[p] \/ (c = "right" /\ granted = {})   \* mutant

\* whether the connection has a session after a login with c
Session(p, c) == logged[p] \/ c = "right"

\* loginHandler(), in a thread of its own
ServerAnswersLogin(p, c) ==
  LET ok == c = "right"
      r  == [kind |-> IF ok THEN "granted" ELSE "denied", key |-> c]
  IN  /\ link[p] = "up" /\ c \in auth[p]
      /\ auth' = [auth EXCEPT ![p] = @ \ {c}]
      /\ logged' = [logged EXCEPT ![p] = Session(p, c)]
      /\ granted' = IF ok THEN granted \cup {c} ELSE granted
      /\ resp' = [resp EXCEPT ![p] = @ \o Both(r)]
      /\ UNCHANGED <<laptopVars, link, opener, srv, faultVars, refused, handled>>

ServerAnswersQuery(p, l) ==
  LET r == [kind |-> IF logged[p] THEN "answer" ELSE "refusal", key |-> l]
  IN  /\ link[p] = "up" /\ Whole(p, Query(l))
      /\ Take(p)
      /\ resp' = [resp EXCEPT ![p] = @ \o Both(r)]
      /\ handled' = handled \cup {l}
      /\ refused' = IF logged[p] THEN refused ELSE refused \cup {l}
      /\ UNCHANGED <<laptopVars, link, opener, auth, logged, faultVars, granted>>

\* A text read as a length is longer than DataString, a length read as part of
\* a text makes it no JSON: either ends the server, and all its connections.
Torn(p) ==
  /\ link[p] = "up" /\ srv[p] # <<>>
  /\ \/ Head(srv[p]).half = "body"
     \/ Len(srv[p]) >= 2 /\ srv[p][2] # [half |-> "body", msg |-> srv[p][1].msg]

ServerEnds(p) ==
  /\ Torn(p)
  /\ serverUp' = FALSE
  /\ link' = [q \in Port |-> IF link[q] = "up" THEN "down" ELSE link[q]]
  /\ UNCHANGED <<laptopVars, opener, srv, auth, logged, resp, losses, fails, histVars>>

\* the network fails for so long that keepalive gives the connection up
LoseConnection(p) ==
  /\ link[p] = "up" /\ losses < MaxLoss /\ losses + fails < MaxFaults
  /\ link' = [link EXCEPT ![p] = "down"]
  /\ losses' = losses + 1
  /\ UNCHANGED <<laptopVars, opener, srv, auth, logged, resp, serverUp, fails, histVars>>

ServerNext(p) ==
  \/ ServerReadsLogin(p) \/ (\E c \in Cred : ServerAnswersLogin(p, c))
  \/ (\E l \in Plate : ServerAnswersQuery(p, l)) \/ ServerEnds(p)

Next ==
  \/ MainNext \/ ReconnectNext \/ VideoNext \/ ReceiveNext
  \/ \E p \in Port : ServerNext(p) \/ LoseConnection(p)

Spec == Init /\ [][Next]_vars

FairSpec ==
  /\ Spec
  /\ WF_vars(MainNext /\ ~logout) /\ WF_vars(ReconnectNext)
  /\ WF_vars(Sending("video")) /\ WF_vars(ReceiveNext)
  /\ \A p \in Port : WF_vars(ServerNext(p))

-----------------------------------------------------------------------------
(***************************************************************************)
(* What the three sending threads write on the connection that main opened *)
(* is whole messages, each length followed by its own text: the lock they  *)
(* do not take is missed on no connection that was never replaced.         *)
(***************************************************************************)
Framed(s) ==
  \A i \in 1..Len(s) :
    IF i % 2 = 1 THEN s[i].half = "header"
    ELSE s[i] = [half |-> "body", msg |-> s[i - 1].msg]

FirstConnectionWhole ==
  \A p \in Port : link[p] = "up" /\ opener[p] = "main" => Framed(srv[p])

(***************************************************************************)
(* login() returns only after the server has granted a login, whatever     *)
(* connections the responses were read from.                               *)
(***************************************************************************)
LoginGate == pc["main"] \in {"joined", "logout"} => granted # {}

(***************************************************************************)
(* main never waits for the response to a login that nobody sent: while it *)
(* waits on the current connection and no reconnection is due or under way *)
(* a login or its response is on the way.                                  *)
(***************************************************************************)
Settled == port # NoPort /\ ~saveRetry /\ pc["reconnect"] = "idle" /\ link[port] = "up"

NeverAwaitsInVain ==
  Settled /\ pc["main"] = "readH" /\ held["main"] = port =>
    srv[port] # <<>> \/ auth[port] # {} \/ resp[port] # <<>>

(***************************************************************************)
(* Once a reconnection has settled and no login is on its way, the server  *)
(* has a session for the current connection, if the saved credentials are  *)
(* right.                                                                  *)
(***************************************************************************)
LoginUnderWay(p) ==
  auth[p] # {} \/ \E i \in 1..Len(srv[p]) : srv[p][i].msg.kind = "login"

SessionFollowsConnection ==
  proc = "running" /\ Settled /\ pc["main"] = "joined" /\ creds = "right" =>
    logged[port] \/ LoginUnderWay(port)

(***************************************************************************)
(* The laptop application is never ended by the loss of a connection.      *)
(***************************************************************************)
SurvivesLoss == proc # "crashed"

(***************************************************************************)
(* After login() succeeded no plate is answered "need to login.".          *)
(***************************************************************************)
NeverAskedToLogin == refused = {}

(***************************************************************************)
(* The credentials a reconnection uses are ones the server accepted.       *)
(***************************************************************************)
SavedCredentialsAccepted == pc["main"] = "joined" => creds \in granted

(***************************************************************************)
(* Recovering the communication never ends the server.                     *)
(***************************************************************************)
ServerOutlivesRecovery == serverUp

(***************************************************************************)
(* As long as no connection was lost or refused, and until main logs out,  *)
(* the four claims above hold: the threads that take no lock harm each     *)
(* other only in the course of a recovery.                                 *)
(***************************************************************************)
OnlyFaultsHarm ==
  losses + fails = 0 /\ pc["main"] # "logout" =>
    SurvivesLoss /\ NeverAskedToLogin /\ SavedCredentialsAccepted /\ ServerOutlivesRecovery

(***************************************************************************)
(* The server handles the query of a plate once, whatever became of the    *)
(* first response, and the laptop takes one answer to it at most, and none *)
(* to a query that was refused or never handled: although messages go to,  *)
(* and responses come from, ports that are replaced between a length and   *)
(* its text.                                                               *)
(***************************************************************************)
QueriedOnce ==
  [][\A l \in Plate :
       /\ (\E p \in Port : ServerAnswersQuery(p, l)) => l \notin handled
       /\ Answer /\ got["receive"].key = l => l \in handled \ (answered \cup refused)]_vars

(***************************************************************************)
(* A lost connection is noticed, and the port replaced or found            *)
(* unreachable, as long as both processes run.                             *)
(***************************************************************************)
LossRepaired ==
  \A p \in Port :
    (port = p /\ link[p] = "down" /\ pc["reconnect"] # "off")
      ~> (port # p \/ link[p] # "down" \/ proc # "running" \/ ~serverUp)

(***************************************************************************)
(* While nothing fails every plate recognised is answered.                 *)
(***************************************************************************)
PlateAnswered ==
  \A l \in Plate :
    l \in asked ~> (l \in answered \/ losses + fails > 0 \/ pc["main"] = "logout")

=============================================================================
