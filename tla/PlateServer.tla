----------------------------- MODULE PlateServer -----------------------------
(***************************************************************************)
(* The lookup server: the select loop of server.cpp, the RequestHandler it *)
(* calls, one detached thread per request, and the response path shared by *)
(* the loop and the threads.                                               *)
(*                                                                         *)
(* A connection c \in Conn is one incarnation of a TCP connection and of   *)
(* its TTcpConnectedPort on the server; fdOf[c] is the descriptor accept() *)
(* gave it, which the operating system gives again once it is closed.      *)
(* A request r \in Req is one message of a laptop and, once handled, the   *)
(* thread that serves it.  connected_ports is {c : sock[c] = "open"}: a    *)
(* port is erased from it in the step that closes its socket.              *)
(*                                                                         *)
(* A frame is two parts, the length and the JSON text, each encrypted on   *)
(* its own; the module keeps the parts and abstracts their bytes.          *)
(***************************************************************************)
EXTENDS Integers, Sequences, FiniteSets, Functions

CONSTANTS
  Conn,          \* connection incarnations
  Fd,            \* socket descriptors of the server process
  Req,           \* request incarnations
  Account,       \* user ids of the account file
  SendCap,       \* frame parts a socket's send buffer holds before send() blocks
  Kinds,         \* the kinds each request of the instance may be of
  Endings,       \* how connections may end: by a FIN, by a reset, or early, before accept()
  NoConn, NoFd, NoReq, NoEntry, EmptyName

\* garbled: no JSON object with a request_type; oversize: longer than DataString
AllKinds == {"login", "query", "garbled", "oversize"}

ASSUME SentinelAssumption ==
  /\ NoConn \notin Conn
  /\ NoFd \notin Fd
  /\ NoReq \notin Req
  /\ EmptyName \notin Account
  /\ NoEntry \notin Account \cup {EmptyName}

ASSUME BoundAssumption ==
  /\ IsFiniteSet(Req) /\ IsFiniteSet(Account)
  /\ SendCap \in Nat \ {0}
  /\ Kinds \in [Req -> SUBSET AllKinds]
  /\ Endings \subseteq {"fin", "reset", "early"}

VARIABLES
  mpc,        \* where the loop of main() is
  mconn,      \* the port it is reading from
  mreq,       \* the request it is reading or refusing
  readSet,    \* the ports of ReadSet it has still to visit
  sock,       \* the server's end of each connection
  peer,       \* the laptop's end, as the server's TCP stack sees it
  fdOf,       \* TTcpConnectedPort::ConnectedFd
  inbox,      \* request parts that arrived and were not read
  out,        \* response parts written to the connection so far
  taken,      \* how many of them the laptop has read
  rst,        \* progress of each request
  rkind, rconn, racct,  \* its kind, the port of its callback, its user_id
  granted,    \* the logins whose response_code is 200
  refused,    \* the queries answered "need to login."
  session,    \* SessionLoginAccounts
  statistics, \* statistics_
  threadNum,  \* thread_num_
  sendLock    \* send_lock_: the request whose sender holds it

mainVars == <<mpc, mconn, mreq, readSet>>
peerVars == <<peer, inbox>>
portVars == <<sock, fdOf>>
outVars  == <<out, taken>>
reqVars  == <<rkind, rconn, racct>>
dataVars == <<granted, refused, session, statistics, threadNum>>
worldVars == <<outVars, rst, reqVars, dataVars, sendLock>>
vars == <<mainVars, peerVars, portVars, worldVars>>

Names    == Account \cup {EmptyName}          \* keys of statistics_
Part     == [half : {"header", "body"}, req : Req]
Matches  == {"exact", "partial", "none"}
Counters == [total : Nat, exact : Nat, partial : Nat, none : Nat]
Alive    == mpc \notin {"exited", "crashed"}  \* exit ends every thread with main()

TypeOK ==
  /\ mpc \in {"select", "accept", "scan", "header", "body", "refuse",
              "exited", "crashed"}
  /\ mconn \in Conn \cup {NoConn}
  /\ mreq \in Req \cup {NoReq}
  /\ readSet \subseteq Conn
  /\ sock \in [Conn -> {"none", "pending", "open", "closed"}]
  /\ peer \in [Conn -> {"none", "open", "fin", "reset"}]
  /\ fdOf \in [Conn -> Fd \cup {NoFd}]
  /\ inbox \in [Conn -> Seq(Part)]
  /\ out \in [Conn -> Seq(Part)]
  /\ taken \in [Conn -> Nat]
  /\ rst \in [Req -> {"unsent", "sending", "sent", "auth", "lookup", "reply",
                      "header", "body", "answered", "failed"}]
  /\ rkind \in [Req -> AllKinds]
  /\ rconn \in [Req -> Conn \cup {NoConn}]
  /\ racct \in [Req -> Account \cup {NoEntry}]
  /\ granted \subseteq Req
  /\ refused \subseteq Req
  /\ session \in [Fd -> Names \cup {NoEntry}]
  /\ statistics \in [Names -> Counters]
  /\ threadNum \in Int
  /\ sendLock \in Req \cup {NoReq}

Init ==
  /\ mpc = "select" /\ mconn = NoConn /\ mreq = NoReq
  /\ readSet = {}
  /\ sock = [c \in Conn |-> "none"]
  /\ peer = [c \in Conn |-> "none"]
  /\ fdOf = [c \in Conn |-> NoFd]
  /\ inbox = [c \in Conn |-> <<>>]
  /\ out = [c \in Conn |-> <<>>]
  /\ taken = [c \in Conn |-> 0]
  /\ rst = [r \in Req |-> "unsent"]
  /\ rkind = [r \in Req |-> "query"]
  /\ rconn = [r \in Req |-> NoConn]
  /\ racct = [r \in Req |-> NoEntry]
  /\ granted = {} /\ refused = {}
  /\ session = [f \in Fd |-> NoEntry]
  /\ statistics = [n \in Names |-> [total |-> 0, exact |-> 0, partial |-> 0, none |-> 0]]
  /\ threadNum = 0
  /\ sendLock = NoReq

-----------------------------------------------------------------------------
(* The laptops, from the server's side.  They are outside this module: each *)
(* connection carries whole frames, in the order they were sent.            *)

ClientConnect(c) ==
  /\ Alive /\ sock[c] = "none"
  /\ sock' = [sock EXCEPT ![c] = "pending"]
  /\ peer' = [peer EXCEPT ![c] = "open"]
  /\ UNCHANGED <<mainVars, inbox, fdOf, worldVars>>

ClientSendHeader(c, r, k, a) ==
  /\ Alive /\ peer[c] = "open" /\ rst[r] = "unsent"
  /\ k \in Kinds[r]
  /\ a \in (IF k = "login" THEN Account ELSE {NoEntry})
  /\ ~ \E q \in Req : rst[q] = "sending" /\ rconn[q] = c
  /\ rst' = [rst EXCEPT ![r] = "sending"]
  /\ rkind' = [rkind EXCEPT ![r] = k]
  /\ rconn' = [rconn EXCEPT ![r] = c]
  /\ racct' = [racct EXCEPT ![r] = a]
  /\ inbox' = [inbox EXCEPT ![c] = Append(@, [half |-> "header", req |-> r])]
  /\ UNCHANGED <<mainVars, peer, portVars, outVars, dataVars, sendLock>>

ClientSendBody(r) ==
  /\ Alive /\ rst[r] = "sending" /\ peer[rconn[r]] = "open"
  /\ rst' = [rst EXCEPT ![r] = "sent"]
  /\ inbox' = [inbox EXCEPT ![rconn[r]] = Append(@, [half |-> "body", req |-> r])]
  /\ UNCHANGED <<mainVars, peer, portVars, outVars, reqVars, dataVars, sendLock>>

ClientRecv(c) ==
  /\ peer[c] = "open" /\ taken[c] < Len(out[c])
  /\ taken' = [taken EXCEPT ![c] = @ + 1]
  /\ UNCHANGED <<mainVars, peerVars, portVars, out, rst, reqVars, dataVars, sendLock>>

\* closesocket() of a laptop: a FIN follows what it sent
ClientClose(c) ==
  /\ "fin" \in Endings /\ peer[c] = "open"
  /\ peer' = [peer EXCEPT ![c] = "fin"]
  /\ UNCHANGED <<mainVars, inbox, portVars, worldVars>>

\* a RST, or the keepalive of a lost laptop expired: unread data is discarded
PeerReset(c) ==
  /\ peer' = [peer EXCEPT ![c] = "reset"]
  /\ inbox' = [inbox EXCEPT ![c] = <<>>]
  /\ UNCHANGED <<mainVars, portVars, worldVars>>

ClientReset(c) ==
  /\ peer[c] = "open"
  /\ \/ "reset" \in Endings /\ sock[c] = "open"
     \/ "early" \in Endings /\ sock[c] = "pending"
  /\ PeerReset(c)

\* the keepalive that AcceptTcpConnection() asks for finds the laptop gone
KeepAliveReset(c) == peer[c] = "fin" /\ sock[c] = "open" /\ PeerReset(c)

-----------------------------------------------------------------------------
(* The loop of main().                                                      *)

HasData(c) == sock[c] = "open" /\ (inbox[c] # <<>> \/ peer[c] = "fin")      \* mutant

Readable(c) == sock[c] = "open" /\ (inbox[c] # <<>> \/ peer[c] \in {"fin", "reset"})
Pending     == {c \in Conn : sock[c] = "pending"}

Select ==
  /\ mpc = "select"
  /\ Pending # {} \/ \E c \in Conn : Readable(c)
  /\ mpc' = IF Pending # {} THEN "accept" ELSE "scan"
  /\ readSet' = {c \in Conn : Readable(c)}
  /\ UNCHANGED <<mconn, mreq, peerVars, portVars, worldVars>>

FreeFd == {f \in Fd : \A c \in Conn : sock[c] = "open" => fdOf[c] # f}

Accept(c, f) ==
  /\ mpc = "accept" /\ sock[c] = "pending" /\ f \in FreeFd
  /\ sock' = [sock EXCEPT ![c] = "open"]
  /\ fdOf' = [fdOf EXCEPT ![c] = f]
  /\ mpc' = "scan"
  /\ UNCHANGED <<mconn, mreq, readSet, peerVars, worldVars>>

\* accept() has no descriptor to give, or the laptop is gone: main() returns
AcceptFails ==
  /\ mpc = "accept"
  /\ FreeFd = {} \/ \E c \in Pending : peer[c] = "reset"
  /\ mpc' = "exited"
  /\ UNCHANGED <<mconn, mreq, readSet, peerVars, portVars, worldVars>>

\* connected_ports is a hash set of pointers: its ports come in any order
PickReady(c) ==
  /\ mpc = "scan" /\ c \in readSet
  /\ readSet' = readSet \ {c}
  /\ mconn' = c
  /\ mpc' = "header"
  /\ UNCHANGED <<mreq, peerVars, portVars, worldVars>>

ScanDone ==
  /\ mpc = "scan" /\ readSet = {}
  /\ mpc' = "select"
  /\ UNCHANGED <<mconn, mreq, readSet, peerVars, portVars, worldVars>>

\* ReadDataTcp() returns once the part is there, or -1 after a reset.  After a
\* FIN recv() returns 0, which it takes for progress: the loop stays in the call.
ReadHeader ==
  /\ mpc = "header" /\ inbox[mconn] # <<>>
  /\ mreq' = Head(inbox[mconn]).req
  /\ inbox' = [inbox EXCEPT ![mconn] = Tail(@)]
  /\ mpc' = IF rkind[mreq'] = "oversize" THEN "exited" ELSE "body"
  /\ UNCHANGED <<mconn, readSet, peer, portVars, worldVars>>

DisconnectEveryone(f) == [g \in Fd |-> NoEntry]      \* mutant

disconnect(f) == [session EXCEPT ![f] = NoEntry]

HeaderError ==
  /\ mpc = "header" /\ peer[mconn] = "reset"
  /\ sock' = [sock EXCEPT ![mconn] = "closed"]
  /\ session' = disconnect(fdOf[mconn])
  /\ readSet' = {}
  /\ mpc' = "select"
  /\ UNCHANGED <<mconn, mreq, peerVars, fdOf, outVars, rst, reqVars,
                 granted, refused, statistics, threadNum, sendLock>>

BodyError ==
  /\ mpc = "body" /\ peer[mconn] = "reset"
  /\ mpc' = "scan"
  /\ UNCHANGED <<mconn, mreq, readSet, peerVars, portVars, worldVars>>

-----------------------------------------------------------------------------
(* RequestHandler::handle(), called with the message whose body arrived.    *)

Message(k) ==
  /\ mpc = "body" /\ inbox[mconn] # <<>>
  /\ rkind[mreq] = k
  /\ inbox' = [inbox EXCEPT ![mconn] = Tail(@)]
  /\ threadNum' = threadNum + 1
  /\ UNCHANGED <<mconn, mreq, readSet, peer, portVars, outVars, reqVars, granted, sendLock>>

LoggedIn(c) == session[fdOf[c]] # NoEntry

\* json::parse() or get<string>() throws and nothing catches it
HandleGarbled ==
  /\ Message("garbled")
  /\ mpc' = "crashed"
  /\ UNCHANGED <<rst, refused, session, statistics>>

HandleLogin ==
  /\ Message("login")
  /\ rst' = [rst EXCEPT ![mreq] = "auth"]
  /\ mpc' = "scan"
  /\ UNCHANGED <<refused, session, statistics>>

HandleQuery ==
  /\ Message("query") /\ LoggedIn(mconn)
  /\ statistics' = [statistics EXCEPT ![session[fdOf[mconn]]].total = @ + 1]
  /\ rst' = [rst EXCEPT ![mreq] = "lookup"]
  /\ mpc' = "scan"
  /\ UNCHANGED <<refused, session>>

\* the callback runs in main(), and thread_num_ is not given back
RefuseQuery ==
  /\ Message("query") /\ ~LoggedIn(mconn)
  /\ refused' = refused \cup {mreq}
  /\ rst' = [rst EXCEPT ![mreq] = "reply"]
  /\ mpc' = "refuse"
  /\ UNCHANGED <<session, statistics>>

RefusalSent ==
  /\ mpc = "refuse" /\ rst[mreq] = "answered"
  /\ mpc' = "scan"
  /\ UNCHANGED <<mconn, mreq, readSet, peerVars, portVars, worldVars>>

-----------------------------------------------------------------------------
(* The detached threads.                                                    *)

LoginOfLoopPort(r) == [session EXCEPT ![fdOf[mconn]] = racct[r]]      \* mutant

LoginSession(r) == [session EXCEPT ![fdOf[rconn[r]]] = racct[r]]

AuthenticateEarly(r) ==                                               \* mutant
  /\ Alive /\ rst[r] = "auth"
  /\ session' = LoginSession(r)
  /\ granted' \in {granted, granted \cup {r}}
  /\ rst' = [rst EXCEPT ![r] = "reply"]
  /\ UNCHANGED <<mainVars, peerVars, portVars, outVars, reqVars, refused,
                 statistics, threadNum, sendLock>>

Authenticate(r) ==
  /\ Alive /\ rst[r] = "auth"
  /\ \/ /\ session' = LoginSession(r)
        /\ granted' = granted \cup {r}
     \/ UNCHANGED <<session, granted>>
  /\ rst' = [rst EXCEPT ![r] = "reply"]
  /\ UNCHANGED <<mainVars, peerVars, portVars, outVars, reqVars, refused,
                 statistics, threadNum, sendLock>>

CountKnown(n, m) ==                                        \* mutant
  IF n = EmptyName THEN statistics ELSE [statistics EXCEPT ![n][m] = @ + 1]
CountOutstanding(n, m) ==                                  \* mutant
  [statistics EXCEPT ![n][m] = @ + 1, ![n].total = @ - 1]

Count(n, m) == [statistics EXCEPT ![n][m] = @ + 1]

\* SessionLoginAccounts[id] makes an empty name where the session is gone
Lookup(r, m) ==
  LET f == fdOf[rconn[r]]
      n == IF session[f] = NoEntry THEN EmptyName ELSE session[f]
  IN  /\ Alive /\ rst[r] = "lookup"
      /\ session' = [session EXCEPT ![f] = n]
      /\ statistics' = Count(n, m)
      /\ rst' = [rst EXCEPT ![r] = "reply"]
      /\ UNCHANGED <<mainVars, peerVars, portVars, outVars, reqVars, granted, refused,
                     threadNum, sendLock>>

\* getVehicleInformation() is -1: the thread ends without a reply
LookupFails(r) ==
  /\ Alive /\ rst[r] = "lookup"
  /\ rst' = [rst EXCEPT ![r] = "failed"]
  /\ UNCHANGED <<mainVars, peerVars, portVars, outVars, reqVars, dataVars, sendLock>>

-----------------------------------------------------------------------------
(* sendResponse(): under send_lock_, the header and then the body.          *)

AcquireNoLock(r) ==                                        \* mutant
  /\ Alive /\ rst[r] = "reply"
  /\ sendLock' = r
  /\ rst' = [rst EXCEPT ![r] = "header"]
  /\ UNCHANGED <<mainVars, peerVars, portVars, outVars, reqVars, dataVars>>

AcquireSendLock(r) ==
  /\ Alive /\ rst[r] = "reply" /\ sendLock = NoReq
  /\ sendLock' = r
  /\ rst' = [rst EXCEPT ![r] = "header"]
  /\ UNCHANGED <<mainVars, peerVars, portVars, outVars, reqVars, dataVars>>

ReachesLoopPort(r) == {c \in Conn : sock[c] = "open" /\ fdOf[c] = fdOf[mconn]}  \* mutant

\* the connections the descriptor kept in r's port stands for by now
Reaches(r) == {c \in Conn : sock[c] = "open" /\ fdOf[c] = fdOf[rconn[r]]}

SendRetrying(r, half) ==                                   \* mutant
  \E c \in Reaches(r) :
    /\ peer[c] = "open" /\ Len(out[c]) - taken[c] < SendCap
    /\ out' = [out EXCEPT ![c] = Append(@, [half |-> half, req |-> r])]

\* WriteDataTcp(): blocks while the send buffer is full, and its result is
\* ignored: what is sent to a closed socket or a lost laptop is lost
Send(r, half) ==
  \/ \E c \in Reaches(r) :
       /\ peer[c] = "open" /\ Len(out[c]) - taken[c] < SendCap
       /\ out' = [out EXCEPT ![c] = Append(@, [half |-> half, req |-> r])]
  \/ /\ \A c \in Reaches(r) : peer[c] # "open"
     /\ out' = out

WriteHeader(r) ==
  /\ Alive /\ rst[r] = "header"
  /\ Send(r, "header")
  /\ rst' = [rst EXCEPT ![r] = "body"]
  /\ UNCHANGED <<mainVars, peerVars, portVars, taken, reqVars, dataVars, sendLock>>

UncountAlways(r) == threadNum - 1                          \* mutant

\* a refusal was written by main(): handle() returned without the decrement
Uncount(r) == IF r \in refused THEN threadNum ELSE threadNum - 1

WriteBody(r) ==
  /\ Alive /\ rst[r] = "body"
  /\ Send(r, "body")
  /\ rst' = [rst EXCEPT ![r] = "answered"]
  /\ sendLock' = NoReq
  /\ threadNum' = Uncount(r)
  /\ UNCHANGED <<mainVars, peerVars, portVars, taken, reqVars, granted, refused,
                 session, statistics>>

-----------------------------------------------------------------------------
ClientNext ==
  \/ \E c \in Conn : ClientConnect(c) \/ ClientRecv(c) \/ ClientClose(c)
                     \/ ClientReset(c) \/ KeepAliveReset(c)
  \/ \E c \in Conn, r \in Req, k \in AllKinds, a \in Account \cup {NoEntry} :
       ClientSendHeader(c, r, k, a)
  \/ \E r \in Req : ClientSendBody(r)

MainNext ==
  \/ Select \/ AcceptFails \/ ScanDone
  \/ \E c \in Conn : PickReady(c) \/ \E f \in Fd : Accept(c, f)
  \/ ReadHeader \/ HeaderError \/ BodyError
  \/ HandleGarbled \/ HandleLogin \/ HandleQuery \/ RefuseQuery \/ RefusalSent

Worker(r) ==
  \/ Authenticate(r) \/ LookupFails(r)
  \/ \E m \in Matches : Lookup(r, m)
  \/ AcquireSendLock(r) \/ WriteHeader(r) \/ WriteBody(r)

Next == ClientNext \/ MainNext \/ \E r \in Req : Worker(r)

Spec == Init /\ [][Next]_vars

\* Every thread runs; a laptop that began a frame sends the rest or is lost,
\* and reads what it is sent; keepalive probes find a closed laptop.
FairSpec ==
  /\ Spec
  /\ WF_vars(MainNext)
  /\ \A r \in Req : WF_vars(Worker(r)) /\ WF_vars(ClientSendBody(r))
  /\ \A c \in Conn : WF_vars(ClientRecv(c)) /\ WF_vars(KeepAliveReset(c))

-----------------------------------------------------------------------------
(* Safety.                                                                  *)

(***************************************************************************)
(* A response part is written to the connection its request came from; it  *)
(* may reach another one only through the descriptor number, after the     *)
(* request's own connection was closed and the number given again          *)
(* (sendResponse() keeps the port, and so the number, of a closed socket). *)
(***************************************************************************)
ReplyRouting ==
  \A c \in Conn : \A i \in 1..Len(out[c]) :
    LET d == rconn[out[c][i].req]
    IN  d \in Conn /\ fdOf[d] = fdOf[c] /\ (d # c => sock[d] = "closed")

(***************************************************************************)
(* The threads and main() share the sockets, yet a laptop never reads the  *)
(* length of one response followed by the text of another: each length is  *)
(* followed by its own text, which at most is still to be written by the   *)
(* holder of send_lock_, or lost with the connection; and a text comes     *)
(* after its own length, unless the connection changed in between.         *)
(***************************************************************************)
HeaderThenBody(c, i) ==
  out[c][i].half = "header" =>
    IF i < Len(out[c]) THEN out[c][i + 1] = [half |-> "body", req |-> out[c][i].req]
    ELSE \/ sendLock = out[c][i].req /\ rst[sendLock] = "body"
         \/ peer[c] # "open"

BodyAfterHeader(c, i) ==
  out[c][i].half = "body" =>
    \/ i > 1 /\ out[c][i - 1] = [half |-> "header", req |-> out[c][i].req]
    \/ sock[rconn[out[c][i].req]] = "closed"

FrameIntegrity ==
  \A c \in Conn : \A i \in 1..Len(out[c]) : HeaderThenBody(c, i) /\ BodyAfterHeader(c, i)

(***************************************************************************)
(* A login that was answered 200 holds for as long as its connection does: *)
(* no other connection's end, login or late thread takes the session away. *)
(***************************************************************************)
LoginPromise ==
  \A r \in granted : sock[rconn[r]] = "open" => session[fdOf[rconn[r]]] # NoEntry

(***************************************************************************)
(* Nobody is counted as logged in on a descriptor without a granted login  *)
(* on it, and never under a name other than one granted there, or the      *)
(* empty name operator[] leaves behind.                                    *)
(***************************************************************************)
GrantedOn(f) == {r \in granted : fdOf[rconn[r]] = f}

SessionProvenance ==
  \A f \in Fd : session[f] # NoEntry =>
    \E r \in GrantedOn(f) : session[f] \in {racct[r], EmptyName}

(***************************************************************************)
(* thread_num_ counts the requests being served, and for ever the queries  *)
(* that were refused and the lookups the database failed (each returns     *)
(* before the decrement), and nothing else.                                *)
(***************************************************************************)
InService == {r \in Req : rst[r] \in {"auth", "lookup", "reply", "header", "body"}}
Uncounted == refused \cup {r \in Req : rst[r] = "failed"}
Garbled   == IF mpc = "crashed" THEN {mreq} ELSE {}

ThreadAccounting == threadNum = Cardinality(InService \cup Uncounted \cup Garbled)

(***************************************************************************)
(* Every query counted in some total_queries is later counted as one match *)
(* outcome, in whatever entry, unless it is still looked up or the database*)
(* failed: the totals printInformation() and fileWriteInformation() add up *)
(* agree although an entry may change between the two counts.              *)
(***************************************************************************)
Counted(field) == SumFunction([n \in Names |-> statistics[n][field]])

StatisticsConserved ==
  Counted("total") = Counted("exact") + Counted("partial") + Counted("none")
                     + Cardinality({r \in Req : rst[r] \in {"lookup", "failed"}})

(***************************************************************************)
(* While the server is in the middle of one laptop's message, no other     *)
(* laptop's complete message waits for a laptop that already closed its    *)
(* connection.                                                             *)
(***************************************************************************)
StuckOn(c) == mpc \in {"header", "body"} /\ mconn = c /\ peer[c] = "fin" /\ inbox[c] = <<>>

NeverWaitsForAClosedLaptop ==
  \A c \in Conn : StuckOn(c) =>
    ~ \E r \in Req : rst[r] = "sent" /\ sock[rconn[r]] = "open" /\ peer[rconn[r]] = "open"

(***************************************************************************)
(* thread_num_ is the number of threads serving requests.                  *)
(***************************************************************************)
ThreadNumIsThreadCount == Alive => threadNum = Cardinality(InService \ refused)

-----------------------------------------------------------------------------
(* Liveness, under FairSpec.                                                *)

(***************************************************************************)
(* A request that was sent whole is answered or failed by the database,    *)
(* whatever the other laptops do, unless its own connection ends before it *)
(* is read or the process does.                                            *)
(***************************************************************************)
RequestServed ==
  \A r \in Req :
    rst[r] = "sent" ~> \/ rst[r] \in {"answered", "failed"}
                       \/ rst[r] = "sent" /\ peer[rconn[r]] # "open"
                       \/ ~Alive

(***************************************************************************)
(* A connection whose laptop is gone is closed and forgotten: its          *)
(* descriptor and its session do not stay for ever.                        *)
(***************************************************************************)
DeadPortClosed ==
  \A c \in Conn : (sock[c] = "open" /\ peer[c] = "reset") ~> (sock[c] = "closed" \/ ~Alive)


-----------------------------------------------------------------------------
(***************************************************************************)
(* The server implements LookupService: threads, descriptors, sessions in  *)
(* a map and messages in parts come to no more than requests answered once *)
(* and decided by the logins of their connection or place.                 *)
(***************************************************************************)
Stage(r) ==
  [unsent |-> "idle", sending |-> "idle", sent |-> "asked", auth |-> "checking",
   lookup |-> "looking", reply |-> "replying", header |-> "replying", body |-> "replying",
   answered |-> "replied", failed |-> "failed"][rst[r]]

Service == INSTANCE LookupService WITH
  Place   <- Fd,
  NoPlace <- NoFd,
  up      <- Alive,
  place   <- fdOf,
  conn    <- [r \in Req |-> IF rst[r] \in {"unsent", "sending"} THEN NoConn ELSE rconn[r]],
  stage   <- [r \in Req |-> Stage(r)],
  verdict <- [r \in Req |-> IF r \in granted THEN "granted"
                            ELSE IF r \in refused THEN "refused" ELSE "none"]

ImplementsService == Service!Spec

==============================================================================
