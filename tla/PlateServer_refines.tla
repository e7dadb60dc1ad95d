-------------------------- MODULE PlateServer_refines --------------------------
(***************************************************************************)
(* Proof that PlateServer implements LookupService, for every set of       *)
(* connections, descriptors, requests and accounts.  PlateServer_proofs    *)
(* deals with the sessions, PlateServer_frames with the messages; here each*)
(* step of the server is shown to be a step of the service, or none.       *)
(***************************************************************************)
EXTENDS PlateServer_frames

-----------------------------------------------------------------------------
(* The refinement mapping, by name.                                         *)

Stages   == [r \in Req |-> Stage(r)]
Conns    == [r \in Req |-> IF rst[r] \in {"unsent", "sending"} THEN NoConn ELSE rconn[r]]
Verdicts == [r \in Req |-> IF r \in granted THEN "granted"
                           ELSE IF r \in refused THEN "refused" ELSE "none"]

LEMMA StageValues ==
  ASSUME NEW r
  PROVE  /\ rst[r] = "unsent" => Stage(r) = "idle"
         /\ rst[r] = "sending" => Stage(r) = "idle"
         /\ rst[r] = "sent" => Stage(r) = "asked"
         /\ rst[r] = "auth" => Stage(r) = "checking"
         /\ rst[r] = "lookup" => Stage(r) = "looking"
         /\ rst[r] = "reply" => Stage(r) = "replying"
         /\ rst[r] = "header" => Stage(r) = "replying"
         /\ rst[r] = "body" => Stage(r) = "replying"
         /\ rst[r] = "answered" => Stage(r) = "replied"
         /\ rst[r] = "failed" => Stage(r) = "failed"
  BY DEF Stage

LEMMA NextStageValues ==
  ASSUME NEW r
  PROVE  /\ rst'[r] = "unsent" => Stage(r)' = "idle"
         /\ rst'[r] = "sending" => Stage(r)' = "idle"
         /\ rst'[r] = "sent" => Stage(r)' = "asked"
         /\ rst'[r] = "auth" => Stage(r)' = "checking"
         /\ rst'[r] = "lookup" => Stage(r)' = "looking"
         /\ rst'[r] = "reply" => Stage(r)' = "replying"
         /\ rst'[r] = "header" => Stage(r)' = "replying"
         /\ rst'[r] = "body" => Stage(r)' = "replying"
         /\ rst'[r] = "answered" => Stage(r)' = "replied"
         /\ rst'[r] = "failed" => Stage(r)' = "failed"
  BY DEF Stage

\* one request moves on, and what it moves to
LEMMA OneMoves ==
  ASSUME rst \in [Req -> StepSet], NEW r \in Req, NEW x, rst' = [rst EXCEPT ![r] = x]
  PROVE  /\ Stages[r] = Stage(r)
         /\ Stages' = [Stages EXCEPT ![r] = Stage(r)']
<1>1. \A q \in Req : q # r => rst'[q] = rst[q]
  OBVIOUS
<1>2. \A q \in Req : q # r => Stage(q)' = Stage(q)
  BY <1>1 DEF Stage
<1>3. Stages' = [q \in Req |-> Stage(q)']
  BY DEF Stages
<1> QED BY <1>2, <1>3 DEF Stages

LEMMA ConnsKept ==
  ASSUME rconn' = rconn,
         \A r \in Req : rst'[r] \in {"unsent", "sending"} <=> rst[r] \in {"unsent", "sending"}
  PROVE  Conns' = Conns
  BY DEF Conns

\* a step of the server that the service does not see
LEMMA Unseen ==
  ASSUME Alive' = Alive, fdOf' = fdOf, granted' = granted, refused' = refused,
         Stages' = Stages, Conns' = Conns
  PROVE  UNCHANGED Service!vars
<1>1. Verdicts' = Verdicts
  BY DEF Verdicts
<1> QED BY <1>1 DEF Service!vars, Stages, Conns, Verdicts

\* a step that moves one request, as the service sees it
LEMMA ServiceMoves ==
  ASSUME IndInv, NEW r \in Req, NEW x, rst' = [rst EXCEPT ![r] = x],
         NEW from, NEW to, Alive, Alive', fdOf' = fdOf, Stage(r) = from, Stage(r)' = to
  PROVE  Service!Moves(r, from, to)
<1>1. rst \in [Req -> StepSet]
  BY DEF IndInv, TypeOK, StepSet
<1>2. Stages[r] = from /\ Stages' = [Stages EXCEPT ![r] = to]
  BY <1>1, OneMoves
<1> QED BY <1>2 DEF Service!Moves, Stages, Alive


LEMMA AcceptAdmits ==
  ASSUME IndInv, SentInv, NEW c \in Conn, NEW f \in Fd, Accept(c, f)
  PROVE  Service!Admit(c, f)
<1> USE DEF peerVars, worldVars, outVars, reqVars, dataVars
<1>1. /\ Alive /\ Alive' /\ fdOf[c] = NoFd /\ fdOf' = [fdOf EXCEPT ![c] = f]
      /\ rst' = rst /\ rconn' = rconn /\ granted' = granted /\ refused' = refused
  BY DEF Accept, Alive, SentInv
<1>2. Stages' = Stages /\ Conns' = Conns /\ Verdicts' = Verdicts
  BY <1>1 DEF Stages, Stage, Conns, Verdicts
<1>3. Alive' = Alive
  BY <1>1 DEF Alive
<1> QED BY <1>1, <1>2, <1>3 DEF Service!Admit, Stages, Conns, Verdicts

LEMMA SendBodyAsks ==
  ASSUME IndInv, SentInv, NEW r \in Req, NEW c \in Conn, c = rconn[r], ClientSendBody(r)
  PROVE  Service!Ask(r, c)
<1> USE DEF mainVars, portVars, outVars, reqVars, dataVars
<1>1. /\ Alive /\ Alive' /\ fdOf' = fdOf /\ rst[r] = "sending" /\ rconn' = rconn
      /\ rst' = [rst EXCEPT ![r] = "sent"] /\ granted' = granted /\ refused' = refused
  BY DEF ClientSendBody, Alive
<1>2. rst \in [Req -> StepSet]
  BY DEF IndInv, TypeOK, StepSet
<1>3. rst'[r] = "sent" /\ \A q \in Req : q # r => rst'[q] = rst[q]
  BY <1>1, <1>2
<1>4. Service!Moves(r, "idle", "asked")
  BY <1>1, <1>3, StageValues, NextStageValues, ServiceMoves
<1>5. Conns' = [Conns EXCEPT ![r] = c]
  BY <1>1, <1>3 DEF Conns
<1>6. Verdicts' = Verdicts
  BY <1>1 DEF Verdicts
<1> QED BY <1>4, <1>5, <1>6 DEF Service!Ask, Conns, Verdicts

LEMMA LoginIsChecked ==
  ASSUME IndInv, FrameInv, HandleLogin, NEW r \in Req, r = mreq PROVE Service!CheckLogin(r)
<1> USE DEF portVars, outVars, reqVars
<1>1. /\ Alive /\ Alive' /\ fdOf' = fdOf /\ rconn' = rconn
      /\ rst' = [rst EXCEPT ![mreq] = "auth"] /\ granted' = granted /\ refused' = refused
  BY DEF HandleLogin, Message, Alive
<1>2. mreq \in Req /\ rst[mreq] = "sent" /\ rst \in [Req -> StepSet]
  BY MessageWhole DEF HandleLogin, IndInv, TypeOK, StepSet
<1>3. r = mreq
  OBVIOUS
<1>4. rst[r] = "sent" /\ rst'[r] = "auth" /\ \A q \in Req : q # r => rst'[q] = rst[q]
  BY <1>1, <1>2, <1>3
<1>5. Service!Moves(r, "asked", "checking")
  BY <1>1, <1>3, <1>4, StageValues, NextStageValues, ServiceMoves
<1>6. Conns' = Conns
  BY <1>1, <1>4, ConnsKept
<1>7. Verdicts' = Verdicts
  BY <1>1 DEF Verdicts
<1> QED BY <1>3, <1>5, <1>6, <1>7 DEF Service!CheckLogin, Conns, Verdicts


\* a session means a granted login in the same place
LEMMA QueryIsLookedUp ==
  ASSUME IndInv, FrameInv, SessionInv, HandleQuery, NEW r \in Req, r = mreq
  PROVE  Service!BeginLookup(r)
<1> USE DEF portVars, outVars, reqVars
<1>1. /\ Alive /\ Alive' /\ fdOf' = fdOf /\ rconn' = rconn
      /\ rst' = [rst EXCEPT ![mreq] = "lookup"] /\ granted' = granted /\ refused' = refused
  BY DEF HandleQuery, Message, Alive
<1>2. /\ mreq \in Req /\ rst[mreq] = "sent" /\ rst \in [Req -> StepSet]
      /\ rconn[mreq] = mconn /\ mconn \in Conn /\ sock[mconn] = "open"
  BY MessageWhole DEF HandleQuery, IndInv, TypeOK, StepSet
<1>3. r = mreq
  OBVIOUS
<1>4. rst[r] = "sent" /\ rst'[r] = "lookup" /\ \A q \in Req : q # r => rst'[q] = rst[q]
  BY <1>1, <1>2, <1>3
<1>5. Service!Moves(r, "asked", "looking")
  BY <1>1, <1>3, <1>4, StageValues, NextStageValues, ServiceMoves
<1>6. Conns' = Conns /\ Verdicts' = Verdicts
  BY <1>1, <1>4, ConnsKept DEF Verdicts
<1>7. PICK g \in granted : fdOf[rconn[g]] = fdOf[mconn]
  <2>1. fdOf[mconn] \in Fd
    BY <1>2 DEF IndInv, PortInv, Accepted
  <2>2. session[fdOf[mconn]] # NoEntry
    BY DEF HandleQuery, LoggedIn
  <2> QED BY <2>1, <2>2 DEF SessionInv, SessionProvenance, GrantedOn
<1>8. g \in Req /\ rst[g] \in Handled
  BY <1>7 DEF IndInv, TypeOK, RequestInv
<1>9. Conns[g] = rconn[g] /\ Conns[r] = mconn /\ Verdicts[g] = "granted"
  BY <1>2, <1>3, <1>4, <1>7, <1>8 DEF Conns, Verdicts, Handled
<1>10. g \in {q \in Req : Verdicts[q] = "granted"} /\ fdOf[Conns[g]] = fdOf[Conns[r]]
  BY <1>7, <1>8, <1>9
<1>11. \E h \in Service!Granted : fdOf[Conns[h]] = fdOf[Conns[r]]
  BY <1>10 DEF Service!Granted, Verdicts
<1> QED BY <1>3, <1>5, <1>6, <1>11 DEF Service!BeginLookup, Conns, Verdicts

\* no session means no granted login on the connection, which is open
LEMMA QueryIsRefused ==
  ASSUME IndInv, FrameInv, SessionInv, RefuseQuery, NEW r \in Req, r = mreq
  PROVE  Service!Refuse(r)
<1> USE DEF portVars, outVars, reqVars
<1>1. /\ Alive /\ Alive' /\ fdOf' = fdOf /\ rconn' = rconn
      /\ rst' = [rst EXCEPT ![mreq] = "reply"] /\ granted' = granted
      /\ refused' = refused \cup {mreq} /\ session[fdOf[mconn]] = NoEntry
  BY DEF RefuseQuery, Message, Alive, LoggedIn
<1>2. /\ mreq \in Req /\ rst[mreq] = "sent" /\ rst \in [Req -> StepSet]
      /\ rconn[mreq] = mconn /\ mconn \in Conn /\ sock[mconn] = "open"
  BY MessageWhole DEF RefuseQuery, IndInv, TypeOK, StepSet
<1>3. r = mreq
  OBVIOUS
<1>4. rst[r] = "sent" /\ rst'[r] = "reply" /\ \A q \in Req : q # r => rst'[q] = rst[q]
  BY <1>1, <1>2, <1>3
<1>5. Service!Moves(r, "asked", "replying")
  BY <1>1, <1>3, <1>4, StageValues, NextStageValues, ServiceMoves
<1>6. Conns' = Conns
  BY <1>1, <1>4, ConnsKept
<1>7. r \notin granted
  BY <1>4 DEF IndInv, RequestInv, Handled
<1>8. Verdicts' = [Verdicts EXCEPT ![r] = "refused"]
  BY <1>1, <1>3, <1>7 DEF Verdicts
<1>9. ASSUME NEW g \in Req, Verdicts[g] = "granted" PROVE Conns[g] # Conns[r]
  <2>1. g \in granted
    BY <1>9 DEF Verdicts
  <2>2. rst[g] \in Handled
    BY <2>1 DEF IndInv, RequestInv
  <2>3. Conns[g] = rconn[g] /\ Conns[r] = mconn
    BY <1>2, <1>3, <1>4, <2>2 DEF Conns, Handled
  <2>4. rconn[g] # mconn
    BY <1>1, <1>2, <2>1 DEF SessionInv, LoginPromise
  <2> QED BY <2>3, <2>4
<1>10. \A g \in Service!Granted : Conns[g] # Conns[r]
  BY <1>9 DEF Service!Granted, Verdicts
<1> QED BY <1>3, <1>5, <1>6, <1>8, <1>10 DEF Service!Refuse, Conns, Verdicts


LEMMA WorkersServe ==
  ASSUME IndInv, NEW r \in Req, Worker(r)
  PROVE  \/ Service!Grant(r) \/ Service!Deny(r) \/ Service!Find(r) \/ Service!Fail(r)
         \/ Service!Reply(r) \/ UNCHANGED Service!vars
<1> USE DEF mainVars, peerVars, portVars, outVars, reqVars, dataVars
<1>1. Alive /\ Alive' /\ Alive' = Alive /\ fdOf' = fdOf /\ rconn' = rconn /\ refused' = refused
  BY DEF Worker, Authenticate, LookupFails, Lookup, AcquireSendLock, WriteHeader, WriteBody,
         Alive
<1>2. rst \in [Req -> StepSet]
  BY DEF IndInv, TypeOK, StepSet
<1>3. ASSUME NEW x \in Handled, rst' = [rst EXCEPT ![r] = x], rst[r] \in Handled
      PROVE  /\ rst'[r] = x /\ Conns' = Conns
             /\ \A q \in Req : q # r => rst'[q] = rst[q]
  BY <1>1, <1>2, <1>3, ConnsKept DEF Handled
<1>4. granted' = granted => Verdicts' = Verdicts
  BY <1>1 DEF Verdicts
<1>5. CASE Authenticate(r)
  <2>1. rst[r] = "auth" /\ rst' = [rst EXCEPT ![r] = "reply"]
    BY <1>5 DEF Authenticate
  <2>2. rst'[r] = "reply" /\ Conns' = Conns
    BY <1>3, <2>1 DEF Handled
  <2>3. Service!Moves(r, "checking", "replying")
    BY <1>1, <2>1, <2>2, StageValues, NextStageValues, ServiceMoves
  <2>4. CASE granted' = granted \cup {r}
    <3>1. Verdicts' = [Verdicts EXCEPT ![r] = "granted"]
      BY <1>1, <2>4 DEF Verdicts
    <3> QED BY <2>2, <2>3, <3>1 DEF Service!Grant, Conns, Verdicts
  <2>5. CASE granted' = granted
    BY <1>4, <2>2, <2>3, <2>5 DEF Service!Deny, Conns, Verdicts
  <2> QED BY <1>5, <2>4, <2>5 DEF Authenticate
<1>6. ASSUME NEW m \in Matches, Lookup(r, m) PROVE Service!Find(r)
  <2>1. rst[r] = "lookup" /\ rst' = [rst EXCEPT ![r] = "reply"] /\ granted' = granted
    BY <1>6 DEF Lookup
  <2>2. rst'[r] = "reply" /\ Conns' = Conns
    BY <1>3, <2>1 DEF Handled
  <2>3. Service!Moves(r, "looking", "replying")
    BY <1>1, <2>1, <2>2, StageValues, NextStageValues, ServiceMoves
  <2> QED BY <1>4, <2>1, <2>2, <2>3 DEF Service!Find, Conns, Verdicts
<1>7. CASE LookupFails(r)
  <2>1. rst[r] = "lookup" /\ rst' = [rst EXCEPT ![r] = "failed"] /\ granted' = granted
    BY <1>7 DEF LookupFails
  <2>2. rst'[r] = "failed" /\ Conns' = Conns
    BY <1>3, <2>1 DEF Handled
  <2>3. Service!Moves(r, "looking", "failed")
    BY <1>1, <2>1, <2>2, StageValues, NextStageValues, ServiceMoves
  <2> QED BY <1>4, <2>1, <2>2, <2>3 DEF Service!Fail, Conns, Verdicts
<1>8. CASE WriteBody(r)
  <2>1. rst[r] = "body" /\ rst' = [rst EXCEPT ![r] = "answered"] /\ granted' = granted
    BY <1>8 DEF WriteBody
  <2>2. rst'[r] = "answered" /\ Conns' = Conns
    BY <1>3, <2>1 DEF Handled
  <2>3. Service!Moves(r, "replying", "replied")
    BY <1>1, <2>1, <2>2, StageValues, NextStageValues, ServiceMoves
  <2> QED BY <1>4, <2>1, <2>2, <2>3 DEF Service!Reply, Conns, Verdicts
<1>9. CASE AcquireSendLock(r) \/ WriteHeader(r)
  <2>1. PICK x \in {"header", "body"} : rst' = [rst EXCEPT ![r] = x]
    BY <1>9 DEF AcquireSendLock, WriteHeader
  <2>2. rst[r] \in {"reply", "header"} /\ granted' = granted
    BY <1>9 DEF AcquireSendLock, WriteHeader
  <2>3. rst'[r] = x /\ Conns' = Conns
    BY <1>3, <2>1, <2>2 DEF Handled
  <2>4. Stage(r) = "replying" /\ Stage(r)' = "replying"
    BY <2>1, <2>2, <2>3, StageValues, NextStageValues
  <2>5. Stages' = Stages
    BY <1>2, <2>1, <2>4, OneMoves DEF Stages
  <2> QED BY <1>1, <2>2, <2>3, <2>5, Unseen
<1> QED BY <1>5, <1>6, <1>7, <1>8, <1>9 DEF Worker

LEMMA StepsImplement ==
  ASSUME IndInv, SentInv, FrameInv, SessionInv, [Next]_vars
  PROVE  [Service!Next]_Service!vars
<1> USE DEF vars, mainVars, peerVars, portVars, worldVars, outVars, reqVars, dataVars
<1>0. rst \in [Req -> StepSet]
  BY DEF IndInv, TypeOK, StepSet
<1>1. ASSUME NEW c \in Conn, NEW f \in Fd, Accept(c, f) PROVE Service!Next
  BY <1>1, AcceptAdmits DEF Service!Next
<1>2. ASSUME NEW r \in Req, ClientSendBody(r) PROVE Service!Next
  <2>1. PICK c \in Conn : c = rconn[r]
    BY <1>2 DEF ClientSendBody, SentInv
  <2>2. Service!Ask(r, c)
    BY <1>2, <2>1, SendBodyAsks
  <2> QED BY <2>2 DEF Service!Next
<1>3. CASE HandleLogin \/ HandleQuery \/ RefuseQuery
  <2>1. PICK r \in Req : r = mreq
    BY <1>3, MessageWhole DEF HandleLogin, HandleQuery, RefuseQuery
  <2>2. Service!CheckLogin(r) \/ Service!BeginLookup(r) \/ Service!Refuse(r)
    BY <1>3, <2>1, LoginIsChecked, QueryIsLookedUp, QueryIsRefused
  <2> QED BY <2>2 DEF Service!Next
<1>4. ASSUME NEW r \in Req, Worker(r) PROVE [Service!Next]_Service!vars
  <2>1. CASE UNCHANGED Service!vars
    BY <2>1
  <2>2. CASE \/ Service!Grant(r) \/ Service!Deny(r) \/ Service!Find(r) \/ Service!Fail(r)
             \/ Service!Reply(r)
    BY <2>2 DEF Service!Next
  <2> QED BY <1>4, <2>1, <2>2, WorkersServe
<1>5. ASSUME Alive, ~ Alive', UNCHANGED <<fdOf, rst, rconn, granted, refused>>
      PROVE  Service!Next
  <2>1. Stages' = Stages /\ Conns' = Conns /\ Verdicts' = Verdicts
    BY <1>5 DEF Stages, Stage, Conns, Verdicts
  <2>2. Alive' = FALSE
    BY <1>5 DEF Alive
  <2>3. Service!Stop
    BY <1>5, <2>1, <2>2 DEF Service!Stop, Stages, Conns, Verdicts
  <2> QED BY <2>3 DEF Service!Next
<1>6. ASSUME Alive' = Alive, UNCHANGED <<fdOf, rst, rconn, granted, refused>>
      PROVE  UNCHANGED Service!vars
  <2>1. Stages' = Stages /\ Conns' = Conns
    BY <1>6 DEF Stages, Stage, Conns
  <2> QED BY <1>6, <2>1, Unseen
<1>7. ASSUME NEW c \in Conn, NEW r \in Req, NEW k \in AllKinds, NEW a \in Account \cup {NoEntry},
             ClientSendHeader(c, r, k, a)
      PROVE  UNCHANGED Service!vars
  <2>1. /\ rst[r] = "unsent" /\ rst' = [rst EXCEPT ![r] = "sending"]
        /\ rconn' = [rconn EXCEPT ![r] = c] /\ fdOf' = fdOf /\ Alive' = Alive
        /\ granted' = granted /\ refused' = refused
    BY <1>7 DEF ClientSendHeader, Alive
  <2>2. rst'[r] = "sending" /\ \A q \in Req : q # r => rst'[q] = rst[q]
    BY <1>0, <2>1
  <2>3. \A q \in Req : q # r => rconn'[q] = rconn[q]
    BY <2>1 DEF IndInv, TypeOK
  <2>4. Stage(r) = "idle" /\ Stage(r)' = "idle"
    BY <2>1, <2>2, StageValues, NextStageValues
  <2>5. Stages' = Stages
    BY <1>0, <2>1, <2>4, OneMoves DEF Stages
  <2>6. Conns' = Conns
    BY <2>1, <2>2, <2>3 DEF Conns
  <2> QED BY <2>1, <2>5, <2>6, Unseen
<1>8. CASE AcceptFails \/ HandleGarbled \/ (ReadHeader /\ ~ Alive')
  BY <1>5, <1>8 DEF AcceptFails, HandleGarbled, ReadHeader, Message, Alive
<1>9. CASE ReadHeader /\ Alive'
  BY <1>6, <1>9 DEF ReadHeader, Alive
<1>10. ASSUME NEW c \in Conn,
              ClientConnect(c) \/ ClientRecv(c) \/ ClientClose(c) \/ PeerReset(c)
       PROVE  UNCHANGED Service!vars
  BY <1>6, <1>10 DEF ClientConnect, ClientRecv, ClientClose, PeerReset, Alive
<1>11. ASSUME NEW c \in Conn, PickReady(c) PROVE UNCHANGED Service!vars
  BY <1>6, <1>11 DEF PickReady, Alive
<1>12. CASE Select \/ ScanDone \/ HeaderError \/ BodyError \/ RefusalSent
  BY <1>6, <1>12 DEF Select, ScanDone, HeaderError, BodyError, RefusalSent, Alive
<1>13. CASE UNCHANGED vars
  BY <1>6, <1>13 DEF Alive
<1> QED BY <1>1, <1>2, <1>3, <1>4, <1>7, <1>8, <1>9, <1>10, <1>11, <1>12, <1>13
        DEF Next, ClientNext, MainNext, ClientReset, KeepAliveReset

LEMMA InitImplements == Init => Service!Init
<1> SUFFICES ASSUME Init PROVE Service!Init
  OBVIOUS
<1>1. /\ mpc = "select" /\ fdOf = [c \in Conn |-> NoFd] /\ granted = {} /\ refused = {}
      /\ \A r \in Req : rst[r] = "unsent"
  BY DEF Init
<1>2. Alive = TRUE
  BY <1>1 DEF Alive
<1>3. Stages = [r \in Req |-> "idle"]
  BY <1>1, StageValues DEF Stages
<1>4. Conns = [r \in Req |-> NoConn] /\ Verdicts = [r \in Req |-> "none"]
  BY <1>1 DEF Conns, Verdicts
<1> QED BY <1>1, <1>2, <1>3, <1>4 DEF Service!Init, Stages, Conns, Verdicts

(***************************************************************************)
(* The server implements the contract the laptops rely on: every step of   *)
(* main(), of a thread or of a connection is a step of the service or none.*)
(***************************************************************************)
THEOREM ServerImplementsService == Spec => ImplementsService
<1>1. IndInv /\ SentInv /\ FrameInv /\ SessionInv /\ [Next]_vars => [Service!Next]_Service!vars
  BY StepsImplement
<1>2. IndInv /\ RoutingInv /\ SessionInv => SessionInv
  OBVIOUS
<1> QED BY <1>1, <1>2, InitImplements, FramesInvariant, SessionInvariant, PTL
        DEF Spec, ImplementsService, Service!Spec


================================================================================
