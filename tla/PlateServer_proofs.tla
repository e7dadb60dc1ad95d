------------------------- MODULE PlateServer_proofs -------------------------
(***************************************************************************)
(* Proofs about PlateServer, for every set of connections, descriptors,    *)
(* requests and accounts.                                                  *)
(*                                                                         *)
(* IndInv, the inductive invariant of the first theorems, adds to the      *)
(* types what the code relies on without saying so: a port that main()     *)
(* reads is open, a request in service belongs to a connection that was    *)
(* accepted, and every part in transit is that of a request sent on the    *)
(* connection it travels on.                                               *)
(***************************************************************************)
EXTENDS PlateServer, TLAPS

Accepted(c) == sock[c] \in {"open", "closed"}
Handled == {"auth", "lookup", "reply", "header", "body", "answered", "failed"}

PortInv ==
  /\ \A c \in Conn : Accepted(c) => fdOf[c] \in Fd
  /\ \A c \in readSet : sock[c] = "open"
  /\ mpc \in {"header", "body"} => mconn \in Conn /\ sock[mconn] = "open"

InboxInv ==
  \A c \in Conn : \A i \in 1..Len(inbox[c]) :
    rst[inbox[c][i].req] # "unsent" /\ rconn[inbox[c][i].req] = c

MainInv ==
  /\ mpc = "body" => mreq \in Req /\ rst[mreq] # "unsent" /\ rconn[mreq] = mconn
  /\ mpc = "refuse" => mreq \in Req

RequestInv ==
  /\ \A r \in Req : rst[r] \in Handled => rconn[r] \in Conn /\ Accepted(rconn[r])
  /\ \A r \in granted \cup refused : rst[r] \in Handled

IndInv == TypeOK /\ PortInv /\ InboxInv /\ MainInv /\ RequestInv

(***************************************************************************)
(* What Append and Tail do to the elements of a sequence.                  *)
(***************************************************************************)
LEMMA AppendElements ==
  ASSUME NEW S, NEW s \in Seq(S), NEW x \in S
  PROVE  /\ Append(s, x) \in Seq(S)
         /\ Len(Append(s, x)) = Len(s) + 1
         /\ \A i \in 1..Len(s) : Append(s, x)[i] = s[i]
         /\ Append(s, x)[Len(s) + 1] = x
  OBVIOUS

LEMMA TailElements ==
  ASSUME NEW S, NEW s \in Seq(S), s # <<>>
  PROVE  /\ Tail(s) \in Seq(S)
         /\ Len(s) \in Nat /\ Len(s) > 0 /\ Len(Tail(s)) = Len(s) - 1
         /\ \A i \in 1..Len(Tail(s)) : Tail(s)[i] = s[i + 1]
         /\ Head(s) \in S /\ Head(s) = s[1]
  OBVIOUS

LEMMA InitIndInv == Init => IndInv
  BY SentinelAssumption
     DEF Init, IndInv, TypeOK, PortInv, InboxInv, MainInv, RequestInv, Accepted, Handled,
         Names, Counters, Part, AllKinds

(***************************************************************************)
(* A counter of statistics_ that is incremented is still a counter.        *)
(***************************************************************************)
LEMMA CounterStep ==
  ASSUME NEW k \in Counters
  PROVE  /\ [k EXCEPT !.total = @ + 1] \in Counters
         /\ \A m \in Matches : [k EXCEPT ![m] = @ + 1] \in Counters
  BY DEF Counters, Matches

(***************************************************************************)
(* Every step keeps IndInv: one step per action, one part at a time.       *)
(***************************************************************************)
LEMMA NextIndInv == ASSUME IndInv, [Next]_vars PROVE IndInv'
<1> USE DEF vars, mainVars, peerVars, portVars, worldVars, outVars, reqVars, dataVars,
           disconnect, LoginSession, Count, Uncount
<1>1. ASSUME NEW c \in Conn, ClientConnect(c) PROVE IndInv'
  <2>1. TypeOK'
    BY <1>1 DEF ClientConnect, TypeOK, IndInv
  <2>2. PortInv'
    BY <1>1 DEF ClientConnect, TypeOK, PortInv, IndInv, Accepted
  <2>3. InboxInv'
    BY <1>1 DEF ClientConnect, TypeOK, InboxInv, IndInv
  <2>4. MainInv'
    BY <1>1 DEF ClientConnect, TypeOK, MainInv, IndInv
  <2>5. RequestInv'
    BY <1>1 DEF ClientConnect, TypeOK, RequestInv, PortInv, IndInv, Accepted, Handled
  <2> QED BY <2>1, <2>2, <2>3, <2>4, <2>5 DEF IndInv
<1>2. ASSUME NEW c \in Conn, NEW r \in Req, NEW k \in AllKinds, NEW a \in Account \cup {NoEntry},
             ClientSendHeader(c, r, k, a)
      PROVE  IndInv'
  <2>1. Append(inbox[c], [half |-> "header", req |-> r]) \in Seq(Part)
    BY AppendElements DEF IndInv, TypeOK, Part
  <2>2. TypeOK'
    <3>1. rst' \in [Req -> {"unsent", "sending", "sent", "auth", "lookup",
                         "reply", "header", "body", "answered", "failed"}]
      BY <1>2, <2>1, BoundAssumption DEF ClientSendHeader, IndInv, TypeOK
    <3>2. inbox' \in [Conn -> Seq(Part)]
      BY <1>2, <2>1, BoundAssumption DEF ClientSendHeader, IndInv, TypeOK
    <3>3. rkind' \in [Req -> AllKinds] /\ rconn' \in [Req -> Conn \cup {NoConn}]
      BY <1>2, <2>1, BoundAssumption DEF ClientSendHeader, IndInv, TypeOK
    <3>4. racct' \in [Req -> Account \cup {NoEntry}]
      BY <1>2, <2>1, BoundAssumption DEF ClientSendHeader, IndInv, TypeOK
    <3> QED BY <1>2, <2>1, <3>1, <3>2, <3>3, <3>4 DEF ClientSendHeader, TypeOK, IndInv
  <2>3. PortInv'
    BY <1>2, <2>1 DEF ClientSendHeader, TypeOK, PortInv, IndInv, Accepted
  <2>4. InboxInv'
    BY <1>2, <2>1 DEF ClientSendHeader, TypeOK, InboxInv, IndInv
  <2>5. MainInv'
    BY <1>2, <2>1 DEF ClientSendHeader, TypeOK, MainInv, IndInv
  <2>6. RequestInv'
    BY <1>2, <2>1 DEF ClientSendHeader, TypeOK, RequestInv, PortInv, IndInv, Accepted,
       Handled
  <2> QED BY <2>2, <2>3, <2>4, <2>5, <2>6 DEF IndInv
<1>3. ASSUME NEW r \in Req, ClientSendBody(r) PROVE IndInv'
  <2>1. \A c \in Conn : Append(inbox[c], [half |-> "body", req |-> r]) \in Seq(Part)
    BY AppendElements DEF IndInv, TypeOK, Part
  <2>2. TypeOK'
    <3>1. rst' \in [Req -> {"unsent", "sending", "sent", "auth", "lookup",
                         "reply", "header", "body", "answered", "failed"}]
      BY <1>3, <2>1 DEF ClientSendBody, IndInv, TypeOK
    <3>2. inbox' \in [Conn -> Seq(Part)]
      BY <1>3, <2>1 DEF ClientSendBody, IndInv, TypeOK
    <3> QED BY <1>3, <2>1, <3>1, <3>2 DEF ClientSendBody, TypeOK, IndInv
  <2>3. PortInv'
    BY <1>3, <2>1 DEF ClientSendBody, TypeOK, PortInv, IndInv, Accepted
  <2>4. InboxInv'
    BY <1>3, <2>1 DEF ClientSendBody, TypeOK, InboxInv, IndInv
  <2>5. MainInv'
    BY <1>3, <2>1 DEF ClientSendBody, TypeOK, MainInv, IndInv
  <2>6. RequestInv'
    BY <1>3, <2>1 DEF ClientSendBody, TypeOK, RequestInv, PortInv, IndInv, Accepted, Handled
  <2> QED BY <2>2, <2>3, <2>4, <2>5, <2>6 DEF IndInv
<1>4. ASSUME NEW c \in Conn, ClientRecv(c) PROVE IndInv'
  <2>1. TypeOK'
    BY <1>4 DEF ClientRecv, TypeOK, IndInv
  <2>2. PortInv'
    BY <1>4 DEF ClientRecv, TypeOK, PortInv, IndInv, Accepted
  <2>3. InboxInv'
    BY <1>4 DEF ClientRecv, TypeOK, InboxInv, IndInv
  <2>4. MainInv'
    BY <1>4 DEF ClientRecv, TypeOK, MainInv, IndInv
  <2>5. RequestInv'
    BY <1>4 DEF ClientRecv, TypeOK, RequestInv, PortInv, IndInv, Accepted, Handled
  <2> QED BY <2>1, <2>2, <2>3, <2>4, <2>5 DEF IndInv
<1>5. ASSUME NEW c \in Conn, ClientClose(c) PROVE IndInv'
  <2>1. TypeOK'
    BY <1>5 DEF ClientClose, TypeOK, IndInv
  <2>2. PortInv'
    BY <1>5 DEF ClientClose, TypeOK, PortInv, IndInv, Accepted
  <2>3. InboxInv'
    BY <1>5 DEF ClientClose, TypeOK, InboxInv, IndInv
  <2>4. MainInv'
    BY <1>5 DEF ClientClose, TypeOK, MainInv, IndInv
  <2>5. RequestInv'
    BY <1>5 DEF ClientClose, TypeOK, RequestInv, PortInv, IndInv, Accepted, Handled
  <2> QED BY <2>1, <2>2, <2>3, <2>4, <2>5 DEF IndInv
<1>6. ASSUME NEW c \in Conn, PeerReset(c) PROVE IndInv'
  <2>1. TypeOK'
    BY <1>6 DEF PeerReset, TypeOK, IndInv
  <2>2. PortInv'
    BY <1>6 DEF PeerReset, TypeOK, PortInv, IndInv, Accepted
  <2>3. InboxInv'
    BY <1>6 DEF PeerReset, TypeOK, InboxInv, IndInv
  <2>4. MainInv'
    BY <1>6 DEF PeerReset, TypeOK, MainInv, IndInv
  <2>5. RequestInv'
    BY <1>6 DEF PeerReset, TypeOK, RequestInv, PortInv, IndInv, Accepted, Handled
  <2> QED BY <2>1, <2>2, <2>3, <2>4, <2>5 DEF IndInv
<1>7. ASSUME Select PROVE IndInv'
  <2>1. TypeOK'
    BY <1>7 DEF Select, TypeOK, IndInv
  <2>2. PortInv'
    BY <1>7 DEF Select, TypeOK, PortInv, IndInv, Accepted, Readable
  <2>3. InboxInv'
    BY <1>7 DEF Select, TypeOK, InboxInv, IndInv
  <2>4. MainInv'
    BY <1>7 DEF Select, TypeOK, MainInv, IndInv
  <2>5. RequestInv'
    BY <1>7 DEF Select, TypeOK, RequestInv, PortInv, IndInv, Accepted, Handled
  <2> QED BY <2>1, <2>2, <2>3, <2>4, <2>5 DEF IndInv
<1>8. ASSUME NEW c \in Conn, NEW f \in Fd, Accept(c, f) PROVE IndInv'
  <2>1. TypeOK'
    BY <1>8 DEF Accept, TypeOK, IndInv
  <2>2. PortInv'
    BY <1>8 DEF Accept, TypeOK, PortInv, IndInv, Accepted
  <2>3. InboxInv'
    BY <1>8 DEF Accept, TypeOK, InboxInv, IndInv
  <2>4. MainInv'
    BY <1>8 DEF Accept, TypeOK, MainInv, IndInv
  <2>5. RequestInv'
    BY <1>8 DEF Accept, TypeOK, RequestInv, PortInv, IndInv, Accepted, Handled
  <2> QED BY <2>1, <2>2, <2>3, <2>4, <2>5 DEF IndInv
<1>9. ASSUME AcceptFails PROVE IndInv'
  <2>1. TypeOK'
    BY <1>9 DEF AcceptFails, TypeOK, IndInv
  <2>2. PortInv'
    BY <1>9 DEF AcceptFails, TypeOK, PortInv, IndInv, Accepted
  <2>3. InboxInv'
    BY <1>9 DEF AcceptFails, TypeOK, InboxInv, IndInv
  <2>4. MainInv'
    BY <1>9 DEF AcceptFails, TypeOK, MainInv, IndInv
  <2>5. RequestInv'
    BY <1>9 DEF AcceptFails, TypeOK, RequestInv, PortInv, IndInv, Accepted, Handled
  <2> QED BY <2>1, <2>2, <2>3, <2>4, <2>5 DEF IndInv
<1>10. ASSUME NEW c \in Conn, PickReady(c) PROVE IndInv'
  <2>1. TypeOK'
    BY <1>10 DEF PickReady, TypeOK, IndInv
  <2>2. PortInv'
    BY <1>10 DEF PickReady, TypeOK, PortInv, IndInv, Accepted
  <2>3. InboxInv'
    BY <1>10 DEF PickReady, TypeOK, InboxInv, IndInv
  <2>4. MainInv'
    BY <1>10 DEF PickReady, TypeOK, MainInv, IndInv
  <2>5. RequestInv'
    BY <1>10 DEF PickReady, TypeOK, RequestInv, PortInv, IndInv, Accepted, Handled
  <2> QED BY <2>1, <2>2, <2>3, <2>4, <2>5 DEF IndInv
<1>11. ASSUME ScanDone PROVE IndInv'
  <2>1. TypeOK'
    BY <1>11 DEF ScanDone, TypeOK, IndInv
  <2>2. PortInv'
    BY <1>11 DEF ScanDone, TypeOK, PortInv, IndInv, Accepted
  <2>3. InboxInv'
    BY <1>11 DEF ScanDone, TypeOK, InboxInv, IndInv
  <2>4. MainInv'
    BY <1>11 DEF ScanDone, TypeOK, MainInv, IndInv
  <2>5. RequestInv'
    BY <1>11 DEF ScanDone, TypeOK, RequestInv, PortInv, IndInv, Accepted, Handled
  <2> QED BY <2>1, <2>2, <2>3, <2>4, <2>5 DEF IndInv
<1>12. ASSUME ReadHeader PROVE IndInv'
  <2>1. mconn \in Conn /\ sock[mconn] = "open"
    BY <1>12 DEF ReadHeader, IndInv, PortInv
  <2>2. /\ Tail(inbox[mconn]) \in Seq(Part)
       /\ \A i \in 1..Len(Tail(inbox[mconn])) :
            Tail(inbox[mconn])[i] = inbox[mconn][i + 1] /\ i + 1 \in 1..Len(inbox[mconn])
    BY <1>12, <2>1, TailElements DEF ReadHeader, Message, IndInv, TypeOK
  <2>3. Head(inbox[mconn]) = inbox[mconn][1] /\ inbox[mconn][1] \in Part /\ 1 \in 1..Len(inbox[mconn])
    BY <1>12, <2>1, TailElements DEF ReadHeader, IndInv, TypeOK
  <2>4. mreq' = inbox[mconn][1].req /\ mreq' \in Req
    BY <1>12, <2>3 DEF ReadHeader, Part
  <2>5. rst[mreq'] # "unsent" /\ rconn[mreq'] = mconn
    BY <2>1, <2>3, <2>4 DEF IndInv, InboxInv
  <2>6. TypeOK'
    <3>1. inbox' \in [Conn -> Seq(Part)]
      BY <1>12, <2>1, <2>2, <2>3, <2>4, <2>5 DEF ReadHeader, IndInv, TypeOK
    <3>2. mpc' \in {"exited", "body"}
      BY <1>12, <2>1, <2>2, <2>3, <2>4, <2>5 DEF ReadHeader, IndInv, TypeOK
    <3> QED BY <1>12, <2>1, <2>2, <2>3, <2>4, <2>5, <3>1, <3>2 DEF ReadHeader, TypeOK,
       IndInv
  <2>7. PortInv'
    BY <1>12, <2>1, <2>2, <2>3, <2>4, <2>5 DEF ReadHeader, TypeOK, PortInv, IndInv, Accepted
  <2>8. InboxInv'
    <3> SUFFICES ASSUME NEW c \in Conn, NEW i \in 1..Len(inbox'[c])
                 PROVE  rst'[inbox'[c][i].req] # "unsent" /\ rconn'[inbox'[c][i].req] = c
      BY DEF InboxInv
    <3>1. inbox' = [inbox EXCEPT ![mconn] = Tail(inbox[mconn])] /\ rconn' = rconn
      BY <1>12 DEF ReadHeader, Message
    <3>2. PICK j \in 1..Len(inbox[c]) : inbox'[c][i] = inbox[c][j]
      BY <2>1, <2>2, <3>1 DEF IndInv, TypeOK
    <3>3. rst[inbox[c][j].req] # "unsent" /\ rconn[inbox[c][j].req] = c
      BY DEF IndInv, InboxInv
    <3>4. \A r \in Req : rst[r] # "unsent" => rst'[r] # "unsent"
      BY <1>12 DEF ReadHeader, Message, IndInv, TypeOK
    <3>5. inbox[c][j] \in Part
      BY DEF IndInv, TypeOK
    <3>6. inbox[c][j].req \in Req
      BY <3>5 DEF Part
    <3> QED BY <3>1, <3>2, <3>3, <3>4, <3>6
  <2>9. MainInv'
    BY <1>12, <2>1, <2>2, <2>3, <2>4, <2>5 DEF ReadHeader, TypeOK, MainInv, IndInv
  <2>10. RequestInv'
    BY <1>12, <2>1, <2>2, <2>3, <2>4, <2>5 DEF ReadHeader, TypeOK, RequestInv, PortInv,
       IndInv, Accepted, Handled
  <2> QED BY <2>6, <2>7, <2>8, <2>9, <2>10 DEF IndInv
<1>13. ASSUME HeaderError PROVE IndInv'
  <2>1. TypeOK'
    <3>1. sock' \in [Conn -> {"none", "pending", "open", "closed"}]
      BY <1>13 DEF HeaderError, IndInv, TypeOK, Names
    <3>2. session' \in [Fd -> Names \cup {NoEntry}]
      BY <1>13 DEF HeaderError, IndInv, TypeOK, Names
    <3> QED BY <1>13, <3>1, <3>2 DEF HeaderError, TypeOK, IndInv
  <2>2. PortInv'
    BY <1>13 DEF HeaderError, TypeOK, PortInv, IndInv, Accepted
  <2>3. InboxInv'
    BY <1>13 DEF HeaderError, TypeOK, InboxInv, IndInv
  <2>4. MainInv'
    BY <1>13 DEF HeaderError, TypeOK, MainInv, IndInv
  <2>5. RequestInv'
    BY <1>13 DEF HeaderError, TypeOK, RequestInv, PortInv, IndInv, Accepted, Handled
  <2> QED BY <2>1, <2>2, <2>3, <2>4, <2>5 DEF IndInv
<1>14. ASSUME BodyError PROVE IndInv'
  <2>1. TypeOK'
    BY <1>14 DEF BodyError, TypeOK, IndInv
  <2>2. PortInv'
    BY <1>14 DEF BodyError, TypeOK, PortInv, IndInv, Accepted
  <2>3. InboxInv'
    BY <1>14 DEF BodyError, TypeOK, InboxInv, IndInv
  <2>4. MainInv'
    BY <1>14 DEF BodyError, TypeOK, MainInv, IndInv
  <2>5. RequestInv'
    BY <1>14 DEF BodyError, TypeOK, RequestInv, PortInv, IndInv, Accepted, Handled
  <2> QED BY <2>1, <2>2, <2>3, <2>4, <2>5 DEF IndInv
<1>15. ASSUME HandleGarbled PROVE IndInv'
  <2>1. mconn \in Conn /\ sock[mconn] = "open" /\ fdOf[mconn] \in Fd
    BY <1>15 DEF HandleGarbled, Message, IndInv, PortInv, Accepted
  <2>2. /\ Tail(inbox[mconn]) \in Seq(Part)
       /\ \A i \in 1..Len(Tail(inbox[mconn])) :
            Tail(inbox[mconn])[i] = inbox[mconn][i + 1] /\ i + 1 \in 1..Len(inbox[mconn])
    BY <1>15, <2>1, TailElements DEF HandleGarbled, Message, IndInv, TypeOK
  <2>3. mreq \in Req /\ rst[mreq] # "unsent" /\ rconn[mreq] = mconn
    BY <1>15 DEF HandleGarbled, Message, IndInv, MainInv
  <2>4. TypeOK'
    BY <1>15, <2>1, <2>2, <2>3 DEF HandleGarbled, Message, TypeOK, IndInv
  <2>5. PortInv'
    BY <1>15, <2>1, <2>2, <2>3 DEF HandleGarbled, Message, TypeOK, PortInv, IndInv, Accepted
  <2>6. InboxInv'
    <3> SUFFICES ASSUME NEW c \in Conn, NEW i \in 1..Len(inbox'[c])
                 PROVE  rst'[inbox'[c][i].req] # "unsent" /\ rconn'[inbox'[c][i].req] = c
      BY DEF InboxInv
    <3>1. inbox' = [inbox EXCEPT ![mconn] = Tail(inbox[mconn])] /\ rconn' = rconn
      BY <1>15 DEF HandleGarbled, Message
    <3>2. PICK j \in 1..Len(inbox[c]) : inbox'[c][i] = inbox[c][j]
      BY <2>1, <2>2, <3>1 DEF IndInv, TypeOK
    <3>3. rst[inbox[c][j].req] # "unsent" /\ rconn[inbox[c][j].req] = c
      BY DEF IndInv, InboxInv
    <3>4. \A r \in Req : rst[r] # "unsent" => rst'[r] # "unsent"
      BY <1>15 DEF HandleGarbled, Message, IndInv, TypeOK
    <3>5. inbox[c][j] \in Part
      BY DEF IndInv, TypeOK
    <3>6. inbox[c][j].req \in Req
      BY <3>5 DEF Part
    <3> QED BY <3>1, <3>2, <3>3, <3>4, <3>6
  <2>7. MainInv'
    BY <1>15, <2>1, <2>2, <2>3 DEF HandleGarbled, Message, TypeOK, MainInv, IndInv
  <2>8. RequestInv'
    BY <1>15, <2>1, <2>2, <2>3 DEF HandleGarbled, Message, TypeOK, RequestInv, PortInv,
       IndInv, Accepted, Handled
  <2> QED BY <2>4, <2>5, <2>6, <2>7, <2>8 DEF IndInv
<1>16. ASSUME HandleLogin PROVE IndInv'
  <2>1. mconn \in Conn /\ sock[mconn] = "open" /\ fdOf[mconn] \in Fd
    BY <1>16 DEF HandleLogin, Message, IndInv, PortInv, Accepted
  <2>2. /\ Tail(inbox[mconn]) \in Seq(Part)
       /\ \A i \in 1..Len(Tail(inbox[mconn])) :
            Tail(inbox[mconn])[i] = inbox[mconn][i + 1] /\ i + 1 \in 1..Len(inbox[mconn])
    BY <1>16, <2>1, TailElements DEF HandleLogin, Message, IndInv, TypeOK
  <2>3. mreq \in Req /\ rst[mreq] # "unsent" /\ rconn[mreq] = mconn
    BY <1>16 DEF HandleLogin, Message, IndInv, MainInv
  <2>4. TypeOK'
    <3>1. rst' \in [Req -> {"unsent", "sending", "sent", "auth", "lookup",
                         "reply", "header", "body", "answered", "failed"}]
      BY <1>16, <2>1, <2>2, <2>3 DEF HandleLogin, Message, IndInv, TypeOK
    <3>2. inbox' \in [Conn -> Seq(Part)]
      BY <1>16, <2>1, <2>2, <2>3 DEF HandleLogin, Message, IndInv, TypeOK
    <3> QED BY <1>16, <2>1, <2>2, <2>3, <3>1, <3>2 DEF HandleLogin, Message, TypeOK, IndInv
  <2>5. PortInv'
    BY <1>16, <2>1, <2>2, <2>3 DEF HandleLogin, Message, TypeOK, PortInv, IndInv, Accepted
  <2>6. InboxInv'
    <3> SUFFICES ASSUME NEW c \in Conn, NEW i \in 1..Len(inbox'[c])
                 PROVE  rst'[inbox'[c][i].req] # "unsent" /\ rconn'[inbox'[c][i].req] = c
      BY DEF InboxInv
    <3>1. inbox' = [inbox EXCEPT ![mconn] = Tail(inbox[mconn])] /\ rconn' = rconn
      BY <1>16 DEF HandleLogin, Message
    <3>2. PICK j \in 1..Len(inbox[c]) : inbox'[c][i] = inbox[c][j]
      BY <2>1, <2>2, <3>1 DEF IndInv, TypeOK
    <3>3. rst[inbox[c][j].req] # "unsent" /\ rconn[inbox[c][j].req] = c
      BY DEF IndInv, InboxInv
    <3>4. \A r \in Req : rst[r] # "unsent" => rst'[r] # "unsent"
      BY <1>16 DEF HandleLogin, Message, IndInv, TypeOK
    <3>5. inbox[c][j] \in Part
      BY DEF IndInv, TypeOK
    <3>6. inbox[c][j].req \in Req
      BY <3>5 DEF Part
    <3> QED BY <3>1, <3>2, <3>3, <3>4, <3>6
  <2>7. MainInv'
    BY <1>16, <2>1, <2>2, <2>3 DEF HandleLogin, Message, TypeOK, MainInv, IndInv
  <2>8. RequestInv'
    BY <1>16, <2>1, <2>2, <2>3 DEF HandleLogin, Message, TypeOK, RequestInv, PortInv,
       IndInv, Accepted, Handled
  <2> QED BY <2>4, <2>5, <2>6, <2>7, <2>8 DEF IndInv
<1>17. ASSUME HandleQuery PROVE IndInv'
  <2>1. mconn \in Conn /\ sock[mconn] = "open" /\ fdOf[mconn] \in Fd
    BY <1>17 DEF HandleQuery, Message, IndInv, PortInv, Accepted
  <2>2. /\ Tail(inbox[mconn]) \in Seq(Part)
       /\ \A i \in 1..Len(Tail(inbox[mconn])) :
            Tail(inbox[mconn])[i] = inbox[mconn][i + 1] /\ i + 1 \in 1..Len(inbox[mconn])
    BY <1>17, <2>1, TailElements DEF HandleQuery, Message, IndInv, TypeOK
  <2>3. mreq \in Req /\ rst[mreq] # "unsent" /\ rconn[mreq] = mconn
    BY <1>17 DEF HandleQuery, Message, IndInv, MainInv
  <2>4. session[fdOf[mconn]] \in Names
    BY <1>17, <2>1 DEF HandleQuery, LoggedIn, IndInv, TypeOK
  <2>5. TypeOK'
    <3>1. rst' \in [Req -> {"unsent", "sending", "sent", "auth", "lookup",
                         "reply", "header", "body", "answered", "failed"}]
      BY <1>17, <2>1, <2>2, <2>3, <2>4 DEF HandleQuery, Message, LoggedIn, IndInv, TypeOK
    <3>2. inbox' \in [Conn -> Seq(Part)]
      BY <1>17, <2>1, <2>2, <2>3, <2>4 DEF HandleQuery, Message, LoggedIn, IndInv, TypeOK
    <3>3. statistics' \in [Names -> Counters]
      BY <1>17, <2>1, <2>2, <2>3, <2>4, CounterStep DEF HandleQuery, Message, LoggedIn,
         IndInv, TypeOK
    <3>4. threadNum' \in Int
      BY <1>17, <2>1, <2>2, <2>3, <2>4 DEF HandleQuery, Message, LoggedIn, IndInv, TypeOK
    <3> QED BY <1>17, <2>1, <2>2, <2>3, <2>4, <3>1, <3>2, <3>3, <3>4 DEF HandleQuery,
       Message, LoggedIn, TypeOK, IndInv
  <2>6. PortInv'
    BY <1>17, <2>1, <2>2, <2>3, <2>4 DEF HandleQuery, Message, LoggedIn, TypeOK, PortInv,
       IndInv, Accepted
  <2>7. InboxInv'
    <3> SUFFICES ASSUME NEW c \in Conn, NEW i \in 1..Len(inbox'[c])
                 PROVE  rst'[inbox'[c][i].req] # "unsent" /\ rconn'[inbox'[c][i].req] = c
      BY DEF InboxInv
    <3>1. inbox' = [inbox EXCEPT ![mconn] = Tail(inbox[mconn])] /\ rconn' = rconn
      BY <1>17 DEF HandleQuery, Message
    <3>2. PICK j \in 1..Len(inbox[c]) : inbox'[c][i] = inbox[c][j]
      BY <2>1, <2>2, <3>1 DEF IndInv, TypeOK
    <3>3. rst[inbox[c][j].req] # "unsent" /\ rconn[inbox[c][j].req] = c
      BY DEF IndInv, InboxInv
    <3>4. \A r \in Req : rst[r] # "unsent" => rst'[r] # "unsent"
      BY <1>17 DEF HandleQuery, Message, IndInv, TypeOK
    <3>5. inbox[c][j] \in Part
      BY DEF IndInv, TypeOK
    <3>6. inbox[c][j].req \in Req
      BY <3>5 DEF Part
    <3> QED BY <3>1, <3>2, <3>3, <3>4, <3>6
  <2>8. MainInv'
    BY <1>17, <2>1, <2>2, <2>3, <2>4 DEF HandleQuery, Message, LoggedIn, TypeOK, MainInv,
       IndInv
  <2>9. RequestInv'
    BY <1>17, <2>1, <2>2, <2>3, <2>4 DEF HandleQuery, Message, LoggedIn, TypeOK, RequestInv,
       PortInv, IndInv, Accepted, Handled
  <2> QED BY <2>5, <2>6, <2>7, <2>8, <2>9 DEF IndInv
<1>18. ASSUME RefuseQuery PROVE IndInv'
  <2>1. mconn \in Conn /\ sock[mconn] = "open" /\ fdOf[mconn] \in Fd
    BY <1>18 DEF RefuseQuery, Message, IndInv, PortInv, Accepted
  <2>2. /\ Tail(inbox[mconn]) \in Seq(Part)
       /\ \A i \in 1..Len(Tail(inbox[mconn])) :
            Tail(inbox[mconn])[i] = inbox[mconn][i + 1] /\ i + 1 \in 1..Len(inbox[mconn])
    BY <1>18, <2>1, TailElements DEF RefuseQuery, Message, IndInv, TypeOK
  <2>3. mreq \in Req /\ rst[mreq] # "unsent" /\ rconn[mreq] = mconn
    BY <1>18 DEF RefuseQuery, Message, IndInv, MainInv
  <2>4. TypeOK'
    <3>1. rst' \in [Req -> {"unsent", "sending", "sent", "auth", "lookup",
                         "reply", "header", "body", "answered", "failed"}]
      BY <1>18, <2>1, <2>2, <2>3 DEF RefuseQuery, Message, LoggedIn, IndInv, TypeOK
    <3>2. inbox' \in [Conn -> Seq(Part)]
      BY <1>18, <2>1, <2>2, <2>3 DEF RefuseQuery, Message, LoggedIn, IndInv, TypeOK
    <3> QED BY <1>18, <2>1, <2>2, <2>3, <3>1, <3>2 DEF RefuseQuery, Message, LoggedIn,
       TypeOK, IndInv
  <2>5. PortInv'
    BY <1>18, <2>1, <2>2, <2>3 DEF RefuseQuery, Message, LoggedIn, TypeOK, PortInv, IndInv,
       Accepted
  <2>6. InboxInv'
    <3> SUFFICES ASSUME NEW c \in Conn, NEW i \in 1..Len(inbox'[c])
                 PROVE  rst'[inbox'[c][i].req] # "unsent" /\ rconn'[inbox'[c][i].req] = c
      BY DEF InboxInv
    <3>1. inbox' = [inbox EXCEPT ![mconn] = Tail(inbox[mconn])] /\ rconn' = rconn
      BY <1>18 DEF RefuseQuery, Message
    <3>2. PICK j \in 1..Len(inbox[c]) : inbox'[c][i] = inbox[c][j]
      BY <2>1, <2>2, <3>1 DEF IndInv, TypeOK
    <3>3. rst[inbox[c][j].req] # "unsent" /\ rconn[inbox[c][j].req] = c
      BY DEF IndInv, InboxInv
    <3>4. \A r \in Req : rst[r] # "unsent" => rst'[r] # "unsent"
      BY <1>18 DEF RefuseQuery, Message, IndInv, TypeOK
    <3>5. inbox[c][j] \in Part
      BY DEF IndInv, TypeOK
    <3>6. inbox[c][j].req \in Req
      BY <3>5 DEF Part
    <3> QED BY <3>1, <3>2, <3>3, <3>4, <3>6
  <2>7. MainInv'
    BY <1>18, <2>1, <2>2, <2>3 DEF RefuseQuery, Message, LoggedIn, TypeOK, MainInv, IndInv
  <2>8. RequestInv'
    BY <1>18, <2>1, <2>2, <2>3 DEF RefuseQuery, Message, LoggedIn, TypeOK, RequestInv,
       PortInv, IndInv, Accepted, Handled
  <2> QED BY <2>4, <2>5, <2>6, <2>7, <2>8 DEF IndInv
<1>19. ASSUME RefusalSent PROVE IndInv'
  <2>1. TypeOK'
    BY <1>19 DEF RefusalSent, TypeOK, IndInv
  <2>2. PortInv'
    BY <1>19 DEF RefusalSent, TypeOK, PortInv, IndInv, Accepted
  <2>3. InboxInv'
    BY <1>19 DEF RefusalSent, TypeOK, InboxInv, IndInv
  <2>4. MainInv'
    BY <1>19 DEF RefusalSent, TypeOK, MainInv, IndInv
  <2>5. RequestInv'
    BY <1>19 DEF RefusalSent, TypeOK, RequestInv, PortInv, IndInv, Accepted, Handled
  <2> QED BY <2>1, <2>2, <2>3, <2>4, <2>5 DEF IndInv
<1>20. ASSUME NEW r \in Req, Authenticate(r) PROVE IndInv'
  <2>1. TypeOK'
    <3>1. rst' \in [Req -> {"unsent", "sending", "sent", "auth", "lookup",
                         "reply", "header", "body", "answered", "failed"}]
      BY <1>20 DEF Authenticate, IndInv, TypeOK, Names
    <3>2. session' \in [Fd -> Names \cup {NoEntry}]
      BY <1>20 DEF Authenticate, IndInv, TypeOK, Names
    <3> QED BY <1>20, <3>1, <3>2 DEF Authenticate, TypeOK, IndInv
  <2>2. PortInv'
    BY <1>20 DEF Authenticate, TypeOK, PortInv, IndInv, Accepted
  <2>3. InboxInv'
    BY <1>20 DEF Authenticate, TypeOK, InboxInv, IndInv
  <2>4. MainInv'
    BY <1>20 DEF Authenticate, TypeOK, MainInv, IndInv
  <2>5. RequestInv'
    BY <1>20 DEF Authenticate, TypeOK, RequestInv, PortInv, IndInv, Accepted, Handled
  <2> QED BY <2>1, <2>2, <2>3, <2>4, <2>5 DEF IndInv
<1>21. ASSUME NEW r \in Req, LookupFails(r) PROVE IndInv'
  <2>1. TypeOK'
    BY <1>21 DEF LookupFails, TypeOK, IndInv
  <2>2. PortInv'
    BY <1>21 DEF LookupFails, TypeOK, PortInv, IndInv, Accepted
  <2>3. InboxInv'
    BY <1>21 DEF LookupFails, TypeOK, InboxInv, IndInv
  <2>4. MainInv'
    BY <1>21 DEF LookupFails, TypeOK, MainInv, IndInv
  <2>5. RequestInv'
    BY <1>21 DEF LookupFails, TypeOK, RequestInv, PortInv, IndInv, Accepted, Handled
  <2> QED BY <2>1, <2>2, <2>3, <2>4, <2>5 DEF IndInv
<1>22. ASSUME NEW r \in Req, NEW m \in Matches, Lookup(r, m) PROVE IndInv'
  <2>1. fdOf[rconn[r]] \in Fd
    BY <1>22 DEF Lookup, IndInv, PortInv, RequestInv, Handled, Accepted, TypeOK
  <2>2. (IF session[fdOf[rconn[r]]] = NoEntry THEN EmptyName ELSE session[fdOf[rconn[r]]]) \in Names
    BY <2>1 DEF IndInv, TypeOK, Names
  <2>3. PICK n \in Names : /\ statistics' = [statistics EXCEPT ![n][m] = @ + 1]
                        /\ session' = [session EXCEPT ![fdOf[rconn[r]]] = n]
    BY <1>22, <2>2 DEF Lookup
  <2>4. TypeOK'
    <3>1. rst' \in [Req -> {"unsent", "sending", "sent", "auth", "lookup",
                         "reply", "header", "body", "answered", "failed"}]
      BY <1>22, <2>1, <2>2, <2>3 DEF Lookup, IndInv, TypeOK, Matches
    <3>2. session' \in [Fd -> Names \cup {NoEntry}]
      BY <1>22, <2>1, <2>2, <2>3 DEF Lookup, IndInv, TypeOK, Matches
    <3>3. statistics' \in [Names -> Counters]
      <4> DEFINE k == [statistics[n] EXCEPT ![m] = @ + 1]
      <4>1. k \in Counters
        BY CounterStep DEF IndInv, TypeOK
      <4>2. statistics' = [statistics EXCEPT ![n] = k]
        BY <2>3
      <4> HIDE DEF k
      <4> QED BY <4>1, <4>2 DEF IndInv, TypeOK
    <3> QED BY <1>22, <2>1, <2>2, <2>3, <3>1, <3>2, <3>3 DEF Lookup, TypeOK, IndInv
  <2>5. PortInv'
    BY <1>22, <2>1, <2>2, <2>3 DEF Lookup, TypeOK, PortInv, IndInv, Accepted
  <2>6. InboxInv'
    BY <1>22, <2>1, <2>2, <2>3 DEF Lookup, TypeOK, InboxInv, IndInv
  <2>7. MainInv'
    BY <1>22, <2>1, <2>2, <2>3 DEF Lookup, TypeOK, MainInv, IndInv
  <2>8. RequestInv'
    BY <1>22, <2>1, <2>2, <2>3 DEF Lookup, TypeOK, RequestInv, PortInv, IndInv, Accepted,
       Handled
  <2> QED BY <2>4, <2>5, <2>6, <2>7, <2>8 DEF IndInv
<1>23. ASSUME NEW r \in Req, AcquireSendLock(r) PROVE IndInv'
  <2>1. TypeOK'
    BY <1>23 DEF AcquireSendLock, TypeOK, IndInv
  <2>2. PortInv'
    BY <1>23 DEF AcquireSendLock, TypeOK, PortInv, IndInv, Accepted
  <2>3. InboxInv'
    BY <1>23 DEF AcquireSendLock, TypeOK, InboxInv, IndInv
  <2>4. MainInv'
    BY <1>23 DEF AcquireSendLock, TypeOK, MainInv, IndInv
  <2>5. RequestInv'
    BY <1>23 DEF AcquireSendLock, TypeOK, RequestInv, PortInv, IndInv, Accepted, Handled
  <2> QED BY <2>1, <2>2, <2>3, <2>4, <2>5 DEF IndInv
<1>24. ASSUME NEW r \in Req, WriteHeader(r) PROVE IndInv'
  <2>1. \A c \in Conn : Append(out[c], [half |-> "header", req |-> r]) \in Seq(Part)
    BY AppendElements DEF IndInv, TypeOK, Part
  <2>2. out' \in [Conn -> Seq(Part)]
    BY <1>24, <2>1 DEF WriteHeader, Send, Reaches, IndInv, TypeOK
  <2>3. TypeOK'
    <3>1. rst' \in [Req -> {"unsent", "sending", "sent", "auth", "lookup",
                         "reply", "header", "body", "answered", "failed"}]
      BY <1>24, <2>1, <2>2 DEF WriteHeader, IndInv, TypeOK
    <3> QED BY <1>24, <2>1, <2>2, <3>1 DEF WriteHeader, TypeOK, IndInv
  <2>4. PortInv'
    BY <1>24, <2>1, <2>2 DEF WriteHeader, TypeOK, PortInv, IndInv, Accepted
  <2>5. InboxInv'
    BY <1>24, <2>1, <2>2 DEF WriteHeader, TypeOK, InboxInv, IndInv
  <2>6. MainInv'
    BY <1>24, <2>1, <2>2 DEF WriteHeader, TypeOK, MainInv, IndInv
  <2>7. RequestInv'
    BY <1>24, <2>1, <2>2 DEF WriteHeader, TypeOK, RequestInv, PortInv, IndInv, Accepted,
       Handled
  <2> QED BY <2>3, <2>4, <2>5, <2>6, <2>7 DEF IndInv
<1>25. ASSUME NEW r \in Req, WriteBody(r) PROVE IndInv'
  <2>1. \A c \in Conn : Append(out[c], [half |-> "body", req |-> r]) \in Seq(Part)
    BY AppendElements DEF IndInv, TypeOK, Part
  <2>2. out' \in [Conn -> Seq(Part)]
    BY <1>25, <2>1 DEF WriteBody, Send, Reaches, IndInv, TypeOK
  <2>3. TypeOK'
    <3>1. rst' \in [Req -> {"unsent", "sending", "sent", "auth", "lookup",
                         "reply", "header", "body", "answered", "failed"}]
      BY <1>25, <2>1, <2>2 DEF WriteBody, IndInv, TypeOK
    <3>2. sendLock' \in Req \cup {NoReq} /\ threadNum' \in Int
      BY <1>25, <2>1, <2>2 DEF WriteBody, IndInv, TypeOK
    <3> QED BY <1>25, <2>1, <2>2, <3>1, <3>2 DEF WriteBody, TypeOK, IndInv
  <2>4. PortInv'
    BY <1>25, <2>1, <2>2 DEF WriteBody, TypeOK, PortInv, IndInv, Accepted
  <2>5. InboxInv'
    BY <1>25, <2>1, <2>2 DEF WriteBody, TypeOK, InboxInv, IndInv
  <2>6. MainInv'
    BY <1>25, <2>1, <2>2 DEF WriteBody, TypeOK, MainInv, IndInv
  <2>7. RequestInv'
    BY <1>25, <2>1, <2>2 DEF WriteBody, TypeOK, RequestInv, PortInv, IndInv, Accepted,
       Handled
  <2> QED BY <2>3, <2>4, <2>5, <2>6, <2>7 DEF IndInv
<1>26. ASSUME UNCHANGED vars PROVE IndInv'
  <2>1. TypeOK'
    BY <1>26 DEF vars, TypeOK, IndInv
  <2>2. PortInv'
    BY <1>26 DEF vars, TypeOK, PortInv, IndInv, Accepted
  <2>3. InboxInv'
    BY <1>26 DEF vars, TypeOK, InboxInv, IndInv
  <2>4. MainInv'
    BY <1>26 DEF vars, TypeOK, MainInv, IndInv
  <2>5. RequestInv'
    BY <1>26 DEF vars, TypeOK, RequestInv, PortInv, IndInv, Accepted, Handled
  <2> QED BY <2>1, <2>2, <2>3, <2>4, <2>5 DEF IndInv
<1> QED BY <1>1, <1>2, <1>3, <1>4, <1>5, <1>6, <1>7, <1>8, <1>9, <1>10, <1>11, <1>12, <1>13,
   <1>14, <1>15, <1>16, <1>17, <1>18, <1>19, <1>20, <1>21, <1>22, <1>23, <1>24, <1>25, <1>26
   DEF Next, ClientNext, MainNext, Worker, ClientReset, KeepAliveReset

(***************************************************************************)
(* The strengthening: what each place of main() and the threads knows.     *)
(***************************************************************************)
THEOREM IndInvariant == Spec => []IndInv
  BY InitIndInv, NextIndInv, PTL DEF Spec

(***************************************************************************)
(* Types: no step of main() or a thread uses a descriptor, a request or an *)
(* entry of statistics_ that does not exist.                               *)
(***************************************************************************)
THEOREM TypeCorrect == Spec => []TypeOK
<1>1. IndInv => TypeOK
  BY DEF IndInv
<1> QED BY IndInvariant, <1>1, PTL

-----------------------------------------------------------------------------
(***************************************************************************)
(* What no step changes: the connection and the account of a request in    *)
(* service, the descriptor of an accepted connection, and that a closed    *)
(* connection is closed.                                                   *)
(***************************************************************************)
RequestStays(r) == rst'[r] \in Handled /\ rconn'[r] = rconn[r] /\ racct'[r] = racct[r]

PortStays(c) == /\ sock'[c] \in {"open", "closed"} /\ fdOf'[c] = fdOf[c]
                /\ sock[c] = "closed" => sock'[c] = "closed"

LEMMA StepStable ==
  ASSUME IndInv, [Next]_vars
  PROVE  /\ \A r \in Req : rst[r] \in Handled => RequestStays(r)
         /\ \A c \in Conn : Accepted(c) => PortStays(c)
<1> USE DEF vars, mainVars, peerVars, portVars, worldVars, outVars, reqVars, dataVars,
           disconnect, LoginSession, Count, Uncount
<1>1. ASSUME NEW r \in Req, rst[r] \in Handled PROVE RequestStays(r)
  <2> USE DEF RequestStays, Handled, IndInv, TypeOK
  <2>1. CASE ClientNext
    <3>1. ASSUME NEW c \in Conn, NEW q \in Req, NEW k \in AllKinds,
                 NEW a \in Account \cup {NoEntry}, ClientSendHeader(c, q, k, a)
          PROVE  RequestStays(r)
      BY <1>1, <3>1 DEF ClientSendHeader
    <3>2. ASSUME NEW q \in Req, ClientSendBody(q) PROVE RequestStays(r)
      BY <1>1, <3>2 DEF ClientSendBody
    <3>3. ASSUME UNCHANGED <<rst, reqVars>> PROVE RequestStays(r)
      BY <1>1, <3>3
    <3> QED BY <2>1, <3>1, <3>2, <3>3 DEF ClientNext, ClientConnect, ClientRecv,
            ClientClose, ClientReset, KeepAliveReset, PeerReset
  <2>2. CASE MainNext
    BY <1>1, <2>2 DEF MainNext, Select, AcceptFails, ScanDone, PickReady, Accept, ReadHeader,
       HeaderError, BodyError, HandleGarbled, HandleLogin, HandleQuery, RefuseQuery,
       RefusalSent, Message
  <2>3. CASE \E q \in Req : Worker(q)
    <3>1. PICK q \in Req : Worker(q)
      BY <2>3
    <3>2. UNCHANGED reqVars
      BY <3>1 DEF Worker, Authenticate, LookupFails, Lookup, AcquireSendLock,
         WriteHeader, WriteBody
    <3>3. rst'[r] \in Handled
      BY <1>1, <3>1 DEF Worker, Authenticate, LookupFails, Lookup, AcquireSendLock,
         WriteHeader, WriteBody
    <3> QED BY <1>1, <3>2, <3>3
  <2>4. CASE UNCHANGED vars
    BY <1>1, <2>4 DEF vars
  <2> QED BY <2>1, <2>2, <2>3, <2>4 DEF Next
<1>2. ASSUME NEW c \in Conn, Accepted(c) PROVE PortStays(c)
  <2> USE DEF PortStays, Accepted, IndInv, TypeOK
  <2>1. CASE ClientNext
    BY <1>2, <2>1 DEF ClientNext, ClientConnect, ClientSendHeader, ClientSendBody,
       ClientRecv, ClientClose, ClientReset, KeepAliveReset, PeerReset
  <2>2. CASE MainNext
    BY <1>2, <2>2 DEF MainNext, Select, AcceptFails, ScanDone, PickReady, Accept, ReadHeader,
       HeaderError, BodyError, HandleGarbled, HandleLogin, HandleQuery, RefuseQuery,
       RefusalSent, Message
  <2>3. CASE \E q \in Req : Worker(q)
    BY <1>2, <2>3 DEF Worker, Authenticate, LookupFails, Lookup, AcquireSendLock,
       WriteHeader, WriteBody
  <2>4. CASE UNCHANGED vars
    BY <1>2, <2>4 DEF vars
  <2> QED BY <2>1, <2>2, <2>3, <2>4 DEF Next
<1> QED BY <1>1, <1>2

-----------------------------------------------------------------------------
(***************************************************************************)
(* Two open connections never share a descriptor, and every response part  *)
(* belongs to a request in service: with ReplyRouting, inductive.          *)
(***************************************************************************)
FdExclusive ==
  \A c, d \in Conn : sock[c] = "open" /\ sock[d] = "open" /\ fdOf[c] = fdOf[d] => c = d

OutInv ==
  \A c \in Conn : \A i \in 1..Len(out[c]) :
    Accepted(c) /\ rst[out[c][i].req] \in Handled

RoutingInv == FdExclusive /\ OutInv /\ ReplyRouting

LEMMA InitRoutingInv == Init => RoutingInv
  BY DEF Init, RoutingInv, FdExclusive, OutInv, ReplyRouting

LEMMA NextFdExclusive == ASSUME IndInv, FdExclusive, [Next]_vars PROVE FdExclusive'
<1> USE DEF vars, mainVars, peerVars, portVars, worldVars, outVars, reqVars, dataVars,
           disconnect, LoginSession, Count, Uncount
<1>1. ASSUME NEW c \in Conn, NEW f \in Fd, Accept(c, f) PROVE FdExclusive'
  BY <1>1 DEF Accept, FreeFd, FdExclusive, IndInv, TypeOK
<1>2. CASE HeaderError
  BY <1>2 DEF HeaderError, FdExclusive, IndInv, TypeOK
<1>3. ASSUME NEW c \in Conn, ClientConnect(c) PROVE FdExclusive'
  BY <1>3 DEF ClientConnect, FdExclusive, IndInv, TypeOK
<1>4. CASE UNCHANGED <<sock, fdOf>>
  BY <1>4 DEF FdExclusive
<1> QED BY <1>1, <1>2, <1>3, <1>4
        DEF Next, vars, ClientNext, MainNext, Worker, ClientSendHeader, ClientSendBody,
            ClientRecv, ClientClose, ClientReset, KeepAliveReset, PeerReset, Select,
            AcceptFails, PickReady, ScanDone, ReadHeader, BodyError, HandleGarbled,
            HandleLogin, HandleQuery, RefuseQuery, RefusalSent, Message, Authenticate,
            LookupFails, Lookup, AcquireSendLock, WriteHeader, WriteBody

(***************************************************************************)
(* Only the two writes of sendResponse() touch what was sent: each appends *)
(* its own part to a connection its descriptor reaches, or nothing.        *)
(***************************************************************************)
Sends(r, half) ==
  \/ \E c \in Reaches(r) : out' = [out EXCEPT ![c] = Append(@, [half |-> half, req |-> r])]
  \/ out' = out

LEMMA OutChanges ==
  ASSUME [Next]_vars
  PROVE  \/ out' = out
         \/ \E r \in Req, half \in {"header", "body"} : rst[r] \in Handled /\ Sends(r, half)
<1> USE DEF vars, mainVars, peerVars, portVars, worldVars, outVars, reqVars, dataVars,
           disconnect, LoginSession, Count, Uncount
<1>1. ASSUME NEW r \in Req, WriteHeader(r) PROVE rst[r] \in Handled /\ Sends(r, "header")
  BY <1>1 DEF WriteHeader, Send, Sends, Handled
<1>2. ASSUME NEW r \in Req, WriteBody(r) PROVE rst[r] \in Handled /\ Sends(r, "body")
  BY <1>2 DEF WriteBody, Send, Sends, Handled
<1> QED BY <1>1, <1>2
        DEF Next, vars, ClientNext, MainNext, Worker, ClientConnect, ClientSendHeader,
            ClientSendBody, ClientRecv, ClientClose, ClientReset, KeepAliveReset, PeerReset,
            Select, AcceptFails, Accept, PickReady, ScanDone, ReadHeader, HeaderError,
            BodyError, HandleGarbled, HandleLogin, HandleQuery, RefuseQuery, RefusalSent,
            Message, Authenticate, LookupFails, Lookup, AcquireSendLock

(***************************************************************************)
(* A part that is on a connection after a step was there before it, or was *)
(* sent by a request whose descriptor reaches the connection.              *)
(***************************************************************************)
LEMMA NewParts ==
  ASSUME IndInv, [Next]_vars, NEW c \in Conn, NEW i \in 1..Len(out'[c])
  PROVE  \/ i \in 1..Len(out[c]) /\ out'[c][i] = out[c][i]
         \/ \E r \in Req : rst[r] \in Handled /\ c \in Reaches(r) /\ out'[c][i].req = r
<1>1. CASE out' = out
  BY <1>1
<1>2. ASSUME NEW r \in Req, NEW half \in {"header", "body"}, rst[r] \in Handled, Sends(r, half),
             out' # out
      PROVE  \/ i \in 1..Len(out[c]) /\ out'[c][i] = out[c][i]
             \/ rst[r] \in Handled /\ c \in Reaches(r) /\ out'[c][i].req = r
  <2> DEFINE x == [half |-> half, req |-> r]
  <2>1. x \in Part /\ x.req = r
    BY DEF Part
  <2>2. PICK d \in Reaches(r) : out' = [out EXCEPT ![d] = Append(@, x)]
    BY <1>2 DEF Sends
  <2> HIDE DEF x
  <2>3. d \in Conn /\ out \in [Conn -> Seq(Part)]
    BY DEF Reaches, IndInv, TypeOK
  <2>4. CASE c # d
    BY <2>2, <2>3, <2>4
  <2>5. CASE c = d
    <3>1. out'[c] = Append(out[c], x) /\ out[c] \in Seq(Part)
      BY <2>2, <2>3, <2>5
    <3>2. Len(out[c]) \in Nat
      BY <3>1
    <3>3. /\ Len(out'[c]) = Len(out[c]) + 1
          /\ \A j \in 1..Len(out[c]) : out'[c][j] = out[c][j]
          /\ out'[c][Len(out[c]) + 1] = x
      BY <3>1, <2>1, AppendElements
    <3> QED BY <1>2, <2>1, <2>5, <3>2, <3>3
  <2> QED BY <2>4, <2>5
<1> QED BY <1>1, <1>2, OutChanges

LEMMA NextRoutingInv == ASSUME IndInv, RoutingInv, [Next]_vars PROVE RoutingInv'
<1>1. FdExclusive'
  BY NextFdExclusive DEF RoutingInv
<1>2. ASSUME NEW c \in Conn, NEW i \in 1..Len(out'[c])
      PROVE  /\ sock'[c] \in {"open", "closed"}
             /\ rst'[out'[c][i].req] \in Handled
             /\ LET d == rconn'[out'[c][i].req]
                IN  d \in Conn /\ fdOf'[d] = fdOf'[c] /\ (d # c => sock'[d] = "closed")
  <2>1. CASE i \in 1..Len(out[c]) /\ out'[c][i] = out[c][i]
    <3>1. out[c][i] \in Part
      BY <2>1 DEF IndInv, TypeOK
    <3> DEFINE r == out[c][i].req
    <3>2. r \in Req
      BY <3>1 DEF Part
    <3>3. Accepted(c) /\ rst[r] \in Handled
      BY <2>1 DEF RoutingInv, OutInv
    <3>4. rconn[r] \in Conn /\ Accepted(rconn[r])
      BY <3>2, <3>3 DEF IndInv, RequestInv
    <3>5. fdOf[rconn[r]] = fdOf[c] /\ (rconn[r] # c => sock[rconn[r]] = "closed")
      BY <2>1 DEF RoutingInv, ReplyRouting
    <3>6. RequestStays(r) /\ PortStays(c) /\ PortStays(rconn[r])
      BY <3>2, <3>3, <3>4, StepStable
    <3> HIDE DEF r
    <3>7. out'[c][i].req = r
      BY <2>1 DEF r
    <3> QED BY <3>4, <3>5, <3>6, <3>7 DEF RequestStays, PortStays
  <2>2. ASSUME NEW r \in Req, rst[r] \in Handled, c \in Reaches(r), out'[c][i].req = r
        PROVE  /\ sock'[c] \in {"open", "closed"}
               /\ rst'[r] \in Handled
               /\ rconn'[r] \in Conn /\ fdOf'[rconn'[r]] = fdOf'[c]
               /\ rconn'[r] # c => sock'[rconn'[r]] = "closed"
    <3>1. sock[c] = "open" /\ Accepted(c) /\ fdOf[c] = fdOf[rconn[r]]
      BY <2>2 DEF Reaches, Accepted
    <3>2. rconn[r] \in Conn /\ Accepted(rconn[r])
      BY <2>2 DEF IndInv, RequestInv
    <3>3. rconn[r] # c => sock[rconn[r]] = "closed"
      BY <3>1, <3>2 DEF RoutingInv, FdExclusive, Accepted
    <3>4. RequestStays(r) /\ PortStays(c) /\ PortStays(rconn[r])
      BY <2>2, <3>1, <3>2, StepStable
    <3> QED BY <3>1, <3>2, <3>3, <3>4 DEF RequestStays, PortStays
  <2> QED BY <2>1, <2>2, NewParts
<1>3. OutInv' /\ ReplyRouting'
  BY <1>2 DEF OutInv, ReplyRouting, Accepted
<1> QED BY <1>1, <1>3 DEF RoutingInv

(***************************************************************************)
(* A response reaches the connection its request came from, or one that    *)
(* was given the same descriptor after that connection was closed.         *)
(***************************************************************************)
THEOREM RepliesRouted == Spec => []ReplyRouting
<1>1. Init => IndInv /\ RoutingInv
  BY InitIndInv, InitRoutingInv
<1>2. IndInv /\ RoutingInv /\ [Next]_vars => (IndInv /\ RoutingInv)'
  BY NextIndInv, NextRoutingInv
<1>3. IndInv /\ RoutingInv => ReplyRouting
  BY DEF RoutingInv
<1> QED BY <1>1, <1>2, <1>3, PTL DEF Spec

-----------------------------------------------------------------------------
(***************************************************************************)
(* Sessions.  A lookup runs only for a descriptor on which a login was     *)
(* granted, and a login carries an account.                                *)
(***************************************************************************)
LookupLoggedIn == \A r \in Req : rst[r] = "lookup" => GrantedOn(fdOf[rconn[r]]) # {}

LoginAccount ==
  \A r \in Req : /\ rst[r] = "auth" => rkind[r] = "login"
                 /\ rst[r] # "unsent" /\ rkind[r] = "login" => racct[r] \in Account

SessionInv == LookupLoggedIn /\ LoginAccount /\ SessionProvenance /\ LoginPromise

LEMMA InitSessionInv == Init => SessionInv
  BY DEF Init, SessionInv, LookupLoggedIn, LoginAccount, SessionProvenance, LoginPromise

LEMMA GrantedGrows ==
  ASSUME IndInv, [Next]_vars, NEW f, NEW r \in GrantedOn(f), fdOf[rconn[r]] = f
  PROVE  r \in GrantedOn(f)' /\ racct'[r] = racct[r]
<1>1. r \in Req /\ r \in granted /\ rst[r] \in Handled
  BY DEF GrantedOn, IndInv, TypeOK, RequestInv
<1>2. rconn[r] \in Conn /\ Accepted(rconn[r])
  BY <1>1 DEF IndInv, RequestInv
<1>3. RequestStays(r) /\ PortStays(rconn[r])
  BY <1>1, <1>2, StepStable
<1>4. r \in granted'
  BY <1>1 DEF vars, mainVars, peerVars, portVars, worldVars, outVars, reqVars, dataVars,
           disconnect, LoginSession, Count, Uncount,
              Next, vars, ClientNext, MainNext, Worker, ClientConnect, ClientSendHeader,
              ClientSendBody, ClientRecv, ClientClose, ClientReset, KeepAliveReset,
              PeerReset, Select, AcceptFails, Accept, PickReady, ScanDone, ReadHeader,
              HeaderError, BodyError, HandleGarbled, HandleLogin, HandleQuery, RefuseQuery,
              RefusalSent, Message, Authenticate, LookupFails, Lookup, AcquireSendLock,
              WriteHeader, WriteBody
<1> QED BY <1>3, <1>4 DEF GrantedOn, RequestStays, PortStays

(***************************************************************************)
(* The steps that change the sessions: a disconnect empties that of the    *)
(* port it closes, a granted login sets its own, a lookup replaces one     *)
(* that is gone by the empty name.                                         *)
(***************************************************************************)
LEMMA SessionChanges ==
  ASSUME IndInv, [Next]_vars
  PROVE  \/ session' = session /\ granted' = granted
         \/ HeaderError
         \/ \E r \in Req : /\ rst[r] = "auth" /\ granted' = granted \cup {r}
                           /\ session' = [session EXCEPT ![fdOf[rconn[r]]] = racct[r]]
         \/ \E r \in Req, n \in Names :
              /\ rst[r] = "lookup" /\ granted' = granted
              /\ session' = [session EXCEPT ![fdOf[rconn[r]]] = n]
              /\ n \in {session[fdOf[rconn[r]]], EmptyName}
<1> USE DEF vars, mainVars, peerVars, portVars, worldVars, outVars, reqVars, dataVars,
           disconnect, LoginSession, Count, Uncount
<1>1. ASSUME NEW r \in Req, NEW m \in Matches, Lookup(r, m)
      PROVE  \E n \in Names : /\ rst[r] = "lookup" /\ granted' = granted
                              /\ session' = [session EXCEPT ![fdOf[rconn[r]]] = n]
                              /\ n \in {session[fdOf[rconn[r]]], EmptyName}
  <2>1. fdOf[rconn[r]] \in Fd
    BY <1>1 DEF Lookup, IndInv, PortInv, RequestInv, Handled, Accepted, TypeOK
  <2>2. (IF session[fdOf[rconn[r]]] = NoEntry THEN EmptyName ELSE session[fdOf[rconn[r]]]) \in Names
    BY <2>1 DEF IndInv, TypeOK, Names
  <2> QED BY <1>1, <2>2 DEF Lookup
<1>2. ASSUME NEW r \in Req, Authenticate(r)
      PROVE  \/ session' = session /\ granted' = granted
             \/ /\ rst[r] = "auth" /\ granted' = granted \cup {r}
                /\ session' = [session EXCEPT ![fdOf[rconn[r]]] = racct[r]]
  BY <1>2 DEF Authenticate
<1> QED BY <1>1, <1>2
        DEF Next, vars, ClientNext, MainNext, Worker, ClientConnect, ClientSendHeader,
            ClientSendBody, ClientRecv, ClientClose, ClientReset, KeepAliveReset, PeerReset,
            Select, AcceptFails, Accept, PickReady, ScanDone, ReadHeader, BodyError,
            HandleGarbled, HandleLogin, HandleQuery, RefuseQuery, RefusalSent, Message,
            LookupFails, AcquireSendLock, WriteHeader, WriteBody

LEMMA NextProvenance ==
  ASSUME IndInv, SessionInv, [Next]_vars PROVE SessionProvenance'
<1> SUFFICES ASSUME NEW f \in Fd, session'[f] # NoEntry
             PROVE  \E q \in GrantedOn(f)' : session'[f] \in {racct'[q], EmptyName}
  BY DEF SessionProvenance
<1>1. CASE session'[f] = session[f]
  <2>1. PICK q \in GrantedOn(f) : session[f] \in {racct[q], EmptyName}
    BY <1>1 DEF SessionInv, SessionProvenance
  <2>2. q \in GrantedOn(f)' /\ racct'[q] = racct[q]
    BY <2>1, GrantedGrows DEF GrantedOn
  <2> QED BY <1>1, <2>1, <2>2
<1>2. CASE HeaderError
  BY <1>1, <1>2 DEF HeaderError, disconnect, IndInv, TypeOK
<1>3. ASSUME NEW r \in Req, rst[r] = "auth", granted' = granted \cup {r},
             session' = [session EXCEPT ![fdOf[rconn[r]]] = racct[r]], session'[f] # session[f]
      PROVE  \E q \in GrantedOn(f)' : session'[f] \in {racct'[q], EmptyName}
  <2>1. f = fdOf[rconn[r]] /\ session'[f] = racct[r]
    BY <1>3 DEF IndInv, TypeOK
  <2>2. rconn[r] \in Conn /\ Accepted(rconn[r]) /\ rst[r] \in Handled
    BY <1>3 DEF IndInv, RequestInv, Handled
  <2>3. RequestStays(r) /\ PortStays(rconn[r])
    BY <2>2, StepStable
  <2>4. r \in GrantedOn(f)' /\ racct'[r] = racct[r]
    BY <1>3, <2>1, <2>3 DEF GrantedOn, RequestStays, PortStays
  <2> QED BY <2>1, <2>4
<1>4. ASSUME NEW r \in Req, NEW n \in Names, rst[r] = "lookup",
             session' = [session EXCEPT ![fdOf[rconn[r]]] = n],
             n \in {session[fdOf[rconn[r]]], EmptyName}, session'[f] # session[f]
      PROVE  \E q \in GrantedOn(f)' : session'[f] \in {racct'[q], EmptyName}
  <2>1. f = fdOf[rconn[r]] /\ session'[f] = EmptyName
    BY <1>4 DEF IndInv, TypeOK
  <2>2. PICK q \in GrantedOn(f) : TRUE
    BY <1>4, <2>1 DEF SessionInv, LookupLoggedIn
  <2>3. q \in GrantedOn(f)'
    BY <2>2, GrantedGrows DEF GrantedOn
  <2> QED BY <2>1, <2>3
<1> QED BY <1>1, <1>2, <1>3, <1>4, SessionChanges

LEMMA NextLookupLoggedIn ==
  ASSUME IndInv, SessionInv, [Next]_vars PROVE LookupLoggedIn'
<1> USE DEF vars, mainVars, peerVars, portVars, worldVars, outVars, reqVars, dataVars,
           disconnect, LoginSession, Count, Uncount
<1> SUFFICES ASSUME NEW r \in Req, rst'[r] = "lookup"
             PROVE  \E q \in granted' : fdOf'[rconn'[q]] = fdOf'[rconn'[r]]
  BY DEF LookupLoggedIn, GrantedOn
<1>1. CASE rst[r] = "lookup"
  <2>1. rconn[r] \in Conn /\ Accepted(rconn[r]) /\ rst[r] \in Handled
    BY <1>1 DEF IndInv, RequestInv, Handled
  <2>2. PICK f \in Fd : f = fdOf[rconn[r]]
    BY <2>1 DEF IndInv, PortInv
  <2>3. RequestStays(r) /\ PortStays(rconn[r])
    BY <2>1, StepStable
  <2>4. PICK q \in GrantedOn(f) : TRUE
    BY <1>1, <2>2 DEF SessionInv, LookupLoggedIn
  <2>5. q \in GrantedOn(f)'
    BY <2>4, GrantedGrows DEF GrantedOn
  <2> QED BY <2>2, <2>3, <2>5 DEF GrantedOn, RequestStays, PortStays
<1>2. CASE HandleQuery /\ r = mreq
  <2>1. mconn \in Conn /\ Accepted(mconn) /\ rconn[r] = mconn
    BY <1>2 DEF HandleQuery, Message, IndInv, PortInv, MainInv, Accepted
  <2>2. PICK f \in Fd : f = fdOf[mconn]
    BY <2>1 DEF IndInv, PortInv
  <2>3. PICK q \in GrantedOn(f) : TRUE
    BY <1>2, <2>1, <2>2 DEF HandleQuery, LoggedIn, SessionInv, SessionProvenance
  <2>4. q \in GrantedOn(f)'
    BY <2>3, GrantedGrows DEF GrantedOn
  <2>5. rconn' = rconn /\ fdOf' = fdOf
    BY <1>2 DEF HandleQuery, Message
  <2> QED BY <2>1, <2>2, <2>4, <2>5 DEF GrantedOn
<1>3. rst[r] = "lookup" \/ (HandleQuery /\ r = mreq)
  <2> USE DEF IndInv, TypeOK
  <2>1. ASSUME NEW c \in Conn, NEW q \in Req, NEW k \in AllKinds,
               NEW a \in Account \cup {NoEntry}, ClientSendHeader(c, q, k, a)
        PROVE  rst[r] = "lookup"
    BY <2>1 DEF ClientSendHeader
  <2>2. ASSUME NEW q \in Req, ClientSendBody(q) PROVE rst[r] = "lookup"
    BY <2>2 DEF ClientSendBody
  <2>3. ASSUME NEW q \in Req, Worker(q) PROVE rst[r] = "lookup"
    BY <2>3 DEF Worker, Authenticate, LookupFails, Lookup, AcquireSendLock, WriteHeader,
                WriteBody
  <2>4. CASE MainNext
    BY <2>4 DEF MainNext, Select, AcceptFails, Accept, PickReady, ScanDone, ReadHeader,
                HeaderError, BodyError, HandleGarbled, HandleLogin, HandleQuery,
                RefuseQuery, RefusalSent, Message
  <2>5. CASE rst' = rst
    BY <2>5
  <2> QED BY <2>1, <2>2, <2>3, <2>4, <2>5
          DEF Next, vars, ClientNext, ClientConnect, ClientRecv, ClientClose, ClientReset,
              KeepAliveReset, PeerReset
<1> QED BY <1>1, <1>2, <1>3

LEMMA NextLoginAccount ==
  ASSUME IndInv, SessionInv, [Next]_vars PROVE LoginAccount'
<1> USE DEF vars, mainVars, peerVars, portVars, worldVars, outVars, reqVars, dataVars,
           disconnect, LoginSession, Count, Uncount,
            LoginAccount, SessionInv, IndInv, TypeOK
<1>1. ASSUME NEW c \in Conn, NEW q \in Req, NEW k \in AllKinds,
             NEW a \in Account \cup {NoEntry}, ClientSendHeader(c, q, k, a)
      PROVE  LoginAccount'
  BY <1>1, BoundAssumption DEF ClientSendHeader
<1>2. ASSUME NEW q \in Req, ClientSendBody(q) PROVE LoginAccount'
  BY <1>2 DEF ClientSendBody
<1>3. ASSUME NEW q \in Req, Worker(q) PROVE LoginAccount'
  BY <1>3 DEF Worker, Authenticate, LookupFails, Lookup, AcquireSendLock, WriteHeader, WriteBody
<1>4. CASE HandleLogin
  BY <1>4 DEF HandleLogin, Message, MainInv
<1>5. CASE HandleQuery \/ RefuseQuery
  BY <1>5 DEF HandleQuery, RefuseQuery, Message, MainInv
<1>6. CASE UNCHANGED <<rst, reqVars>>
  BY <1>6
<1> QED BY <1>1, <1>2, <1>3, <1>4, <1>5, <1>6
        DEF Next, vars, ClientNext, MainNext, ClientConnect, ClientRecv, ClientClose,
            ClientReset, KeepAliveReset, PeerReset, Select, AcceptFails, Accept, PickReady,
            ScanDone, ReadHeader, HeaderError, BodyError, HandleGarbled, RefusalSent, Message

LEMMA NextLoginPromise ==
  ASSUME IndInv, FdExclusive, SessionInv, [Next]_vars PROVE LoginPromise'
<1> SUFFICES ASSUME NEW r \in granted', sock'[rconn'[r]] = "open"
             PROVE  session'[fdOf'[rconn'[r]]] # NoEntry
  BY DEF LoginPromise
<1>1. r \in Req /\ (r \in granted \/ rst[r] = "auth")
  BY SessionChanges DEF IndInv, TypeOK, HeaderError
<1>2. rst[r] \in Handled
  BY <1>1 DEF IndInv, RequestInv, Handled
<1>3. rconn[r] \in Conn /\ Accepted(rconn[r])
  BY <1>1, <1>2 DEF IndInv, RequestInv
<1>4. RequestStays(r) /\ PortStays(rconn[r])
  BY <1>1, <1>2, <1>3, StepStable
<1> DEFINE c == rconn[r]
<1>5. c \in Conn /\ rconn'[r] = c /\ fdOf'[c] = fdOf[c] /\ fdOf[c] \in Fd
  BY <1>3, <1>4 DEF RequestStays, PortStays, IndInv, PortInv
<1>6. sock[c] = "open" /\ sock'[c] = "open"
  BY <1>3, <1>4, <1>5 DEF PortStays, Accepted
<1>7. r \in granted => session[fdOf[c]] # NoEntry
  BY <1>6 DEF SessionInv, LoginPromise
<1> HIDE DEF c
<1>8. session'[fdOf[c]] # NoEntry
  <2>1. CASE session' = session /\ granted' = granted
    BY <1>7, <2>1
  <2>2. CASE HeaderError
    <3>1. mconn \in Conn /\ sock[mconn] = "open" /\ sock'[mconn] = "closed" /\ granted' = granted
      BY <2>2 DEF HeaderError, IndInv, PortInv, TypeOK
    <3>2. fdOf[mconn] # fdOf[c]
      BY <1>5, <1>6, <3>1 DEF FdExclusive
    <3> QED BY <1>5, <1>7, <2>2, <3>1, <3>2 DEF HeaderError, disconnect, IndInv, TypeOK
  <2>3. ASSUME NEW q \in Req, rst[q] = "auth", granted' = granted \cup {q},
               session' = [session EXCEPT ![fdOf[rconn[q]]] = racct[q]]
        PROVE  session'[fdOf[c]] # NoEntry
    <3>1. racct[q] # NoEntry
      BY <2>3, SentinelAssumption DEF SessionInv, LoginAccount
    <3>2. q = r => fdOf[rconn[q]] = fdOf[c]
      BY DEF c
    <3> QED BY <1>5, <1>7, <2>3, <3>1, <3>2 DEF IndInv, TypeOK
  <2>4. ASSUME NEW q \in Req, NEW n \in Names, rst[q] = "lookup", granted' = granted,
               session' = [session EXCEPT ![fdOf[rconn[q]]] = n]
        PROVE  session'[fdOf[c]] # NoEntry
    BY <1>5, <1>7, <2>4, SentinelAssumption DEF IndInv, TypeOK, Names
  <2> QED BY <2>1, <2>2, <2>3, <2>4, SessionChanges
<1> QED BY <1>5, <1>8

LEMMA SessionInvariant == Spec => [](IndInv /\ RoutingInv /\ SessionInv)
<1>1. Init => IndInv /\ RoutingInv /\ SessionInv
  BY InitIndInv, InitRoutingInv, InitSessionInv
<1>2. IndInv /\ RoutingInv /\ SessionInv /\ [Next]_vars => (IndInv /\ RoutingInv /\ SessionInv)'
  <2> SUFFICES ASSUME IndInv, RoutingInv, SessionInv, [Next]_vars
               PROVE  IndInv' /\ RoutingInv' /\ SessionInv'
    OBVIOUS
  <2>1. IndInv' /\ RoutingInv'
    BY NextIndInv, NextRoutingInv
  <2>2. FdExclusive
    BY DEF RoutingInv
  <2>3. SessionInv'
    BY <2>2, NextProvenance, NextLookupLoggedIn, NextLoginAccount, NextLoginPromise
       DEF SessionInv
  <2> QED BY <2>1, <2>3
<1> QED BY <1>1, <1>2, PTL DEF Spec

(***************************************************************************)
(* Nobody is logged in on a descriptor without a granted login on it, nor  *)
(* under a name nobody was granted there.                                  *)
(***************************************************************************)
THEOREM SessionsGranted == Spec => []SessionProvenance
<1>1. SessionInv => SessionProvenance
  BY DEF SessionInv
<1> QED BY SessionInvariant, <1>1, PTL

(***************************************************************************)
(* A granted login holds until its own connection is closed.               *)
(***************************************************************************)
THEOREM LoginsHold == Spec => []LoginPromise
<1>1. SessionInv => LoginPromise
  BY DEF SessionInv
<1> QED BY SessionInvariant, <1>1, PTL

=============================================================================
