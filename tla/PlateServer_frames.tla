--------------------------- MODULE PlateServer_frames --------------------------
(***************************************************************************)
(* Proofs about the messages of PlateServer, for every set of connections, *)
(* descriptors, requests and accounts.  FrameInv says how the parts of     *)
(* messages lie in the inboxes, and that the text main() waits for is that *)
(* of the length it read: handle() is called with a message that was sent  *)
(* whole, and once.  IntegrityInv says the same of the responses.  On      *)
(* "once" rest the two results about counters: that of the threads, and    *)
(* those of the statistics, which add up.                                  *)
(***************************************************************************)
EXTENDS PlateServer_proofs, FiniteSetTheorems

\* a connection that was not accepted has no number, one that sent was made
SentInv ==
  /\ \A c \in Conn : sock[c] = "none" => peer[c] = "none"
  /\ \A c \in Conn : sock[c] \in {"none", "pending"} => fdOf[c] = NoFd
  /\ \A r \in Req : rst[r] # "unsent" => rconn[r] \in Conn /\ sock[rconn[r]] # "none"

HeaderOf(r) == [half |-> "header", req |-> r]
BodyOf(r)   == [half |-> "body", req |-> r]

\* a text follows its length, which main() may have taken; it comes once
Bodies(c) ==
  \A n \in 1..Len(inbox[c]) : inbox[c][n].half = "body" =>
    /\ rst[inbox[c][n].req] = "sent"
    /\ n = 1 => mpc = "body" /\ mconn = c /\ mreq = inbox[c][n].req
    /\ n > 1 => inbox[c][n - 1].half = "header"
    /\ \A m \in 1..Len(inbox[c]) : inbox[c][m] = inbox[c][n] => m = n

\* a length is followed by its text, or the text is still to be sent
Headers(c) ==
  \A n \in 1..Len(inbox[c]) : inbox[c][n].half = "header" =>
    IF n < Len(inbox[c]) THEN inbox[c][n + 1] = BodyOf(inbox[c][n].req)
    ELSE rst[inbox[c][n].req] = "sending"

\* what is still to be sent continues what was sent last
Begun(c) ==
  peer[c] = "open" =>
    \A r \in Req : rst[r] = "sending" /\ rconn[r] = c =>
      IF Len(inbox[c]) = 0 THEN mpc = "body" /\ mconn = c /\ mreq = r
      ELSE inbox[c][Len(inbox[c])] = HeaderOf(r)

ResetEmpty(c) == peer[c] = "reset" => Len(inbox[c]) = 0

\* main() finds the text that belongs to the length it read
ReadingBody ==
  mpc = "body" =>
    IF Len(inbox[mconn]) = 0 THEN peer[mconn] = "open" => rst[mreq] = "sending"
    ELSE inbox[mconn][1] = BodyOf(mreq)

FrameInv ==
  Alive => /\ ReadingBody
           /\ \A c \in Conn : Bodies(c) /\ Headers(c) /\ Begun(c) /\ ResetEmpty(c)

StepSet == {"unsent", "sending", "sent", "auth", "lookup", "reply", "header", "body",
            "answered", "failed"}

-----------------------------------------------------------------------------
LEMMA SequenceLength ==
  ASSUME NEW S, NEW s \in Seq(S)
  PROVE  /\ Len(s) \in Nat
         /\ s = <<>> <=> Len(s) = 0
         /\ \A n \in 1..Len(s) : s[n] \in S
  OBVIOUS

LEMMA InitFrames == Init => SentInv /\ FrameInv
<1> SUFFICES ASSUME Init PROVE SentInv /\ FrameInv
  OBVIOUS
<1>1. SentInv
  BY DEF Init, SentInv
<1>2. \A c \in Conn : inbox[c] = <<>> /\ peer[c] = "none"
  BY DEF Init
<1>3. mpc = "select" /\ \A r \in Req : rst[r] = "unsent"
  BY DEF Init
<1>4. \A c \in Conn : Bodies(c) /\ Headers(c)
  BY <1>2 DEF Bodies, Headers
<1>5. \A c \in Conn : Begun(c) /\ ResetEmpty(c)
  BY <1>2 DEF Begun, ResetEmpty
<1> QED BY <1>1, <1>3, <1>4, <1>5 DEF FrameInv, ReadingBody

(***************************************************************************)
(* Only connecting, accepting and closing touch what SentInv says of ports.*)
(***************************************************************************)
LEMMA NextSentInv ==
  ASSUME IndInv, SentInv, [Next]_vars PROVE SentInv'
<1> USE DEF vars, mainVars, peerVars, portVars, worldVars, outVars, reqVars, dataVars
<1>1. ASSUME NEW c \in Conn, ClientConnect(c) PROVE SentInv'
  BY <1>1 DEF ClientConnect, SentInv, IndInv, TypeOK
<1>2. ASSUME NEW c \in Conn, NEW r \in Req, NEW k \in AllKinds, NEW a \in Account \cup {NoEntry},
             ClientSendHeader(c, r, k, a)
      PROVE  SentInv'
  BY <1>2 DEF ClientSendHeader, SentInv, IndInv, TypeOK
<1>3. ASSUME NEW r \in Req, ClientSendBody(r) PROVE SentInv'
  BY <1>3 DEF ClientSendBody, SentInv, IndInv, TypeOK
<1>4. ASSUME NEW c \in Conn, ClientClose(c) \/ (peer[c] # "none" /\ PeerReset(c))
      PROVE  SentInv'
  BY <1>4 DEF ClientClose, PeerReset, SentInv, IndInv, TypeOK
<1>5. ASSUME NEW c \in Conn, NEW f \in Fd, Accept(c, f) PROVE SentInv'
  BY <1>5 DEF Accept, SentInv, IndInv, TypeOK
<1>6. CASE HeaderError
  BY <1>6 DEF HeaderError, SentInv, IndInv, TypeOK, PortInv
<1>7. ASSUME NEW r \in Req, Worker(r) PROVE SentInv'
  BY <1>7 DEF Worker, Authenticate, LookupFails, Lookup, AcquireSendLock, WriteHeader,
     WriteBody, SentInv, IndInv, TypeOK
<1>8. CASE HandleLogin \/ HandleQuery \/ RefuseQuery
  BY <1>8 DEF HandleLogin, HandleQuery, RefuseQuery, Message, SentInv, IndInv, TypeOK, MainInv
<1>9. CASE UNCHANGED <<sock, fdOf, peer, rst, rconn>>
  BY <1>9 DEF SentInv
<1> QED BY <1>1, <1>2, <1>3, <1>4, <1>5, <1>6, <1>7, <1>8, <1>9
        DEF Next, ClientNext, MainNext, ClientRecv, ClientReset, KeepAliveReset, Select,
            AcceptFails, PickReady, ScanDone, ReadHeader, BodyError, HandleGarbled,
            RefusalSent, Message

-----------------------------------------------------------------------------
(***************************************************************************)
(* A step that leaves the inboxes, and main() in its reading, keeps the    *)
(* frames, if it sends nothing and opens no end that was open before.      *)
(***************************************************************************)
LEMMA FramesKept ==
  ASSUME IndInv, FrameInv, inbox' = inbox, rconn' = rconn, Alive' => Alive,
         mpc' = "body" <=> mpc = "body",
         mpc = "body" => mconn' = mconn /\ mreq' = mreq,
         \A r \in Req : rst[r] \in {"sending", "sent"} \/ rst'[r] \in {"sending", "sent"}
                          => rst'[r] = rst[r],
         \A c \in Conn : /\ peer'[c] = "open" => peer[c] = "open" \/ sock[c] = "none"
                         /\ peer'[c] = "reset" => peer[c] = "reset",
         \A r \in Req : rst[r] # "unsent" => rconn[r] \in Conn /\ sock[rconn[r]] # "none"
  PROVE  FrameInv'
<1> SUFFICES ASSUME Alive' PROVE /\ ReadingBody'
                                 /\ \A c \in Conn : Bodies(c)' /\ Headers(c)' /\ Begun(c)' /\ ResetEmpty(c)'
  BY DEF FrameInv
<1>1. /\ ReadingBody
      /\ \A c \in Conn : Bodies(c) /\ Headers(c) /\ Begun(c) /\ ResetEmpty(c)
  BY DEF FrameInv
<1>2. ASSUME NEW c \in Conn, NEW n \in 1..Len(inbox[c])
      PROVE  inbox[c][n].req \in Req
  <2>1. inbox[c] \in Seq(Part)
    BY DEF IndInv, TypeOK
  <2>2. inbox[c][n] \in Part
    BY <2>1, SequenceLength
  <2> QED BY <2>2 DEF Part
<1>3. ASSUME NEW c \in Conn PROVE Bodies(c)'
  BY <1>1, <1>2 DEF Bodies
<1>4. ASSUME NEW c \in Conn PROVE Headers(c)'
  BY <1>1, <1>2 DEF Headers, BodyOf
<1>5. ASSUME NEW c \in Conn PROVE Begun(c)'
  BY <1>1 DEF Begun, HeaderOf
<1>6. ASSUME NEW c \in Conn PROVE ResetEmpty(c)'
  BY <1>1 DEF ResetEmpty
<1>7. ReadingBody'
  BY <1>1 DEF ReadingBody, BodyOf, IndInv, MainInv, PortInv
<1> QED BY <1>3, <1>4, <1>5, <1>6, <1>7

(***************************************************************************)
(* The frames of a connection that a step leaves alone.                    *)
(***************************************************************************)
LEMMA FramesElsewhere ==
  ASSUME IndInv, NEW c \in Conn, Bodies(c), Headers(c), Begun(c), ResetEmpty(c),
         inbox'[c] = inbox[c], peer'[c] = peer[c],
         \A r \in Req : rst[r] # "unsent" /\ rconn[r] = c => rst'[r] = rst[r],
         \A r \in Req : rst'[r] = "sending" /\ rconn'[r] = c => rst[r] = "sending" /\ rconn[r] = c,
         mpc = "body" /\ mconn = c => mpc' = mpc /\ mconn' = mconn /\ mreq' = mreq
  PROVE  Bodies(c)' /\ Headers(c)' /\ Begun(c)' /\ ResetEmpty(c)'
<1>1. ASSUME NEW n \in 1..Len(inbox[c])
      PROVE  rst'[inbox[c][n].req] = rst[inbox[c][n].req]
  <2>1. inbox[c] \in Seq(Part)
    BY DEF IndInv, TypeOK
  <2>2. inbox[c][n] \in Part
    BY <2>1, SequenceLength
  <2> QED BY <2>2 DEF Part, IndInv, InboxInv
<1>2. Bodies(c)'
  BY <1>1 DEF Bodies
<1>3. Headers(c)'
  BY <1>1 DEF Headers, BodyOf
<1>4. Begun(c)'
  BY DEF Begun, HeaderOf
<1>5. ResetEmpty(c)'
  BY DEF ResetEmpty
<1> QED BY <1>2, <1>3, <1>4, <1>5

LEMMA FramesSendHeader ==
  ASSUME IndInv, FrameInv, SentInv, NEW d \in Conn, NEW r \in Req, NEW k \in AllKinds,
         NEW a \in Account \cup {NoEntry}, ClientSendHeader(d, r, k, a)
  PROVE  FrameInv'
<1> USE DEF mainVars, portVars, outVars, dataVars
<1>1. /\ peer[d] = "open" /\ rst[r] = "unsent" /\ Alive
      /\ ~ \E q \in Req : rst[q] = "sending" /\ rconn[q] = d
      /\ rst' = [rst EXCEPT ![r] = "sending"] /\ rconn' = [rconn EXCEPT ![r] = d]
      /\ inbox' = [inbox EXCEPT ![d] = Append(inbox[d], HeaderOf(r))]
      /\ mpc' = mpc /\ mconn' = mconn /\ mreq' = mreq /\ peer' = peer
  BY DEF ClientSendHeader, HeaderOf
<1>2. /\ ReadingBody
      /\ \A c \in Conn : Bodies(c) /\ Headers(c) /\ Begun(c) /\ ResetEmpty(c)
  BY <1>1 DEF FrameInv
<1>3. rst \in [Req -> StepSet] /\ rconn \in [Req -> Conn \cup {NoConn}]
      /\ inbox \in [Conn -> Seq(Part)]
  BY DEF IndInv, TypeOK, StepSet
<1>4. /\ rst'[r] = "sending" /\ rconn'[r] = d
      /\ \A q \in Req : q # r => rst'[q] = rst[q] /\ rconn'[q] = rconn[q]
  BY <1>1, <1>3
<1>5. HeaderOf(r) \in Part
  BY DEF HeaderOf, Part
<1>6. PICK s \in Seq(Part) : s = inbox[d]
  BY <1>3
<1>7. PICK t \in Seq(Part) : t = inbox'[d] /\ t = Append(s, HeaderOf(r))
  BY <1>1, <1>3, <1>5, <1>6, AppendElements
<1>8. /\ Len(s) \in Nat /\ Len(t) = Len(s) + 1 /\ t[Len(s) + 1] = HeaderOf(r)
      /\ \A n \in 1..Len(s) : t[n] = s[n] /\ s[n] \in Part
  BY <1>5, <1>6, <1>7, AppendElements, SequenceLength
<1>9. ASSUME NEW n \in 1..Len(s)
      PROVE  s[n].req # r /\ s[n].req \in Req /\ rconn[s[n].req] = d
  BY <1>1, <1>6, <1>8 DEF IndInv, InboxInv, Part
<1>10. ASSUME NEW n \in 1..Len(s), s[n].half = "header" PROVE n < Len(s)
  BY <1>1, <1>2, <1>6, <1>8, <1>9, <1>10 DEF Headers
<1>11. Bodies(d)'
  <2>1. ASSUME NEW n \in 1..Len(t), t[n].half = "body"
        PROVE  /\ n \in 1..Len(s) /\ t[n] = s[n] /\ rst'[s[n].req] = rst[s[n].req]
               /\ n > 1 => n - 1 \in 1..Len(s) /\ t[n - 1] = s[n - 1]
               /\ \A m \in 1..Len(t) : t[m] = t[n] => m \in 1..Len(s) /\ t[m] = s[m]
    <3>1. n # Len(s) + 1
      BY <1>8, <2>1 DEF HeaderOf
    <3>2. n \in 1..Len(s)
      BY <1>8, <3>1
    <3>3. \A m \in 1..Len(t) : t[m] = t[n] => m # Len(s) + 1
      BY <1>8, <2>1 DEF HeaderOf
    <3>4. \A m \in 1..Len(t) : m # Len(s) + 1 => m \in 1..Len(s)
      BY <1>8
    <3>5. n > 1 => n - 1 \in 1..Len(s)
      BY <1>8, <3>2
    <3> QED BY <1>4, <1>8, <1>9, <3>2, <3>3, <3>4, <3>5
  <2>2. Bodies(d)
    BY <1>2
  <2> QED BY <1>1, <1>6, <1>7, <2>1, <2>2 DEF Bodies
<1>12. Headers(d)'
  <2>1. ASSUME NEW n \in 1..Len(t), t[n].half = "header"
        PROVE  IF n < Len(t) THEN t[n + 1] = BodyOf(t[n].req) ELSE rst'[t[n].req] = "sending"
    <3>1. CASE n = Len(s) + 1
      BY <1>4, <1>8, <3>1 DEF HeaderOf
    <3>2. CASE n # Len(s) + 1
      <4>1. n \in 1..Len(s) /\ t[n] = s[n]
        BY <1>8, <3>2
      <4>2. n < Len(s)
        BY <1>10, <2>1, <4>1
      <4>3. s[n + 1] = BodyOf(s[n].req) /\ n + 1 \in 1..Len(s) /\ n < Len(t)
        BY <1>2, <1>6, <1>8, <2>1, <4>1, <4>2 DEF Headers
      <4> QED BY <1>8, <4>1, <4>3
    <3> QED BY <3>1, <3>2
  <2> QED BY <1>7, <2>1 DEF Headers, BodyOf
<1>13. Begun(d)'
  BY <1>1, <1>4, <1>7, <1>8 DEF Begun, HeaderOf
<1>14. ResetEmpty(d)'
  BY <1>1 DEF ResetEmpty
<1>15. ASSUME NEW c \in Conn, c # d
       PROVE  Bodies(c)' /\ Headers(c)' /\ Begun(c)' /\ ResetEmpty(c)'
  <2>1. inbox'[c] = inbox[c]
    BY <1>1, <1>3, <1>15
  <2> QED BY <1>1, <1>2, <1>4, <1>15, <2>1, FramesElsewhere
<1>16. ReadingBody'
  <2> SUFFICES ASSUME mpc = "body"
               PROVE  IF Len(inbox'[mconn]) = 0 THEN peer[mconn] = "open" => rst'[mreq] = "sending"
                      ELSE inbox'[mconn][1] = BodyOf(mreq)
    BY <1>1 DEF ReadingBody, BodyOf
  <2>1. mreq \in Req /\ mreq # r /\ rconn[mreq] = mconn /\ mconn \in Conn
    BY <1>1 DEF IndInv, MainInv, PortInv
  <2>2. CASE mconn = d
    <3>1. Len(s) # 0
      BY <1>1, <1>2, <1>6, <2>1, <2>2 DEF ReadingBody
    <3>2. s[1] = BodyOf(mreq)
      BY <1>2, <1>6, <2>2, <3>1 DEF ReadingBody
    <3>3. 1 \in 1..Len(s) /\ Len(t) # 0
      BY <1>8, <3>1
    <3> QED BY <1>7, <1>8, <2>2, <3>2, <3>3
  <2>3. CASE mconn # d
    <3>1. inbox'[mconn] = inbox[mconn]
      BY <1>1, <1>3, <2>1, <2>3
    <3> QED BY <1>2, <1>4, <2>1, <3>1 DEF ReadingBody
  <2> QED BY <2>2, <2>3
<1> QED BY <1>11, <1>12, <1>13, <1>14, <1>15, <1>16 DEF FrameInv


LEMMA FramesSendBody ==
  ASSUME IndInv, FrameInv, SentInv, NEW r \in Req, ClientSendBody(r)
  PROVE  FrameInv'
<1> USE DEF mainVars, portVars, outVars, reqVars, dataVars
<1>0. PICK d \in Conn : d = rconn[r]
  BY DEF ClientSendBody, SentInv
<1>1. /\ peer[d] = "open" /\ rst[r] = "sending" /\ rconn[r] = d /\ Alive
      /\ rst' = [rst EXCEPT ![r] = "sent"] /\ rconn' = rconn
      /\ inbox' = [inbox EXCEPT ![d] = Append(inbox[d], BodyOf(r))]
      /\ mpc' = mpc /\ mconn' = mconn /\ mreq' = mreq /\ peer' = peer
  BY <1>0 DEF ClientSendBody, BodyOf
<1>2. /\ ReadingBody
      /\ \A c \in Conn : Bodies(c) /\ Headers(c) /\ Begun(c) /\ ResetEmpty(c)
  BY <1>1 DEF FrameInv
<1>3. rst \in [Req -> StepSet] /\ inbox \in [Conn -> Seq(Part)]
  BY DEF IndInv, TypeOK, StepSet
<1>4. rst'[r] = "sent" /\ \A q \in Req : q # r => rst'[q] = rst[q]
  BY <1>1, <1>3
<1>5. BodyOf(r) \in Part
  BY DEF BodyOf, Part
<1>6. PICK s \in Seq(Part) : s = inbox[d]
  BY <1>3
<1>7. PICK t \in Seq(Part) : t = inbox'[d] /\ t = Append(s, BodyOf(r))
  BY <1>1, <1>3, <1>5, <1>6, AppendElements
<1>8. /\ Len(s) \in Nat /\ Len(t) = Len(s) + 1 /\ t[Len(s) + 1] = BodyOf(r)
      /\ \A n \in 1..Len(s) : t[n] = s[n] /\ s[n] \in Part
  BY <1>5, <1>6, <1>7, AppendElements, SequenceLength
<1>9. IF Len(s) = 0 THEN mpc = "body" /\ mconn = d /\ mreq = r ELSE s[Len(s)] = HeaderOf(r)
  BY <1>1, <1>2, <1>6 DEF Begun
<1>10. ASSUME NEW n \in 1..Len(s), s[n].half = "body"
       PROVE  rst[s[n].req] = "sent" /\ s[n].req # r /\ s[n].req \in Req /\ s[n] # BodyOf(r)
  <2>1. rst[s[n].req] = "sent"
    BY <1>2, <1>6, <1>10 DEF Bodies
  <2> QED BY <1>1, <1>8, <1>10, <2>1 DEF Part, BodyOf
<1>11. Bodies(d)'
  <2>1. ASSUME NEW n \in 1..Len(t), t[n].half = "body"
        PROVE  /\ rst'[t[n].req] = "sent"
               /\ n = 1 => mpc = "body" /\ mconn = d /\ mreq = t[n].req
               /\ n > 1 => t[n - 1].half = "header"
               /\ \A m \in 1..Len(t) : t[m] = t[n] => m = n
    <3>1. CASE n = Len(s) + 1
      <4>1. t[n] = BodyOf(r) /\ t[n].req = r
        BY <1>8, <3>1 DEF BodyOf
      <4>2. n = 1 => Len(s) = 0
        BY <1>8, <3>1
      <4>3. n > 1 => n - 1 = Len(s) /\ Len(s) \in 1..Len(s) /\ Len(s) # 0
        BY <1>8, <3>1
      <4>4. n > 1 => t[n - 1].half = "header"
        BY <1>8, <1>9, <4>3 DEF HeaderOf
      <4>5. ASSUME NEW m \in 1..Len(t), t[m] = t[n] PROVE m = n
        <5>1. CASE m \in 1..Len(s)
          BY <1>8, <1>10, <4>1, <4>5, <5>1 DEF BodyOf
        <5>2. CASE m \notin 1..Len(s)
          BY <1>8, <3>1, <5>2
        <5> QED BY <5>1, <5>2
      <4> QED BY <1>4, <1>9, <4>1, <4>2, <4>4, <4>5
    <3>2. CASE n # Len(s) + 1
      <4>1. n \in 1..Len(s) /\ t[n] = s[n]
        BY <1>8, <3>2
      <4>2. rst'[t[n].req] = "sent" /\ t[n] # BodyOf(r)
        BY <1>4, <1>10, <2>1, <4>1
      <4>3. n > 1 => n - 1 \in 1..Len(s)
        BY <1>8, <4>1
      <4>4. /\ n = 1 => mpc = "body" /\ mconn = d /\ mreq = s[n].req
            /\ n > 1 => s[n - 1].half = "header"
            /\ \A m \in 1..Len(s) : s[m] = s[n] => m = n
        BY <1>2, <1>6, <2>1, <4>1 DEF Bodies
      <4>5. ASSUME NEW m \in 1..Len(t), t[m] = t[n] PROVE m = n
        <5>1. m # Len(s) + 1
          BY <1>8, <4>2, <4>5
        <5>2. m \in 1..Len(s)
          BY <1>8, <5>1
        <5> QED BY <1>8, <4>1, <4>4, <4>5, <5>2
      <4> QED BY <1>8, <4>1, <4>2, <4>3, <4>4, <4>5
    <3> QED BY <3>1, <3>2
  <2> QED BY <1>1, <1>7, <2>1 DEF Bodies
<1>12. Headers(d)'
  <2>1. ASSUME NEW n \in 1..Len(t), t[n].half = "header"
        PROVE  n < Len(t) /\ t[n + 1] = BodyOf(t[n].req)
    <3>1. n # Len(s) + 1
      BY <1>8, <2>1 DEF BodyOf
    <3>2. n \in 1..Len(s) /\ t[n] = s[n] /\ n < Len(t)
      BY <1>8, <3>1
    <3>3. CASE n = Len(s)
      BY <1>8, <1>9, <3>2, <3>3 DEF HeaderOf
    <3>4. CASE n # Len(s)
      <4>1. n < Len(s) /\ n + 1 \in 1..Len(s)
        BY <1>8, <3>2, <3>4
      <4>2. s[n + 1] = BodyOf(s[n].req)
        BY <1>2, <1>6, <2>1, <3>2, <4>1 DEF Headers
      <4> QED BY <1>8, <3>2, <4>1, <4>2
    <3> QED BY <3>3, <3>4
  <2> QED BY <1>7, <2>1 DEF Headers, BodyOf
<1>13. Begun(d)'
  <2> SUFFICES ASSUME NEW q \in Req, rst'[q] = "sending", rconn[q] = d PROVE FALSE
    BY <1>1 DEF Begun, HeaderOf
  <2>1. q # r /\ rst[q] = "sending"
    BY <1>4
  <2>2. IF Len(s) = 0 THEN mreq = q ELSE s[Len(s)] = HeaderOf(q)
    BY <1>1, <1>2, <1>6, <2>1 DEF Begun
  <2>3. HeaderOf(q) # HeaderOf(r)
    BY <2>1 DEF HeaderOf
  <2> QED BY <1>9, <2>1, <2>2, <2>3
<1>14. ResetEmpty(d)'
  BY <1>1 DEF ResetEmpty
<1>15. ASSUME NEW c \in Conn, c # d
       PROVE  Bodies(c)' /\ Headers(c)' /\ Begun(c)' /\ ResetEmpty(c)'
  <2>1. inbox'[c] = inbox[c]
    BY <1>1, <1>3, <1>15
  <2> QED BY <1>1, <1>2, <1>4, <1>15, <2>1, FramesElsewhere
<1>16. ReadingBody'
  <2> SUFFICES ASSUME mpc = "body"
               PROVE  IF Len(inbox'[mconn]) = 0 THEN peer[mconn] = "open" => rst'[mreq] = "sending"
                      ELSE inbox'[mconn][1] = BodyOf(mreq)
    BY <1>1 DEF ReadingBody, BodyOf
  <2>1. mreq \in Req /\ rconn[mreq] = mconn /\ mconn \in Conn
    BY <1>1 DEF IndInv, MainInv, PortInv
  <2>2. CASE mconn = d
    <3>1. CASE Len(s) = 0
      <4>1. Len(t) # 0 /\ t[1] = BodyOf(r)
        BY <1>8, <3>1
      <4>2. inbox'[mconn] = t
        BY <1>7, <2>2
      <4>3. mreq = r
        BY <1>9, <3>1
      <4> QED BY <4>1, <4>2, <4>3
    <3>2. CASE Len(s) # 0
      <4>1. s[1] = BodyOf(mreq)
        BY <1>2, <1>6, <2>2, <3>2 DEF ReadingBody
      <4>2. 1 \in 1..Len(s) /\ Len(t) # 0
        BY <1>8, <3>2
      <4> QED BY <1>7, <1>8, <2>2, <4>1, <4>2
    <3> QED BY <3>1, <3>2
  <2>3. CASE mconn # d
    <3>1. inbox'[mconn] = inbox[mconn] /\ mreq # r
      BY <1>1, <1>3, <2>1, <2>3
    <3> QED BY <1>2, <1>4, <2>1, <3>1 DEF ReadingBody
  <2> QED BY <2>2, <2>3
<1> QED BY <1>11, <1>12, <1>13, <1>14, <1>15, <1>16 DEF FrameInv

LEMMA FramesReset ==
  ASSUME IndInv, FrameInv, NEW d \in Conn, PeerReset(d) PROVE FrameInv'
<1> USE DEF mainVars, portVars, worldVars, outVars, reqVars, dataVars
<1>1. /\ inbox' = [inbox EXCEPT ![d] = <<>>] /\ peer' = [peer EXCEPT ![d] = "reset"]
      /\ rst' = rst /\ rconn' = rconn /\ mpc' = mpc /\ mconn' = mconn /\ mreq' = mreq
  BY DEF PeerReset
<1>2. CASE Alive
  <2>1. /\ ReadingBody
        /\ \A c \in Conn : Bodies(c) /\ Headers(c) /\ Begun(c) /\ ResetEmpty(c)
    BY <1>2 DEF FrameInv
  <2>2. inbox'[d] = <<>> /\ peer'[d] = "reset"
    BY <1>1 DEF IndInv, TypeOK
  <2>3. Len(inbox'[d]) = 0
    BY <2>2
  <2>4. \A c \in Conn : c # d => inbox'[c] = inbox[c] /\ peer'[c] = peer[c]
    BY <1>1 DEF IndInv, TypeOK
  <2>5. Bodies(d)' /\ Headers(d)'
    BY <2>3 DEF Bodies, Headers
  <2>6. Begun(d)' /\ ResetEmpty(d)'
    BY <2>2, <2>3 DEF Begun, ResetEmpty
  <2>7. ASSUME NEW c \in Conn, c # d
        PROVE  Bodies(c)' /\ Headers(c)' /\ Begun(c)' /\ ResetEmpty(c)'
    BY <1>1, <2>1, <2>4, <2>7, FramesElsewhere
  <2>8. ReadingBody'
    BY <1>1, <2>1, <2>2, <2>3, <2>4 DEF ReadingBody, BodyOf, IndInv, PortInv
  <2> QED BY <2>5, <2>6, <2>7, <2>8 DEF FrameInv
<1>3. CASE ~Alive
  BY <1>1, <1>3 DEF FrameInv, Alive
<1> QED BY <1>2, <1>3


(***************************************************************************)
(* main() takes a length, and then the text that goes with it.             *)
(***************************************************************************)
LEMMA FramesReadHeader ==
  ASSUME IndInv, FrameInv, ReadHeader PROVE FrameInv'
<1> USE DEF portVars, worldVars, outVars, reqVars, dataVars
<1> SUFFICES ASSUME Alive' PROVE FrameInv'
  BY DEF FrameInv
<1>0. PICK d \in Conn : d = mconn
  BY DEF ReadHeader, IndInv, PortInv
<1>1. /\ mpc = "header" /\ mpc' = "body" /\ mconn = d /\ mconn' = d /\ inbox[d] # <<>>
      /\ mreq' = Head(inbox[d]).req /\ inbox' = [inbox EXCEPT ![d] = Tail(inbox[d])]
      /\ peer' = peer /\ rst' = rst /\ rconn' = rconn
  BY <1>0 DEF ReadHeader, Alive
<1>2. \A c \in Conn : Bodies(c) /\ Headers(c) /\ Begun(c) /\ ResetEmpty(c)
  BY <1>1 DEF FrameInv, Alive
<1>3. inbox \in [Conn -> Seq(Part)]
  BY DEF IndInv, TypeOK
<1>4. PICK s \in Seq(Part) : s = inbox[d] /\ s # <<>>
  BY <1>1, <1>3
<1>5. PICK t \in Seq(Part) : t = inbox'[d] /\ t = Tail(s)
  BY <1>1, <1>3, <1>4, TailElements
<1>6. /\ Len(s) \in Nat /\ Len(s) > 0 /\ Len(t) = Len(s) - 1
      /\ \A n \in 1..Len(t) : t[n] = s[n + 1] /\ n + 1 \in 1..Len(s)
      /\ s[1] \in Part /\ mreq' = s[1].req /\ 1 \in 1..Len(s)
  BY <1>1, <1>4, <1>5, TailElements
<1>7. s[1].half = "header"
  <2>1. s[1].half # "body"
    BY <1>1, <1>2, <1>4, <1>6 DEF Bodies
  <2> QED BY <1>6, <2>1 DEF Part
<1>8. IF 1 < Len(s) THEN s[2] = BodyOf(mreq') ELSE rst[mreq'] = "sending"
  <2>1. IF 1 < Len(s) THEN s[1 + 1] = BodyOf(s[1].req) ELSE rst[s[1].req] = "sending"
    BY <1>2, <1>4, <1>6, <1>7 DEF Headers
  <2> QED BY <1>6, <2>1
<1>9. Bodies(d)'
  <2>1. ASSUME NEW n \in 1..Len(t), t[n].half = "body"
        PROVE  /\ rst[t[n].req] = "sent"
               /\ n = 1 => mreq' = t[n].req
               /\ n > 1 => t[n - 1].half = "header"
               /\ \A m \in 1..Len(t) : t[m] = t[n] => m = n
    <3>1. /\ n + 1 > 1 /\ n + 1 \in 1..Len(s) /\ t[n] = s[n + 1]
          /\ (n + 1) - 1 = n /\ n \in 1..Len(s)
      BY <1>6
    <3>2. /\ rst[s[n + 1].req] = "sent" /\ s[n].half = "header"
          /\ \A m \in 1..Len(s) : s[m] = s[n + 1] => m = n + 1
      BY <1>2, <1>4, <2>1, <3>1 DEF Bodies
    <3>3. n = 1 => mreq' = t[n].req
      BY <1>6, <1>8, <3>1 DEF BodyOf
    <3>4. n > 1 => n - 1 \in 1..Len(t) /\ (n - 1) + 1 = n
      BY <1>6
    <3>5. n > 1 => t[n - 1] = s[n]
      BY <1>6, <3>4
    <3>6. ASSUME NEW m \in 1..Len(t), t[m] = t[n] PROVE m = n
      <4>1. m + 1 = n + 1
        BY <1>6, <3>1, <3>2, <3>6
      <4> QED BY <4>1
    <3> QED BY <3>1, <3>2, <3>3, <3>5, <3>6
  <2>2. inbox'[d] = t /\ mpc' = "body" /\ mconn' = d /\ rst' = rst
    BY <1>1, <1>5
  <2> QED BY <2>1, <2>2 DEF Bodies
<1>10. Headers(d)'
  <2>1. ASSUME NEW n \in 1..Len(t), t[n].half = "header"
        PROVE  IF n < Len(t) THEN t[n + 1] = BodyOf(t[n].req) ELSE rst[t[n].req] = "sending"
    <3>1. n + 1 \in 1..Len(s) /\ t[n] = s[n + 1] /\ (n < Len(t) <=> n + 1 < Len(s))
      BY <1>6
    <3>2. IF n + 1 < Len(s) THEN s[(n + 1) + 1] = BodyOf(s[n + 1].req)
          ELSE rst[s[n + 1].req] = "sending"
      BY <1>2, <1>4, <2>1, <3>1 DEF Headers
    <3>3. n < Len(t) => n + 1 \in 1..Len(t)
      BY <1>6
    <3>4. n < Len(t) => t[n + 1] = s[(n + 1) + 1]
      BY <1>6, <3>3
    <3> QED BY <3>1, <3>2, <3>4
  <2> QED BY <1>1, <1>5, <2>1 DEF Headers, BodyOf
<1>11. Begun(d)'
  <2> SUFFICES ASSUME peer[d] = "open", NEW q \in Req, rst[q] = "sending", rconn[q] = d
               PROVE  IF Len(t) = 0 THEN mreq' = q ELSE t[Len(t)] = HeaderOf(q)
    BY <1>1, <1>5 DEF Begun, HeaderOf
  <2>1. s[Len(s)] = HeaderOf(q)
    BY <1>2, <1>4, <1>6 DEF Begun
  <2>2. CASE Len(t) = 0
    <3>1. Len(s) = 1
      BY <1>6, <2>2
    <3>2. s[1] = HeaderOf(q)
      BY <2>1, <3>1
    <3> QED BY <1>6, <2>2, <3>2 DEF HeaderOf
  <2>3. CASE Len(t) # 0
    <3>1. Len(t) \in 1..Len(t) /\ Len(t) + 1 = Len(s)
      BY <1>6, <2>3
    <3> QED BY <1>6, <2>1, <2>3, <3>1
  <2> QED BY <2>2, <2>3
<1>12. ResetEmpty(d)'
  BY <1>1, <1>2, <1>4, <1>6 DEF ResetEmpty
<1>13. ASSUME NEW c \in Conn, c # d
       PROVE  Bodies(c)' /\ Headers(c)' /\ Begun(c)' /\ ResetEmpty(c)'
  <2>1. inbox'[c] = inbox[c]
    BY <1>1, <1>3, <1>13
  <2> QED BY <1>1, <1>2, <1>13, <2>1, FramesElsewhere
<1>14. ReadingBody'
  <2>1. CASE ~ (1 < Len(s))
    <3>1. rst[mreq'] = "sending"
      BY <1>8, <2>1
    <3>2. Len(t) = 0
      BY <1>6, <2>1
    <3> QED BY <1>1, <1>5, <3>1, <3>2 DEF ReadingBody
  <2>2. CASE 1 < Len(s)
    <3>1. Len(t) # 0 /\ 1 \in 1..Len(t) /\ 1 + 1 = 2
      BY <1>6, <2>2
    <3>2. t[1] = BodyOf(mreq')
      BY <1>6, <1>8, <2>2, <3>1
    <3> QED BY <1>1, <1>5, <3>1, <3>2 DEF ReadingBody, BodyOf
  <2> QED BY <2>1, <2>2
<1> QED BY <1>9, <1>10, <1>11, <1>12, <1>13, <1>14 DEF FrameInv

\* what handle() is called with
LEMMA MessageWhole ==
  ASSUME IndInv, FrameInv, NEW k, Message(k)
  PROVE  /\ mconn \in Conn /\ sock[mconn] = "open"
         /\ mreq \in Req /\ rconn[mreq] = mconn /\ rst[mreq] = "sent"
         /\ inbox[mconn] \in Seq(Part) /\ inbox[mconn] # <<>> /\ inbox[mconn][1] = BodyOf(mreq)
<1>1. mpc = "body" /\ inbox[mconn] # <<>>
  BY DEF Message
<1>2. mconn \in Conn /\ sock[mconn] = "open" /\ mreq \in Req /\ rconn[mreq] = mconn
  BY <1>1 DEF IndInv, PortInv, MainInv
<1>3. inbox[mconn] \in Seq(Part)
  BY <1>2 DEF IndInv, TypeOK
<1>4. Len(inbox[mconn]) \in Nat /\ Len(inbox[mconn]) # 0
  BY <1>1, <1>3, SequenceLength
<1>5. ReadingBody /\ Bodies(mconn)
  BY <1>1, <1>2 DEF FrameInv, Alive
<1>6. inbox[mconn][1] = BodyOf(mreq)
  BY <1>1, <1>4, <1>5 DEF ReadingBody
<1>7. 1 \in 1..Len(inbox[mconn])
  BY <1>4
<1>8. rst[mreq] = "sent"
  BY <1>5, <1>6, <1>7 DEF Bodies, BodyOf
<1> QED BY <1>1, <1>2, <1>3, <1>6, <1>8


LEMMA FramesMessage ==
  ASSUME IndInv, FrameInv, NEW k, Message(k), NEW x, x \notin {"sending", "sent"},
         rst' = [rst EXCEPT ![mreq] = x], mpc' # "body"
  PROVE  FrameInv'
<1> USE DEF portVars, worldVars, outVars, reqVars, dataVars
<1>0. PICK d \in Conn : d = mconn
  BY MessageWhole
<1>1. /\ mpc = "body" /\ mconn = d /\ mconn' = d /\ mreq' = mreq /\ mreq \in Req
      /\ inbox' = [inbox EXCEPT ![d] = Tail(inbox[d])] /\ peer' = peer /\ rconn' = rconn
      /\ rconn[mreq] = d /\ rst[mreq] = "sent"
  BY <1>0, MessageWhole DEF Message
<1>2. \A c \in Conn : Bodies(c) /\ Headers(c) /\ Begun(c) /\ ResetEmpty(c)
  BY <1>1 DEF FrameInv, Alive
<1>3. inbox \in [Conn -> Seq(Part)] /\ rst \in [Req -> StepSet]
  BY DEF IndInv, TypeOK, StepSet
<1>4. rst'[mreq] = x /\ \A q \in Req : q # mreq => rst'[q] = rst[q]
  BY <1>1, <1>3
<1>5. PICK s \in Seq(Part) : s = inbox[d] /\ s # <<>> /\ s[1] = BodyOf(mreq)
  BY <1>0, MessageWhole
<1>6. PICK t \in Seq(Part) : t = inbox'[d] /\ t = Tail(s)
  BY <1>1, <1>3, <1>5, TailElements
<1>7. /\ Len(s) \in Nat /\ Len(s) > 0 /\ Len(t) = Len(s) - 1
      /\ \A n \in 1..Len(t) : t[n] = s[n + 1] /\ n + 1 \in 1..Len(s)
      /\ 1 \in 1..Len(s)
  BY <1>5, <1>6, TailElements
<1>8. \A n \in 1..Len(s) : s[n] \in Part
  BY SequenceLength
<1>9. s[1].half = "body" /\ \A n \in 1..Len(s) : s[n] = BodyOf(mreq) => n = 1
  <2>1. s[1].half = "body"
    BY <1>5 DEF BodyOf
  <2>2. \A n \in 1..Len(s) : s[n] = s[1] => n = 1
    BY <1>2, <1>5, <1>7, <2>1 DEF Bodies
  <2> QED BY <1>5, <2>1, <2>2
<1>10. Bodies(d)'
  <2>1. ASSUME NEW n \in 1..Len(t), t[n].half = "body"
        PROVE  /\ rst'[t[n].req] = "sent" /\ n # 1
               /\ n > 1 => t[n - 1].half = "header"
               /\ \A m \in 1..Len(t) : t[m] = t[n] => m = n
    <3>1. /\ n + 1 > 1 /\ n + 1 \in 1..Len(s) /\ t[n] = s[n + 1]
          /\ (n + 1) - 1 = n /\ n \in 1..Len(s)
      BY <1>7
    <3>2. /\ rst[s[n + 1].req] = "sent" /\ s[n].half = "header"
          /\ \A m \in 1..Len(s) : s[m] = s[n + 1] => m = n + 1
      BY <1>2, <1>5, <2>1, <3>1 DEF Bodies
    <3>3. n # 1
      BY <1>9, <3>2
    <3>4. n > 1 => n - 1 \in 1..Len(t) /\ (n - 1) + 1 = n
      BY <1>7
    <3>5. n > 1 => t[n - 1] = s[n]
      BY <1>7, <3>4
    <3>6. ASSUME NEW m \in 1..Len(t), t[m] = t[n] PROVE m = n
      <4>1. m + 1 = n + 1
        BY <1>7, <3>1, <3>2, <3>6
      <4> QED BY <4>1
    <3>7. s[n + 1] # BodyOf(mreq)
      <4>1. n + 1 # 1
        BY <3>1
      <4> QED BY <1>9, <3>1, <4>1
    <3>8. t[n].req \in Req /\ t[n].req # mreq
      BY <1>8, <2>1, <3>1, <3>7 DEF Part, BodyOf
    <3> QED BY <1>4, <3>1, <3>2, <3>3, <3>5, <3>6, <3>8
  <2>2. inbox'[d] = t
    BY <1>6
  <2>3. \A n \in 1..Len(t) : n # 1 \/ ~ (t[n].half = "body")
    BY <2>1
  <2> QED BY <2>1, <2>2, <2>3 DEF Bodies
<1>11. Headers(d)'
  <2>1. ASSUME NEW n \in 1..Len(t), t[n].half = "header"
        PROVE  IF n < Len(t) THEN t[n + 1] = BodyOf(t[n].req) ELSE rst'[t[n].req] = "sending"
    <3>1. n + 1 \in 1..Len(s) /\ t[n] = s[n + 1] /\ (n < Len(t) <=> n + 1 < Len(s))
      BY <1>7
    <3>2. IF n + 1 < Len(s) THEN s[(n + 1) + 1] = BodyOf(s[n + 1].req)
          ELSE rst[s[n + 1].req] = "sending"
      BY <1>2, <1>5, <2>1, <3>1 DEF Headers
    <3>3. n < Len(t) => n + 1 \in 1..Len(t)
      BY <1>7
    <3>4. n < Len(t) => t[n + 1] = s[(n + 1) + 1]
      BY <1>7, <3>3
    <3>5. s[n + 1].req \in Req
      BY <1>8, <3>1 DEF Part
    <3>6. rst[s[n + 1].req] = "sending" => rst'[s[n + 1].req] = "sending"
      BY <1>1, <1>4, <3>5
    <3> QED BY <3>1, <3>2, <3>4, <3>6
  <2>2. inbox'[d] = t
    BY <1>6
  <2> QED BY <2>1, <2>2 DEF Headers, BodyOf
<1>12. Begun(d)'
  <2> SUFFICES ASSUME peer[d] = "open", NEW q \in Req, rst'[q] = "sending", rconn[q] = d
               PROVE  Len(t) # 0 /\ t[Len(t)] = HeaderOf(q)
    BY <1>1, <1>6 DEF Begun, HeaderOf
  <2>1. rst[q] = "sending"
    BY <1>4
  <2>2. s[Len(s)] = HeaderOf(q)
    BY <1>2, <1>5, <1>7, <2>1 DEF Begun
  <2>3. Len(s) # 1
    BY <1>9, <2>2 DEF HeaderOf
  <2>4. Len(t) # 0 /\ Len(t) \in 1..Len(t) /\ Len(t) + 1 = Len(s)
    BY <1>7, <2>3
  <2> QED BY <1>7, <2>2, <2>4
<1>13. ResetEmpty(d)'
  BY <1>1, <1>2, <1>5, <1>7 DEF ResetEmpty
<1>14. ASSUME NEW c \in Conn, c # d
       PROVE  Bodies(c)' /\ Headers(c)' /\ Begun(c)' /\ ResetEmpty(c)'
  <2>1. inbox'[c] = inbox[c]
    BY <1>1, <1>3, <1>14
  <2>2. \A q \in Req : rst[q] # "unsent" /\ rconn[q] = c => rst'[q] = rst[q]
    BY <1>1, <1>4, <1>14
  <2>3. \A q \in Req : rst'[q] = "sending" /\ rconn'[q] = c => rst[q] = "sending" /\ rconn[q] = c
    BY <1>1, <1>4
  <2>4. ~ (mpc = "body" /\ mconn = c) /\ peer'[c] = peer[c]
    BY <1>1, <1>14
  <2> QED BY <1>2, <2>1, <2>2, <2>3, <2>4, FramesElsewhere
<1> QED BY <1>10, <1>11, <1>12, <1>13, <1>14 DEF FrameInv, ReadingBody

\* after a reset main() leaves the port without its text
LEMMA FramesBodyError ==
  ASSUME IndInv, FrameInv, BodyError PROVE FrameInv'
<1> USE DEF peerVars, portVars, worldVars, outVars, reqVars, dataVars
<1>1. /\ mpc = "body" /\ mpc' = "scan" /\ mconn \in Conn /\ peer[mconn] = "reset"
      /\ mconn' = mconn /\ mreq' = mreq /\ inbox' = inbox /\ peer' = peer /\ rst' = rst
      /\ rconn' = rconn
  BY DEF BodyError, IndInv, PortInv
<1>2. \A c \in Conn : Bodies(c) /\ Headers(c) /\ Begun(c) /\ ResetEmpty(c)
  BY <1>1 DEF FrameInv, Alive
<1>3. Len(inbox[mconn]) = 0
  BY <1>1, <1>2 DEF ResetEmpty
<1>4. Bodies(mconn)' /\ Headers(mconn)'
  BY <1>1, <1>3 DEF Bodies, Headers
<1>5. Begun(mconn)' /\ ResetEmpty(mconn)'
  BY <1>1, <1>3 DEF Begun, ResetEmpty
<1>6. ASSUME NEW c \in Conn, c # mconn
      PROVE  Bodies(c)' /\ Headers(c)' /\ Begun(c)' /\ ResetEmpty(c)'
  BY <1>1, <1>2, <1>6, FramesElsewhere
<1> QED BY <1>1, <1>4, <1>5, <1>6 DEF FrameInv, ReadingBody


LEMMA NextFrames ==
  ASSUME IndInv, SentInv, FrameInv, [Next]_vars PROVE FrameInv'
<1> USE DEF vars, mainVars, peerVars, portVars, worldVars, outVars, reqVars, dataVars
<1>0. /\ rst \in [Req -> StepSet] /\ peer \in [Conn -> {"none", "open", "fin", "reset"}]
      /\ \A r \in Req : rst[r] # "unsent" => rconn[r] \in Conn /\ sock[rconn[r]] # "none"
  BY DEF IndInv, TypeOK, StepSet, SentInv
<1>1. ASSUME NEW c \in Conn, ClientConnect(c) PROVE FrameInv'
  <2>1. /\ inbox' = inbox /\ rst' = rst /\ rconn' = rconn /\ sock[c] = "none"
        /\ mpc' = mpc /\ mconn' = mconn /\ mreq' = mreq /\ peer' = [peer EXCEPT ![c] = "open"]
    BY <1>1 DEF ClientConnect
  <2>2. \A e \in Conn : /\ peer'[e] = "open" => peer[e] = "open" \/ sock[e] = "none"
                        /\ peer'[e] = "reset" => peer[e] = "reset"
    BY <1>0, <2>1
  <2> QED BY <1>0, <2>1, <2>2, FramesKept DEF Alive
<1>2. ASSUME NEW c \in Conn, ClientClose(c) PROVE FrameInv'
  <2>1. /\ inbox' = inbox /\ rst' = rst /\ rconn' = rconn
        /\ mpc' = mpc /\ mconn' = mconn /\ mreq' = mreq /\ peer' = [peer EXCEPT ![c] = "fin"]
    BY <1>2 DEF ClientClose
  <2>2. \A e \in Conn : /\ peer'[e] = "open" => peer[e] = "open" \/ sock[e] = "none"
                        /\ peer'[e] = "reset" => peer[e] = "reset"
    BY <1>0, <2>1
  <2> QED BY <1>0, <2>1, <2>2, FramesKept DEF Alive
<1>3. ASSUME NEW r \in Req, Worker(r) PROVE FrameInv'
  <2>1. /\ inbox' = inbox /\ rconn' = rconn /\ peer' = peer
        /\ mpc' = mpc /\ mconn' = mconn /\ mreq' = mreq
        /\ rst[r] \notin {"sending", "sent"}
        /\ \E x \in StepSet \ {"sending", "sent"} : rst' = [rst EXCEPT ![r] = x]
    BY <1>3 DEF Worker, Authenticate, LookupFails, Lookup, AcquireSendLock, WriteHeader,
       WriteBody, StepSet
  <2>2. \A q \in Req : rst[q] \in {"sending", "sent"} \/ rst'[q] \in {"sending", "sent"}
                         => rst'[q] = rst[q]
    BY <1>0, <2>1
  <2> QED BY <1>0, <2>1, <2>2, FramesKept DEF Alive
<1>4. ASSUME UNCHANGED <<inbox, rst, rconn, peer, mconn, mreq>>, Alive' => Alive,
             mpc' = "body" <=> mpc = "body"
      PROVE  FrameInv'
  BY <1>0, <1>4, FramesKept
<1>5. CASE UNCHANGED vars
  BY <1>4, <1>5 DEF Alive
<1>6. ASSUME NEW c \in Conn, ClientRecv(c) PROVE FrameInv'
  BY <1>4, <1>6 DEF ClientRecv, Alive
<1>7. CASE Select \/ ScanDone \/ HeaderError \/ RefusalSent
  BY <1>4, <1>7 DEF Select, ScanDone, HeaderError, RefusalSent, Alive
<1>8. ASSUME NEW c \in Conn, PickReady(c) PROVE FrameInv'
  <2>1. /\ inbox' = inbox /\ rst' = rst /\ rconn' = rconn /\ peer' = peer
        /\ mpc = "scan" /\ mpc' = "header"
    BY <1>8 DEF PickReady
  <2> QED BY <1>0, <2>1, FramesKept DEF Alive
<1>9. ASSUME NEW c \in Conn, NEW f \in Fd, Accept(c, f) PROVE FrameInv'
  BY <1>4, <1>9 DEF Accept, Alive
<1>10. CASE AcceptFails
  BY <1>10 DEF AcceptFails, FrameInv, Alive
<1>11. CASE HandleGarbled
  BY <1>11 DEF HandleGarbled, FrameInv, Alive
<1>12. CASE HandleLogin \/ HandleQuery \/ RefuseQuery
  <2>1. PICK k : Message(k)
    BY <1>12 DEF HandleLogin, HandleQuery, RefuseQuery
  <2>2. PICK x \in {"auth", "lookup", "reply"} : rst' = [rst EXCEPT ![mreq] = x] /\ mpc' # "body"
    BY <1>12 DEF HandleLogin, HandleQuery, RefuseQuery
  <2>3. x \notin {"sending", "sent"}
    OBVIOUS
  <2> QED BY <2>1, <2>2, <2>3, FramesMessage
<1> QED BY <1>1, <1>2, <1>3, <1>5, <1>6, <1>7, <1>8, <1>9, <1>10, <1>11, <1>12,
           FramesSendHeader, FramesSendBody, FramesReset, FramesReadHeader, FramesBodyError
        DEF Next, ClientNext, MainNext, ClientReset, KeepAliveReset


(***************************************************************************)
(* The frames stay whole: main() calls handle() with the text of the length*)
(* it read, once for every message.                                        *)
(***************************************************************************)
LEMMA FramesInvariant == Spec => [](IndInv /\ SentInv /\ FrameInv)
<1>1. Init => IndInv /\ SentInv /\ FrameInv
  BY InitIndInv, InitFrames
<1>2. IndInv /\ SentInv /\ FrameInv /\ [Next]_vars => (IndInv /\ SentInv /\ FrameInv)'
  BY NextIndInv, NextSentInv, NextFrames
<1> QED BY <1>1, <1>2, PTL DEF Spec

-----------------------------------------------------------------------------
(***************************************************************************)
(* Whole responses.  Between its two writes a request holds send_lock_, and*)
(* the length it wrote is the last part on its own connection, unless the  *)
(* laptop is gone; a connection is closed only after a reset.              *)
(***************************************************************************)
HeaderPart(r) == [half |-> "header", req |-> r]
BodyPart(r)   == [half |-> "body", req |-> r]

LastIsHeader(c, r) == Len(out[c]) > 0 /\ out[c][Len(out[c])] = HeaderPart(r)

LockHeld == \A r \in Req : rst[r] \in {"header", "body"} => sendLock = r

ClosedByReset == \A c \in Conn : sock[c] = "closed" => peer[c] = "reset"

HeaderIsLast ==
  \A r \in Req : rst[r] = "body" /\ sock[rconn[r]] = "open" /\ peer[rconn[r]] = "open"
                   => LastIsHeader(rconn[r], r)

IntegrityInv == LockHeld /\ ClosedByReset /\ HeaderIsLast /\ FrameIntegrity

\* a step that neither writes nor ends a response
Quiet ==
  /\ out' = out
  /\ \A r \in Req : rst'[r] = "body" <=> rst[r] = "body"
  /\ sendLock # NoReq => sendLock' = sendLock
  /\ \A c \in Conn : Accepted(c) /\ peer[c] # "open" => peer'[c] # "open"

LEMMA InitIntegrity == Init => IntegrityInv
<1> SUFFICES ASSUME Init PROVE IntegrityInv
  OBVIOUS
<1>1. LockHeld /\ ClosedByReset /\ HeaderIsLast
  BY DEF Init, LockHeld, ClosedByReset, HeaderIsLast
<1>2. \A c \in Conn : out[c] = <<>>
  BY DEF Init
<1>3. FrameIntegrity
  BY <1>2 DEF FrameIntegrity
<1> QED BY <1>1, <1>3 DEF IntegrityInv

LEMMA NextLock ==
  ASSUME IndInv, LockHeld, ClosedByReset, [Next]_vars
  PROVE  LockHeld' /\ ClosedByReset'
<1> USE DEF vars, mainVars, peerVars, portVars, worldVars, outVars, reqVars, dataVars
<1>1. LockHeld'
  <2> USE DEF LockHeld, IndInv, TypeOK
  <2>1. ASSUME NEW q \in Req, Worker(q) PROVE LockHeld'
    BY <2>1, SentinelAssumption
       DEF Worker, Authenticate, LookupFails, Lookup, AcquireSendLock, WriteHeader, WriteBody
  <2>2. ASSUME NEW c \in Conn, NEW r \in Req, NEW k \in AllKinds,
               NEW a \in Account \cup {NoEntry}, ClientSendHeader(c, r, k, a)
        PROVE  LockHeld'
    BY <2>2 DEF ClientSendHeader
  <2>3. ASSUME NEW r \in Req, ClientSendBody(r) PROVE LockHeld'
    BY <2>3 DEF ClientSendBody
  <2>4. CASE HandleLogin \/ HandleQuery \/ RefuseQuery
    BY <2>4 DEF HandleLogin, HandleQuery, RefuseQuery, Message
  <2>5. CASE UNCHANGED <<rst, sendLock>>
    BY <2>5
  <2> QED BY <2>1, <2>2, <2>3, <2>4, <2>5
          DEF Next, ClientNext, MainNext, ClientConnect, ClientRecv, ClientClose, ClientReset,
              KeepAliveReset, PeerReset, Select, AcceptFails, Accept, PickReady, ScanDone,
              ReadHeader, HeaderError, BodyError, HandleGarbled, RefusalSent, Message
<1>2. ClosedByReset'
  <2> USE DEF ClosedByReset, IndInv, TypeOK
  <2>1. ASSUME NEW c \in Conn, ClientConnect(c) PROVE ClosedByReset'
    BY <2>1 DEF ClientConnect
  <2>2. ASSUME NEW c \in Conn, ClientClose(c) PROVE ClosedByReset'
    BY <2>2 DEF ClientClose
  <2>3. ASSUME NEW c \in Conn, PeerReset(c) PROVE ClosedByReset'
    BY <2>3 DEF PeerReset
  <2>4. ASSUME NEW c \in Conn, NEW f \in Fd, Accept(c, f) PROVE ClosedByReset'
    BY <2>4 DEF Accept
  <2>5. CASE HeaderError
    BY <2>5 DEF HeaderError
  <2>6. CASE UNCHANGED <<sock, peer>>
    BY <2>6
  <2> QED BY <2>1, <2>2, <2>3, <2>4, <2>5, <2>6
          DEF Next, ClientNext, MainNext, Worker, ClientSendHeader, ClientSendBody, ClientRecv,
              ClientReset, KeepAliveReset, Select, AcceptFails, PickReady, ScanDone,
              ReadHeader, BodyError, HandleGarbled, HandleLogin, HandleQuery, RefuseQuery,
              RefusalSent, Message, Authenticate, LookupFails, Lookup, AcquireSendLock,
              WriteHeader, WriteBody
<1> QED BY <1>1, <1>2

LEMMA QuietSteps ==
  ASSUME IndInv, FrameInv, [Next]_vars
  PROVE  Quiet \/ \E r \in Req : WriteHeader(r) \/ WriteBody(r)
<1> USE DEF vars, mainVars, peerVars, portVars, worldVars, outVars, reqVars, dataVars,
            Quiet, IndInv, TypeOK
<1>1. ASSUME NEW q \in Req,
             Authenticate(q) \/ LookupFails(q) \/ (\E m \in Matches : Lookup(q, m)) \/ AcquireSendLock(q)
      PROVE  Quiet
  BY <1>1 DEF Authenticate, LookupFails, Lookup, AcquireSendLock
<1>2. ASSUME NEW c \in Conn, NEW r \in Req, NEW k \in AllKinds,
             NEW a \in Account \cup {NoEntry}, ClientSendHeader(c, r, k, a)
      PROVE  Quiet
  BY <1>2 DEF ClientSendHeader
<1>3. ASSUME NEW r \in Req, ClientSendBody(r) PROVE Quiet
  BY <1>3 DEF ClientSendBody
<1>4. CASE HandleLogin \/ HandleQuery \/ RefuseQuery
  <2>1. PICK x \in {"auth", "lookup", "reply"} : rst' = [rst EXCEPT ![mreq] = x]
    BY <1>4 DEF HandleLogin, HandleQuery, RefuseQuery
  <2>2. mreq \in Req /\ rst[mreq] = "sent"
    BY <1>4, MessageWhole DEF HandleLogin, HandleQuery, RefuseQuery
  <2>3. UNCHANGED <<out, sendLock, peer>>
    BY <1>4 DEF HandleLogin, HandleQuery, RefuseQuery, Message
  <2> QED BY <2>1, <2>2, <2>3
<1>5. ASSUME NEW c \in Conn, ClientConnect(c) \/ ClientClose(c) \/ PeerReset(c) PROVE Quiet
  BY <1>5 DEF ClientConnect, ClientClose, PeerReset, Accepted
<1>6. CASE UNCHANGED <<out, rst, sendLock, peer>>
  BY <1>6
<1> QED BY <1>1, <1>2, <1>3, <1>4, <1>5, <1>6
        DEF Next, ClientNext, MainNext, Worker, ClientRecv, ClientReset,
            KeepAliveReset, Select, AcceptFails, Accept, PickReady, ScanDone,
            ReadHeader, HeaderError, BodyError, HandleGarbled, RefusalSent, Message


LEMMA QuietIntegrity ==
  ASSUME IndInv, RoutingInv, IntegrityInv, [Next]_vars, Quiet
  PROVE  HeaderIsLast' /\ FrameIntegrity'
<1>1. ASSUME NEW c \in Conn, NEW n \in 1..Len(out[c])
      PROVE  /\ out[c][n].req \in Req /\ rst[out[c][n].req] \in Handled
             /\ rconn[out[c][n].req] \in Conn /\ Accepted(rconn[out[c][n].req])
             /\ Accepted(c)
  <2>1. out[c][n] \in Part
    BY DEF IndInv, TypeOK
  <2> QED BY <2>1 DEF RoutingInv, OutInv, Part, IndInv, RequestInv
<1>2. ASSUME NEW c \in Conn, NEW n \in 1..Len(out[c])
      PROVE  HeaderThenBody(c, n)' /\ BodyAfterHeader(c, n)'
  <2> DEFINE r == out[c][n].req
  <2>1. r \in Req /\ rst[r] \in Handled /\ rconn[r] \in Conn /\ Accepted(rconn[r]) /\ Accepted(c)
    BY <1>1
  <2>2. RequestStays(r) /\ PortStays(rconn[r])
    BY <2>1, StepStable
  <2>3. sendLock = r => sendLock' = r
    BY <2>1, SentinelAssumption DEF Quiet
  <2>4. sendLock = r /\ rst[r] = "body" => rst'[r] = "body"
    BY <2>1 DEF Quiet
  <2>5. peer[c] # "open" => peer'[c] # "open"
    BY <2>1 DEF Quiet
  <2>6. HeaderThenBody(c, n) /\ BodyAfterHeader(c, n)
    BY DEF IntegrityInv, FrameIntegrity
  <2>7. out' = out
    BY DEF Quiet
  <2>8. HeaderThenBody(c, n)'
    BY <2>3, <2>4, <2>5, <2>6, <2>7 DEF HeaderThenBody
  <2>9. sock[rconn[r]] = "closed" => sock'[rconn'[r]] = "closed"
    BY <2>2 DEF RequestStays, PortStays
  <2>10. BodyAfterHeader(c, n)'
    BY <2>6, <2>7, <2>9 DEF BodyAfterHeader
  <2> QED BY <2>8, <2>10
<1>3. FrameIntegrity'
  BY <1>2 DEF FrameIntegrity, Quiet
<1>4. ASSUME NEW r \in Req, rst'[r] = "body", sock'[rconn'[r]] = "open", peer'[rconn'[r]] = "open"
      PROVE  LastIsHeader(rconn[r], r) /\ rconn'[r] = rconn[r]
  <2>1. rst[r] = "body"
    BY <1>4 DEF Quiet
  <2>2. rst[r] \in Handled /\ rconn[r] \in Conn /\ Accepted(rconn[r])
    BY <2>1 DEF Handled, IndInv, RequestInv
  <2>3. rconn'[r] = rconn[r] /\ PortStays(rconn[r])
    BY <2>2, StepStable DEF RequestStays
  <2>4. sock[rconn[r]] = "open"
    BY <1>4, <2>2, <2>3 DEF PortStays, Accepted
  <2>5. peer[rconn[r]] = "open"
    BY <1>4, <2>2, <2>3 DEF Quiet
  <2> QED BY <2>1, <2>3, <2>4, <2>5 DEF IntegrityInv, HeaderIsLast
<1>5. HeaderIsLast'
  BY <1>4 DEF HeaderIsLast, LastIsHeader, Quiet
<1> QED BY <1>3, <1>5

\* the one connection a response reaches
LEMMA ReachesOne ==
  ASSUME IndInv, RoutingInv, NEW r \in Req, rst[r] \in Handled
  PROVE  /\ rconn[r] \in Conn /\ Accepted(rconn[r])
         /\ sock[rconn[r]] = "open" => rconn[r] \in Reaches(r)
         /\ \A c, d \in Reaches(r) : c = d
         /\ Reaches(r) \subseteq Conn
  BY DEF IndInv, RequestInv, RoutingInv, FdExclusive, Reaches


LEMMA WriteHeaderIntegrity ==
  ASSUME IndInv, RoutingInv, IntegrityInv, NEW r \in Req, WriteHeader(r)
  PROVE  HeaderIsLast' /\ FrameIntegrity'
<1> USE DEF mainVars, peerVars, portVars, outVars, reqVars, dataVars
<1>1. /\ rst[r] = "header" /\ rst' = [rst EXCEPT ![r] = "body"] /\ sendLock' = sendLock
      /\ sock' = sock /\ peer' = peer /\ fdOf' = fdOf /\ rconn' = rconn /\ Send(r, "header")
  BY DEF WriteHeader
<1>2. /\ rst \in [Req -> StepSet] /\ out \in [Conn -> Seq(Part)]
  BY DEF IndInv, TypeOK, StepSet
<1>3. rst'[r] = "body" /\ \A q \in Req : q # r => rst'[q] = rst[q]
  BY <1>1, <1>2
<1>4. sendLock = r /\ \A q \in Req : rst[q] \in {"header", "body"} => q = r
  BY <1>1 DEF IntegrityInv, LockHeld
<1>5. rst[r] \in Handled
  BY <1>1 DEF Handled
<1>6. ASSUME NEW c \in Conn, NEW n \in 1..Len(out[c])
      PROVE  /\ HeaderThenBody(c, n) /\ BodyAfterHeader(c, n)
             /\ out[c][n].half = "header" /\ n = Len(out[c]) => peer[c] # "open"
  <2>1. HeaderThenBody(c, n) /\ BodyAfterHeader(c, n)
    BY DEF IntegrityInv, FrameIntegrity
  <2>2. ~ (n < Len(out[c])) \/ n # Len(out[c])
    BY <1>2
  <2>3. rst[sendLock] # "body"
    BY <1>1, <1>4
  <2> QED BY <2>1, <2>2, <2>3 DEF HeaderThenBody
<1>7. ASSUME NEW c \in Conn, out'[c] = out[c], NEW n \in 1..Len(out[c])
      PROVE  HeaderThenBody(c, n)' /\ BodyAfterHeader(c, n)'
  <2>0. ~ (n < Len(out[c])) => n = Len(out[c])
    <3>1. Len(out[c]) \in Nat
      BY <1>2
    <3> QED BY <3>1
  <2>1. HeaderThenBody(c, n)'
    BY <1>1, <1>6, <1>7, <2>0 DEF HeaderThenBody
  <2>2. BodyAfterHeader(c, n)'
    BY <1>1, <1>6, <1>7 DEF BodyAfterHeader
  <2> QED BY <2>1, <2>2
<1>8. ASSUME NEW c \in Reaches(r), peer[c] = "open",
             out' = [out EXCEPT ![c] = Append(out[c], HeaderPart(r))]
      PROVE  HeaderIsLast' /\ FrameIntegrity'
  <2>1. c \in Conn
    BY DEF Reaches
  <2>2. HeaderPart(r) \in Part
    BY DEF HeaderPart, Part
  <2>3. PICK s \in Seq(Part) : s = out[c]
    BY <1>2, <2>1
  <2>4. PICK t \in Seq(Part) : t = out'[c] /\ t = Append(s, HeaderPart(r))
    BY <1>2, <1>8, <2>1, <2>2, <2>3, AppendElements
  <2>5. /\ Len(s) \in Nat /\ Len(t) = Len(s) + 1 /\ t[Len(s) + 1] = HeaderPart(r)
        /\ \A n \in 1..Len(s) : t[n] = s[n]
    BY <2>2, <2>4, AppendElements, SequenceLength
  <2>6. ASSUME NEW n \in 1..Len(t) PROVE HeaderThenBody(c, n)' /\ BodyAfterHeader(c, n)'
    <3>1. CASE n = Len(s) + 1
      <4>1. t[n] = HeaderPart(r) /\ ~ (n < Len(t))
        BY <2>5, <3>1
      <4>2. HeaderThenBody(c, n)'
        BY <1>1, <1>3, <1>4, <2>4, <4>1 DEF HeaderThenBody, HeaderPart
      <4>3. BodyAfterHeader(c, n)'
        BY <2>4, <4>1 DEF BodyAfterHeader, HeaderPart
      <4> QED BY <4>2, <4>3
    <3>2. CASE n # Len(s) + 1
      <4>1. n \in 1..Len(s) /\ t[n] = s[n] /\ n < Len(t)
        BY <2>5, <3>2
      <4>2. CASE n = Len(s)
        <5>1. s[n].half # "header"
          BY <1>6, <1>8, <2>1, <2>3, <4>1, <4>2
        <5>2. HeaderThenBody(c, n)'
          BY <2>4, <4>1, <5>1 DEF HeaderThenBody
        <5>3. n > 1 => n - 1 \in 1..Len(s)
          BY <4>1
        <5>4. BodyAfterHeader(c, n)
          BY <1>6, <2>1, <2>3, <4>1
        <5>5. BodyAfterHeader(c, n)'
          BY <1>1, <2>3, <2>4, <2>5, <4>1, <5>3, <5>4 DEF BodyAfterHeader
        <5> QED BY <5>2, <5>5
      <4>3. CASE n # Len(s)
        <5>1. n < Len(s) /\ n + 1 \in 1..Len(s)
          BY <2>5, <4>1, <4>3
        <5>2. HeaderThenBody(c, n) /\ BodyAfterHeader(c, n)
          BY <1>6, <2>1, <2>3, <4>1
        <5>3. HeaderThenBody(c, n)'
          BY <2>3, <2>4, <2>5, <4>1, <5>1, <5>2 DEF HeaderThenBody
        <5>4. n > 1 => n - 1 \in 1..Len(s)
          BY <4>1
        <5>5. BodyAfterHeader(c, n)'
          BY <1>1, <2>3, <2>4, <2>5, <4>1, <5>2, <5>4 DEF BodyAfterHeader
        <5> QED BY <5>3, <5>5
      <4> QED BY <4>2, <4>3
    <3> QED BY <3>1, <3>2
  <2>7. \A e \in Conn : e # c => out'[e] = out[e]
    BY <1>2, <1>8
  <2>8. FrameIntegrity'
    BY <1>7, <2>4, <2>6, <2>7 DEF FrameIntegrity
  <2>9. ASSUME NEW q \in Req, rst'[q] = "body", sock[rconn[q]] = "open"
        PROVE  LastIsHeader(rconn[q], q)'
    <3>1. q = r
      BY <1>3, <1>4, <2>9
    <3>2. rconn[q] = c
      BY <1>5, <2>9, <3>1, ReachesOne
    <3>3. Len(t) > 0 /\ t[Len(t)] = HeaderPart(q)
      BY <2>5, <3>1
    <3> QED BY <1>1, <2>4, <3>2, <3>3 DEF LastIsHeader, HeaderPart
  <2>10. HeaderIsLast'
    BY <1>1, <2>9 DEF HeaderIsLast
  <2> QED BY <2>8, <2>10
<1>9. ASSUME \A c \in Reaches(r) : peer[c] # "open", out' = out
      PROVE  HeaderIsLast' /\ FrameIntegrity'
  <2>1. FrameIntegrity'
    BY <1>7, <1>9 DEF FrameIntegrity
  <2>2. ASSUME NEW q \in Req, rst'[q] = "body", sock[rconn[q]] = "open"
        PROVE  peer[rconn[q]] # "open"
    <3>1. q = r
      BY <1>3, <1>4, <2>2
    <3> QED BY <1>5, <1>9, <2>2, <3>1, ReachesOne
  <2>3. HeaderIsLast'
    BY <1>1, <2>2 DEF HeaderIsLast
  <2> QED BY <2>1, <2>3
<1> QED BY <1>1, <1>8, <1>9 DEF Send, HeaderPart


LEMMA WriteBodyIntegrity ==
  ASSUME IndInv, RoutingInv, IntegrityInv, NEW r \in Req, WriteBody(r)
  PROVE  HeaderIsLast' /\ FrameIntegrity'
<1> USE DEF mainVars, peerVars, portVars, outVars, reqVars, dataVars
<1>1. /\ rst[r] = "body" /\ rst' = [rst EXCEPT ![r] = "answered"]
      /\ sock' = sock /\ peer' = peer /\ fdOf' = fdOf /\ rconn' = rconn /\ Send(r, "body")
  BY DEF WriteBody
<1>2. /\ rst \in [Req -> StepSet] /\ out \in [Conn -> Seq(Part)]
  BY DEF IndInv, TypeOK, StepSet
<1>3. rst'[r] = "answered" /\ \A q \in Req : q # r => rst'[q] = rst[q]
  BY <1>1, <1>2
<1>4. sendLock = r /\ \A q \in Req : rst[q] \in {"header", "body"} => q = r
  BY <1>1 DEF IntegrityInv, LockHeld
<1>5. rst[r] \in Handled
  BY <1>1 DEF Handled
<1>6. HeaderIsLast'
  <2>1. \A q \in Req : rst'[q] # "body"
    BY <1>3, <1>4
  <2> QED BY <2>1 DEF HeaderIsLast
<1>7. ASSUME NEW c \in Conn, NEW n \in 1..Len(out[c])
      PROVE  /\ HeaderThenBody(c, n) /\ BodyAfterHeader(c, n)
             /\ out[c][n].half = "header" /\ ~ (n < Len(out[c])) =>
                  /\ peer[c] = "open" => c \in Reaches(r) /\ out[c][n] = HeaderPart(r)
  <2>1. HeaderThenBody(c, n) /\ BodyAfterHeader(c, n)
    BY DEF IntegrityInv, FrameIntegrity
  <2>2. ASSUME out[c][n].half = "header", ~ (n < Len(out[c])), peer[c] = "open"
        PROVE  c \in Reaches(r) /\ out[c][n] = HeaderPart(r)
    <3>1. out[c][n].req = r
      BY <1>4, <2>1, <2>2 DEF HeaderThenBody
    <3>2. out[c][n] \in Part
      BY <1>2
    <3>3. sock[c] = "open"
      BY <2>2 DEF IntegrityInv, ClosedByReset, RoutingInv, OutInv, Accepted
    <3>4. fdOf[c] = fdOf[rconn[r]]
      BY <3>1 DEF RoutingInv, ReplyRouting
    <3> QED BY <2>2, <3>1, <3>2, <3>3, <3>4 DEF Reaches, Part, HeaderPart
  <2> QED BY <2>1, <2>2
<1>8. ASSUME NEW c \in Conn, out'[c] = out[c], NEW n \in 1..Len(out[c]),
             c \in Reaches(r) => peer[c] # "open"
      PROVE  HeaderThenBody(c, n)' /\ BodyAfterHeader(c, n)'
  <2>1. HeaderThenBody(c, n)'
    BY <1>1, <1>7, <1>8 DEF HeaderThenBody
  <2>2. BodyAfterHeader(c, n)'
    BY <1>1, <1>7, <1>8 DEF BodyAfterHeader
  <2> QED BY <2>1, <2>2
<1>9. ASSUME NEW c \in Reaches(r), peer[c] = "open",
             out' = [out EXCEPT ![c] = Append(out[c], BodyPart(r))]
      PROVE  FrameIntegrity'
  <2>1. c \in Conn
    BY DEF Reaches
  <2>2. BodyPart(r) \in Part
    BY DEF BodyPart, Part
  <2>3. PICK s \in Seq(Part) : s = out[c]
    BY <1>2, <2>1
  <2>4. PICK t \in Seq(Part) : t = out'[c] /\ t = Append(s, BodyPart(r))
    BY <1>2, <1>9, <2>1, <2>2, <2>3, AppendElements
  <2>5. /\ Len(s) \in Nat /\ Len(t) = Len(s) + 1 /\ t[Len(s) + 1] = BodyPart(r)
        /\ \A n \in 1..Len(s) : t[n] = s[n]
    BY <2>2, <2>4, AppendElements, SequenceLength
  <2>6. ASSUME NEW n \in 1..Len(t) PROVE HeaderThenBody(c, n)' /\ BodyAfterHeader(c, n)'
    <3>1. CASE n = Len(s) + 1
      <4>1. t[n] = BodyPart(r)
        BY <2>5, <3>1
      <4>2. HeaderThenBody(c, n)'
        BY <2>4, <4>1 DEF HeaderThenBody, BodyPart
      <4>3. rconn[r] \in Conn /\ Accepted(rconn[r])
        BY <1>5, ReachesOne
      <4>4. CASE sock[rconn[r]] = "open"
        <5>1. rconn[r] = c
          BY <1>5, <4>4, ReachesOne
        <5>2. Len(s) > 0 /\ s[Len(s)] = HeaderPart(r)
          BY <1>1, <1>9, <2>3, <4>4, <5>1 DEF IntegrityInv, HeaderIsLast, LastIsHeader
        <5>3. n > 1 /\ n - 1 = Len(s) /\ Len(s) \in 1..Len(s)
          BY <2>5, <3>1, <5>2
        <5>4. t[n - 1] = HeaderPart(r)
          BY <2>5, <5>2, <5>3
        <5> QED BY <2>4, <4>1, <4>2, <5>3, <5>4 DEF BodyAfterHeader, HeaderPart, BodyPart
      <4>5. CASE sock[rconn[r]] = "closed"
        BY <1>1, <2>4, <4>1, <4>2, <4>5 DEF BodyAfterHeader, BodyPart
      <4> QED BY <4>3, <4>4, <4>5 DEF Accepted
    <3>2. CASE n # Len(s) + 1
      <4>1. n \in 1..Len(s) /\ t[n] = s[n] /\ n < Len(t)
        BY <2>5, <3>2
      <4>2. n > 1 => n - 1 \in 1..Len(s)
        BY <4>1
      <4>3. BodyAfterHeader(c, n)
        BY <1>7, <2>1, <2>3, <4>1
      <4>4. BodyAfterHeader(c, n)'
        BY <1>1, <2>3, <2>4, <2>5, <4>1, <4>2, <4>3 DEF BodyAfterHeader
      <4>5. CASE n = Len(s)
        <5>1. s[n].half = "header" => s[n] = HeaderPart(r)
          BY <1>7, <1>9, <2>1, <2>3, <2>5, <4>1, <4>5
        <5>2. t[n + 1] = BodyPart(r)
          BY <2>5, <4>5
        <5>3. HeaderThenBody(c, n)'
          BY <2>4, <4>1, <5>1, <5>2 DEF HeaderThenBody, HeaderPart, BodyPart
        <5> QED BY <4>4, <5>3
      <4>6. CASE n # Len(s)
        <5>1. n < Len(s) /\ n + 1 \in 1..Len(s)
          BY <2>5, <4>1, <4>6
        <5>2. HeaderThenBody(c, n)
          BY <1>7, <2>1, <2>3, <4>1
        <5>3. HeaderThenBody(c, n)'
          BY <2>3, <2>4, <2>5, <4>1, <5>1, <5>2 DEF HeaderThenBody
        <5> QED BY <4>4, <5>3
      <4> QED BY <4>5, <4>6
    <3> QED BY <3>1, <3>2
  <2>7. \A e \in Conn : e # c => out'[e] = out[e] /\ e \notin Reaches(r)
    BY <1>2, <1>5, <1>9, ReachesOne
  <2> QED BY <1>8, <2>4, <2>6, <2>7 DEF FrameIntegrity
<1>10. ASSUME \A c \in Reaches(r) : peer[c] # "open", out' = out
       PROVE  FrameIntegrity'
  BY <1>8, <1>10 DEF FrameIntegrity
<1> QED BY <1>1, <1>6, <1>9, <1>10 DEF Send, BodyPart

LEMMA NextIntegrity ==
  ASSUME IndInv, FrameInv, RoutingInv, IntegrityInv, [Next]_vars PROVE IntegrityInv'
<1>1. LockHeld' /\ ClosedByReset'
  BY NextLock DEF IntegrityInv
<1>2. HeaderIsLast' /\ FrameIntegrity'
  BY QuietSteps, QuietIntegrity, WriteHeaderIntegrity, WriteBodyIntegrity
<1> QED BY <1>1, <1>2 DEF IntegrityInv

(***************************************************************************)
(* No laptop reads the length of one response followed by the text of      *)
(* another, however many threads write and connections end.                *)
(***************************************************************************)
THEOREM ResponsesWhole == Spec => []FrameIntegrity
<1>1. Init => IndInv /\ SentInv /\ FrameInv /\ RoutingInv /\ IntegrityInv
  BY InitIndInv, InitFrames, InitRoutingInv, InitIntegrity
<1>2. IndInv /\ SentInv /\ FrameInv /\ RoutingInv /\ IntegrityInv /\ [Next]_vars
        => (IndInv /\ SentInv /\ FrameInv /\ RoutingInv /\ IntegrityInv)'
  BY NextIndInv, NextSentInv, NextFrames, NextRoutingInv, NextIntegrity
<1>3. IntegrityInv => FrameIntegrity
  BY DEF IntegrityInv
<1> QED BY <1>1, <1>2, <1>3, PTL DEF Spec


-----------------------------------------------------------------------------
(***************************************************************************)
(* thread_num_.  The requests it counts: a message adds its own, which was *)
(* not yet among them, and the last write of an answer takes it away.      *)
(***************************************************************************)
ThreadSet == InService \cup Uncounted \cup Garbled

LEMMA ThreadSetChanges ==
  ASSUME IndInv, FrameInv, [Next]_vars
  PROVE  \/ threadNum' = threadNum /\ ThreadSet' = ThreadSet
         \/ \E r \in Req : /\ r \notin ThreadSet /\ ThreadSet' = ThreadSet \cup {r}
                           /\ threadNum' = threadNum + 1
         \/ \E r \in Req : /\ r \in ThreadSet /\ ThreadSet' = ThreadSet \ {r}
                           /\ threadNum' = threadNum - 1
<1> USE DEF vars, mainVars, peerVars, portVars, worldVars, outVars, reqVars, dataVars
<1>0. rst \in [Req -> StepSet] /\ refused \subseteq Req /\ \A r \in refused : rst[r] \in Handled
  BY DEF IndInv, TypeOK, StepSet, RequestInv
<1>1. ASSUME NEW k, Message(k),
             \/ HandleLogin \/ HandleQuery \/ RefuseQuery \/ HandleGarbled
      PROVE  \E r \in Req : /\ r \notin ThreadSet /\ ThreadSet' = ThreadSet \cup {r}
                            /\ threadNum' = threadNum + 1
  <2>1. PICK r \in Req : r = mreq /\ rst[r] = "sent"
    BY <1>1, MessageWhole
  <2>2. mpc = "body" /\ mreq' = mreq /\ threadNum' = threadNum + 1
    BY <1>1 DEF Message
  <2>3. r \notin ThreadSet /\ Garbled = {}
    BY <1>0, <2>1, <2>2 DEF ThreadSet, InService, Uncounted, Garbled, Handled
  <2>4. CASE HandleGarbled
    <3>1. rst' = rst /\ refused' = refused /\ mpc' = "crashed"
      BY <2>4 DEF HandleGarbled
    <3>2. InService' = InService /\ Uncounted' = Uncounted /\ Garbled' = {r}
      BY <2>1, <2>2, <3>1 DEF InService, Uncounted, Garbled
    <3> QED BY <2>2, <2>3, <3>2 DEF ThreadSet
  <2>5. CASE HandleLogin \/ HandleQuery \/ RefuseQuery
    <3>1. PICK x \in {"auth", "lookup", "reply"} : rst' = [rst EXCEPT ![r] = x]
      BY <2>1, <2>5 DEF HandleLogin, HandleQuery, RefuseQuery
    <3>2. mpc' # "crashed" /\ (refused' = refused \/ refused' = refused \cup {r})
      BY <2>1, <2>5 DEF HandleLogin, HandleQuery, RefuseQuery
    <3>3. rst'[r] = x /\ \A q \in Req : q # r => rst'[q] = rst[q]
      BY <1>0, <3>1
    <3>4. InService' = InService \cup {r}
      BY <3>3 DEF InService
    <3>5. {q \in Req : rst'[q] = "failed"} = {q \in Req : rst[q] = "failed"}
      BY <2>1, <3>3
    <3>6. Garbled' = {}
      BY <3>2 DEF Garbled
    <3>7. ThreadSet' = ThreadSet \cup {r}
      BY <2>3, <3>2, <3>4, <3>5, <3>6 DEF ThreadSet, Uncounted
    <3> QED BY <2>2, <2>3, <3>7
  <2> QED BY <1>1, <2>4, <2>5
<1>2. ASSUME NEW r \in Req, WriteBody(r)
      PROVE  \/ threadNum' = threadNum /\ ThreadSet' = ThreadSet
             \/ /\ r \in ThreadSet /\ ThreadSet' = ThreadSet \ {r}
                /\ threadNum' = threadNum - 1
  <2>1. /\ rst[r] = "body" /\ rst' = [rst EXCEPT ![r] = "answered"] /\ refused' = refused
        /\ mpc' = mpc /\ Alive /\ threadNum' = IF r \in refused THEN threadNum ELSE threadNum - 1
    BY <1>2 DEF WriteBody, Uncount
  <2>2. rst'[r] = "answered" /\ \A q \in Req : q # r => rst'[q] = rst[q]
    BY <1>0, <2>1
  <2>3. InService' = InService \ {r} /\ r \in InService
    BY <2>1, <2>2 DEF InService
  <2>4. {q \in Req : rst'[q] = "failed"} = {q \in Req : rst[q] = "failed"}
        /\ rst[r] # "failed"
    BY <2>1, <2>2
  <2>5. Garbled = {} /\ Garbled' = {}
    BY <2>1 DEF Garbled, Alive
  <2>6. CASE r \in refused
    BY <2>1, <2>3, <2>4, <2>5, <2>6 DEF ThreadSet, Uncounted
  <2>7. CASE r \notin refused
    BY <2>1, <2>3, <2>4, <2>5, <2>7 DEF ThreadSet, Uncounted
  <2> QED BY <2>6, <2>7
<1>3. ASSUME UNCHANGED <<threadNum, refused>>, Garbled' = Garbled,
             \A r \in Req : \/ rst'[r] = rst[r]
                            \/ /\ rst[r] \in {"unsent", "sending", "sent"}
                               /\ rst'[r] \in {"unsent", "sending", "sent"}
                            \/ /\ rst[r] \in {"auth", "lookup", "reply", "header", "body", "failed"}
                               /\ rst'[r] \in {"auth", "lookup", "reply", "header", "body", "failed"}
      PROVE  threadNum' = threadNum /\ ThreadSet' = ThreadSet
  BY <1>3 DEF ThreadSet, InService, Uncounted
<1>4. ASSUME NEW c \in Conn, NEW r \in Req, NEW k \in AllKinds,
             NEW a \in Account \cup {NoEntry}, ClientSendHeader(c, r, k, a)
      PROVE  threadNum' = threadNum /\ ThreadSet' = ThreadSet
  BY <1>0, <1>3, <1>4 DEF ClientSendHeader, Garbled
<1>5. ASSUME NEW r \in Req, ClientSendBody(r)
      PROVE  threadNum' = threadNum /\ ThreadSet' = ThreadSet
  BY <1>0, <1>3, <1>5 DEF ClientSendBody, Garbled
<1>6. ASSUME NEW r \in Req, Authenticate(r) \/ LookupFails(r) \/ AcquireSendLock(r)
                            \/ WriteHeader(r) \/ \E m \in Matches : Lookup(r, m)
      PROVE  threadNum' = threadNum /\ ThreadSet' = ThreadSet
  BY <1>0, <1>3, <1>6 DEF Authenticate, LookupFails, AcquireSendLock, WriteHeader, Lookup, Garbled
<1>7. ASSUME UNCHANGED <<rst, threadNum, refused>>, Garbled' = Garbled
      PROVE  threadNum' = threadNum /\ ThreadSet' = ThreadSet
  BY <1>3, <1>7
<1>8. CASE ClientNext
  <2>1. ASSUME NEW c \in Conn, ClientConnect(c) \/ ClientRecv(c) \/ ClientClose(c) \/ PeerReset(c)
        PROVE  threadNum' = threadNum /\ ThreadSet' = ThreadSet
    BY <1>7, <2>1 DEF ClientConnect, ClientRecv, ClientClose, PeerReset, Garbled
  <2> QED BY <1>4, <1>5, <1>8, <2>1 DEF ClientNext, ClientReset, KeepAliveReset
<1>9. ASSUME NEW c \in Conn, PickReady(c) \/ \E f \in Fd : Accept(c, f)
      PROVE  threadNum' = threadNum /\ ThreadSet' = ThreadSet
  BY <1>7, <1>9 DEF PickReady, Accept, Garbled
<1>10. CASE Select \/ AcceptFails \/ ScanDone \/ HeaderError \/ BodyError \/ RefusalSent
            \/ ReadHeader
  BY <1>7, <1>10 DEF Select, AcceptFails, ScanDone, HeaderError, BodyError, RefusalSent,
     ReadHeader, Garbled
<1>11. CASE HandleLogin \/ HandleQuery \/ RefuseQuery \/ HandleGarbled
  <2>1. PICK k : Message(k)
    BY <1>11 DEF HandleLogin, HandleQuery, RefuseQuery, HandleGarbled
  <2> QED BY <1>1, <1>11, <2>1
<1>12. CASE UNCHANGED vars
  BY <1>7, <1>12 DEF Garbled
<1> QED BY <1>2, <1>6, <1>8, <1>9, <1>10, <1>11, <1>12 DEF Next, MainNext, Worker

LEMMA NextThreads ==
  ASSUME IndInv, FrameInv, ThreadAccounting, [Next]_vars
  PROVE  ThreadAccounting'
<1>1. threadNum = Cardinality(ThreadSet)
  BY DEF ThreadAccounting, ThreadSet
<1>2. IsFiniteSet(ThreadSet)
  <2>1. ThreadSet \subseteq Req \cup {NoReq}
    BY DEF ThreadSet, InService, Uncounted, Garbled, IndInv, TypeOK
  <2>2. IsFiniteSet(Req \cup {NoReq})
    BY BoundAssumption, FS_AddElement
  <2> QED BY <2>1, <2>2, FS_Subset
<1>3. threadNum' = Cardinality(ThreadSet')
  BY <1>1, <1>2, ThreadSetChanges, FS_AddElement, FS_RemoveElement
<1> QED BY <1>3 DEF ThreadAccounting, ThreadSet

(***************************************************************************)
(* thread_num_ is the number of requests in service, refused, failed or    *)
(* garbled: a response that is sent takes exactly its own message off      *)
(* again.                                                                  *)
(***************************************************************************)
THEOREM ThreadsAccounted == Spec => []ThreadAccounting
<1>1. Init => ThreadAccounting
  <2> SUFFICES ASSUME Init PROVE ThreadAccounting
    OBVIOUS
  <2>1. ThreadSet = {} /\ threadNum = 0
    BY DEF Init, ThreadSet, InService, Uncounted, Garbled
  <2> QED BY <2>1, FS_EmptySet DEF ThreadAccounting, ThreadSet
<1>2. IndInv /\ FrameInv /\ ThreadAccounting /\ [Next]_vars => ThreadAccounting'
  BY NextThreads
<1> QED BY <1>1, <1>2, FramesInvariant, PTL DEF Spec
-----------------------------------------------------------------------------
(***************************************************************************)
(* Sums.  A natural number and a finite set have least elements, so a claim *)
(* about every subset of a finite set holds if a smallest subset at which it*)
(* fails cannot exist.  In this way the sum over a finite set, a recursive *)
(* function, is shown to exist and to grow by what one of its terms grows. *)
(***************************************************************************)
LEMMA LeastNumber ==
  ASSUME NEW T \in SUBSET Nat, T # {}
  PROVE  \E n \in T : \A m \in T : n <= m
<1>1. IsWellFoundedOn({ss \in Nat \X Nat : ss[1] < ss[2]}, Nat)
  BY NatLessThanWellFounded DEF OpToRel
<1>2. PICK n \in T : \A m \in T : ~ (<<m, n>> \in {ss \in Nat \X Nat : ss[1] < ss[2]})
  BY <1>1, WFMin
<1>3. \A m \in T : m \in Nat /\ n \in Nat /\ ~ (m < n)
  BY <1>2
<1>4. \A m \in T : n <= m
  BY <1>3
<1> QED BY <1>4

LEMMA MinimalSubset ==
  ASSUME NEW S, IsFiniteSet(S), NEW T \in SUBSET (SUBSET S), T # {}
  PROVE  \E m \in T : \A U \in T : U \subseteq m => U = m
<1>1. IsWellFoundedOn(StrictSubsetOrdering(S), SUBSET S)
  BY FS_StrictSubsetOrderingWellFounded, FS_FiniteSubsetsOfFinite
<1>2. PICK m \in T : \A U \in T : ~ (<<U, m>> \in StrictSubsetOrdering(S))
  BY <1>1, WFMin
<1> QED BY <1>2 DEF StrictSubsetOrdering

\* the recursion of SumFunction: g solves it on the sets of D
Elem(s) == CHOOSE x \in s : TRUE
Step(v, D, g) == [s \in D |-> IF s = {} THEN 0 ELSE v[Elem(s)] + g[s \ {Elem(s)}]]
Sums(v, S) == CHOOSE g : g = Step(v, SUBSET S, g)

LEMMA SumIsLast ==
  ASSUME NEW S, NEW v, DOMAIN v = S
  PROVE  SumFunction(v) = Sums(v, S)[S]
  BY DEF SumFunction, SumFunctionOnSet, FoldFunctionOnSet, MapThenFoldSet, Step, Sums, Elem

\* by induction on the size of the sets: a solution for the sets of n elements
\* gives one for those of n + 1
LEMMA SumsExist ==
  ASSUME NEW S, IsFiniteSet(S), NEW v
  PROVE  Sums(v, S) = Step(v, SUBSET S, Sums(v, S))
<1> DEFINE Small(n) == {s \in SUBSET S : Cardinality(s) <= n}
           Solved(n) == \E g : g = Step(v, Small(n), g)
<1>1. \A s \in SUBSET S : /\ IsFiniteSet(s) /\ Cardinality(s) \in Nat
                          /\ Cardinality(s) <= Cardinality(S)
                          /\ Cardinality(s) = 0 <=> s = {}
  BY FS_Subset, FS_CardinalityType, FS_EmptySet
<1>2. \A s \in SUBSET S : s # {} =>
        /\ Elem(s) \in s /\ s \ {Elem(s)} \in SUBSET S
        /\ Cardinality(s \ {Elem(s)}) = Cardinality(s) - 1
  BY <1>1, FS_RemoveElement DEF Elem
<1>3. Solved(0)
  <2> DEFINE g == [s \in Small(0) |-> 0]
  <2>1. \A s \in Small(0) : s = {}
    BY <1>1
  <2>2. g = Step(v, Small(0), g)
    BY <2>1 DEF Step
  <2> QED BY <2>2
<1>4. ASSUME NEW n \in Nat, Solved(n) PROVE Solved(n + 1)
  <2>1. PICK g : g = Step(v, Small(n), g)
    BY <1>4
  <2> DEFINE h == [s \in Small(n + 1) |->
                     IF s \in Small(n) THEN g[s] ELSE v[Elem(s)] + g[s \ {Elem(s)}]]
  <2>2. ASSUME NEW s \in Small(n + 1), s # {} PROVE h[s \ {Elem(s)}] = g[s \ {Elem(s)}]
    <3>1. s \ {Elem(s)} \in Small(n) /\ s \ {Elem(s)} \in Small(n + 1)
      BY <1>1, <1>2, <2>2
    <3> QED BY <3>1
  <2>3. ASSUME NEW s \in Small(n + 1)
        PROVE  h[s] = IF s = {} THEN 0 ELSE v[Elem(s)] + h[s \ {Elem(s)}]
    <3>1. CASE s \in Small(n)
      <4>1. h[s] = g[s]
        BY <3>1
      <4>2. g[s] = IF s = {} THEN 0 ELSE v[Elem(s)] + g[s \ {Elem(s)}]
        BY <2>1, <3>1 DEF Step
      <4> QED BY <2>2, <4>1, <4>2
    <3>2. CASE s \notin Small(n)
      <4>1. s # {}
        BY <1>1, <3>2
      <4>2. h[s] = v[Elem(s)] + g[s \ {Elem(s)}]
        BY <3>2
      <4> QED BY <2>2, <4>1, <4>2
    <3> QED BY <3>1, <3>2
  <2>4. h = Step(v, Small(n + 1), h)
    BY <2>3 DEF Step
  <2> QED BY <2>4
<1>5. \A n \in Nat : Solved(n)
  <2> DEFINE Open == {n \in Nat : ~ Solved(n)}
  <2> HIDE DEF Solved
  <2>1. SUFFICES ASSUME Open # {} PROVE FALSE
    OBVIOUS
  <2>2. PICK n \in Open : \A m \in Open : n <= m
    BY <2>1, LeastNumber
  <2>3. n # 0 /\ n \in Nat /\ n - 1 \in Nat /\ n - 1 \notin Open
    BY <1>3, <2>2
  <2>4. Solved(n - 1)
    BY <2>3
  <2>5. Solved((n - 1) + 1)
    BY <1>4, <2>3, <2>4
  <2>6. (n - 1) + 1 = n
    BY <2>3
  <2> QED BY <2>2, <2>5, <2>6
<1>6. Cardinality(S) \in Nat /\ Small(Cardinality(S)) = SUBSET S
  BY <1>1
<1>7. \E g : g = Step(v, SUBSET S, g)
  <2>1. Solved(Cardinality(S))
    BY <1>5, <1>6
  <2> QED BY <1>6, <2>1
<1> QED BY <1>7 DEF Sums

LEMMA SumTyped ==
  ASSUME NEW S, IsFiniteSet(S), NEW v \in [S -> Nat]
  PROVE  /\ SumFunction(v) \in Nat
         /\ (\A x \in S : v[x] = 0) => SumFunction(v) = 0
<1> DEFINE f == Sums(v, S)
           Bad == {s \in SUBSET S : ~ /\ f[s] \in Nat
                                      /\ (\A x \in S : v[x] = 0) => f[s] = 0}
<1>1. f = Step(v, SUBSET S, f)
  BY SumsExist
<1> HIDE DEF f
<1>2. Bad = {}
  <2>1. SUFFICES ASSUME Bad # {} PROVE FALSE
    OBVIOUS
  <2>2. Bad \in SUBSET (SUBSET S)
    OBVIOUS
  <2> HIDE DEF Bad
  <2>3. PICK s \in Bad : \A U \in Bad : U \subseteq s => U = s
    BY <2>1, <2>2, MinimalSubset
  <2>4. f[s] = IF s = {} THEN 0 ELSE v[Elem(s)] + f[s \ {Elem(s)}]
    BY <1>1, <2>2, <2>3 DEF Step
  <2>5. s # {}
    BY <2>2, <2>3, <2>4 DEF Bad
  <2>6. Elem(s) \in s /\ Elem(s) \in S /\ s \ {Elem(s)} \notin Bad
    BY <2>2, <2>3, <2>5 DEF Elem
  <2> QED BY <2>2, <2>3, <2>4, <2>5, <2>6 DEF Bad
<1>3. SumFunction(v) = f[S]
  BY SumIsLast DEF f
<1> QED BY <1>2, <1>3

LEMMA SumGrows ==
  ASSUME NEW S, IsFiniteSet(S), NEW x \in S, NEW v \in [S -> Nat],
         NEW w \in [S -> Nat], w[x] = v[x] + 1, \A y \in S : y # x => w[y] = v[y]
  PROVE  SumFunction(w) = SumFunction(v) + 1
<1> DEFINE f == Sums(v, S)
           g == Sums(w, S)
           Bad == {s \in SUBSET S : ~ /\ f[s] \in Int
                                      /\ g[s] = f[s] + (IF x \in s THEN 1 ELSE 0)}
<1>1. f = Step(v, SUBSET S, f) /\ g = Step(w, SUBSET S, g)
  BY SumsExist
<1> HIDE DEF f, g
<1>2. Bad = {}
  <2>1. SUFFICES ASSUME Bad # {} PROVE FALSE
    OBVIOUS
  <2>2. Bad \in SUBSET (SUBSET S)
    OBVIOUS
  <2> HIDE DEF Bad
  <2>3. PICK s \in Bad : \A U \in Bad : U \subseteq s => U = s
    BY <2>1, <2>2, MinimalSubset
  <2>4. /\ f[s] = IF s = {} THEN 0 ELSE v[Elem(s)] + f[s \ {Elem(s)}]
        /\ g[s] = IF s = {} THEN 0 ELSE w[Elem(s)] + g[s \ {Elem(s)}]
    BY <1>1, <2>2, <2>3 DEF Step
  <2>5. s # {}
    BY <2>2, <2>3, <2>4 DEF Bad
  <2> DEFINE y == Elem(s)
             t == s \ {y}
  <2>6. y \in s /\ y \in S /\ t \in SUBSET S /\ t # s /\ t \subseteq s
    BY <2>2, <2>3, <2>5 DEF Elem
  <2>7. f[t] \in Int /\ g[t] = f[t] + (IF x \in t THEN 1 ELSE 0)
    BY <2>3, <2>6 DEF Bad
  <2>8. f[s] = v[y] + f[t] /\ g[s] = w[y] + g[t]
    BY <2>4, <2>5
  <2>9. v[y] \in Nat /\ w[y] \in Nat /\ (x \in t <=> x \in s /\ x # y)
    BY <2>6
  <2> HIDE DEF y, t
  <2>10. f[s] \in Int
    BY <2>7, <2>8, <2>9
  <2>11. CASE x = y
    BY <2>3, <2>6, <2>7, <2>8, <2>9, <2>10, <2>11 DEF Bad
  <2>12. CASE x # y
    BY <2>3, <2>6, <2>7, <2>8, <2>9, <2>10, <2>12 DEF Bad
  <2> QED BY <2>11, <2>12
<1>3. SumFunction(v) = f[S] /\ SumFunction(w) = g[S]
  BY SumIsLast DEF f, g
<1> QED BY <1>2, <1>3

-----------------------------------------------------------------------------
(***************************************************************************)
(* statistics_: a query is counted once in a total, and, when its lookup   *)
(* ends, once under an outcome, perhaps of another name.                   *)
(***************************************************************************)
Column(field) == [n \in Names |-> statistics[n][field]]
Looking       == {r \in Req : rst[r] \in {"lookup", "failed"}}
Fields        == Matches \cup {"total"}

LEMMA NamesFinite == IsFiniteSet(Names)
  BY BoundAssumption, FS_AddElement DEF Names

LEMMA ColumnTyped ==
  ASSUME IndInv, NEW f \in Fields
  PROVE  Column(f) \in [Names -> Nat]
  BY DEF Column, Fields, Matches, IndInv, TypeOK, Counters

LEMMA CountedOnce ==
  ASSUME IndInv, IndInv', NEW n \in Names, NEW f \in Fields,
         statistics' = [statistics EXCEPT ![n][f] = @ + 1]
  PROVE  /\ Counted(f)' = Counted(f) + 1
         /\ \A g \in Fields : g # f => Counted(g)' = Counted(g)
<1>1. \A g \in Fields : Column(g) \in [Names -> Nat]
  BY ColumnTyped
<1>2. \A g \in Fields : Column(g)' \in [Names -> Nat]
  BY DEF Column, Fields, Matches, IndInv, TypeOK, Counters, Names
<1>3. /\ statistics \in [Names -> Counters] /\ f \in DOMAIN statistics[n]
      /\ statistics'[n] = [statistics[n] EXCEPT ![f] = @ + 1]
      /\ \A m \in Names : m # n => statistics'[m] = statistics[m]
  BY DEF IndInv, TypeOK, Counters, Fields, Matches
<1>4. Column(f)'[n] = Column(f)[n] + 1 /\ \A m \in Names : m # n => Column(f)'[m] = Column(f)[m]
  BY <1>3 DEF Column, Names
<1>5. ASSUME NEW g \in Fields, g # f PROVE Column(g)' = Column(g)
  <2>1. \A m \in Names : statistics'[m][g] = statistics[m][g]
    BY <1>3, <1>5
  <2> QED BY <2>1 DEF Column, Names
<1>6. SumFunction(Column(f)') = SumFunction(Column(f)) + 1
  BY <1>1, <1>2, <1>4, NamesFinite, SumGrows
<1> QED BY <1>5, <1>6 DEF Counted, Column

LEMMA NextStatistics ==
  ASSUME IndInv, IndInv', FrameInv, StatisticsConserved, [Next]_vars
  PROVE  StatisticsConserved'
<1> USE DEF vars, mainVars, peerVars, portVars, worldVars, outVars, reqVars, dataVars
<1>0. /\ rst \in [Req -> StepSet] /\ IsFiniteSet(Looking) /\ Cardinality(Looking) \in Nat
      /\ \A f \in Fields : Counted(f) \in Nat
  <2>1. IsFiniteSet(Looking) /\ Cardinality(Looking) \in Nat
    BY BoundAssumption, FS_Subset, FS_CardinalityType DEF Looking
  <2>2. \A f \in Fields : SumFunction(Column(f)) \in Nat
    BY ColumnTyped, NamesFinite, SumTyped
  <2>3. \A f \in Fields : Counted(f) \in Nat
    BY <2>2 DEF Counted, Column
  <2>4. rst \in [Req -> StepSet]
    BY DEF IndInv, TypeOK, StepSet
  <2> QED BY <2>1, <2>3, <2>4
<1>1. CASE HandleQuery
  <2>1. PICK r \in Req : r = mreq /\ rst[r] = "sent" /\ mconn \in Conn
    BY <1>1, MessageWhole DEF HandleQuery
  <2> DEFINE n == session[fdOf[mconn]]
  <2>2. /\ n # NoEntry /\ statistics' = [statistics EXCEPT ![n].total = @ + 1]
        /\ rst' = [rst EXCEPT ![r] = "lookup"]
    BY <1>1, <2>1 DEF HandleQuery, LoggedIn
  <2>3. n \in Names
    <3>1. sock[mconn] = "open"
      BY <1>1, MessageWhole DEF HandleQuery
    <3>2. fdOf[mconn] \in Fd
      BY <2>1, <3>1 DEF IndInv, PortInv, Accepted
    <3> QED BY <2>2, <3>2 DEF IndInv, TypeOK
  <2> HIDE DEF n
  <2>4. Counted("total")' = Counted("total") + 1 /\ \A m \in Matches : Counted(m)' = Counted(m)
    BY <2>2, <2>3, CountedOnce DEF Fields, Matches
  <2>5. Looking' = Looking \cup {r} /\ r \notin Looking
    BY <1>0, <2>1, <2>2 DEF Looking
  <2>6. Cardinality(Looking') = Cardinality(Looking) + 1
    BY <1>0, <2>5, FS_AddElement
  <2> QED BY <1>0, <2>4, <2>6 DEF StatisticsConserved, Looking, Fields, Matches
<1>2. ASSUME NEW r \in Req, NEW m \in Matches, Lookup(r, m) PROVE StatisticsConserved'
  <2> DEFINE f == fdOf[rconn[r]]
             n == IF session[f] = NoEntry THEN EmptyName ELSE session[f]
  <2>1. /\ rst[r] = "lookup" /\ rst' = [rst EXCEPT ![r] = "reply"]
        /\ statistics' = [statistics EXCEPT ![n][m] = @ + 1]
    BY <1>2 DEF Lookup, Count
  <2>2. n \in Names
    <3>1. rconn[r] \in Conn /\ Accepted(rconn[r])
      BY <2>1 DEF IndInv, RequestInv, Handled
    <3>2. f \in Fd
      BY <3>1 DEF IndInv, PortInv, Accepted
    <3> QED BY <3>2 DEF IndInv, TypeOK, Names
  <2> HIDE DEF n
  <2>3. /\ Counted(m)' = Counted(m) + 1
        /\ \A g \in Fields : g # m => Counted(g)' = Counted(g)
    BY <2>1, <2>2, CountedOnce DEF Fields
  <2>4. Looking' = Looking \ {r} /\ r \in Looking
    BY <1>0, <2>1 DEF Looking
  <2>5. Cardinality(Looking') = Cardinality(Looking) - 1
    BY <1>0, <2>4, FS_RemoveElement
  <2>6. m \in {"exact", "partial", "none"} /\ {"total", "exact", "partial", "none"} = Fields
    BY DEF Matches, Fields
  <2> QED BY <1>0, <2>3, <2>5, <2>6 DEF StatisticsConserved, Looking
<1>3. ASSUME statistics' = statistics,
             \A r \in Req : \/ rst'[r] = rst[r]
                            \/ rst[r] = "lookup" /\ rst'[r] = "failed"
                            \/ /\ rst[r] \notin {"lookup", "failed"}
                               /\ rst'[r] \notin {"lookup", "failed"}
      PROVE  StatisticsConserved'
  <2>1. Looking' = Looking
    BY <1>3 DEF Looking
  <2>2. \A f \in Fields : Counted(f)' = Counted(f)
    BY <1>3 DEF Counted
  <2> QED BY <2>1, <2>2 DEF StatisticsConserved, Looking, Fields, Matches
<1>4. CASE HandleLogin \/ RefuseQuery
  <2>1. PICK r \in Req : r = mreq /\ rst[r] = "sent"
    BY <1>4, MessageWhole DEF HandleLogin, RefuseQuery
  <2> QED BY <1>0, <1>3, <1>4, <2>1 DEF HandleLogin, RefuseQuery
<1>5. ASSUME NEW c \in Conn, NEW r \in Req, NEW k \in AllKinds,
             NEW a \in Account \cup {NoEntry}, ClientSendHeader(c, r, k, a)
      PROVE  StatisticsConserved'
  BY <1>0, <1>3, <1>5 DEF ClientSendHeader
<1>6. ASSUME NEW r \in Req, ClientSendBody(r) \/ Authenticate(r) \/ LookupFails(r)
                            \/ AcquireSendLock(r) \/ WriteHeader(r) \/ WriteBody(r)
      PROVE  StatisticsConserved'
  BY <1>0, <1>3, <1>6
     DEF ClientSendBody, Authenticate, LookupFails, AcquireSendLock, WriteHeader, WriteBody
<1>7. ASSUME UNCHANGED <<rst, statistics>> PROVE StatisticsConserved'
  BY <1>3, <1>7
<1>8. ASSUME NEW c \in Conn,
             \/ ClientConnect(c) \/ ClientRecv(c) \/ ClientClose(c) \/ PeerReset(c)
             \/ PickReady(c) \/ \E f \in Fd : Accept(c, f)
      PROVE  StatisticsConserved'
  BY <1>7, <1>8 DEF ClientConnect, ClientRecv, ClientClose, PeerReset, PickReady, Accept
<1>9. CASE Select \/ AcceptFails \/ ScanDone \/ HeaderError \/ BodyError \/ RefusalSent
           \/ ReadHeader \/ HandleGarbled \/ UNCHANGED vars
  BY <1>7, <1>9 DEF Select, AcceptFails, ScanDone, HeaderError, BodyError, RefusalSent,
     ReadHeader, HandleGarbled
<1> QED BY <1>1, <1>2, <1>4, <1>5, <1>6, <1>8, <1>9
        DEF Next, ClientNext, MainNext, Worker, ClientReset, KeepAliveReset

(***************************************************************************)
(* The totals add up: whatever happens to sessions and names in between,   *)
(* a query in total_queries is in exactly one of the other counters, being *)
(* looked up, or its lookup failed.                                        *)
(***************************************************************************)
THEOREM CountersAddUp == Spec => []StatisticsConserved
<1>1. Init => StatisticsConserved
  <2> SUFFICES ASSUME Init PROVE StatisticsConserved
    OBVIOUS
  <2>1. Looking = {} /\ Cardinality(Looking) = 0
    BY FS_EmptySet DEF Init, Looking
  <2>2. ASSUME NEW f \in Fields PROVE Counted(f) = 0
    <3>1. Column(f) \in [Names -> Nat] /\ \A n \in Names : Column(f)[n] = 0
      BY DEF Init, Column, Fields, Matches
    <3>2. SumFunction(Column(f)) = 0
      BY <3>1, NamesFinite, SumTyped
    <3> QED BY <3>2 DEF Counted, Column
  <2> QED BY <2>1, <2>2 DEF StatisticsConserved, Looking, Fields, Matches
<1>2. IndInv /\ IndInv' /\ FrameInv /\ StatisticsConserved /\ [Next]_vars => StatisticsConserved'
  BY NextStatistics
<1> QED BY <1>1, <1>2, FramesInvariant, PTL DEF Spec

================================================================================
