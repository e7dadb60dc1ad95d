---------------------------- MODULE LookupService ----------------------------
(***************************************************************************)
(* What a laptop may rely on, whatever the server does inside: a request is*)
(* answered at most once, and looked up or refused according to the logins.*)
(* A query is looked up only if a login was granted in the same place, and *)
(* refused only if none was granted on its own connection.  (The place of a*)
(* connection is its descriptor: a later connection may be given the place *)
(* of an earlier one, and the session a late login left there.)            *)
(***************************************************************************)
CONSTANTS
  Req,      \* requests
  Conn,     \* connections
  Place,    \* places of connections
  NoConn, NoPlace

VARIABLES
  up,       \* the service runs
  place,    \* of each connection
  conn,     \* of each request that was asked
  stage,    \* how far each request is
  verdict   \* what was decided of it

vars == <<up, place, conn, stage, verdict>>

Stages == {"idle", "asked", "checking", "looking", "replying", "replied", "failed"}

Init ==
  /\ up = TRUE
  /\ place = [c \in Conn |-> NoPlace]
  /\ conn = [r \in Req |-> NoConn]
  /\ stage = [r \in Req |-> "idle"]
  /\ verdict = [r \in Req |-> "none"]

Admit(c, p) ==
  /\ up /\ place[c] = NoPlace
  /\ place' = [place EXCEPT ![c] = p]
  /\ UNCHANGED <<up, conn, stage, verdict>>

Moves(r, from, to) ==
  /\ up /\ stage[r] = from
  /\ stage' = [stage EXCEPT ![r] = to]
  /\ UNCHANGED <<up, place>>

Ask(r, c) ==
  /\ Moves(r, "idle", "asked")
  /\ conn' = [conn EXCEPT ![r] = c]
  /\ UNCHANGED verdict

CheckLogin(r) == Moves(r, "asked", "checking") /\ UNCHANGED <<conn, verdict>>

Grant(r) ==
  /\ Moves(r, "checking", "replying")
  /\ verdict' = [verdict EXCEPT ![r] = "granted"]
  /\ UNCHANGED conn

Deny(r) == Moves(r, "checking", "replying") /\ UNCHANGED <<conn, verdict>>

Granted == {r \in Req : verdict[r] = "granted"}

BeginLookup(r) ==
  /\ Moves(r, "asked", "looking")
  /\ \E g \in Granted : place[conn[g]] = place[conn[r]]
  /\ UNCHANGED <<conn, verdict>>

Refuse(r) ==
  /\ Moves(r, "asked", "replying")
  /\ \A g \in Granted : conn[g] # conn[r]
  /\ verdict' = [verdict EXCEPT ![r] = "refused"]
  /\ UNCHANGED conn

Find(r)  == Moves(r, "looking", "replying") /\ UNCHANGED <<conn, verdict>>
Fail(r)  == Moves(r, "looking", "failed") /\ UNCHANGED <<conn, verdict>>
Reply(r) == Moves(r, "replying", "replied") /\ UNCHANGED <<conn, verdict>>

Stop == up /\ up' = FALSE /\ UNCHANGED <<place, conn, stage, verdict>>

Next ==
  \/ \E c \in Conn, p \in Place : Admit(c, p)
  \/ \E r \in Req :
       \/ \E c \in Conn : Ask(r, c)
       \/ CheckLogin(r) \/ Grant(r) \/ Deny(r)
       \/ BeginLookup(r) \/ Refuse(r) \/ Find(r) \/ Fail(r) \/ Reply(r)
  \/ Stop

Spec == Init /\ [][Next]_vars

==============================================================================
