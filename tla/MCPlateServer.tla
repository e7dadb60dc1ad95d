---------------------------- MODULE MCPlateServer ----------------------------
(* Instances of PlateServer for TLC.                                         *)
EXTENDS PlateServer, TLC

MCQueries == [r \in Req |-> {"query"}]
MCBoth    == [r \in Req |-> {"login", "query"}]

\* one login, and queries or what ends the process
MCFirst == CHOOSE r \in Req : TRUE
MCMixed == [r \in Req |-> IF r = MCFirst THEN {"login"} ELSE {"query", "garbled", "oversize"}]

ConnSymmetry == Permutations(Conn) \cup Permutations(Fd) \cup Permutations(Req)

===============================================================================
