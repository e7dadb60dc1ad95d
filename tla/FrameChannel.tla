---------------------------- MODULE FrameChannel ----------------------------
(***************************************************************************)
(* What the two ends of a connection promise each other: messages written  *)
(* to it are delivered whole, unchanged and in order, up to a point at     *)
(* which the connection breaks.  FrameStream, the code by the byte,        *)
(* implements it; the other modules take it for granted.                   *)
(***************************************************************************)
EXTENDS Naturals, Sequences

CONSTANT Message

VARIABLES
  sent,   \* messages written, in order
  got,    \* messages delivered, in order
  link    \* closed: the writer closed it; broken: what is on the way is lost

vars == <<sent, got, link>>

TypeOK ==
  /\ sent \in Seq(Message)
  /\ got \in Seq(Message)
  /\ link \in {"up", "closed", "broken"}

Init == sent = <<>> /\ got = <<>> /\ link = "up"

\* a write to a broken connection may still succeed, and is lost
Put(m) ==
  /\ link # "closed"
  /\ sent' = Append(sent, m)
  /\ UNCHANGED <<got, link>>

Get ==
  /\ link # "broken" /\ Len(got) < Len(sent)
  /\ got' = Append(got, sent[Len(got) + 1])
  /\ UNCHANGED <<sent, link>>

Close == link = "up" /\ link' = "closed" /\ UNCHANGED <<sent, got>>
Break == link # "broken" /\ link' = "broken" /\ UNCHANGED <<sent, got>>

Next == Close \/ Break \/ Get \/ \E m \in Message : Put(m)

Spec == Init /\ [][Next]_vars

\* a message is not kept back for ever while the connection holds
FairSpec == Spec /\ WF_vars(Get)

-----------------------------------------------------------------------------
(***************************************************************************)
(* The reader has seen the first messages of the writer and nothing else:  *)
(* none lost in between, doubled, reordered, cut or mixed with another.    *)
(***************************************************************************)
InOrder ==
  /\ Len(got) <= Len(sent)
  /\ \A i \in 1..Len(got) : got[i] = sent[i]

=============================================================================
