----------------------------- MODULE FrameStream -----------------------------
(***************************************************************************)
(* One direction of a connection, by the byte: WriteDataTcp() called by    *)
(* sendResponse() for a length and then a text, ReadDataTcp() called for   *)
(* each of them by the other end, and between them a TCP stream that       *)
(* takes and gives any number of bytes per call.  Each call encrypts or    *)
(* decrypts its part on its own with Aes256.                               *)
(*                                                                         *)
(* Bytes are positions of the stream: what the reader finds at a position  *)
(* is what the writer put there.  A part is only recognised by a read that *)
(* begins where it begins; any other read decrypts to anything.            *)
(***************************************************************************)
EXTENDS Integers, Sequences

CONSTANTS
  Lengths,    \* lengths of the texts the writer sends
  Chunks,     \* byte counts send() and recv() may return besides all they can
  Window,     \* bytes TCP holds between the two ends
  SEND_DATA_SIZE, RECEIVE_DATA_SIZE,  \* sizes of the buffers for encrypted parts: 4096
  Limit,      \* longest text the reader accepts: sizeof(DataString), 4096, in the server
  MaxFrames   \* bound: texts written

ASSUME StreamAssumption ==
  /\ Lengths \subseteq Nat
  /\ Chunks \subseteq Nat \ {0}
  /\ Window \in Nat
  /\ \E n \in Chunks : n <= Window
  /\ {SEND_DATA_SIZE, RECEIVE_DATA_SIZE, Limit} \subseteq Nat
  /\ MaxFrames \in Nat

AES_BLOCK_SIZE == 16
USHORT         == 65536               \* 2^16
HeaderSize     == 2                   \* sizeof(DataStringLength)

VARIABLES
  wpc,       \* the part sendResponse() is writing; ended: its process is gone
  frames,    \* every frame begun: the length of its text, the position of its first byte
  wdone,     \* total_bytes_written of the current call
  put,       \* bytes given to TCP so far
  rpc,       \* the part the reader is waiting for; ended: it reads no more
  announced, \* data_length
  taken,     \* position at which the current ReadDataTcp() began
  rgot,      \* its i
  link,      \* fin, reset: as recv() sees it
  sent,      \* history: the texts that are on the stream to their last byte
  got        \* history: the texts the reader was given

writerVars == <<wpc, frames, wdone, put, sent>>
readerVars == <<rpc, announced, taken, rgot, got>>
vars == <<writerVars, readerVars, link>>

Garbled == [no |-> 0, len |-> 0]
Texts   == [no : 1..MaxFrames, len : Lengths]

TypeOK ==
  /\ wpc \in {"idle", "header", "body", "ended"}
  /\ frames \in Seq([len : Lengths, start : Nat])
  /\ wdone \in Nat /\ put \in Nat
  /\ rpc \in {"header", "body", "ended"}
  /\ announced \in 0..(USHORT - 1) /\ taken \in Nat /\ rgot \in Nat
  /\ link \in {"up", "fin", "reset"}
  /\ sent \in Seq(Texts) /\ got \in Seq(Texts)

Init ==
  /\ wpc = "idle" /\ frames = <<>> /\ wdone = 0 /\ put = 0
  /\ rpc = "header" /\ announced = 0 /\ taken = 0 /\ rgot = 0
  /\ link = "up" /\ sent = <<>> /\ got = <<>>

-----------------------------------------------------------------------------
(* The three places that compute lengths.                                   *)

\* ReadDataTcp() and WriteDataTcp(): the bytes of a part of n plain ones
EncryptedLength(n) ==
  IF n % AES_BLOCK_SIZE = 0 THEN (n \div AES_BLOCK_SIZE) * AES_BLOCK_SIZE + 1
                            ELSE (n \div AES_BLOCK_SIZE + 1) * AES_BLOCK_SIZE + 1

PaddingToBlock(n) == AES_BLOCK_SIZE - (n % AES_BLOCK_SIZE)                  \* mutant

\* encrypt_start(): the byte in front of the blocks
Padding(n) == IF n % AES_BLOCK_SIZE = 0 THEN 0 ELSE AES_BLOCK_SIZE - (n % AES_BLOCK_SIZE)

\* encrypt(): that byte, the full blocks, and one more from encrypt_end()
Encrypted(n) ==
  1 + AES_BLOCK_SIZE * (n \div AES_BLOCK_SIZE)
    + (IF n % AES_BLOCK_SIZE = 0 THEN 0 ELSE AES_BLOCK_SIZE)

DecryptedWhole(e, p) == AES_BLOCK_SIZE * ((e - 1) \div AES_BLOCK_SIZE)     \* mutant

\* decrypt() of e bytes that begin with padding byte p: m_remainingLength is
\* unsigned, and wraps around instead of becoming negative
Decrypted(e, p) ==
  LET blocks == AES_BLOCK_SIZE * ((e - 1) \div AES_BLOCK_SIZE)
  IN  IF p + 1 <= e /\ e - (p + 1) < blocks THEN e - (p + 1) ELSE blocks

-----------------------------------------------------------------------------
(* The writer.                                                              *)

Writing     == wpc \in {"header", "body"}
Frame       == frames[Len(frames)]
PlainLength == IF wpc = "header" THEN HeaderSize ELSE Frame.len
ToWrite     == EncryptedLength(PlainLength)

\* sendData is too small, or encryptedData.at() throws
WriterOverrun == ToWrite > SEND_DATA_SIZE \/ Encrypted(PlainLength) < ToWrite

\* sendResponse() is called; on a connection that is down both writes fail
sendResponse(n) ==
  /\ wpc = "idle" /\ link = "up" /\ Len(frames) < MaxFrames
  /\ frames' = Append(frames, [len |-> n, start |-> put])
  /\ wpc' = "header" /\ wdone' = 0
  /\ UNCHANGED <<put, sent, readerVars, link>>

\* one send() took n bytes, and more of the part is left
SendSome(n) ==
  /\ Writing /\ link = "up"
  /\ put - (taken + rgot) + n <= Window /\ wdone + n < ToWrite
  /\ put' = put + n /\ wdone' = wdone + n
  /\ UNCHANGED <<wpc, frames, sent, readerVars, link>>

\* send() took the rest: WriteDataTcp() returns, unless it overran its buffer
SendRest(n) ==
  /\ Writing /\ link = "up"
  /\ put - (taken + rgot) + n <= Window /\ wdone + n = ToWrite
  /\ put' = put + n /\ wdone' = 0
  /\ sent' = IF wpc = "body" THEN Append(sent, [no |-> Len(frames), len |-> Frame.len])
                             ELSE sent
  /\ wpc' = IF WriterOverrun THEN "ended" ELSE IF wpc = "header" THEN "body" ELSE "idle"
  /\ UNCHANGED <<frames, readerVars, link>>

\* the overrun ends the process before anything is sent
WriterEnds ==
  /\ Writing /\ WriterOverrun /\ wdone = 0 /\ link = "up"
  /\ wpc' = "ended"
  /\ UNCHANGED <<frames, wdone, put, sent, readerVars, link>>

\* send() is -1: sendResponse() goes on with the text, other callers stop
WriteFails ==
  /\ Writing /\ link # "up"
  /\ wpc' \in (IF wpc = "header" THEN {"body", "idle"} ELSE {"idle"})
  /\ wdone' = 0
  /\ UNCHANGED <<frames, put, sent, readerVars, link>>

-----------------------------------------------------------------------------
(* The reader.                                                              *)

ReadingWhileUp == rpc \in {"header", "body"} /\ link = "up"              \* mutant

\* what had arrived before a FIN is still read
Reading == rpc \in {"header", "body"} /\ link # "reset"
ToRead == EncryptedLength(IF rpc = "header" THEN HeaderSize ELSE announced)

RecvSome(n) ==
  /\ Reading
  /\ taken + rgot + n <= put /\ rgot + n < ToRead
  /\ rgot' = rgot + n
  /\ UNCHANGED <<rpc, announced, taken, got, writerVars, link>>

RecvBlocks(n) ==                                              \* mutant
  /\ Reading
  /\ taken + rgot + n <= put /\ rgot + n = ToRead - 1
  /\ taken' = taken + ToRead - 1 /\ rgot' = 0
  /\ UNCHANGED <<writerVars, link>>

\* the last recv() of a call: n is what was missing
RecvRest(n) ==
  /\ Reading
  /\ taken + rgot + n <= put /\ rgot + n = ToRead
  /\ taken' = taken + ToRead /\ rgot' = 0
  /\ UNCHANGED <<writerVars, link>>

\* what the length decrypts to: (u_short)response.length(), if there is one here
LengthsRead ==
  LET here == {k \in 1..Len(frames) : frames[k].start = taken}
  IN  IF here = {} THEN 0..(USHORT - 1) ELSE {frames[k].len % USHORT : k \in here}

\* the check of the server's main(); GetResponses() of the laptop has none, which
\* is a Limit of USHORT - 1
Accepted(v) == v <= Limit

ReadHeader(n) ==
  /\ rpc = "header"
  /\ RecvRest(n)
  /\ announced' \in LengthsRead
  /\ rpc' = IF Accepted(announced') THEN "body" ELSE "ended"
  /\ got' = got

TextsRead ==
  LET here == {k \in 1..Len(frames) :
                 frames[k].start + EncryptedLength(HeaderSize) = taken}
  IN  IF here = {} THEN {Garbled}
      ELSE {[no |-> k, len |-> Decrypted(ToRead, Padding(frames[k].len))] : k \in here}

ReadBody(n) ==
  /\ rpc = "body" /\ ToRead <= RECEIVE_DATA_SIZE
  /\ RecvRest(n)
  /\ got' \in {Append(got, t) : t \in TextsRead}
  /\ rpc' = "header"
  /\ UNCHANGED announced

\* receiveData was too small: the process ends when ReadDataTcp() returns
ReadBodyOverrun(n) ==
  /\ rpc = "body" /\ ToRead > RECEIVE_DATA_SIZE
  /\ RecvRest(n)
  /\ rpc' = "ended"
  /\ UNCHANGED <<announced, got>>

\* recv() is -1: the port is closed, but after a text the server keeps it
ReadFails ==
  /\ rpc # "ended" /\ link = "reset"
  /\ rpc' \in (IF rpc = "body" THEN {"header", "ended"} ELSE {"ended"})
  /\ taken' = taken + rgot /\ rgot' = 0
  /\ UNCHANGED <<announced, got, writerVars, link>>

-----------------------------------------------------------------------------
\* a process that ended closes its connection too, in its own time
CloseLink == link = "up" /\ link' = "fin" /\ UNCHANGED <<writerVars, readerVars>>
ResetLink == link # "reset" /\ link' = "reset" /\ UNCHANGED <<writerVars, readerVars>>

SendBytes ==
  Writing /\ \E n \in Chunks \cup {ToWrite - wdone} : SendSome(n) \/ SendRest(n)

RecvBytes ==
  \E n \in Chunks \cup {ToRead - rgot, put - (taken + rgot)} :
    n > 0 /\ (RecvSome(n) \/ ReadHeader(n) \/ ReadBody(n) \/ ReadBodyOverrun(n))

Next ==
  \/ \E n \in Lengths : sendResponse(n)
  \/ SendBytes \/ WriterEnds \/ WriteFails
  \/ RecvBytes \/ ReadFails
  \/ CloseLink \/ ResetLink

Spec == Init /\ [][Next]_vars

\* a write that was begun goes on, and the reader comes back to recv()
FairSpec == Spec /\ WF_vars(SendBytes) /\ WF_vars(RecvBytes)

-----------------------------------------------------------------------------
(***************************************************************************)
(* The byte stream implements the channel of whole messages: a text is put *)
(* when its last byte is on the stream and got when its read returns; the  *)
(* connection is broken for the reader once it is reset or it reads no more*)
(***************************************************************************)
Channel == INSTANCE FrameChannel WITH
             Message <- Texts,
             link <- IF rpc = "ended" \/ link = "reset" THEN "broken"
                     ELSE IF link = "fin" THEN "closed" ELSE "up"

ImplementsChannel == Channel!Spec
DeliversLikeChannel == Channel!FairSpec

(***************************************************************************)
(* Every call of ReadDataTcp() begins where a call of WriteDataTcp() began,*)
(* and it is the next one: chunks, padding and the lengths the two sides   *)
(* compute on their own never let them drift apart.                        *)
(***************************************************************************)
Boundary == IF rpc = "header" THEN 0 ELSE EncryptedLength(HeaderSize)

ReadsAtBoundaries ==
  Reading /\ rgot > 0 =>
    /\ Len(got) < Len(frames)
    /\ taken = frames[Len(got) + 1].start + Boundary

(***************************************************************************)
(* A text whose length passes the reader's check ("Data string length      *)
(* error" for more) can be written: its sender survives the call.          *)
(***************************************************************************)
AcceptedTextFits == wpc = "ended" => ~Accepted(Frame.len)

==============================================================================
