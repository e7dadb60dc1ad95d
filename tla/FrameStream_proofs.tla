-------------------------- MODULE FrameStream_proofs --------------------------
(* Proofs about FrameStream: lengths, boundaries and the refinement.          *)
EXTENDS FrameStream, TLAPS

(***************************************************************************)
(* For every plain length the reader and the writer compute the length     *)
(* Aes256 produces (NetworkTCP.cpp), and decryption gives back as many     *)
(* bytes as were encrypted: no boundary of the block size is an exception. *)
(***************************************************************************)
THEOREM LengthsAgree ==
  ASSUME NEW n \in Nat
  PROVE  /\ EncryptedLength(n) \in Nat
         /\ EncryptedLength(n) > n
         /\ Encrypted(n) = EncryptedLength(n)
         /\ Decrypted(EncryptedLength(n), Padding(n)) = n
<1> DEFINE q == n \div 16
           r == n % 16
<1>1. q \in Nat /\ r \in 0..15 /\ n = 16 * q + r
  OBVIOUS
<1> HIDE DEF q, r
<1>2. /\ EncryptedLength(n) = IF r = 0 THEN q * 16 + 1 ELSE (q + 1) * 16 + 1
      /\ Encrypted(n) = 1 + 16 * q + (IF r = 0 THEN 0 ELSE 16)
      /\ Padding(n) = IF r = 0 THEN 0 ELSE 16 - r
  BY DEF EncryptedLength, Encrypted, Padding, AES_BLOCK_SIZE, q, r
<1>3. (EncryptedLength(n) - 1) \div 16 = IF r = 0 THEN q ELSE q + 1
  BY <1>1, <1>2
<1>4. QED
  BY <1>1, <1>2, <1>3 DEF Decrypted, AES_BLOCK_SIZE

-----------------------------------------------------------------------------
(* Texts whose length fits the header; SendRest, ReadBodyOverrun and          *)
(* WriterEnds show what becomes of those that do not fit a buffer.            *)
ShortTexts == \A n \in Lengths : n < USHORT

HeaderBytes == EncryptedLength(HeaderSize)

\* the position behind frame k, and the first position of frame k or the next one
End(k)   == frames[k].start + HeaderBytes + EncryptedLength(frames[k].len)
Start(k) == IF k <= Len(frames) THEN frames[k].start ELSE put

FramesAdjacent ==
  /\ \A k \in 1..Len(frames) : k < Len(frames) => frames[k + 1].start = End(k)
  /\ \A j, k \in 1..Len(frames) : j < k => End(j) <= frames[k].start
  /\ Len(frames) = 0 => put = 0
  /\ Len(frames) <= MaxFrames

SentFrames ==
  /\ Len(sent) <= Len(frames) /\ Len(frames) <= Len(sent) + 1
  /\ \A k \in 1..Len(sent) : sent[k] = [no |-> k, len |-> frames[k].len]
  /\ Len(frames) > 0 =>
       /\ frames[Len(frames)].start <= put
       /\ IF Len(sent) = Len(frames) THEN put = End(Len(frames)) ELSE put < End(Len(frames))

WriterAt ==
  /\ Writing => Len(sent) < Len(frames)
  /\ link = "up" =>
       CASE wpc = "idle"   -> Len(sent) = Len(frames)
         [] wpc = "header" -> put = Frame.start + wdone /\ wdone < ToWrite
         [] wpc = "body"   -> put = Frame.start + HeaderBytes + wdone /\ wdone < ToWrite
         [] OTHER -> TRUE

GotSent ==
  /\ Len(got) <= Len(sent)
  /\ \A k \in 1..Len(got) : got[k] = sent[k]

ReaderAt ==
  Reading =>
    /\ taken + rgot <= put /\ rgot < ToRead
    /\ rpc = "header" => taken = Start(Len(got) + 1)
    /\ rpc = "body" =>
         /\ Len(got) < Len(frames)
         /\ taken = frames[Len(got) + 1].start + HeaderBytes
         /\ announced = frames[Len(got) + 1].len

IndInv == TypeOK /\ FramesAdjacent /\ SentFrames /\ WriterAt /\ GotSent /\ ReaderAt

LEMMA HeaderBytesIs17 == HeaderBytes = 17
  BY DEF HeaderBytes, EncryptedLength, HeaderSize, AES_BLOCK_SIZE

LEMMA InitInd == Init => IndInv
<1> SUFFICES ASSUME Init PROVE IndInv
  OBVIOUS
<1> USE DEF Init
<1>1. TypeOK
  BY DEF TypeOK, USHORT
<1>2. FramesAdjacent /\ SentFrames /\ GotSent
  BY StreamAssumption DEF FramesAdjacent, SentFrames, GotSent
<1>3. WriterAt
  BY DEF WriterAt, Writing
<1>4. ReaderAt
  BY HeaderBytesIs17 DEF ReaderAt, Reading, ToRead, Start, HeaderBytes
<1>5. QED
  BY <1>1, <1>2, <1>3, <1>4 DEF IndInv

-----------------------------------------------------------------------------
(* One lemma per action.                                                      *)

\* what frames says of the frames already begun outlives the start of another
LEMMA FramesGrow ==
  ASSUME TypeOK, NEW f \in [len : Lengths, start : Nat], frames' = Append(frames, f)
  PROVE  /\ Len(frames') = Len(frames) + 1
         /\ \A k \in 1..Len(frames) : frames'[k] = frames[k] /\ End(k)' = End(k)
         /\ frames'[Len(frames) + 1] = f
  BY DEF TypeOK, End, HeaderBytes

LEMMA EndTyped ==
  ASSUME TypeOK, NEW k \in 1..Len(frames)
  PROVE  /\ frames[k].len \in Lengths /\ frames[k].len \in Nat /\ frames[k].start \in Nat
         /\ EncryptedLength(frames[k].len) \in Nat
         /\ EncryptedLength(frames[k].len) > 0
         /\ End(k) \in Nat /\ End(k) > frames[k].start + HeaderBytes
         /\ HeaderBytes = 17
<1> DEFINE S == [len : Lengths, start : Nat]
<1>1. frames[k] \in S
  <2>1. frames \in Seq(S)
    BY DEF TypeOK
  <2> HIDE DEF S
  <2>2. QED
    BY <2>1
<1>2. frames[k].len \in Lengths /\ frames[k].len \in Nat /\ frames[k].start \in Nat
  BY <1>1, StreamAssumption
<1>3. /\ EncryptedLength(frames[k].len) \in Nat
      /\ EncryptedLength(frames[k].len) > frames[k].len
  BY <1>2, LengthsAgree
<1>4. QED
  BY <1>2, <1>3, HeaderBytesIs17 DEF End

LEMMA SendResponseInd ==
  ASSUME IndInv, NEW n \in Lengths, sendResponse(n)
  PROVE  IndInv'
<1> DEFINE f == [len |-> n, start |-> put]
<1> USE DEF sendResponse, readerVars
<1> PICK L \in Nat : L = Len(frames)
  BY DEF IndInv, TypeOK
<1>1. f \in [len : Lengths, start : Nat] /\ n \in Nat /\ L \in Nat
  BY StreamAssumption DEF IndInv, TypeOK
<1>2. /\ frames' = Append(frames, f)
      /\ put' = put /\ sent' = sent /\ got' = got /\ taken' = taken /\ rgot' = rgot
      /\ rpc' = rpc /\ announced' = announced /\ link' = link
      /\ wpc' = "header" /\ wdone' = 0 /\ wpc = "idle" /\ link = "up" /\ L < MaxFrames
  OBVIOUS
<1> HIDE DEF f
<1>3. /\ Len(frames') = L + 1
      /\ \A k \in 1..L : frames'[k] = frames[k] /\ End(k)' = End(k)
      /\ frames'[L + 1] = f
  BY <1>1, <1>2, FramesGrow DEF IndInv
<1>4. TypeOK'
  BY <1>1, <1>2 DEF IndInv, TypeOK
<1>5. Len(sent) = L /\ (L > 0 => put = End(L)) /\ (L = 0 => put = 0)
  BY <1>2 DEF IndInv, WriterAt, SentFrames, FramesAdjacent
<1>6. put \in Nat /\ f.start = put /\ f.len = n
  BY DEF IndInv, TypeOK, f
<1>7. \A k \in 1..L : End(k) <= put /\ End(k) \in Nat
  <2> SUFFICES ASSUME NEW k \in 1..L PROVE End(k) <= put /\ End(k) \in Nat
    OBVIOUS
  <2>1. End(k) \in Nat /\ End(L) > frames[L].start
    BY <1>1, EndTyped, HeaderBytesIs17 DEF IndInv
  <2>2. CASE k = L
    BY <1>5, <2>1, <2>2
  <2>3. CASE k < L
    <3>1. End(k) <= frames[L].start
      BY <2>3, <1>1 DEF IndInv, FramesAdjacent
    <3>2. frames[L].start \in Nat
      BY EndTyped, <1>1 DEF IndInv
    <3>3. End(L) \in Nat
      BY EndTyped, <1>1 DEF IndInv
    <3>4. QED
      BY <3>1, <3>2, <3>3, <2>1, <1>5, <1>6
  <2>4. QED
    BY <2>2, <2>3, <1>1
<1>8. FramesAdjacent'
  <2>1. \A k \in 1..Len(frames)' : k < Len(frames)' => frames'[k + 1].start = End(k)'
    <3> SUFFICES ASSUME NEW k \in 1..Len(frames)', k < Len(frames)'
                 PROVE  frames'[k + 1].start = End(k)'
      OBVIOUS
    <3> k \in 1..L /\ End(k)' = End(k)
      BY <1>1, <1>3
    <3>1. CASE k = L
      BY <3>1, <1>3, <1>5, <1>6, <1>1
    <3>2. CASE k < L
      BY <3>2, <1>3, <1>1 DEF IndInv, FramesAdjacent
    <3>3. QED
      BY <3>1, <3>2, <1>1
  <2>2. \A j, k \in 1..Len(frames)' : j < k => End(j)' <= frames'[k].start
    <3> SUFFICES ASSUME NEW j \in 1..L, NEW k \in 1..(L + 1), j < k
                 PROVE  End(j) <= frames'[k].start
      BY <1>1, <1>3
    <3>1. CASE k = L + 1
      BY <3>1, <1>3, <1>6, <1>7
    <3>2. CASE k <= L
      BY <3>2, <1>3, <1>1 DEF IndInv, FramesAdjacent
    <3>3. QED
      BY <3>1, <3>2, <1>1
  <2>3. Len(frames)' <= MaxFrames
    BY <1>1, <1>2, <1>3, StreamAssumption
  <2>4. QED
    BY <2>1, <2>2, <2>3, <1>1, <1>3 DEF FramesAdjacent
<1>9. End(L + 1)' \in Nat /\ End(L + 1)' > put /\ EncryptedLength(HeaderSize) = 17
  <2>1. EncryptedLength(n) \in Nat
    BY <1>1, LengthsAgree
  <2>2. HeaderBytes = 17
    BY HeaderBytesIs17
  <2>3. End(L + 1)' = put + HeaderBytes + EncryptedLength(n)
    BY <1>3, <1>6 DEF End, HeaderBytes
  <2>4. QED
    BY <2>1, <2>2, <2>3, <1>6 DEF HeaderBytes
<1>10. SentFrames'
  BY <1>1, <1>2, <1>3, <1>5, <1>6, <1>9 DEF IndInv, SentFrames
<1>11. WriterAt'
  BY <1>1, <1>2, <1>3, <1>5, <1>6, <1>9 DEF WriterAt, Writing, Frame, ToWrite, PlainLength
<1>12. GotSent'
  BY <1>2 DEF IndInv, GotSent
<1>13. ReaderAt'
  <2> SUFFICES ASSUME Reading' PROVE ReaderAt'
    BY DEF ReaderAt
  <2>1. Reading /\ ToRead' = ToRead
    BY <1>2 DEF Reading, ToRead
  <2>2. Len(got) \in Nat /\ Len(got) <= L
    BY <1>1, <1>5 DEF IndInv, GotSent, TypeOK
  <2>3. Start(Len(got) + 1)' = Start(Len(got) + 1)
    BY <1>1, <1>2, <1>3, <1>6, <2>2 DEF Start
  <2>4. Len(got) < L => frames'[Len(got) + 1] = frames[Len(got) + 1]
    BY <2>2, <1>1, <1>3
  <2>5. HeaderBytes' = HeaderBytes
    BY DEF HeaderBytes
  <2>6. QED
    BY <1>1, <1>2, <1>3, <2>1, <2>2, <2>3, <2>4, <2>5 DEF IndInv, ReaderAt
<1>14. QED
  BY <1>4, <1>8, <1>10, <1>11, <1>12, <1>13 DEF IndInv

-----------------------------------------------------------------------------
\* where the end of a call leaves put, seen from the frame
LEMMA WriterPlace ==
  ASSUME IndInv, Writing, link = "up"
  PROVE  /\ Len(frames) \in Nat /\ Len(sent) \in Nat /\ Len(frames) = Len(sent) + 1
         /\ Frame = frames[Len(frames)]
         /\ Frame.start \in Nat /\ Frame.len \in Lengths
         /\ ToWrite \in Nat /\ wdone \in Nat /\ wdone < ToWrite
         /\ End(Len(frames)) \in Nat
         /\ wpc = "header" => /\ put = Frame.start + wdone
                              /\ Frame.start + ToWrite < End(Len(frames))
                              /\ ToWrite = HeaderBytes
         /\ wpc = "body" => /\ put = Frame.start + HeaderBytes + wdone
                            /\ Frame.start + HeaderBytes + ToWrite = End(Len(frames))
                            /\ ToWrite = EncryptedLength(Frame.len)
<1>1. Len(frames) \in Nat /\ Len(sent) \in Nat /\ Len(frames) = Len(sent) + 1
  BY DEF IndInv, TypeOK, SentFrames, WriterAt
<1>2. Len(frames) \in 1..Len(frames)
  BY <1>1
<1>3. /\ Frame.len \in Lengths /\ Frame.len \in Nat /\ Frame.start \in Nat
      /\ EncryptedLength(Frame.len) \in Nat
      /\ EncryptedLength(Frame.len) > 0
      /\ End(Len(frames)) \in Nat
      /\ HeaderBytes = 17
  BY <1>2, EndTyped DEF Frame, IndInv
<1>4. End(Len(frames)) = Frame.start + HeaderBytes + EncryptedLength(Frame.len)
  BY DEF End, Frame
<1>5. wpc = "header" => ToWrite = HeaderBytes
  BY DEF ToWrite, PlainLength, HeaderBytes
<1>6. wpc = "body" => ToWrite = EncryptedLength(Frame.len)
  BY DEF ToWrite, PlainLength
<1>7. wdone \in Nat /\ wdone < ToWrite
  BY DEF IndInv, TypeOK, WriterAt, Writing
<1>8. /\ wpc = "header" => put = Frame.start + wdone
      /\ wpc = "body" => put = Frame.start + HeaderBytes + wdone
  BY DEF IndInv, WriterAt
<1>9. QED
  BY <1>1, <1>3, <1>4, <1>5, <1>6, <1>7, <1>8 DEF Writing, Frame

\* more bytes on the stream do not disturb a reader that has still a frame to read
LEMMA ReaderUndisturbed ==
  ASSUME IndInv, UNCHANGED <<frames, readerVars, link>>, put' \in Nat, put' >= put,
         Len(got) < Len(frames) \/ put' = put
  PROVE  ReaderAt'
<1> SUFFICES ASSUME Reading' PROVE ReaderAt'
  BY DEF ReaderAt
<1>1. Reading /\ ToRead' = ToRead
  BY DEF Reading, ToRead, readerVars
<1>2. Len(got) \in Nat /\ Len(frames) \in Nat /\ put \in Nat /\ taken \in Nat /\ rgot \in Nat
  BY DEF IndInv, TypeOK
<1>3. Start(Len(got) + 1)' = Start(Len(got) + 1)
  BY <1>2 DEF Start, readerVars
<1>4. HeaderBytes' = HeaderBytes
  BY DEF HeaderBytes
<1>5. QED
  BY <1>1, <1>2, <1>3, <1>4 DEF IndInv, ReaderAt, readerVars

\* a step that leaves the frames begun and completed alone
LEMMA FramesKept ==
  ASSUME IndInv, UNCHANGED <<frames, sent, got>>, put' = put \/ Len(sent) < Len(frames),
         put' \in Nat, put' >= put, Len(sent) < Len(frames) => put' < End(Len(frames))
  PROVE  FramesAdjacent' /\ SentFrames' /\ GotSent'
<1>1. \A k : End(k)' = End(k)
  BY DEF End, HeaderBytes
<1>2. Len(frames) \in Nat /\ Len(sent) \in Nat /\ put \in Nat
  BY DEF IndInv, TypeOK
<1>3. FramesAdjacent'
  BY <1>1, <1>2 DEF IndInv, FramesAdjacent, SentFrames
<1>4. \A k \in 1..Len(frames) : frames[k].start \in Nat /\ End(k) \in Nat
  BY EndTyped DEF IndInv
<1>5. SentFrames'
  BY <1>1, <1>2, <1>4 DEF IndInv, SentFrames
<1>6. GotSent'
  BY DEF IndInv, GotSent
<1>7. QED
  BY <1>3, <1>5, <1>6

LEMMA SendSomeInd ==
  ASSUME IndInv, NEW n \in Nat, SendSome(n)
  PROVE  IndInv'
<1> USE DEF SendSome
<1> PICK L \in Nat : L = Len(frames)
  BY DEF IndInv, TypeOK
<1>1. /\ wpc' = wpc /\ frames' = frames /\ sent' = sent /\ link' = link /\ UNCHANGED readerVars
      /\ put' = put + n /\ wdone' = wdone + n /\ wdone + n < ToWrite
      /\ Writing /\ link = "up"
  OBVIOUS
<1>2. TypeOK'
  BY <1>1 DEF IndInv, TypeOK, readerVars
<1>3. put' \in Nat /\ put' >= put /\ put' < End(L) /\ L = Len(sent) + 1 /\ Len(sent) \in Nat
  <2>1. put \in Nat /\ put' \in Nat /\ put' >= put
    BY <1>1 DEF IndInv, TypeOK
  <2>2. L = Len(sent) + 1 /\ Len(sent) \in Nat /\ End(L) \in Nat
    BY <1>1, WriterPlace
  <2>3. CASE wpc = "header"
    BY <1>1, <2>1, <2>2, <2>3, WriterPlace
  <2>4. CASE wpc = "body"
    BY <1>1, <2>1, <2>2, <2>4, WriterPlace, HeaderBytesIs17
  <2>5. QED
    BY <1>1, <2>1, <2>2, <2>3, <2>4 DEF Writing
<1>4. FramesAdjacent' /\ SentFrames' /\ GotSent'
  BY <1>1, <1>3, FramesKept DEF readerVars
<1>5. WriterAt'
  <2>1. ToWrite' = ToWrite /\ Frame' = Frame /\ HeaderBytes' = HeaderBytes
    BY <1>1 DEF ToWrite, PlainLength, Frame, HeaderBytes
  <2>2. QED
    BY <1>1, <1>3, <2>1, WriterPlace, HeaderBytesIs17 DEF WriterAt, Writing
<1>6. ReaderAt'
  <2>1. Len(got) < L
    BY <1>3 DEF IndInv, GotSent, TypeOK
  <2>2. QED
    BY <1>1, <1>3, <2>1, ReaderUndisturbed
<1>7. QED
  BY <1>2, <1>4, <1>5, <1>6 DEF IndInv

LEMMA SendRestInd ==
  ASSUME IndInv, NEW n \in Nat, SendRest(n)
  PROVE  IndInv'
<1> PICK L \in Nat : L = Len(frames)
  BY DEF IndInv, TypeOK
<1>1. /\ frames' = frames /\ link' = link /\ UNCHANGED readerVars
      /\ put' = put + n /\ wdone' = 0 /\ wdone + n = ToWrite
      /\ Writing /\ link = "up"
      /\ wpc' = IF WriterOverrun THEN "ended" ELSE IF wpc = "header" THEN "body" ELSE "idle"
      /\ sent' = IF wpc = "body" THEN Append(sent, [no |-> L, len |-> Frame.len]) ELSE sent
  BY DEF SendRest
<1>2. /\ put \in Nat /\ put' \in Nat /\ put' >= put
      /\ L = Len(sent) + 1 /\ Len(sent) \in Nat /\ L \in 1..MaxFrames
  BY <1>1, WriterPlace, StreamAssumption DEF IndInv, TypeOK, FramesAdjacent
<1>3. ReaderAt'
  <2>1. Len(got) < L
    BY <1>2 DEF IndInv, GotSent, TypeOK
  <2>2. QED
    BY <1>1, <1>2, <2>1, ReaderUndisturbed
<1>4. ToWrite' = (IF wpc' = "header" THEN EncryptedLength(HeaderSize) ELSE EncryptedLength(Frame.len))
      /\ Frame' = Frame /\ HeaderBytes' = HeaderBytes
  BY <1>1 DEF ToWrite, PlainLength, Frame, HeaderBytes
<1>5. CASE wpc = "header"
  <2>1. sent' = sent /\ wpc' \in {"body", "ended"}
    BY <1>1, <1>5
  <2>2. TypeOK'
    BY <1>1, <1>2, <2>1 DEF IndInv, TypeOK, readerVars
  <2>3. put' = Frame.start + HeaderBytes /\ put' < End(L)
    BY <1>1, <1>2, <1>5, WriterPlace, HeaderBytesIs17
  <2>4. FramesAdjacent' /\ SentFrames' /\ GotSent'
    BY <1>1, <1>2, <2>1, <2>3, FramesKept DEF readerVars
  <2>5. EncryptedLength(Frame.len) \in Nat /\ EncryptedLength(Frame.len) > 0 /\ Frame.start \in Nat
    BY <1>2, EndTyped DEF Frame, IndInv
  <2>6. WriterAt'
    BY <1>1, <1>2, <1>4, <2>1, <2>3, <2>5, HeaderBytesIs17 DEF WriterAt, Writing
  <2>7. QED
    BY <1>3, <2>2, <2>4, <2>6 DEF IndInv
<1>6. CASE wpc = "body"
  <2>1. sent' = Append(sent, [no |-> L, len |-> Frame.len]) /\ wpc' \in {"idle", "ended"}
    BY <1>1, <1>6
  <2>2. Frame.len \in Lengths /\ Frame.len = frames[L].len
    BY <1>1, WriterPlace
  <2>3. [no |-> L, len |-> Frame.len] \in Texts
    BY <1>2, <2>2 DEF Texts
  <2>4. TypeOK'
    BY <1>1, <1>2, <2>1, <2>3 DEF IndInv, TypeOK, readerVars
  <2>5. /\ Len(sent') = L
        /\ sent'[L] = [no |-> L, len |-> frames[L].len]
        /\ \A k \in 1..Len(sent) : sent'[k] = sent[k]
    BY <1>2, <2>1, <2>2 DEF IndInv, TypeOK
  <2>6. put' = End(L)
    <3>1. /\ put = Frame.start + HeaderBytes + wdone
          /\ End(L) = Frame.start + HeaderBytes + ToWrite
          /\ Frame.start \in Nat /\ wdone \in Nat /\ ToWrite \in Nat
      BY <1>1, <1>6, WriterPlace
    <3>2. put' = put + n /\ wdone + n = ToWrite
      BY <1>1
    <3>3. QED
      BY <3>1, <3>2, HeaderBytesIs17
  <2>7. \A k : End(k)' = End(k)
    BY <1>1 DEF End, HeaderBytes
  <2>8. FramesAdjacent'
    BY <1>1, <1>2, <2>7 DEF IndInv, FramesAdjacent
  <2>9. SentFrames'
    <3>1. \A k \in 1..L : sent'[k] = [no |-> k, len |-> frames[k].len]
      <4>1. \A k \in 1..Len(sent) : sent[k] = [no |-> k, len |-> frames[k].len]
        BY DEF IndInv, SentFrames
      <4>2. \A k \in 1..L : k = L \/ k \in 1..Len(sent)
        BY <1>2
      <4>3. QED
        BY <4>1, <4>2, <2>5
    <3>2. frames[L].start <= put'
      BY <2>6, <1>2, EndTyped, HeaderBytesIs17 DEF IndInv
    <3>3. QED
      BY <1>1, <1>2, <2>5, <2>6, <2>7, <3>1, <3>2 DEF SentFrames
  <2>10. WriterAt'
    BY <1>1, <2>1, <2>5 DEF WriterAt, Writing
  <2>11. GotSent'
    <3>1. got' = got /\ Len(got) \in Nat
      BY <1>1 DEF readerVars, IndInv, TypeOK
    <3>2. QED
      BY <3>1, <1>2, <2>5 DEF IndInv, GotSent
  <2>12. QED
    BY <1>3, <2>4, <2>8, <2>9, <2>10, <2>11 DEF IndInv
<1>7. QED
  BY <1>1, <1>5, <1>6 DEF Writing

\* the steps that move no byte and no text
LEMMA WriterStopsInd ==
  ASSUME IndInv, WriterEnds \/ WriteFails \/ CloseLink \/ ResetLink
  PROVE  IndInv'
<1>1. /\ UNCHANGED <<frames, put, sent, readerVars>>
      /\ wdone' \in Nat /\ wpc' \in {"idle", "header", "body", "ended"}
      /\ link' \in {"up", "fin", "reset"}
      /\ link # "reset" \/ link' = link
      /\ Writing' => Writing
      /\ link' = "up" => link = "up" /\ wpc' \in {wpc, "ended"} /\ wdone' = wdone
  BY DEF WriterEnds, WriteFails, CloseLink, ResetLink, writerVars, readerVars, Writing, IndInv, TypeOK
<1>2. TypeOK'
  BY <1>1 DEF IndInv, TypeOK, readerVars
<1>3. FramesAdjacent' /\ SentFrames' /\ GotSent'
  BY <1>1, FramesKept DEF readerVars, IndInv, SentFrames, TypeOK
<1>4. \A k : End(k)' = End(k) /\ Start(k)' = Start(k)
  BY <1>1 DEF End, HeaderBytes, Start
<1>5. HeaderBytes' = HeaderBytes /\ Frame' = Frame /\ (wpc' = wpc => ToWrite' = ToWrite)
  BY <1>1 DEF HeaderBytes, Frame, ToWrite, PlainLength
<1>6. WriterAt'
  BY <1>1, <1>5 DEF IndInv, WriterAt, Writing
<1>7. ReaderAt'
  <2> SUFFICES ASSUME Reading' PROVE ReaderAt'
    BY DEF ReaderAt
  <2>1. Reading /\ ToRead' = ToRead
    BY <1>1 DEF Reading, ToRead, readerVars
  <2>2. QED
    BY <1>1, <1>4, <1>5, <2>1 DEF IndInv, ReaderAt, readerVars
<1>8. QED
  BY <1>2, <1>3, <1>6, <1>7 DEF IndInv

-----------------------------------------------------------------------------
\* what a read that completes finds: the part that is next
LEMMA ReaderPlace ==
  ASSUME IndInv, ShortTexts, NEW n \in Nat, RecvRest(n), rpc # "ended"
  PROVE  /\ Len(got) \in Nat /\ Len(got) + 1 \in 1..Len(frames)
         /\ ToRead \in Nat /\ ToRead > 0 /\ HeaderBytes = 17
         /\ taken + ToRead <= put
         /\ rpc = "header" =>
              /\ taken = frames[Len(got) + 1].start /\ ToRead = HeaderBytes
              /\ LengthsRead = {frames[Len(got) + 1].len}
         /\ rpc = "body" =>
              /\ Len(got) + 1 <= Len(sent)
              /\ taken + ToRead = End(Len(got) + 1)
              /\ TextsRead = {sent[Len(got) + 1]}
<1> PICK g \in Nat : g = Len(got)
  BY DEF IndInv, TypeOK
<1> PICK L \in Nat : L = Len(frames)
  BY DEF IndInv, TypeOK
<1>1. /\ Reading /\ n \in Nat /\ rgot \in Nat /\ taken \in Nat /\ put \in Nat
      /\ rgot + n = ToRead /\ taken + rgot + n <= put /\ announced \in Nat
  BY DEF RecvRest, IndInv, TypeOK
<1>2. ToRead \in Nat /\ ToRead > 0 /\ HeaderBytes = 17 /\ (rpc = "header" => ToRead = HeaderBytes)
      /\ (rpc = "body" => ToRead = EncryptedLength(announced))
  <2>1. EncryptedLength(announced) \in Nat /\ EncryptedLength(announced) > 0
    <3>1. announced \in Nat
      BY <1>1
    <3>2. EncryptedLength(announced) \in Nat /\ EncryptedLength(announced) > announced
      BY ONLY <3>1, LengthsAgree
    <3>3. QED
      BY ONLY <3>1, <3>2
  <2>2. ToRead = IF rpc = "header" THEN HeaderBytes ELSE EncryptedLength(announced)
    BY DEF ToRead, HeaderBytes
  <2>3. QED
    BY <2>1, <2>2, HeaderBytesIs17
<1>3. taken + ToRead <= put
  BY <1>1, <1>2
<1>4. \A k \in 1..L : /\ frames[k].len \in Lengths /\ frames[k].len \in Nat
                      /\ frames[k].start \in Nat /\ End(k) \in Nat
                      /\ End(k) > frames[k].start + 17
                      /\ EncryptedLength(frames[k].len) > 0
                      /\ EncryptedLength(frames[k].len) \in Nat
  BY EndTyped DEF IndInv
<1>5. Len(sent) \in Nat /\ Len(sent) <= L /\ L <= Len(sent) + 1 /\ g <= Len(sent)
  BY DEF IndInv, TypeOK, SentFrames, GotSent
<1>6. \A j, k \in 1..L : j # k => frames[j].start # frames[k].start
  <2>1. \A j, k \in 1..L : j < k => frames[j].start # frames[k].start
    BY <1>4 DEF IndInv, FramesAdjacent
  <2>2. QED
    BY <2>1
<1>7. CASE rpc = "header"
  <2>1. taken = Start(g + 1)
    BY <1>1, <1>7 DEF IndInv, ReaderAt
  <2>2. g + 1 <= L
    <3> SUFFICES ASSUME g + 1 > L PROVE FALSE
      OBVIOUS
    <3>1. taken = put
      BY <2>1 DEF Start
    <3>2. QED
      BY <3>1, <1>1, <1>2, <1>3
  <2>3. taken = frames[g + 1].start
    BY <2>1, <2>2 DEF Start
  <2>4. frames[g + 1].len % USHORT = frames[g + 1].len
    <3> DEFINE len == frames[g + 1].len
    <3>1. len \in Lengths
      BY <1>4, <2>2
    <3>2. len \in Nat /\ len < 65536
      BY <3>1, <1>4, <2>2 DEF ShortTexts, USHORT
    <3> HIDE DEF len
    <3>3. len % 65536 = len
      BY <3>2
    <3>4. QED
      BY <3>3 DEF USHORT, len
  <2>5. {k \in 1..L : frames[k].start = taken} = {g + 1}
    BY <1>6, <2>2, <2>3
  <2>6. LengthsRead = {frames[g + 1].len}
    BY <2>4, <2>5 DEF LengthsRead
  <2>7. QED
    BY <1>2, <1>3, <1>7, <2>2, <2>3, <2>6
<1>8. CASE rpc = "body"
  <2>1. /\ g < L
        /\ taken = frames[g + 1].start + HeaderBytes
        /\ announced = frames[g + 1].len
    BY <1>1, <1>8 DEF IndInv, ReaderAt
  <2>2. taken + ToRead = End(g + 1)
    BY <1>2, <1>8, <2>1, <1>4 DEF End
  <2>3. g + 1 <= Len(sent)
    <3> SUFFICES ASSUME g + 1 > Len(sent) PROVE FALSE
      BY <1>5
    <3>1. L = g + 1 /\ Len(sent) # L
      BY <1>5, <2>1
    <3>2. put < End(L)
      BY <3>1 DEF IndInv, SentFrames
    <3>3. End(L) \in Nat
      BY <1>4, <3>1
    <3>4. QED
      BY <3>1, <3>2, <3>3, <1>3, <2>2, <1>1, <1>2
  <2>4. {k \in 1..L : frames[k].start + EncryptedLength(HeaderSize) = taken} = {g + 1}
    <3>1. EncryptedLength(HeaderSize) = 17
      BY <1>2 DEF HeaderBytes
    <3>2. g + 1 \in 1..L
      BY <2>1
    <3>3. \A k \in 1..L : frames[k].start + 17 = taken <=> frames[k].start = frames[g + 1].start
      <4>1. taken = frames[g + 1].start + 17 /\ frames[g + 1].start \in Nat
        BY <1>2, <1>4, <2>1, <3>2
      <4>2. QED
        BY ONLY <1>4, <4>1
    <3>4. \A k \in 1..L : frames[k].start + EncryptedLength(HeaderSize) = taken <=> k = g + 1
      BY <1>6, <3>1, <3>2, <3>3
    <3>5. QED
      BY <3>2, <3>4
  <2>5. Decrypted(ToRead, Padding(frames[g + 1].len)) = frames[g + 1].len
    <3>1. frames[g + 1].len \in Nat
      BY <1>4, <2>1
    <3>2. ToRead = EncryptedLength(frames[g + 1].len)
      BY <1>2, <1>8, <2>1
    <3>3. QED
      BY <3>1, <3>2, LengthsAgree
  <2>6. TextsRead = {[no |-> g + 1, len |-> frames[g + 1].len]}
    BY <2>4, <2>5 DEF TextsRead
  <2>7. sent[g + 1] = [no |-> g + 1, len |-> frames[g + 1].len]
    BY <2>3, <1>5 DEF IndInv, SentFrames
  <2>8. QED
    BY <1>2, <1>3, <1>8, <2>1, <2>2, <2>3, <2>6, <2>7
<1>9. QED
  BY <1>1, <1>7, <1>8 DEF Reading

\* the reader's steps leave the writer and the stream alone
LEMMA WriterUndisturbed ==
  ASSUME IndInv, UNCHANGED <<writerVars, link>>
  PROVE  FramesAdjacent' /\ SentFrames' /\ WriterAt' /\ (\A k : End(k)' = End(k) /\ Start(k)' = Start(k))
<1>1. \A k : End(k)' = End(k) /\ Start(k)' = Start(k)
  BY DEF End, HeaderBytes, Start, writerVars
<1>2. HeaderBytes' = HeaderBytes /\ Frame' = Frame /\ ToWrite' = ToWrite /\ Writing' = Writing
  BY DEF HeaderBytes, Frame, ToWrite, PlainLength, writerVars, Writing
<1>3. FramesAdjacent' /\ SentFrames'
  BY <1>1 DEF IndInv, FramesAdjacent, SentFrames, writerVars
<1>4. WriterAt'
  BY <1>2 DEF IndInv, WriterAt, writerVars
<1>5. QED
  BY <1>1, <1>3, <1>4

LEMMA RecvSomeInd ==
  ASSUME IndInv, NEW n \in Nat, RecvSome(n)
  PROVE  IndInv'
<1>1. /\ UNCHANGED <<rpc, announced, taken, got, writerVars, link>>
      /\ rgot' = rgot + n /\ rgot + n < ToRead /\ taken + rgot + n <= put /\ Reading
  BY DEF RecvSome
<1>2. rgot \in Nat /\ taken \in Nat /\ put \in Nat
  BY DEF IndInv, TypeOK
<1>3. TypeOK'
  BY <1>1, <1>2 DEF IndInv, TypeOK, writerVars
<1>4. /\ FramesAdjacent' /\ SentFrames' /\ WriterAt'
      /\ \A k : End(k)' = End(k) /\ Start(k)' = Start(k)
  BY <1>1, WriterUndisturbed
<1>5. GotSent'
  BY <1>1 DEF IndInv, GotSent, writerVars
<1>6. ReaderAt'
  <2>1. ToRead' = ToRead /\ HeaderBytes' = HeaderBytes /\ frames' = frames /\ put' = put
    BY <1>1 DEF ToRead, HeaderBytes, writerVars
  <2>2. taken' + rgot' <= put' /\ rgot' < ToRead'
    BY <1>1, <1>2, <2>1
  <2>3. QED
    BY <1>1, <1>4, <2>1, <2>2 DEF IndInv, ReaderAt
<1>7. QED
  BY <1>3, <1>4, <1>5, <1>6 DEF IndInv

LEMMA ReadHeaderInd ==
  ASSUME IndInv, ShortTexts, NEW n \in Nat, ReadHeader(n)
  PROVE  IndInv'
<1> PICK g \in Nat : g = Len(got)
  BY DEF IndInv, TypeOK
<1>1. /\ rpc = "header" /\ RecvRest(n) /\ got' = got
      /\ UNCHANGED <<writerVars, link>> /\ taken' = taken + ToRead /\ rgot' = 0
      /\ announced' \in LengthsRead /\ rpc' \in {"body", "ended"}
  BY DEF ReadHeader, RecvRest
<1>2. /\ g + 1 \in 1..Len(frames)
      /\ HeaderBytes = 17 /\ ToRead = HeaderBytes /\ taken + ToRead <= put
      /\ taken = frames[g + 1].start
      /\ announced' = frames[g + 1].len
  BY <1>1, ReaderPlace
<1>3. /\ announced' \in Lengths /\ announced' \in Nat
      /\ EncryptedLength(announced') \in Nat /\ EncryptedLength(announced') > 0
  BY <1>2, EndTyped DEF IndInv
<1>4. taken \in Nat /\ put \in Nat
  BY DEF IndInv, TypeOK
<1>5. announced' < USHORT
  BY <1>3 DEF ShortTexts
<1>6. TypeOK'
  <2>1. announced' \in 0..(USHORT - 1)
    <3>1. USHORT \in Nat
      BY DEF USHORT
    <3>2. QED
      BY <1>3, <1>5, <3>1
  <2>2. taken' \in Nat
    BY <1>1, <1>2, <1>4
  <2>3. QED
    BY <1>1, <2>1, <2>2 DEF IndInv, TypeOK, writerVars
<1>7. /\ FramesAdjacent' /\ SentFrames' /\ WriterAt'
      /\ \A k : End(k)' = End(k) /\ Start(k)' = Start(k)
  BY <1>1, WriterUndisturbed
<1>8. GotSent'
  BY <1>1 DEF IndInv, GotSent, writerVars
<1>9. ReaderAt'
  <2> SUFFICES ASSUME Reading' PROVE ReaderAt'
    BY DEF ReaderAt
  <2>1. rpc' = "body" /\ put' = put /\ frames' = frames /\ HeaderBytes' = HeaderBytes
    BY <1>1 DEF Reading, writerVars, HeaderBytes
  <2>2. ToRead' = EncryptedLength(announced')
    BY <2>1 DEF ToRead
  <2>3. taken' + rgot' <= put' /\ rgot' < ToRead'
    BY <1>1, <1>2, <1>3, <1>4, <2>1, <2>2
  <2>4. Len(got') < Len(frames') /\ taken' = frames'[g + 1].start + HeaderBytes
    BY <1>1, <1>2, <2>1
  <2>5. QED
    BY <1>1, <1>2, <2>1, <2>3, <2>4 DEF ReaderAt
<1>10. QED
  BY <1>6, <1>7, <1>8, <1>9 DEF IndInv

LEMMA ReadBodyInd ==
  ASSUME IndInv, ShortTexts, NEW n \in Nat, ReadBody(n)
  PROVE  IndInv' /\ Len(got) < Len(sent) /\ got' = Append(got, sent[Len(got) + 1])
<1> PICK g \in Nat : g = Len(got)
  BY DEF IndInv, TypeOK
<1>1. /\ rpc = "body" /\ RecvRest(n)
      /\ UNCHANGED <<writerVars, link>> /\ taken' = taken + ToRead /\ rgot' = 0
      /\ announced' = announced /\ rpc' = "header"
      /\ got' \in {Append(got, t) : t \in TextsRead}
  BY DEF ReadBody, RecvRest
<1>2. /\ g + 1 \in 1..Len(frames)
      /\ ToRead \in Nat /\ taken + ToRead <= put /\ HeaderBytes = 17
      /\ g + 1 <= Len(sent)
      /\ taken + ToRead = End(g + 1)
      /\ TextsRead = {sent[g + 1]}
  BY <1>1, ReaderPlace
<1>3. got' = Append(got, sent[g + 1])
  BY <1>1, <1>2
<1>4. taken \in Nat /\ put \in Nat /\ Len(sent) \in Nat /\ Len(frames) \in Nat
  BY DEF IndInv, TypeOK
<1>5. sent[g + 1] \in Texts /\ got \in Seq(Texts)
  BY <1>2, <1>4 DEF IndInv, TypeOK
<1>6. TypeOK'
  <2>1. got' \in Seq(Texts)
    BY <1>3, <1>5
  <2>2. taken' \in Nat
    BY <1>1, <1>2, <1>4
  <2>3. QED
    BY <1>1, <2>1, <2>2 DEF IndInv, TypeOK, writerVars
<1>7. /\ FramesAdjacent' /\ SentFrames' /\ WriterAt'
      /\ \A k : End(k)' = End(k) /\ Start(k)' = Start(k)
  BY <1>1, WriterUndisturbed
<1>8. /\ Len(got') = g + 1 /\ got'[g + 1] = sent[g + 1]
      /\ \A k \in 1..g : got'[k] = got[k]
  BY <1>3, <1>5
<1>9. GotSent'
  <2>1. \A k \in 1..g : got[k] = sent[k]
    BY DEF IndInv, GotSent
  <2>2. \A k \in 1..(g + 1) : k = g + 1 \/ k \in 1..g
    OBVIOUS
  <2>3. QED
    BY <1>1, <1>2, <1>8, <2>1, <2>2 DEF GotSent, writerVars
<1>10. ReaderAt'
  <2>1. put' = put /\ frames' = frames /\ sent' = sent /\ ToRead' = HeaderBytes /\ HeaderBytes' = HeaderBytes
    BY <1>1 DEF writerVars, ToRead, HeaderBytes
  <2>2. taken' + rgot' <= put' /\ rgot' < ToRead'
    BY <1>1, <1>2, <1>4, <2>1
  <2>3. End(g + 1) = Start(g + 2)
    <3>1. CASE g + 2 <= Len(frames)
      <4>1. frames[g + 2].start = End(g + 1)
        BY <1>2, <1>4, <3>1 DEF IndInv, FramesAdjacent
      <4>2. QED
        BY <3>1, <4>1 DEF Start
    <3>2. CASE g + 2 > Len(frames)
      <4>1. Len(frames) = g + 1 /\ Len(sent) = Len(frames)
        BY <3>2, <1>2, <1>4 DEF IndInv, SentFrames
      <4>2. put = End(g + 1)
        BY <4>1 DEF IndInv, SentFrames
      <4>3. QED
        BY <3>2, <4>2, <1>4 DEF Start
    <3>3. QED
      BY <3>1, <3>2, <1>4
  <2>4. taken' = Start(g + 2)'
    BY <1>1, <1>2, <1>7, <2>3
  <2>5. Len(got') + 1 = g + 2
    BY <1>8
  <2>6. QED
    BY <1>1, <2>2, <2>4, <2>5 DEF ReaderAt
<1>11. QED
  BY <1>2, <1>3, <1>4, <1>6, <1>7, <1>9, <1>10 DEF IndInv

\* the reader stops: nothing is claimed of where it is
LEMMA ReaderStopsInd ==
  ASSUME IndInv, NEW n \in Nat, ReadBodyOverrun(n) \/ ReadFails
  PROVE  IndInv'
<1>1. /\ UNCHANGED <<writerVars, link, announced, got>>
      /\ rpc' \in {"header", "ended"} /\ rgot' = 0 /\ ~Reading'
  BY DEF ReadBodyOverrun, RecvRest, ReadFails, Reading, IndInv, TypeOK
<1>2. taken' \in Nat
  <2>1. taken \in Nat /\ rgot \in Nat /\ announced \in Nat
    BY DEF IndInv, TypeOK
  <2>2. ToRead \in Nat
    <3>1. EncryptedLength(announced) \in Nat
      BY <2>1, LengthsAgree
    <3>2. QED
      BY <3>1, HeaderBytesIs17 DEF ToRead, HeaderBytes
  <2>3. QED
    BY <2>1, <2>2 DEF ReadBodyOverrun, RecvRest, ReadFails
<1>3. TypeOK'
  BY <1>1, <1>2 DEF IndInv, TypeOK, writerVars
<1>4. FramesAdjacent' /\ SentFrames' /\ WriterAt'
  BY <1>1, WriterUndisturbed
<1>5. GotSent' /\ ReaderAt'
  BY <1>1 DEF IndInv, GotSent, ReaderAt, writerVars
<1>6. QED
  BY <1>3, <1>4, <1>5 DEF IndInv

-----------------------------------------------------------------------------
(* The theorems.                                                              *)

LEMMA BytesMoved ==
  ASSUME IndInv
  PROVE  /\ SendBytes => \E n \in Nat : SendSome(n) \/ SendRest(n)
         /\ RecvBytes => \E n \in Nat : RecvSome(n) \/ ReadHeader(n) \/ ReadBody(n) \/ ReadBodyOverrun(n)
<1>1. ASSUME SendBytes PROVE \E n \in Nat : SendSome(n) \/ SendRest(n)
  <2>1. PICK n \in Chunks \cup {ToWrite - wdone} : SendSome(n) \/ SendRest(n)
    BY <1>1 DEF SendBytes
  <2>2. Writing /\ link = "up"
    BY <2>1 DEF SendSome, SendRest
  <2>3. ToWrite \in Nat /\ wdone \in Nat /\ wdone < ToWrite
    BY <2>2, WriterPlace
  <2>4. n \in Nat
    BY <2>3, StreamAssumption
  <2>5. QED
    BY <2>1, <2>4
<1>2. ASSUME RecvBytes
      PROVE  \E n \in Nat : RecvSome(n) \/ ReadHeader(n) \/ ReadBody(n) \/ ReadBodyOverrun(n)
  <2>1. PICK n \in Chunks \cup {ToRead - rgot, put - (taken + rgot)} :
          n > 0 /\ (RecvSome(n) \/ ReadHeader(n) \/ ReadBody(n) \/ ReadBodyOverrun(n))
    BY <1>2 DEF RecvBytes
  <2>2. announced \in Nat /\ rgot \in Nat /\ put \in Nat /\ taken \in Nat
    BY DEF IndInv, TypeOK
  <2>3. ToRead \in Nat
    <3>1. EncryptedLength(announced) \in Nat
      BY <2>2, LengthsAgree
    <3>2. QED
      BY <3>1, HeaderBytesIs17 DEF ToRead, HeaderBytes
  <2>4. n \in Nat
    <3>1. ToRead - rgot \in Int /\ put - (taken + rgot) \in Int
      BY <2>2, <2>3
    <3>2. n \in Int
      BY <3>1, StreamAssumption
    <3>3. QED
      BY <2>1, <3>2
  <2>5. QED
    BY <2>1, <2>4
<1>3. QED
  BY <1>1, <1>2

LEMMA NextInd ==
  ASSUME IndInv, ShortTexts, [Next]_vars
  PROVE  IndInv'
<1>1. CASE UNCHANGED vars
  <2>1. UNCHANGED <<writerVars, link>> /\ UNCHANGED readerVars
    BY <1>1 DEF vars
  <2>2. TypeOK' /\ GotSent'
    BY <2>1 DEF IndInv, TypeOK, GotSent, writerVars, readerVars
  <2>3. /\ FramesAdjacent' /\ SentFrames' /\ WriterAt'
        /\ \A k : End(k)' = End(k) /\ Start(k)' = Start(k)
    BY <2>1, WriterUndisturbed
  <2>4. ReaderAt'
    BY <2>1, <2>3 DEF IndInv, ReaderAt, Reading, ToRead, HeaderBytes, writerVars, readerVars
  <2>5. QED
    BY <2>2, <2>3, <2>4 DEF IndInv
<1>2. CASE \E n \in Lengths : sendResponse(n)
  BY <1>2, SendResponseInd
<1>3. CASE SendBytes
  BY <1>3, BytesMoved, SendSomeInd, SendRestInd
<1>4. CASE WriterEnds \/ WriteFails \/ CloseLink \/ ResetLink
  BY <1>4, WriterStopsInd
<1>5. CASE RecvBytes
  BY <1>5, BytesMoved, RecvSomeInd, ReadHeaderInd, ReadBodyInd, ReaderStopsInd
<1>6. CASE ReadFails
  BY <1>6, ReaderStopsInd
<1>7. QED
  BY <1>1, <1>2, <1>3, <1>4, <1>5, <1>6 DEF Next

(***************************************************************************)
(* The strengthening: frames lie one behind the other on the stream, what  *)
(* was sent is the frames completed, and the reader is at the next part.   *)
(***************************************************************************)
THEOREM StreamInvariant ==
  ASSUME ShortTexts
  PROVE  Spec => []IndInv
<1>1. Init => IndInv
  BY InitInd
<1>2. IndInv /\ [Next]_vars => IndInv'
  BY NextInd
<1>3. QED
  BY <1>1, <1>2, PTL DEF Spec

(***************************************************************************)
(* Types: in particular the reader is never given a text nobody sent.      *)
(***************************************************************************)
THEOREM StreamTypeCorrect ==
  ASSUME ShortTexts
  PROVE  Spec => []TypeOK
<1>1. IndInv => TypeOK
  BY DEF IndInv
<1>2. QED
  BY <1>1, StreamInvariant, PTL

(***************************************************************************)
(* Every ReadDataTcp() begins where the WriteDataTcp() of the same part    *)
(* began, however send() and recv() cut the stream, for every length a     *)
(* header can announce.                                                    *)
(***************************************************************************)
THEOREM BoundariesKept ==
  ASSUME ShortTexts
  PROVE  Spec => []ReadsAtBoundaries
<1>1. ASSUME IndInv PROVE ReadsAtBoundaries
  <2> SUFFICES ASSUME Reading, rgot > 0
               PROVE  /\ Len(got) < Len(frames)
                      /\ taken = frames[Len(got) + 1].start + Boundary
    BY DEF ReadsAtBoundaries
  <2>1. /\ Len(got) \in Nat /\ Len(frames) \in Nat /\ put \in Nat /\ taken \in Nat /\ rgot \in Nat
    BY <1>1 DEF IndInv, TypeOK
  <2>2. taken + rgot <= put
    BY <1>1 DEF IndInv, ReaderAt
  <2>3. CASE rpc = "header"
    <3>1. taken = Start(Len(got) + 1)
      BY <1>1, <2>3 DEF IndInv, ReaderAt
    <3>2. Len(got) + 1 <= Len(frames)
      BY <3>1, <2>1, <2>2 DEF Start
    <3>3. frames[Len(got) + 1].start \in Nat
      BY <1>1, <2>1, <3>2, EndTyped DEF IndInv
    <3>4. QED
      BY <2>1, <2>3, <3>1, <3>2, <3>3 DEF Start, Boundary
  <2>4. CASE rpc = "body"
    BY <1>1, <2>4 DEF IndInv, ReaderAt, Boundary, HeaderBytes
  <2>5. QED
    BY <2>3, <2>4 DEF Reading
<1>2. QED
  BY <1>1, StreamInvariant, PTL

\* every step of the stream is a step of the channel, or none
LEMMA StepRefines ==
  ASSUME IndInv, ShortTexts, [Next]_vars
  PROVE  [Channel!Next]_Channel!vars
<1> DEFINE l == IF rpc = "ended" \/ link = "reset" THEN "broken"
                ELSE IF link = "fin" THEN "closed" ELSE "up"
<1> USE DEF Channel!vars
<1>1. CASE UNCHANGED <<sent, got, rpc, link>>
  BY <1>1
<1>2. CASE \E n \in Lengths : sendResponse(n)
  BY <1>2 DEF sendResponse, readerVars
<1>3. CASE SendBytes
  <2>1. PICK n \in Nat : SendSome(n) \/ SendRest(n)
    BY <1>3, BytesMoved
  <2>2. CASE SendSome(n) \/ wpc = "header"
    BY <2>1, <2>2 DEF SendSome, SendRest, readerVars
  <2>3. CASE SendRest(n) /\ wpc # "header"
    <3>1. /\ UNCHANGED <<got, rpc, link>> /\ link = "up" /\ Writing /\ wpc = "body"
          /\ sent' = Append(sent, [no |-> Len(frames), len |-> Frame.len])
      BY <2>3 DEF SendRest, readerVars, Writing
    <3>2. [no |-> Len(frames), len |-> Frame.len] \in Texts
      BY <3>1, WriterPlace, StreamAssumption DEF IndInv, FramesAdjacent, Texts
    <3>3. \E m \in Texts : Channel!Put(m)
      BY <3>1, <3>2 DEF Channel!Put
    <3>4. QED
      BY <3>3 DEF Channel!Next
  <2>4. QED
    BY <2>1, <2>2, <2>3
<1>4. CASE WriterEnds \/ WriteFails
  BY <1>4 DEF WriterEnds, WriteFails, readerVars
<1>5. CASE CloseLink
  <2>1. CASE rpc = "ended"
    BY <1>5, <2>1 DEF CloseLink, writerVars, readerVars
  <2>2. CASE rpc # "ended"
    BY <1>5, <2>2 DEF CloseLink, writerVars, readerVars, Channel!Next, Channel!Close
  <2>3. QED
    BY <2>1, <2>2
<1>6. CASE ResetLink
  <2>1. CASE rpc = "ended"
    BY <1>6, <2>1 DEF ResetLink, writerVars, readerVars
  <2>2. CASE rpc # "ended"
    BY <1>6, <2>2 DEF ResetLink, writerVars, readerVars, Channel!Next, Channel!Break
  <2>3. QED
    BY <2>1, <2>2
<1>7. CASE ReadFails
  BY <1>7 DEF ReadFails, writerVars
<1>8. CASE RecvBytes
  <2>1. PICK n \in Nat : RecvSome(n) \/ ReadHeader(n) \/ ReadBody(n) \/ ReadBodyOverrun(n)
    BY <1>8, BytesMoved
  <2>2. CASE RecvSome(n)
    BY <2>2 DEF RecvSome, writerVars
  <2>3. CASE ReadHeader(n) \/ ReadBodyOverrun(n)
    <3>1. /\ UNCHANGED <<sent, got, link>> /\ link # "reset" /\ rpc # "ended"
          /\ rpc' \in {"body", "ended"}
      BY <2>3 DEF ReadHeader, ReadBodyOverrun, RecvRest, Reading, writerVars
    <3>2. QED
      BY <3>1 DEF Channel!Next, Channel!Break
  <2>4. CASE ReadBody(n)
    <3>1. /\ UNCHANGED <<sent, link>> /\ link # "reset" /\ rpc = "body" /\ rpc' = "header"
      BY <2>4 DEF ReadBody, RecvRest, Reading, writerVars
    <3>2. Len(got) < Len(sent) /\ got' = Append(got, sent[Len(got) + 1])
      BY <2>4, ReadBodyInd
    <3>3. Channel!Get
      BY <3>1, <3>2 DEF Channel!Get
    <3>4. QED
      BY <3>3 DEF Channel!Next
  <2>5. QED
    BY <2>1, <2>2, <2>3, <2>4
<1>9. QED
  BY <1>1, <1>2, <1>3, <1>4, <1>5, <1>6, <1>7, <1>8 DEF Next, vars, writerVars, readerVars

(***************************************************************************)
(* The byte stream implements the channel of whole messages: to the caller *)
(* of ReadDataTcp() no text is split, joined, lost or repeated.            *)
(***************************************************************************)
THEOREM StreamImplementsChannel ==
  ASSUME ShortTexts
  PROVE  Spec => ImplementsChannel
<1>1. Init => Channel!Init
  BY DEF Init, Channel!Init
<1>2. IndInv /\ [Next]_vars => [Channel!Next]_Channel!vars
  BY StepRefines
<1>3. QED
  BY <1>1, <1>2, StreamInvariant, PTL DEF Spec, ImplementsChannel, Channel!Spec


(***************************************************************************)
(* What that means for the caller: the texts it was given are the first    *)
(* ones that were written, in order and unchanged.                         *)
(***************************************************************************)
THEOREM DeliveredInOrder ==
  ASSUME ShortTexts
  PROVE  Spec => []Channel!InOrder
<1>1. IndInv => Channel!InOrder
  BY DEF IndInv, GotSent, Channel!InOrder
<1>2. QED
  BY <1>1, StreamInvariant, PTL

===============================================================================
