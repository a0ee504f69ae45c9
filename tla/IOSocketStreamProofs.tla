------------------------ MODULE IOSocketStreamProofs ------------------------
(***************************************************************************)
(* Proofs about the data of a connection, for any sizes of the buffers and *)
(* any number of bytes in either direction; and, below, about the lines    *)
(* that parse_delimiter cuts it into, IOLineParser.                        *)
(*                                                                         *)
(* The two directions do not meet.  What makes each of them an invariant   *)
(* is that a handler runs only while the socket is open (HandlerIsOpen),   *)
(* so that no recv() and no send() follows iosocket_close(), and that the  *)
(* engine is told of the write buffer whenever it changes, not only when   *)
(* the loop waits (ToldAtOnce).                                            *)
(***************************************************************************)
EXTENDS IOSocketStream, IOLineParser, SequenceTheorems, FiniteSetTheorems,
        WellFoundedInduction, TLAPS

-----------------------------------------------------------------------------
(* Sequences of bytes. *)

(* The bytes m .. n are a sequence, and which. *)
LEMMA BytesAre ==
    ASSUME NEW m \in Nat, NEW n \in Nat, m <= n + 1
    PROVE  /\ Bytes(m, n) \in Seq(m .. n)
           /\ Len(Bytes(m, n)) = n - m + 1
           /\ \A i \in 1 .. n - m + 1 : Bytes(m, n)[i] = m + i - 1
<1> DEFINE k == n - m + 1
<1>1. k \in Nat OBVIOUS
<1>2. Bytes(m, n) = [i \in 1 .. k |-> m + i - 1] BY DEF Bytes
<1>3. \A i \in 1 .. k : m + i - 1 \in m .. n OBVIOUS
<1> HIDE DEF k
<1>4. Bytes(m, n) \in [1 .. k -> m .. n] BY <1>2, <1>3
<1>5. Bytes(m, n) \in Seq(m .. n) BY <1>1, <1>4, SeqDef
<1>6. DOMAIN Bytes(m, n) = 1 .. k BY <1>2
<1>7. Len(Bytes(m, n)) = k BY <1>1, <1>5, <1>6, LenProperties
<1> QED BY <1>2, <1>5, <1>7 DEF k

(* Bytes that follow each other are in one piece. *)
LEMMA BytesFollow ==
    ASSUME NEW m \in Nat, NEW n \in Nat, m <= n
    PROVE  Bytes(1, m) \o Bytes(m + 1, n) = Bytes(1, n)
<1> DEFINE s == Bytes(1, m)  t == Bytes(m + 1, n)  u == Bytes(1, n)
<1>1. /\ s \in Seq(1 .. m) /\ Len(s) = m
      /\ \A i \in 1 .. m : s[i] = i
  BY BytesAre
<1>2. /\ t \in Seq(m + 1 .. n) /\ Len(t) = n - m
      /\ \A i \in 1 .. n - m : t[i] = m + i
  <2>1. /\ t \in Seq(m + 1 .. n) /\ Len(t) = n - (m + 1) + 1
        /\ \A i \in 1 .. n - (m + 1) + 1 : t[i] = (m + 1) + i - 1
    <3>1. m + 1 \in Nat /\ m + 1 <= n + 1 OBVIOUS
    <3> HIDE DEF t
    <3> QED BY <3>1, BytesAre DEF t
  <2> HIDE DEF t
  <2> QED BY <2>1
<1>3. /\ u \in Seq(1 .. n) /\ Len(u) = n
      /\ \A i \in 1 .. n : u[i] = i
  BY BytesAre
<1> HIDE DEF s, t, u
<1>4. s \in Seq(Nat) /\ t \in Seq(Nat) /\ u \in Seq(Nat)
  BY <1>1, <1>2, <1>3, SeqMonotonic
<1>5. /\ s \o t \in Seq(Nat)
      /\ Len(s \o t) = Len(s) + Len(t)
      /\ \A i \in 1 .. Len(s) + Len(t) : (s \o t)[i] =
            IF i <= Len(s) THEN s[i] ELSE t[i - Len(s)]
  BY <1>4, ConcatProperties
<1>6. Len(s \o t) = Len(u) BY <1>1, <1>2, <1>3, <1>5
<1>7. \A i \in 1 .. Len(s \o t) : (s \o t)[i] = u[i]
  BY <1>1, <1>2, <1>3, <1>5
<1>8. s \o t = u BY <1>4, <1>5, <1>6, <1>7, SeqEqual
<1> QED BY <1>8 DEF s, t, u

(* ConcatAssociative, for numbers. *)
LEMMA Regroup ==
    \A s, t, u \in Seq(Nat) : (s \o t) \o u = s \o (t \o u)
<1> TAKE s \in Seq(Nat), t \in Seq(Nat), u \in Seq(Nat)
<1> QED BY ConcatAssociative, SMTT(60)

(* First and Rest cut a sequence. *)
LEMMA CutApart ==
    ASSUME NEW S, NEW s \in Seq(S), NEW n \in Nat, n <= Len(s)
    PROVE  /\ First(s, n) \in Seq(S) /\ Len(First(s, n)) = n
           /\ Rest(s, n) \in Seq(S) /\ Len(Rest(s, n)) = Len(s) - n
           /\ First(s, n) \o Rest(s, n) = s
<1>1. Len(s) \in Nat BY LenProperties
<1>2. \A i \in 1 .. Len(s) : s[i] \in S BY ElementOfSeq
<1>3. /\ SubSeq(s, 1, n) \in Seq(S)
      /\ Len(SubSeq(s, 1, n)) = IF 1 <= n THEN n - 1 + 1 ELSE 0
  BY <1>1, <1>2, SubSeqProperties
<1>4. /\ SubSeq(s, n + 1, Len(s)) \in Seq(S)
      /\ Len(SubSeq(s, n + 1, Len(s))) =
            IF n + 1 <= Len(s) THEN Len(s) - (n + 1) + 1 ELSE 0
  BY <1>1, <1>2, SubSeqProperties
<1>5. SubSeq(s, 1, n) \o SubSeq(s, n + 1, Len(s)) = SubSeq(s, 1, Len(s))
  <2>1. /\ 1 \in 1 .. Len(s) + 1
        /\ n \in 1 - 1 .. Len(s)
        /\ Len(s) \in n .. Len(s)
    BY <1>1
  <2> QED BY <2>1, ConcatAdjacentSubSeq
<1>6. SubSeq(s, 1, Len(s)) = s BY SubSeqFull
<1>7. /\ Len(SubSeq(s, 1, n)) = n
      /\ Len(SubSeq(s, n + 1, Len(s))) = Len(s) - n
  BY <1>1, <1>3, <1>4
<1> QED BY <1>3, <1>4, <1>5, <1>6, <1>7 DEF First, Rest

-----------------------------------------------------------------------------
(* What the invariants of the runs rest on. *)

HandlerIsOpen == pc \in {"read", "write", "event"} => open

WithinBound == Received + Len(rx) <= MaxIn

ToldAtOnce == open => watchW = WantsWrites(writebuf)

TInv == TypeOK /\ HandlerIsOpen /\ WithinBound

SInv == TInv /\ ReceivedInOrder /\ SentAsQueued /\ ToldAtOnce

(* The lengths of the sequences, and that they are sequences of numbers. *)
LEMMA Lengths ==
    ASSUME TypeOK
    PROVE  /\ Len(readbuf) \in Nat /\ Len(rx) \in Nat /\ Len(taken) \in Nat
           /\ Len(writebuf) \in Nat /\ Len(sent) \in Nat
           /\ readbuf \in Seq(Nat) /\ rx \in Seq(Nat) /\ taken \in Seq(Nat)
           /\ writebuf \in Seq(Nat) /\ sent \in Seq(Nat)
<1>1. 1 .. MaxIn \subseteq Nat /\ 1 .. MaxOut \subseteq Nat
  OBVIOUS
<1>2. /\ readbuf \in Seq(1 .. MaxIn) /\ rx \in Seq(1 .. MaxIn)
      /\ taken \in Seq(1 .. MaxIn)
      /\ writebuf \in Seq(1 .. MaxOut) /\ sent \in Seq(1 .. MaxOut)
  BY DEF TypeOK
<1>3. /\ Len(readbuf) \in Nat /\ Len(rx) \in Nat /\ Len(taken) \in Nat
      /\ Len(writebuf) \in Nat /\ Len(sent) \in Nat
  BY <1>2, LenProperties
<1>4. /\ readbuf \in Seq(Nat) /\ rx \in Seq(Nat) /\ taken \in Seq(Nat)
      /\ writebuf \in Seq(Nat) /\ sent \in Seq(Nat)
  BY <1>1, <1>2, SeqMonotonic
<1> QED BY <1>3, <1>4

(* The buffer that recv() gets has room for at least one byte behind what  *)
(* is in it, whichever rule it grows by.                                   *)
LEMMA EnlargedHasRoom ==
    ASSUME NEW len \in Nat, NEW pos \in Nat, pos <= len
    PROVE  Enlarged(len, pos) \in Nat /\ Enlarged(len, pos) > pos
BY StreamAssumption DEF Enlarged

-----------------------------------------------------------------------------
LEMMA InitSInv == Init => SInv
<1> SUFFICES ASSUME Init PROVE SInv
  OBVIOUS
<1>1. <<>> \in Seq(1 .. MaxIn) /\ <<>> \in Seq(1 .. MaxOut) /\ Len(<<>>) = 0
  BY EmptySeq
<1>2. <<>> \in Seq(Nat) /\ <<>> \o <<>> = <<>>
  BY EmptySeq, ConcatEmptySeq
<1>3. Bytes(1, 0) = <<>>
  <2>1. Bytes(1, 0) \in Seq(1 .. 0) /\ Len(Bytes(1, 0)) = 0
    BY BytesAre
  <2> QED BY <2>1, EmptySeq
<1>4. TInv
  <2>1. HandlerIsOpen BY DEF Init, HandlerIsOpen
  <2>2. WithinBound
    BY <1>1, StreamAssumption DEF Init, WithinBound, Received
  <2>3. /\ buflen \in Nat /\ Len(readbuf) <= buflen
        /\ shown \in 0 .. MaxIn /\ queued \in 0 .. MaxOut
    BY <1>1, StreamAssumption DEF Init
  <2>4. ready \in [r : BOOLEAN, w : BOOLEAN] BY DEF Init
  <2>5. TypeOK BY <1>1, <2>3, <2>4, Zenon DEF Init, TypeOK
  <2> QED BY <2>1, <2>2, <2>5 DEF TInv
<1>5. ReceivedInOrder
  BY <1>1, <1>2, <1>3 DEF Init, ReceivedInOrder, Received
<1>6. SentAsQueued
  BY <1>1, <1>2, <1>3 DEF Init, SentAsQueued
<1>7. ToldAtOnce
  BY DEF Init, ToldAtOnce, WantsWrites
<1> QED BY <1>4, <1>5, <1>6, <1>7 DEF SInv

(* What iosocket_close() leaves has its types. *)
LEMMA CloseTypes ==
    ASSUME TypeOK, Close
    PROVE  /\ open' = FALSE /\ watchW' = FALSE /\ partial' \in BOOLEAN
           /\ writebuf' \in Seq(1 .. MaxOut) /\ sent' \in Seq(1 .. MaxOut)
           /\ errno' \in {"EAGAIN", "other"}
           /\ UNCHANGED <<reader, queued, peer>>
<1>1. <<>> \in Seq(1 .. MaxOut) BY EmptySeq
<1>2. sent \o writebuf \in Seq(1 .. MaxOut)
  BY ConcatProperties DEF TypeOK
<1> QED BY <1>1, <1>2 DEF Close, TypeOK

(* Every step keeps the types.  The bound of the bytes that arrive and the *)
(* length of the buffer are what needs an argument.                        *)
LEMMA StepTInv == TInv /\ [Next]_vars => TInv'
<1> SUFFICES ASSUME TInv, [Next]_vars PROVE TInv'
  OBVIOUS
<1> USE StreamAssumption
<1>0. TypeOK /\ HandlerIsOpen /\ WithinBound BY DEF TInv
<1>l. /\ Len(readbuf) \in Nat /\ Len(rx) \in Nat /\ Len(taken) \in Nat
      /\ Len(writebuf) \in Nat /\ Len(sent) \in Nat
  BY <1>0, Lengths
<1>e. /\ <<>> \in Seq(1 .. MaxIn) /\ <<>> \in Seq(1 .. MaxOut)
      /\ Len(<<>>) = 0
  BY EmptySeq
<1>1. CASE Arrives
  <2> DEFINE b == Received + Len(rx) + 1
  <2>1. b \in 1 .. MaxIn BY <1>0, <1>1, <1>l DEF Arrives, Received
  <2>2. Append(rx, b) \in Seq(1 .. MaxIn) /\ Len(Append(rx, b)) = Len(rx) + 1
    BY <1>0, <2>1, AppendProperties DEF TypeOK
  <2>3. rx' = Append(rx, b) BY <1>1 DEF Arrives
  <2> HIDE DEF b
  <2>4. TypeOK' /\ HandlerIsOpen'
    BY <1>0, <1>1, <2>2, <2>3
    DEF Arrives, TypeOK, HandlerIsOpen, reader, writer, handler
  <2>5. Received' = Received /\ Len(rx') = Len(rx) + 1
    BY <1>1, <2>2, <2>3 DEF Arrives, reader, Received
  <2>6. WithinBound' BY <1>1, <1>l, <2>5 DEF Arrives, WithinBound, Received
  <2> QED BY <2>4, <2>6 DEF TInv
<1>2. CASE PeerCloses \/ Fails \/ OtherError
  <2>1. /\ eof' \in BOOLEAN /\ reset' \in BOOLEAN
        /\ errno' \in {"EAGAIN", "other"}
        /\ UNCHANGED <<open, rx, reader, writer, handler>>
    BY <1>0, <1>2 DEF PeerCloses, Fails, OtherError, TypeOK, peer
  <2> QED BY <1>0, <2>1
          DEF TInv, TypeOK, HandlerIsOpen, WithinBound, Received, reader,
              writer, handler
<1>3. ASSUME NEW n \in 1 .. MaxSend, Send(n) PROVE TInv'
  <2> DEFINE t == Bytes(queued + 1, queued + n)
  <2>1. queued \in Nat /\ queued + n <= MaxOut /\ n \in Nat
    BY <1>0, <1>3 DEF Send, TypeOK
  <2>2. t \in Seq(queued + 1 .. queued + n)
    <3>1. queued + 1 \in Nat /\ queued + n \in Nat
          /\ queued + 1 <= queued + n + 1
      BY <2>1
    <3> QED BY <3>1, BytesAre
  <2>3. t \in Seq(1 .. MaxOut)
    <3>1. queued + 1 .. queued + n \subseteq 1 .. MaxOut BY <2>1
    <3> HIDE DEF t
    <3> QED BY <2>2, <3>1, SeqMonotonic
  <2>4. writebuf' = writebuf \o t BY <1>3 DEF Send
  <2> HIDE DEF t
  <2>5. writebuf' \in Seq(1 .. MaxOut)
    BY <1>0, <2>3, <2>4, ConcatProperties DEF TypeOK
  <2>6. watchW' \in BOOLEAN BY <1>3 DEF Send, WatchSend, WantsWrites
  <2> QED BY <1>0, <1>3, <2>1, <2>5, <2>6
          DEF Send, TInv, TypeOK, HandlerIsOpen, WithinBound, Received,
              reader, peer, handler
<1>4. CASE UserClose
  <2>1. Close /\ UNCHANGED handler /\ pc \in {"idle", "callback"}
    BY <1>4 DEF UserClose, UserRuns
  <2> QED BY <1>0, <2>1, CloseTypes
          DEF TInv, TypeOK, HandlerIsOpen, WithinBound, Received, reader,
              peer, handler
<1>5. CASE Take
  <2>1. taken \o readbuf \in Seq(1 .. MaxIn)
        /\ Len(taken \o readbuf) = Len(taken) + Len(readbuf)
    BY <1>0, ConcatProperties DEF TypeOK
  <2>2. Received' = Received /\ rx' = rx
    BY <1>5, <1>e, <1>l, <2>1 DEF Take, Received, peer
  <2> QED BY <1>0, <1>5, <1>e, <1>l, <2>1, <2>2
          DEF Take, TInv, TypeOK, HandlerIsOpen, WithinBound, writer, peer,
              handler
<1>6. ASSUME NEW w \in BOOLEAN, Dispatch(w) PROVE TInv'
  <2>1. Readable \in BOOLEAN BY <1>0 DEF Readable, TypeOK
  <2> HIDE DEF Readable
  <2> QED BY <1>0, <1>6, <2>1
          DEF Dispatch, TInv, TypeOK, HandlerIsOpen, WithinBound, Received,
              reader, writer, peer
<1>7. ASSUME NEW n \in 1 .. MaxIn, ReadSome(n) PROVE TInv'
  <2>1. n \in Nat /\ n <= Len(rx) /\ n <= Space
    BY <1>7 DEF ReadSome
  <2>2. /\ First(rx, n) \in Seq(1 .. MaxIn) /\ Len(First(rx, n)) = n
        /\ Rest(rx, n) \in Seq(1 .. MaxIn)
        /\ Len(Rest(rx, n)) = Len(rx) - n
    BY <1>0, <2>1, CutApart DEF TypeOK
  <2>3. /\ readbuf \o First(rx, n) \in Seq(1 .. MaxIn)
        /\ Len(readbuf \o First(rx, n)) = Len(readbuf) + n
    BY <1>0, <2>2, ConcatProperties DEF TypeOK
  <2>4. /\ buflen' \in Nat /\ Len(readbuf) + n <= buflen'
    <3>1. buflen \in Nat /\ Len(readbuf) <= buflen BY <1>0 DEF TypeOK
    <3>2. Enlarged(buflen, Len(readbuf)) \in Nat
      BY <1>l, <3>1, EnlargedHasRoom
    <3> QED BY <1>7, <1>l, <2>1, <3>2 DEF ReadSome, Space
  <2>5. readbuf' = readbuf \o First(rx, n) /\ rx' = Rest(rx, n)
    BY <1>7 DEF ReadSome
  <2>6. TypeOK' /\ HandlerIsOpen'
    BY <1>0, <1>7, <2>2, <2>3, <2>4, <2>5
    DEF ReadSome, TypeOK, HandlerIsOpen, writer
  <2>7. WithinBound'
    BY <1>0, <1>7, <1>l, <2>1, <2>2, <2>3, <2>5
    DEF ReadSome, WithinBound, Received
  <2> QED BY <2>6, <2>7 DEF TInv
<1>8. CASE ReadNothing
  <2>1. buflen' \in Nat /\ Len(readbuf) <= buflen'
    <3>1. buflen \in Nat /\ Len(readbuf) <= buflen BY <1>0 DEF TypeOK
    <3>2. /\ Enlarged(buflen, Len(readbuf)) \in Nat
          /\ Enlarged(buflen, Len(readbuf)) > Len(readbuf)
      BY <1>l, <3>1, EnlargedHasRoom
    <3> QED BY <1>8, <1>l, <3>2 DEF ReadNothing
  <2>2. errno' \in {"EAGAIN", "other"}
        /\ event' \in {"IGNORE", "RECV", "CLOSED"}
    BY <1>0, <1>8 DEF ReadNothing, EventAfter, Ignored, TypeOK
  <2>3. dead' \in BOOLEAN BY <1>8 DEF ReadNothing
  <2> QED BY <1>0, <1>8, <2>1, <2>2, <2>3
          DEF ReadNothing, TInv, TypeOK, HandlerIsOpen, WithinBound, Received,
              writer, peer
<1>9. ASSUME NEW n \in 1 .. MaxOut, WriteSome(n) PROVE TInv'
  <2>1. n \in Nat /\ n <= Len(writebuf) BY <1>9 DEF WriteSome
  <2>2. First(writebuf, n) \in Seq(1 .. MaxOut)
    BY <1>0, <2>1, CutApart DEF TypeOK
  <2>3. sent \o First(writebuf, n) \in Seq(1 .. MaxOut)
    BY <1>0, <2>2, ConcatProperties DEF TypeOK
  <2>4. First(writebuf, Len(writebuf) - n) \in Seq(1 .. MaxOut)
    <3>1. Len(writebuf) - n \in Nat /\ Len(writebuf) - n <= Len(writebuf)
      BY <1>l, <2>1
    <3> QED BY <1>0, <3>1, CutApart DEF TypeOK
  <2>5. /\ sent' \in Seq(1 .. MaxOut) /\ writebuf' \in Seq(1 .. MaxOut)
        /\ partial' \in BOOLEAN /\ watchW' \in BOOLEAN
    BY <1>9, <2>3, <2>4 DEF WriteSome, Sends, AfterSend, WantsWrites
  <2> QED BY <1>0, <1>9, <2>5
          DEF WriteSome, WriteDone, TInv, TypeOK, HandlerIsOpen, WithinBound,
              Received, reader, peer
<1>10. CASE WriteBlocks \/ WriteFails \/ WriteSkipped
  BY <1>0, <1>10
  DEF WriteBlocks, WriteFails, WriteSkipped, SendsNothing, WriteDone, TInv,
      TypeOK, HandlerIsOpen, WithinBound, Received, reader, peer
<1>11. CASE TriggerEvent
  <2>1. Received \in 0 .. MaxIn
    BY <1>0, <1>l DEF WithinBound, Received
  <2> QED BY <1>0, <1>11, <2>1
          DEF TriggerEvent, TInv, TypeOK, HandlerIsOpen, WithinBound, Received,
              writer, peer
<1>12. CASE CallbackReturns
  <2>1. CASE dead /\ open
    <3>1. Close BY <1>12, <2>1 DEF CallbackReturns
    <3> QED BY <1>0, <1>12, <3>1, CloseTypes
            DEF CallbackReturns, TInv, TypeOK, HandlerIsOpen, WithinBound,
                Received, reader, peer
  <2>2. CASE ~ (dead /\ open)
    BY <1>0, <1>12, <2>2
    DEF CallbackReturns, TInv, TypeOK, HandlerIsOpen, WithinBound, Received,
        reader, writer, peer
  <2> QED BY <2>1, <2>2
<1>13. CASE UNCHANGED vars
  BY <1>0, <1>13
  DEF vars, TInv, TypeOK, HandlerIsOpen, WithinBound, Received, reader, writer,
      peer, handler
<1> QED BY <1>1, <1>2, <1>3, <1>4, <1>5, <1>6, <1>7, <1>8, <1>9, <1>10, <1>11,
           <1>12, <1>13 DEF Next, User, Peer, Handler

-----------------------------------------------------------------------------
(* The way of the bytes that arrive: the kernel's buffer, the read buffer  *)
(* and user code together have them all, in order.                         *)
LEMMA StepReceived ==
    TInv /\ ReceivedInOrder /\ [Next]_vars => ReceivedInOrder'
<1> SUFFICES ASSUME TInv, ReceivedInOrder, [Next]_vars
             PROVE  ReceivedInOrder'
  OBVIOUS
<1> DEFINE N == Received + Len(rx)
<1>0. TypeOK BY DEF TInv
<1>l. /\ Len(readbuf) \in Nat /\ Len(rx) \in Nat /\ Len(taken) \in Nat
      /\ readbuf \in Seq(Nat) /\ rx \in Seq(Nat) /\ taken \in Seq(Nat)
  BY <1>0, Lengths
<1>t. /\ taken \o readbuf \in Seq(Nat)
      /\ Len(taken \o readbuf) = Len(taken) + Len(readbuf)
  BY <1>l, ConcatProperties
<1>n. N \in Nat BY <1>l DEF Received
<1>r. (taken \o readbuf) \o rx = Bytes(1, N) BY DEF ReceivedInOrder
<1>1. CASE Arrives
  <2> DEFINE b == N + 1
  <2>1. rx' = Append(rx, b) /\ taken' = taken /\ readbuf' = readbuf
    BY <1>1 DEF Arrives, reader
  <2>2. b \in Nat BY <1>n
  <2>3. Bytes(b, b) = <<b>>
    <3>1. b - b + 1 = 1 BY <2>2
    <3>2. \A i \in 1 .. 1 : b + i - 1 = b BY <2>2
    <3> HIDE DEF b
    <3>3. Bytes(b, b) = [i \in 1 .. 1 |-> b] BY <3>1, <3>2 DEF Bytes
    <3> QED BY <3>3
  <2>4. Bytes(1, N) \o Bytes(b, b) = Bytes(1, b)
    <3>1. N \in Nat /\ b \in Nat /\ N <= b BY <1>n
    <3> HIDE DEF N
    <3> QED BY <3>1, BytesFollow
  <2> HIDE DEF N
  <2>5. Append(rx, b) = rx \o <<b>> /\ Len(Append(rx, b)) = Len(rx) + 1
    BY <1>l, <2>2, AppendIsConcat, AppendProperties
  <2>6. <<b>> \in Seq(Nat) BY <2>2
  <2>7. (taken \o readbuf) \o (rx \o <<b>>) =
           ((taken \o readbuf) \o rx) \o <<b>>
    BY <1>l, <1>t, <2>6, Regroup
  <2>8. (taken' \o readbuf') \o rx' = Bytes(1, b)
    BY <1>r, <2>1, <2>3, <2>4, <2>5, <2>7
  <2>9. (Received + Len(rx))' = b
    BY <1>l, <2>1, <2>5 DEF Received, N
  <2> QED BY <2>8, <2>9 DEF ReceivedInOrder
<1>2. CASE Take
  <2>1. taken' = taken \o readbuf /\ readbuf' = <<>> /\ rx' = rx
    BY <1>2 DEF Take, peer
  <2>2. (taken \o readbuf) \o <<>> = taken \o readbuf
    BY <1>t, ConcatEmptySeq
  <2>3. (Received + Len(rx))' = N
    BY <1>l, <1>t, <2>1 DEF Received
  <2> QED BY <1>r, <2>1, <2>2, <2>3 DEF ReceivedInOrder
<1>3. ASSUME NEW n \in 1 .. MaxIn, ReadSome(n) PROVE ReceivedInOrder'
  <2> DEFINE f == First(rx, n)  g == Rest(rx, n)
  <2>1. n \in Nat /\ n <= Len(rx) BY <1>3 DEF ReadSome
  <2>2. /\ f \in Seq(Nat) /\ Len(f) = n
        /\ g \in Seq(Nat) /\ Len(g) = Len(rx) - n
        /\ f \o g = rx
    BY <1>l, <2>1, CutApart
  <2>3. taken' = taken /\ readbuf' = readbuf \o f /\ rx' = g
    BY <1>3 DEF ReadSome
  <2> HIDE DEF f, g
  <2>4. /\ readbuf \o f \in Seq(Nat)
        /\ Len(readbuf \o f) = Len(readbuf) + n
    BY <1>l, <2>2, ConcatProperties
  <2>5. taken \o (readbuf \o f) = (taken \o readbuf) \o f
    BY <1>l, <2>2, Regroup
  <2>6. ((taken \o readbuf) \o f) \o g = (taken \o readbuf) \o (f \o g)
    BY <1>t, <2>2, Regroup
  <2>7. (Received + Len(rx))' = N
    <3>1. /\ Len(taken') = Len(taken) /\ Len(readbuf') = Len(readbuf) + n
          /\ Len(rx') = Len(rx) - n
      BY <2>2, <2>3, <2>4
    <3> QED BY <1>l, <2>1, <3>1 DEF Received
  <2> QED BY <1>r, <2>2, <2>3, <2>5, <2>6, <2>7 DEF ReceivedInOrder
<1>4. CASE UNCHANGED <<taken, readbuf, rx>>
  BY <1>4 DEF ReceivedInOrder, Received
<1>5. CASE PeerCloses \/ Fails \/ OtherError \/ ReadNothing \/ TriggerEvent
  <2> SUFFICES UNCHANGED <<taken, readbuf, rx>> BY <1>4
  <2> QED BY <1>5
          DEF PeerCloses, Fails, OtherError, ReadNothing, TriggerEvent, reader,
              peer
<1>6. CASE UserClose \/ CallbackReturns
  <2> SUFFICES UNCHANGED <<taken, readbuf, rx>> BY <1>4
  <2> QED BY <1>6 DEF UserClose, CallbackReturns, Close, reader, peer
<1>7. CASE \/ \E w \in BOOLEAN : Dispatch(w)
           \/ \E n \in 1 .. MaxSend : Send(n)
           \/ UNCHANGED vars
  <2> SUFFICES UNCHANGED <<taken, readbuf, rx>> BY <1>4
  <2> QED BY <1>7 DEF Dispatch, Send, vars, reader, peer
<1>8. CASE \/ \E n \in 1 .. MaxOut : WriteSome(n)
           \/ WriteBlocks \/ WriteFails \/ WriteSkipped
  <2> SUFFICES UNCHANGED <<taken, readbuf, rx>> BY <1>4
  <2> QED BY <1>8
          DEF WriteSome, WriteBlocks, WriteFails, WriteSkipped, WriteDone,
              reader, peer
<1> QED BY <1>1, <1>2, <1>3, <1>5, <1>6, <1>7, <1>8
        DEF Next, User, Peer, Handler

-----------------------------------------------------------------------------
(* iosocket_close() loses nothing as long as its send() takes everything.  *)
LEMMA CloseKeepsOrder ==
    ASSUME TypeOK, SentAsQueued, Close
    PROVE  SentAsQueued'
<1>1. Len(writebuf) \in Nat /\ writebuf \in Seq(Nat) /\ sent \in Seq(Nat)
  BY Lengths
<1>2. open' = FALSE /\ writebuf' = <<>> /\ queued' = queued
  BY DEF Close
<1>3. ASSUME ~ partial' PROVE sent' \o writebuf' = Bytes(1, queued')
  <2>1. ~ partial /\ sent' = sent \o writebuf
    <3>1. CASE writebuf = <<>> /\ UNCHANGED <<sent, errno, partial>>
      BY <1>1, <1>3, <3>1, ConcatEmptySeq
    <3>2. CASE ~ (writebuf = <<>> /\ UNCHANGED <<sent, errno, partial>>)
      BY <1>3, <3>2 DEF Close
    <3> QED BY <3>1, <3>2
  <2>2. sent \o writebuf \in Seq(Nat) BY <1>1, ConcatProperties
  <2>3. (sent \o writebuf) \o <<>> = sent \o writebuf
    BY <2>2, ConcatEmptySeq
  <2> QED BY <1>2, <2>1, <2>3 DEF SentAsQueued
<1> QED BY <1>2, <1>3 DEF SentAsQueued

(* The way of the bytes that are sent. *)
LEMMA StepSent ==
    TInv /\ SentAsQueued /\ [Next]_vars => SentAsQueued'
<1> SUFFICES ASSUME TInv, SentAsQueued, [Next]_vars
             PROVE  SentAsQueued'
  OBVIOUS
<1>0. TypeOK /\ HandlerIsOpen BY DEF TInv
<1>l. /\ Len(writebuf) \in Nat /\ Len(sent) \in Nat
      /\ writebuf \in Seq(Nat) /\ sent \in Seq(Nat)
      /\ queued \in Nat
  BY <1>0, Lengths DEF TypeOK
<1>s. open => Len(sent) + Len(writebuf) = queued BY DEF SentAsQueued
<1>q. ~ partial => sent \o writebuf = Bytes(1, queued) BY DEF SentAsQueued
<1>1. ASSUME NEW n \in 1 .. MaxSend, Send(n) PROVE SentAsQueued'
  <2> DEFINE t == Bytes(queued + 1, queued + n)
  <2>1. n \in Nat OBVIOUS
  <2>2. /\ writebuf' = writebuf \o t /\ queued' = queued + n
        /\ UNCHANGED <<open, sent, partial>>
    BY <1>1 DEF Send
  <2>3. t \in Seq(Nat) /\ Len(t) = n
    <3>1. queued + 1 \in Nat /\ queued + n \in Nat
          /\ queued + 1 <= queued + n + 1
          /\ (queued + n) - (queued + 1) + 1 = n
      BY <1>l, <2>1
    <3>2. t \in Seq(queued + 1 .. queued + n) /\ Len(t) = n
      BY <3>1, BytesAre
    <3>3. queued + 1 .. queued + n \subseteq Nat BY <3>1
    <3> HIDE DEF t
    <3> QED BY <3>2, <3>3, SeqMonotonic
  <2>4. Bytes(1, queued) \o t = Bytes(1, queued + n)
    <3>1. queued \in Nat /\ queued + n \in Nat /\ queued <= queued + n
      BY <1>l, <2>1
    <3> QED BY <3>1, BytesFollow
  <2> HIDE DEF t
  <2>5. Len(writebuf \o t) = Len(writebuf) + n
    BY <1>l, <2>3, ConcatProperties
  <2>6. sent \o (writebuf \o t) = (sent \o writebuf) \o t
    BY <1>l, <2>3, Regroup
  <2>7. open' => Len(sent') + Len(writebuf') = queued'
    <3>1. Len(sent') = Len(sent) /\ Len(writebuf') = Len(writebuf) + n
      BY <2>2, <2>5
    <3>2. open' => Len(sent) + Len(writebuf) = queued BY <1>s, <2>2, Zenon
    <3>3. queued' = queued + n BY <2>2
    <3>4. Len(sent) + Len(writebuf) = queued
             => Len(sent') + Len(writebuf') = queued'
      <4>1. Len(writebuf) \in Nat /\ Len(sent) \in Nat /\ queued \in Nat
        BY <1>l
      <4> QED BY <2>1, <3>1, <3>3, <4>1
    <3> QED BY <3>2, <3>4, Zenon
  <2>8. ~ partial' => sent' \o writebuf' = Bytes(1, queued')
    BY <1>q, <2>2, <2>4, <2>6
  <2> QED BY <2>7, <2>8 DEF SentAsQueued
<1>2. ASSUME NEW n \in 1 .. MaxOut, WriteSome(n) PROVE SentAsQueued'
  <2> DEFINE f == First(writebuf, n)
             g == First(writebuf, Len(writebuf) - n)
  <2>1. n \in Nat /\ n <= Len(writebuf) BY <1>2 DEF WriteSome
  <2>2. f \in Seq(Nat) /\ Len(f) = n BY <1>l, <2>1, CutApart
  <2>3. g \in Seq(Nat) /\ Len(g) = Len(writebuf) - n
    <3>1. Len(writebuf) - n \in Nat /\ Len(writebuf) - n <= Len(writebuf)
      BY <1>l, <2>1
    <3> QED BY <1>l, <3>1, CutApart
  <2>4. /\ sent' = sent \o f /\ writebuf' = g
        /\ partial' = (partial \/ n < Len(writebuf))
        /\ UNCHANGED <<open, queued>>
    BY <1>2 DEF WriteSome, Sends, AfterSend, WriteDone
  <2>5. open BY <1>0, <1>2 DEF WriteSome, HandlerIsOpen
  <2>6. n = Len(writebuf) => f = writebuf /\ g = <<>>
    <3> SUFFICES ASSUME n = Len(writebuf) PROVE f = writebuf /\ g = <<>>
      OBVIOUS
    <3>1. f = writebuf BY <1>l, SubSeqFull DEF First
    <3>2. Len(g) = 0 BY <1>l, <2>3
    <3>3. g = <<>> BY <2>3, <3>2, EmptySeq
    <3> QED BY <3>1, <3>3
  <2> HIDE DEF f, g
  <2>7. sent \o f \in Seq(Nat) /\ Len(sent \o f) = Len(sent) + n
    BY <1>l, <2>2, ConcatProperties
  <2>8. Len(sent') + Len(writebuf') = queued'
    <3>1. /\ Len(sent') = Len(sent) + n
          /\ Len(writebuf') = Len(writebuf) - n
      BY <2>3, <2>4, <2>7
    <3>2. Len(sent) + Len(writebuf) = queued BY <1>s, <2>5
    <3>3. queued' = queued BY <2>4
    <3> QED BY <1>l, <2>1, <3>1, <3>2, <3>3
  <2>9. ASSUME ~ partial' PROVE sent' \o writebuf' = Bytes(1, queued')
    <3>1. ~ partial /\ ~ (n < Len(writebuf)) BY <2>4, <2>9, Zenon
    <3>2. n = Len(writebuf) BY <1>l, <2>1, <3>1
    <3>3. (sent \o f) \o <<>> = sent \o f BY <2>7, ConcatEmptySeq
    <3> QED BY <1>q, <2>4, <2>6, <3>1, <3>2, <3>3
  <2> QED BY <2>8, <2>9 DEF SentAsQueued
<1>3. CASE UserClose
  BY <1>0, <1>3, CloseKeepsOrder DEF UserClose
<1>4. CASE UNCHANGED <<open, sent, writebuf, queued, partial>>
  BY <1>4 DEF SentAsQueued
<1>5. CASE CallbackReturns
  <2>1. CASE dead /\ open
    BY <1>0, <1>5, <2>1, CloseKeepsOrder DEF CallbackReturns
  <2>2. CASE ~ (dead /\ open)
    BY <1>4, <1>5, <2>2 DEF CallbackReturns, writer
  <2> QED BY <2>1, <2>2
<1>6. CASE WriteBlocks
  BY <1>4, <1>6 DEF WriteBlocks, SendsNothing, WriteDone
<1>7. CASE WriteSkipped
  BY <1>4, <1>7 DEF WriteSkipped, WriteDone
<1>8. CASE WriteFails
  BY <1>4, <1>8 DEF WriteFails, SendsNothing, WriteDone
<1>9. CASE Peer \/ Take \/ OtherError
  BY <1>4, <1>9
  DEF Peer, Arrives, PeerCloses, Fails, Take, OtherError, writer
<1>10. CASE \/ \E w \in BOOLEAN : Dispatch(w)
            \/ \E n \in 1 .. MaxIn : ReadSome(n)
            \/ ReadNothing \/ TriggerEvent
  BY <1>4, <1>10 DEF Dispatch, ReadSome, ReadNothing, TriggerEvent, writer
<1>11. CASE UNCHANGED vars
  BY <1>4, <1>11 DEF vars, writer
<1> QED BY <1>1, <1>2, <1>3, <1>5, <1>6, <1>7, <1>8, <1>9, <1>10, <1>11
        DEF Next, User, Handler

(* Whoever changes the write buffer of an open socket tells the engine.    *)
LEMMA StepTold ==
    TInv /\ ToldAtOnce /\ [Next]_vars => ToldAtOnce'
<1> SUFFICES ASSUME TInv, ToldAtOnce, [Next]_vars PROVE ToldAtOnce'
  OBVIOUS
<1>1. ASSUME NEW n \in 1 .. MaxSend, Send(n) PROVE ToldAtOnce'
  BY <1>1, Zenon DEF Send, WatchSend, ToldAtOnce, WantsWrites
<1>2. ASSUME NEW n \in 1 .. MaxOut, WriteSome(n) PROVE ToldAtOnce'
  BY <1>2, Zenon DEF WriteSome, Sends, ToldAtOnce, WantsWrites
<1>3. CASE Close
  BY <1>3, Zenon DEF Close, ToldAtOnce
<1>4. CASE UNCHANGED <<open, watchW, writebuf>>
  BY <1>4, Zenon DEF ToldAtOnce, WantsWrites
<1>5. CASE UserClose \/ CallbackReturns
  BY <1>3, <1>4, <1>5, Zenon DEF UserClose, CallbackReturns, writer
<1>6. CASE WriteBlocks \/ WriteFails \/ WriteSkipped
  BY <1>4, <1>6
  DEF WriteBlocks, WriteFails, WriteSkipped, SendsNothing, WriteDone
<1>7. CASE Peer \/ Take \/ OtherError
  BY <1>4, <1>7
  DEF Peer, Arrives, PeerCloses, Fails, Take, OtherError, writer
<1>8. CASE \/ \E w \in BOOLEAN : Dispatch(w)
           \/ \E n \in 1 .. MaxIn : ReadSome(n)
           \/ ReadNothing \/ TriggerEvent
  BY <1>4, <1>8 DEF Dispatch, ReadSome, ReadNothing, TriggerEvent, writer
<1>9. CASE UNCHANGED vars
  BY <1>4, <1>9 DEF vars, writer
<1> QED BY <1>1, <1>2, <1>5, <1>6, <1>7, <1>8, <1>9 DEF Next, User, Handler

-----------------------------------------------------------------------------
LEMMA StreamInvariance == Spec => []SInv
<1>1. SInv /\ [Next]_vars => SInv'
  BY StepTInv, StepReceived, StepSent, StepTold DEF SInv
<1> QED BY <1>1, InitSInv, PTL DEF Spec

(* The variables of a connection keep their types: among them that the     *)
(* bytes in the read buffer never exceed its length.                       *)
THEOREM StreamTypeCorrect == Spec => []TypeOK
<1>1. SInv => TypeOK BY DEF SInv, TInv
<1> QED BY <1>1, StreamInvariance, PTL

(* User code gets what the peer sent, in order and without a gap, and      *)
(* recv() is never given a length of 0, for every initial length of the    *)
(* read buffer, every rule of growth that StreamAssumption allows and any  *)
(* number of bytes.                                                        *)
THEOREM ReadingInOrder == Spec => []ReadsInOrder
<1>1. SInv => ReadsInOrder
  <2> SUFFICES ASSUME SInv PROVE ReadsInOrder
    OBVIOUS
  <2>1. TypeOK /\ ReceivedInOrder BY DEF SInv, TInv
  <2>2. Len(readbuf) \in Nat BY <2>1, Lengths
  <2>3. buflen \in Nat /\ Len(readbuf) <= buflen BY <2>1 DEF TypeOK
  <2>4. /\ Enlarged(buflen, Len(readbuf)) \in Nat
        /\ Enlarged(buflen, Len(readbuf)) > Len(readbuf)
    BY <2>2, <2>3, EnlargedHasRoom
  <2>5. SpaceToRead BY <2>2, <2>4 DEF SpaceToRead, Space
  <2> QED BY <2>1, <2>5 DEF ReadsInOrder
<1> QED BY <1>1, StreamInvariance, PTL

(* What waits and what was sent is what user code gave, in order, as long  *)
(* as send() takes the buffer or nothing of it; and the engine waits for   *)
(* writeable if and only if there is something to write.                   *)
THEOREM WritingInOrder == Spec => []WritesInOrder
<1>1. SInv => WritesInOrder
  BY DEF SInv, WritesInOrder, WatchedForWriting, ToldAtOnce
<1> QED BY <1>1, StreamInvariance, PTL

-----------------------------------------------------------------------------
(***************************************************************************)
(* With parse_delimiter, the data goes through the loop that cuts lines    *)
(* off.  What makes IOLineParser's properties inductive is the byte Done,  *)
(* up to which the input is cut off: the buffer holds the bytes behind     *)
(* (LineInv), what user code got lies before it (Order), and it is itself  *)
(* a cut of the whole input, from which the limit counts on (CutLines,     *)
(* LimitCounts), whatever chunk it came in.                                *)
(***************************************************************************)

(* The last byte that is not in the buffer, and the last that is cut off. *)
Base == received - Len(buf)

Done == Base + used

(* The buffer holds the bytes behind Base; those of lines may be 0. *)
LineInv ==
    /\ at = used
    /\ Len(buf) <= received
    /\ \A k \in 1 .. Len(buf) : buf[k] = Base + k \/ (buf[k] = 0 /\ k <= used)
    /\ used > 0 => buf[used] = 0
    /\ pc = "idle" /\ open => used = 0
    /\ pc = "callback" /\ event = "recv_buf" => used = 0
    /\ pc \in {"callback", "freed"} => event # "none"
    /\ pc = "loop" => open
    /\ pc = "freed" => ~ open /\ event = "recv_str"

(* The bytes behind m, up to n. *)
LEMMA LineBytesAre ==
    ASSUME NEW m \in Nat, NEW n \in Nat, m <= n, n <= MaxIn,
           NEW b, b = Bytes(m + 1, n)
    PROVE  /\ b \in Seq(1 .. MaxIn) /\ b \in Seq(0 .. MaxIn)
           /\ Len(b) = n - m
           /\ \A k \in 1 .. n - m : b[k] = m + k
<1>1. n - m \in Nat /\ n - (m + 1) + 1 = n - m /\ MaxIn \in Nat
  BY ParserAssumption
<1>2. b = [k \in 1 .. n - m |-> (m + 1) + k - 1] BY <1>1 DEF Bytes
<1>3. b \in [1 .. n - m -> 1 .. MaxIn] /\ b \in [1 .. n - m -> 0 .. MaxIn]
  BY <1>1, <1>2
<1>4. b \in Seq(1 .. MaxIn) /\ b \in Seq(0 .. MaxIn) BY <1>1, <1>3, SeqDef
<1>5. DOMAIN b = 1 .. n - m BY <1>2
<1>6. Len(b) = n - m BY <1>1, <1>4, <1>5, LenProperties
<1> QED BY <1>1, <1>2, <1>4, <1>6

(* The buffer is empty. *)
LEMMA InitInv ==
    ASSUME ParserInit PROVE ParserTypeOK /\ LineInv
<1>1. buf \in Seq(0 .. MaxIn) /\ Len(buf) = 0 /\ shown \in Seq(Seq(1 .. MaxIn))
  BY EmptySeq DEF ParserInit
<1>2. ParserTypeOK
  <2>1. at \in 0 .. Len(buf) /\ used \in 0 .. at BY <1>1 DEF ParserInit
  <2>2. received \in 0 .. MaxIn /\ delims \subseteq 1 .. received
    BY ParserAssumption DEF ParserInit
  <2> QED BY <1>1, <2>1, <2>2 DEF ParserInit, ParserTypeOK
<1>3. LineInv BY <1>1 DEF ParserInit, LineInv, Base
<1> QED BY <1>2, <1>3

(* recv() *)
LEMMA ReceiveInv ==
    ASSUME ParserTypeOK, LineInv, NEW n \in 1 .. MaxChunk,
        NEW D, Receive(n, D)
    PROVE  /\ ParserTypeOK' /\ LineInv'
           /\ Len(buf') = Len(buf) + n
           /\ Base' = Base /\ Done' = Done
<1>1. /\ n \in Nat /\ received \in Nat /\ received + n <= MaxIn /\ MaxIn \in Nat
      /\ Len(buf) \in Nat /\ Len(buf) <= received /\ buf \in Seq(0 .. MaxIn)
  BY LenProperties, ParserAssumption DEF Receive, ParserTypeOK, LineInv
<1> DEFINE b == Bytes(received + 1, received + n)
<1>2. /\ b \in Seq(0 .. MaxIn) /\ Len(b) = n
      /\ \A k \in 1 .. n : b[k] = received + k
  <2>1. PICK m \in Nat, o \in Nat : m = received /\ o = received + n BY <1>1
  <2>2. b = Bytes(m + 1, o) /\ m <= o /\ o <= MaxIn /\ o - m = n
      BY <1>1, <2>1
  <2> HIDE DEF b
  <2> QED BY <2>1, <2>2, LineBytesAre
<1> HIDE DEF b
<1>3. /\ buf' \in Seq(0 .. MaxIn) /\ Len(buf') = Len(buf) + n
      /\ \A k \in 1 .. Len(buf) : buf'[k] = buf[k]
      /\ \A k \in Len(buf) + 1 .. Len(buf) + n : buf'[k] = Base + k
  <2>1. buf' = buf \o b BY DEF Receive, b
  <2>2. /\ buf \o b \in Seq(0 .. MaxIn) /\ Len(buf \o b) = Len(buf) + n
        /\ \A k \in 1 .. Len(buf) + n :
              (buf \o b)[k] = IF k <= Len(buf) THEN buf[k] ELSE b[k - Len(buf)]
    BY <1>1, <1>2, ConcatProperties
  <2>3. ASSUME NEW k \in Len(buf) + 1 .. Len(buf) + n PROVE buf'[k] = Base + k
    <3>1. k - Len(buf) \in 1 .. n /\ k \in 1 .. Len(buf) + n /\ ~ k <= Len(buf)
      BY <1>1
    <3>2. buf'[k] = b[k - Len(buf)] BY <2>1, <2>2, <3>1
    <3>3. b[k - Len(buf)] = received + (k - Len(buf)) BY <1>2, <3>1
    <3> QED BY <1>1, <3>1, <3>2, <3>3 DEF Base
  <2>4. \A k \in 1 .. Len(buf) : buf'[k] = buf[k] BY <1>1, <2>1, <2>2
  <2> QED BY <2>1, <2>2, <2>3, <2>4
<1>4. Base' = Base /\ Done' = Done /\ Base \in Int
  <2>1. Len(buf') = Len(buf) + n BY <1>3
  <2>2. received' = received + n /\ used' = used BY DEF Receive
  <2>3. Base' = Base /\ Base \in Int BY <1>1, <2>1, <2>2 DEF Base
  <2> QED BY <2>2, <2>3 DEF Done
<1>5. ParserTypeOK'
  <2>1. received' \in 0 .. MaxIn /\ delims' \subseteq 1 .. received'
    BY <1>1 DEF Receive, ParserTypeOK
  <2> QED BY <1>1, <1>3, <2>1 DEF Receive, ParserTypeOK, settings
<1>6. LineInv'
  <2>1. \A k \in 1 .. Len(buf') :
           buf'[k] = Base' + k \/ (buf'[k] = 0 /\ k <= used')
    <3>1. used' = used BY DEF Receive
    <3>2. \A k \in 1 .. Len(buf) : buf[k] = Base + k \/ (buf[k] = 0 /\ k <= used)
      BY DEF LineInv
    <3>3. SUFFICES ASSUME NEW k \in 1 .. Len(buf) + n
                   PROVE  buf'[k] = Base + k \/ (buf'[k] = 0 /\ k <= used)
      BY <1>3, <1>4, <3>1
    <3>4. CASE k <= Len(buf)
      <4>1. k \in 1 .. Len(buf) BY <1>1, <3>4
      <4> QED BY <1>3, <3>2, <4>1
    <3>5. CASE k > Len(buf)
      <4>1. k \in Len(buf) + 1 .. Len(buf) + n BY <1>1, <3>5
      <4> QED BY <1>3, <4>1
    <3> QED BY <1>1, <3>4, <3>5
  <2>2. used' > 0 => buf'[used'] = 0
    BY <1>1, <1>3 DEF Receive, LineInv, ParserTypeOK
  <2> QED BY <1>1, <1>3, <2>1, <2>2 DEF Receive, LineInv
<1> QED BY <1>3, <1>4, <1>5, <1>6

(* The line that ends at p has the bytes between, whole. *)
LEMMA ComesToLine ==
    ASSUME ParserTypeOK, LineInv, NEW p \in Nat,
        ComesTo(p)
    PROVE  /\ p \in used + 1 .. Len(buf) /\ pc = "loop" /\ open
           /\ SubSeq(buf, LineStart, p - 1) = Bytes(Done + 1, Base + p - 1)
           /\ SubSeq(buf, LineStart, p - 1) \in Seq(1 .. MaxIn)
           /\ Len(SubSeq(buf, LineStart, p - 1)) = p - 1 - used
           /\ buf[p] = Base + p /\ Base \in Nat /\ Base + p \in 1 .. received
           /\ p - used <= Limit
           /\ ~ IsDelimiter(p) => p - used = Limit
<1>1. /\ buf \in Seq(0 .. MaxIn) /\ Len(buf) \in Nat /\ used \in Nat /\ used <= Len(buf)
      /\ received \in Nat /\ Len(buf) <= received /\ received <= MaxIn /\ MaxIn \in Nat
      /\ at = used /\ pc = "loop" /\ open /\ Limit \in Nat \ {0, 1}
  BY LenProperties, ParserAssumption DEF ParserTypeOK, LineInv, ComesTo
<1>2. p \in used + 1 .. Len(buf) BY <1>1 DEF ComesTo
<1>3. \A k \in used + 1 .. Len(buf) : buf[k] = Base + k BY <1>1 DEF LineInv
<1>4. Base \in Nat /\ Done = Base + used /\ Base + p \in 1 .. received
  BY <1>1, <1>2 DEF Base, Done
<1> DEFINE line == SubSeq(buf, used + 1, p - 1)
<1>5. /\ line \in Seq(0 .. MaxIn) /\ Len(line) = p - 1 - used
      /\ \A k \in 1 .. p - 1 - used : line[k] = Done + k
  <2>1. /\ line \in Seq(0 .. MaxIn)
        /\ Len(line) = IF used + 1 <= p - 1 THEN (p - 1) - (used + 1) + 1 ELSE 0
        /\ \A k \in 1 .. (p - 1) - (used + 1) + 1 : line[k] = buf[(used + 1) + k - 1]
    BY <1>1, <1>2, SubSeqProperties
  <2> QED BY <1>1, <1>2, <1>3, <1>4, <2>1
<1> DEFINE b == Bytes(Done + 1, Base + p - 1)
<1>6. /\ b \in Seq(1 .. MaxIn) /\ b \in Seq(0 .. MaxIn) /\ Len(b) = p - 1 - used
      /\ \A k \in 1 .. p - 1 - used : b[k] = Done + k
  <2>1. PICK m \in Nat, n \in Nat : m = Done /\ n = Base + p - 1 BY <1>1,
      <1>2, <1>4
  <2>2. b = Bytes(m + 1, n) /\ m <= n /\ n <= MaxIn /\ n - m = p - 1 - used
    BY <1>1, <1>2, <1>4, <2>1
  <2> HIDE DEF b
  <2> QED BY <2>1, <2>2, LineBytesAre
<1> HIDE DEF line, b
<1>7. line = b BY <1>1, <1>2, <1>5, <1>6, SeqEqual
<1>8. line = SubSeq(buf, LineStart, p - 1) BY DEF line, LineStart
<1>9. p - used <= Limit
  <2>1. SUFFICES ASSUME p - used > Limit PROVE FALSE BY <1>1, <1>2
  <2>2. p - 1 \in at + 1 .. p - 1 BY <1>1, <1>2, <2>1
  <2>3. TooLong(p - 1) BY <1>1, <1>2, <2>1 DEF TooLong
  <2> QED BY <2>2, <2>3 DEF ComesTo
<1>10. ~ IsDelimiter(p) => p - used = Limit
  BY <1>1, <1>2, <1>9 DEF ComesTo, TooLong
<1> QED BY <1>1, <1>2, <1>3, <1>4, <1>5, <1>6, <1>7, <1>8, <1>9, <1>10 DEF b

(* A line is cut off. *)
LEMMA CutInv ==
    ASSUME ParserTypeOK, LineInv, NEW p \in Nat,
        ComesTo(p), Cut(p, p),
           UNCHANGED <<open, settings, input>>,
           UNCHANGED <<shown, event, pc>> \/ ShowLine(p)
    PROVE  /\ ParserTypeOK' /\ LineInv'
           /\ Len(buf') = Len(buf) /\ Base' = Base /\ Done' = Base + p
<1>1. /\ p \in used + 1 .. Len(buf) /\ pc = "loop" /\ open
      /\ SubSeq(buf, LineStart, p - 1) \in Seq(1 .. MaxIn)
  BY ComesToLine
<1>2. /\ buf \in Seq(0 .. MaxIn) /\ Len(buf) \in Nat /\ used \in Nat
      /\ received \in Nat /\ Len(buf) <= received /\ received <= MaxIn /\ MaxIn \in Nat
  BY LenProperties, ParserAssumption DEF ParserTypeOK, LineInv
<1>3. /\ buf' = [buf EXCEPT ![p] = 0] /\ at' = p /\ used' = p /\ received' = received
      /\ delims' = delims
  BY DEF Cut, input
<1>4. buf' \in Seq(0 .. MaxIn) /\ Len(buf') = Len(buf)
  BY <1>1, <1>2, <1>3, ExceptSeq
<1>5. \A k \in 1 .. Len(buf) : buf'[k] = IF k = p THEN 0 ELSE buf[k]
  BY <1>1, <1>2, <1>3
<1>6. Base' = Base /\ Done' = Base + p
  BY <1>3, <1>4 DEF Base, Done
<1>7. ParserTypeOK'
  <2>1. shown' \in Seq(Seq(1 .. MaxIn))
    <3>1. CASE UNCHANGED <<shown, event, pc>> BY <3>1 DEF ParserTypeOK
    <3>2. CASE ShowLine(p)
      <4>1. shown \in Seq(Seq(1 .. MaxIn)) BY DEF ParserTypeOK
      <4> QED BY <1>1, <3>2, <4>1, AppendProperties DEF ShowLine
    <3> QED BY <3>1, <3>2
  <2>2. pc' \in {"idle", "loop", "callback", "freed"}
        /\ event' \in {"none", "recv_str", "recv_buf"}
    BY DEF ParserTypeOK, ShowLine
  <2> QED
    BY <1>1, <1>2, <1>3, <1>4, <2>1, <2>2 DEF ParserTypeOK, settings
<1>8. LineInv'
  <2>1. \A k \in 1 .. Len(buf') :
           buf'[k] = Base' + k \/ (buf'[k] = 0 /\ k <= used')
    <3>1. \A k \in 1 .. Len(buf) : buf[k] = Base + k \/ (buf[k] = 0 /\ k <= used)
      BY DEF LineInv
    <3>2. SUFFICES ASSUME NEW k \in 1 .. Len(buf)
                   PROVE  buf'[k] = Base + k \/ (buf'[k] = 0 /\ k <= p)
      BY <1>3, <1>4, <1>6
    <3>3. buf'[k] = IF k = p THEN 0 ELSE buf[k] BY <1>5
    <3>4. buf[k] = Base + k \/ (buf[k] = 0 /\ k <= used) BY <3>1
    <3> QED BY <1>1, <1>2, <3>3, <3>4
  <2>2. used' > 0 => buf'[used'] = 0 BY <1>1, <1>2, <1>3, <1>5
  <2>3. /\ pc' \in {"loop", "callback"} /\ open'
        /\ pc' = "callback" => event' = "recv_str"
    BY <1>1 DEF ShowLine
  <2> QED BY <1>2, <1>3, <1>4, <2>1, <2>2, <2>3 DEF LineInv
<1> QED BY <1>4, <1>6, <1>7, <1>8

(* memmove() *)
LEMMA LoopEndsInv ==
    ASSUME ParserTypeOK, LineInv, LoopEnds
    PROVE  ParserTypeOK' /\ LineInv' /\ Len(buf') = Len(buf) - used /\ Done' = Done
<1>1. /\ buf \in Seq(0 .. MaxIn) /\ Len(buf) \in Nat /\ used \in Nat /\ used <= Len(buf)
      /\ received \in Nat /\ Len(buf) <= received /\ received <= MaxIn /\ MaxIn \in Nat
  BY LenProperties, ParserAssumption DEF ParserTypeOK, LineInv
<1>2. /\ buf' \in Seq(0 .. MaxIn) /\ Len(buf') = Len(buf) - used
      /\ \A k \in 1 .. Len(buf) - used : buf'[k] = buf[used + k]
  <2>1. buf' = SubSeq(buf, used + 1, Len(buf)) BY DEF LoopEnds,
      Kept
  <2>2. /\ buf' \in Seq(0 .. MaxIn)
        /\ Len(buf') = IF used + 1 <= Len(buf) THEN Len(buf) - (used + 1) + 1 ELSE 0
        /\ \A k \in 1 .. Len(buf) - (used + 1) + 1 : buf'[k] = buf[(used + 1) + k - 1]
    BY <1>1, <2>1, SubSeqProperties
  <2>3. Len(buf') = Len(buf) - used BY <1>1, <2>2
  <2>4. \A k \in 1 .. Len(buf) - used : buf'[k] = buf[used + k]
    <3> TAKE k \in 1 .. Len(buf) - used
    <3>1. k \in 1 .. Len(buf) - (used + 1) + 1 /\ (used + 1) + k - 1 = used + k
      BY <1>1
    <3> QED BY <2>2, <3>1
  <2> QED BY <2>2, <2>3, <2>4
<1>3. /\ used' = 0 /\ at' = 0 /\ received' = received /\ delims' = delims
      /\ pc' = "idle" /\ event' = "none"
  BY DEF LoopEnds, input
<1>4. Base' = Base + used /\ Done' = Done /\ Base \in Int
  BY <1>1, <1>2, <1>3 DEF Base, Done
<1>5. ParserTypeOK'
  BY <1>1, <1>2, <1>3 DEF ParserTypeOK, LoopEnds, settings
<1>6. \A k \in 1 .. Len(buf') : buf'[k] = Base' + k
  <2>1. SUFFICES ASSUME NEW k \in 1 .. Len(buf) - used
                 PROVE  buf[used + k] = Base + (used + k)
    BY <1>1, <1>2, <1>4
  <2>2. used + k \in 1 .. Len(buf) /\ ~ used + k <= used BY <1>1
  <2> QED BY <2>2 DEF LineInv
<1>7. LineInv' BY <1>1, <1>2, <1>3, <1>6 DEF LineInv
<1> QED BY <1>2, <1>4, <1>5, <1>7

(* User code takes the buffer, which holds the bytes that follow. *)
LEMMA TakeInv ==
    ASSUME ParserTypeOK, LineInv, TakeRaw
    PROVE  /\ ParserTypeOK' /\ LineInv'
           /\ shown' = Append(shown, Bytes(Done + 1, received))
           /\ Done' = received /\ Done \in Nat /\ Done <= received
<1>1. /\ buf \in Seq(0 .. MaxIn) /\ Len(buf) \in Nat /\ used = 0
      /\ received \in Nat /\ Len(buf) <= received /\ received <= MaxIn /\ MaxIn \in Nat
  BY LenProperties, ParserAssumption DEF ParserTypeOK, LineInv, TakeRaw
<1>2. Done = received - Len(buf) /\ Done \in Nat /\ Done <= received
  BY <1>1 DEF Base, Done
<1>3. \A k \in 1 .. Len(buf) : buf[k] = Done + k
  BY <1>1 DEF LineInv, Base, Done
<1> DEFINE b == Bytes(Done + 1, received)
<1>4. /\ b \in Seq(1 .. MaxIn) /\ b \in Seq(0 .. MaxIn) /\ Len(b) = Len(buf)
      /\ \A k \in 1 .. Len(buf) : b[k] = Done + k
  <2>1. PICK m \in Nat, n \in Nat : m = Done /\ n = received BY <1>1, <1>2
  <2>2. b = Bytes(m + 1, n) /\ m <= n /\ n <= MaxIn /\ n - m = Len(buf)
    BY <1>1, <1>2, <2>1
  <2> HIDE DEF b
  <2> QED BY <2>1, <2>2, LineBytesAre
<1> HIDE DEF b
<1>5. buf = b BY <1>1, <1>3, <1>4, SeqEqual
<1>6. shown' = Append(shown, b) BY <1>5 DEF TakeRaw
<1>7. shown' \in Seq(Seq(1 .. MaxIn)) BY <1>4, <1>6, AppendProperties
    DEF ParserTypeOK
<1>8. buf' \in Seq(0 .. MaxIn) /\ Len(buf') = 0 BY EmptySeq DEF TakeRaw
<1>9. at = used BY DEF LineInv
<1>10. ParserTypeOK'
  BY <1>1, <1>7, <1>8, <1>9 DEF ParserTypeOK, TakeRaw, settings,
      input
<1>11. LineInv'
  BY <1>1, <1>8, <1>9 DEF LineInv, TakeRaw, input, Base
<1>12. Done' = received BY <1>1, <1>8 DEF Done, Base, TakeRaw, input
<1> QED BY <1>2, <1>6, <1>10, <1>11, <1>12 DEF b

(* The steps that leave the buffer alone. *)
LEMMA OtherInv ==
    ASSUME ParserTypeOK, LineInv, UNCHANGED <<loop, input, shown>>,
           FreedLoop \/ ParserReturns \/ Switch \/ CloseSocket \/ UNCHANGED parserVars
    PROVE  ParserTypeOK' /\ LineInv' /\ Done' = Done
<1>1. /\ buf' = buf /\ at' = at /\ used' = used /\ received' = received
      /\ delims' = delims /\ shown' = shown
  BY DEF loop, input
<1>2. Base' = Base /\ Done' = Done BY <1>1 DEF Base, Done
<1>3. ParserTypeOK'
  <2>1. open' \in BOOLEAN BY DEF ParserTypeOK, FreedLoop,
      ParserReturns, Switch, CloseSocket, parserVars
  <2>2. /\ switched' \in BOOLEAN /\ parse' \in BOOLEAN /\ parseEmpty' \in BOOLEAN
        /\ before' \in BOOLEAN
    BY DEF ParserTypeOK, FreedLoop, ParserReturns, Switch,
        CloseSocket, parserVars, settings
  <2>3. pc' \in {"idle", "loop", "callback", "freed"}
    BY DEF ParserTypeOK, LineInv, FreedLoop, ParserReturns,
        Switch, CloseSocket, parserVars
  <2>4. event' = event
    BY DEF FreedLoop, ParserReturns, Switch,
        CloseSocket, parserVars
  <2> QED BY <1>1, <2>1, <2>2, <2>3, <2>4 DEF ParserTypeOK
<1>4. LineInv'
  BY <1>1, <1>2 DEF ParserTypeOK, LineInv, FreedLoop,
      ParserReturns, Switch, CloseSocket,
                    UserRuns, parserVars, settings
<1> QED BY <1>2, <1>3, <1>4

(* Every step keeps the buffer in order. *)
LEMMA StepInv ==
    ASSUME ParserTypeOK, LineInv, [ParserNext]_parserVars
    PROVE  ParserTypeOK' /\ LineInv'
<1>1. ASSUME NEW n \in 1 .. MaxChunk, NEW D, Receive(n, D)
      PROVE  ParserTypeOK' /\ LineInv'
  BY <1>1, ReceiveInv
<1>2. ASSUME NEW p \in 1 .. MaxIn, LineEnds(p)
    PROVE ParserTypeOK' /\ LineInv'
  <2>1. p \in Nat /\ ComesTo(p) /\ Cut(p, p) /\ UNCHANGED <<open, settings, input>>
        /\ (UNCHANGED <<shown, event, pc>> \/ ShowLine(p))
    BY <1>2 DEF LineEnds
  <2> QED BY <2>1, CutInv
<1>3. ASSUME NEW p \in 1 .. MaxIn, LineTooLong(p)
    PROVE ParserTypeOK' /\ LineInv'
  <2>1. p \in Nat /\ ComesTo(p) /\ Cut(p, p) /\ UNCHANGED <<open, settings, input>>
        /\ ShowLine(p)
    BY <1>3 DEF LineTooLong, RestSkipped
  <2> QED BY <2>1, CutInv
<1>4. CASE LoopEnds BY <1>4, LoopEndsInv
<1>5. CASE TakeRaw BY <1>5, TakeInv
<1>6. CASE FreedLoop \/ ParserReturns \/ Switch \/ CloseSocket \/ UNCHANGED parserVars
  <2>1. UNCHANGED <<loop, input, shown>>
    BY <1>6 DEF FreedLoop, ParserReturns, Switch,
        CloseSocket, parserVars
  <2> QED BY <1>6, <2>1, OtherInv
<1> QED BY <1>1, <1>2, <1>3, <1>4, <1>5, <1>6 DEF ParserNext

(* The types, and with them that the loop of iosocket_events_callback()    *)
(* stays in the buffer, so that memmove() gets no negative length.         *)
THEOREM ParserTypeCorrect == ParserSpec => []ParserTypeOK
<1>1. ParserInit => ParserTypeOK /\ LineInv BY InitInv
<1>2. ParserTypeOK /\ LineInv /\ [ParserNext]_parserVars => (ParserTypeOK /\ LineInv)' BY StepInv
<1> QED BY <1>1, <1>2, PTL DEF ParserSpec

-----------------------------------------------------------------------------
(* What is shown, s, ascends, ends with d, and what it lacks up to there    *)
(* are the delimiters D, or was behind a line at the limit.                *)
Ascending(s) ==
    \A k, l \in 1 .. Len(s) :
        \A m \in 1 .. Len(s[k]), n \in 1 .. Len(s[l]) :
            (k < l \/ (k = l /\ m < n)) => s[k][m] < s[l][n]

UpTo(s, d) == \A k \in 1 .. Len(s) : \A m \in 1 .. Len(s[k]) : s[k][m] <= d

Has(s, b) == \E k \in 1 .. Len(s) : \E m \in 1 .. Len(s[k]) : s[k][m] = b

BehindLimit(s, b) ==
    \E k \in 1 .. Len(s) : Len(s[k]) = Limit - 1 /\ s[k][Limit - 1] = b - 1

Order ==
    open => /\ Ascending(shown) /\ UpTo(shown, Done)
            /\ \A b \in 1 .. Done :
                  Has(shown, b) \/ b \in delims \/ BehindLimit(shown, b)

(* One more line, the bytes behind d up to e. *)
LEMMA OneMore ==
    ASSUME NEW d \in Nat, NEW e \in Nat, d <= e, e <= MaxIn,
           NEW s \in Seq(Seq(1 .. MaxIn)), Ascending(s), UpTo(s, d),
           NEW line \in Seq(1 .. MaxIn), Len(line) = e - d,
           \A k \in 1 .. e - d : line[k] = d + k,
           NEW t, t = Append(s, line)
    PROVE  /\ Ascending(t) /\ UpTo(t, e)
           /\ \A b : Has(s, b) => Has(t, b)
           /\ \A b : BehindLimit(s, b) => BehindLimit(t, b)
           /\ \A b \in d + 1 .. e : Has(t, b)
           /\ e - d = Limit - 1 => BehindLimit(t, e + 1)
<1>1. Len(s) \in Nat /\ MaxIn \in Nat /\ Limit \in Nat /\ Limit > 1
  BY LenProperties, ParserAssumption
<1> DEFINE n == Len(s)
<1>a. /\ t \in Seq(Seq(1 .. MaxIn)) /\ Len(t) = Len(s) + 1
      /\ \A k \in 1 .. Len(s) : t[k] = s[k]
      /\ t[Len(s) + 1] = line
  BY AppendProperties
<1>2. \A k \in 1 .. n : /\ Len(s[k]) \in Nat
                        /\ \A m \in 1 .. Len(s[k]) : s[k][m] \in Nat
  <2> TAKE k \in 1 .. n
  <2>1. s[k] \in Seq(1 .. MaxIn) BY <1>a, <1>1, ElementOfSeq
  <2>2. Len(s[k]) \in Nat BY <1>a, <2>1, LenProperties
  <2>3. \A m \in 1 .. Len(s[k]) : s[k][m] \in 1 .. MaxIn
    BY <1>a, <2>1, ElementOfSeq
  <2>4. \A x \in 1 .. MaxIn : x \in Nat BY <1>a, <1>1
  <2>5. \A m \in 1 .. Len(s[k]) : s[k][m] \in Nat BY <1>a, <2>3, <2>4
  <2> QED BY <1>a, <2>2, <2>5
<1>3. \A k \in 1 .. n + 1 : k \in 1 .. n \/ k = n + 1 BY <1>a, <1>1
<1>4. n + 1 \in 1 .. n + 1 /\ \A k \in 1 .. n : k \in 1 .. n + 1 BY <1>a, <1>1
<1>5. Ascending(t)
  <2> SUFFICES ASSUME NEW k \in 1 .. Len(t), NEW l \in 1 .. Len(t),
                      NEW m \in 1 .. Len(t[k]), NEW o \in 1 .. Len(t[l]),
                      k < l \/ (k = l /\ m < o)
               PROVE  t[k][m] < t[l][o]
    BY DEF Ascending
  <2>0. k \in 1 .. n + 1 /\ l \in 1 .. n + 1 BY <1>a
  <2>1. CASE l \in 1 .. n
    <3>0. k <= l OBVIOUS
    <3>1. k \in 1 .. n BY <1>1, <2>0, <2>1, <3>0
    <3> QED BY <1>a, <2>1, <3>1 DEF Ascending
  <2>2. CASE l = n + 1 /\ k \in 1 .. n
    <3>1. t[k][m] <= d /\ t[k][m] \in Nat BY <1>a, <1>2, <2>2 DEF UpTo
    <3>2. o \in 1 .. e - d /\ t[l][o] = d + o BY <1>a, <2>2
    <3>3. d < d + o BY <1>a, <3>2
    <3>4. \A x, y \in Nat : x <= d /\ d < y => x < y OBVIOUS
    <3>5. d + o \in Nat BY <1>a, <3>2
    <3> QED BY <1>a, <3>1, <3>2, <3>3, <3>4, <3>5
  <2>3. CASE l = n + 1 /\ k = n + 1
    <3>1. o \in 1 .. e - d /\ t[l][o] = d + o BY <1>a, <2>3
    <3>2. m \in 1 .. e - d /\ t[k][m] = d + m BY <1>a, <2>3
    <3>3. m < o BY <1>1, <2>3
    <3> QED BY <1>a, <3>1, <3>2, <3>3
  <2> QED BY <1>3, <2>0, <2>1, <2>2, <2>3
<1>6. UpTo(t, e)
  <2> SUFFICES ASSUME NEW k \in 1 .. n + 1, NEW m \in 1 .. Len(t[k])
               PROVE  t[k][m] <= e
    BY <1>a DEF UpTo
  <2>1. CASE k \in 1 .. n
    <3>1. t[k][m] <= d /\ t[k][m] \in Nat BY <1>a, <1>2, <2>1 DEF UpTo
    <3> QED BY <1>a, <3>1
  <2>2. CASE k = n + 1
    <3>1. m \in 1 .. e - d /\ t[k][m] = d + m BY <1>a, <2>2
    <3> QED BY <1>a, <3>1
  <2> QED BY <1>a, <1>3, <2>1, <2>2
<1>7. ASSUME NEW b, Has(s, b) PROVE Has(t, b)
  <2>1. PICK k \in 1 .. n : \E m \in 1 .. Len(s[k]) : s[k][m] = b BY <1>a,
      <1>7 DEF Has
  <2> QED BY <1>a, <1>4, <2>1 DEF Has
<1>8. ASSUME NEW b, BehindLimit(s, b) PROVE BehindLimit(t, b)
  <2>1. PICK k \in 1 .. n : Len(s[k]) = Limit - 1 /\ s[k][Limit - 1] = b - 1
    BY <1>a, <1>8 DEF BehindLimit
  <2> QED BY <1>a, <1>4, <2>1 DEF BehindLimit
<1>9. ASSUME NEW b \in d + 1 .. e PROVE Has(t, b)
  <2>1. b - d \in 1 .. e - d /\ d + (b - d) = b OBVIOUS
  <2>2. b - d \in 1 .. Len(t[n + 1]) /\ t[n + 1][b - d] = b BY <1>a, <2>1
  <2> QED BY <1>a, <1>4, <2>2 DEF Has
<1>10. ASSUME e - d = Limit - 1 PROVE BehindLimit(t, e + 1)
  <2>1. Limit - 1 \in 1 .. e - d /\ d + (Limit - 1) = e /\ e = (e + 1) - 1
    BY <1>a, <1>1, <1>10
  <2>2. Len(t[n + 1]) = Limit - 1 /\ t[n + 1][Limit - 1] = (e + 1) - 1
    BY <1>a, <1>10, <2>1
  <2> QED BY <1>a, <1>4, <2>2 DEF BehindLimit
<1> QED BY <1>5, <1>6, <1>7, <1>8, <1>9, <1>10

(* Nothing was shown. *)
LEMMA OrderInit == ParserInit => Order
<1> SUFFICES ASSUME ParserInit PROVE Order OBVIOUS
<1>1. Len(shown) = 0 /\ Len(buf) = 0 /\ received = 0 /\ used = 0 BY EmptySeq
    DEF ParserInit
<1> QED BY <1>1 DEF Order, Done, Base, Ascending, UpTo

(* Nothing new is shown. *)
LEMMA OrderSame ==
    ASSUME ParserTypeOK, LineInv, Order, open' => open,
        shown' = shown,
           delims \subseteq delims', Done' \in Done .. received',
           \A b \in Done + 1 .. Done' : b \in delims'
    PROVE  Order'
<1> SUFFICES ASSUME open' PROVE Order' BY DEF Order
<1>1. Done \in Int BY LenProperties DEF ParserTypeOK, LineInv, Done, Base
<1>2. PICK d \in Int, f \in Int : d = Done /\ f = Done' BY <1>1
<1>3. d <= f BY <1>1, <1>2
<1>4. PICK s \in Seq(Seq(1 .. MaxIn)) : s = shown BY DEF ParserTypeOK
<1>5. /\ Ascending(s) /\ UpTo(s, d)
      /\ \A b \in 1 .. d : Has(s, b) \/ b \in delims \/ BehindLimit(s, b)
  BY <1>2, <1>4 DEF Order
<1>6. UpTo(s, f)
  <2> SUFFICES ASSUME NEW k \in 1 .. Len(s), NEW m \in 1 .. Len(s[k])
               PROVE  s[k][m] <= f
    BY DEF UpTo
  <2>1. s[k] \in Seq(1 .. MaxIn) BY <1>4, ElementOfSeq
  <2>2. s[k][m] \in 1 .. MaxIn BY <2>1, ElementOfSeq
  <2>3. s[k][m] <= d BY <1>5 DEF UpTo
  <2> QED BY <1>2, <1>3, <2>2, <2>3, ParserAssumption
<1>7. ASSUME NEW b \in 1 .. f
      PROVE  Has(s, b) \/ b \in delims' \/ BehindLimit(s, b)
  <2>1. b \in 1 .. d \/ b \in d + 1 .. f BY <1>2
  <2> QED BY <1>2, <1>5, <2>1
<1>8. Ascending(shown') /\ UpTo(shown', Done') BY <1>2, <1>4, <1>5, <1>6
<1>9. \A b \in 1 .. Done' : Has(shown', b) \/ b \in delims' \/ BehindLimit(shown', b)
  BY <1>2, <1>4, <1>7
<1> QED BY <1>8, <1>9 DEF Order, Ascending, UpTo, Has, BehindLimit

(* The bytes that follow are shown; behind them comes a delimiter, or what *)
(* a line at the limit loses.                                              *)
LEMMA OrderShown ==
    ASSUME ParserTypeOK, Order, open' => open,
        delims' = delims,
           NEW e \in Nat, Done \in Nat, Done <= e, e <= MaxIn,
           shown' = Append(shown, Bytes(Done + 1, e)),
           Done' = e \/ (Done' = e + 1
                         /\ (e + 1 \in delims \/ (e - Done = Limit - 1)))
    PROVE  Order'
<1> SUFFICES ASSUME open' PROVE Order' BY DEF Order
<1>1. PICK d \in Nat, f \in Nat : d = Done /\ f = Done'
  <2>1. CASE Done' = e BY <2>1
  <2>2. CASE Done' = e + 1
    <3>1. e + 1 \in Nat OBVIOUS
    <3> QED BY <2>2, <3>1
  <2> QED BY <2>1, <2>2
<1>2. d <= e /\ e <= MaxIn
      /\ (f = e \/ (f = e + 1 /\ (e + 1 \in delims \/ e - d = Limit - 1)))
  BY <1>1
<1>5. PICK s \in Seq(Seq(1 .. MaxIn)) : s = shown BY DEF ParserTypeOK
<1>6. PICK t : t = shown' OBVIOUS
<1>7. PICK line \in Seq(1 .. MaxIn) :
           /\ line = Bytes(d + 1, e) /\ Len(line) = e - d
           /\ \A k \in 1 .. e - d : line[k] = d + k
  BY <1>2, LineBytesAre
<1>a. t = Append(s, line) /\ t \in Seq(Seq(1 .. MaxIn))
  <2>1. t = Append(s, line) BY <1>1, <1>5, <1>6, <1>7
  <2> QED BY <2>1, AppendProperties
<1>8. /\ Ascending(s) /\ UpTo(s, d)
      /\ \A b \in 1 .. d : Has(s, b) \/ b \in delims \/ BehindLimit(s, b)
  BY <1>1, <1>5 DEF Order
<1>9. /\ Ascending(t) /\ UpTo(t, e)
      /\ \A b : Has(s, b) => Has(t, b)
      /\ \A b : BehindLimit(s, b) => BehindLimit(t, b)
      /\ \A b \in d + 1 .. e : Has(t, b)
      /\ e - d = Limit - 1 => BehindLimit(t, e + 1)
  <2>1. d \in Nat /\ e \in Nat /\ d <= e /\ e <= MaxIn /\ s \in Seq(Seq(1 .. MaxIn))
        /\ Ascending(s) /\ UpTo(s, d) /\ t = Append(s, line)
        /\ line \in Seq(1 .. MaxIn) /\ Len(line) = e - d
        /\ \A k \in 1 .. e - d : line[k] = d + k
    BY <1>1, <1>2, <1>5, <1>7, <1>a, <1>8
  <2>2. Ascending(t) /\ UpTo(t, e) BY <2>1, OneMore
  <2>3. \A b : Has(s, b) => Has(t, b) BY <2>1, OneMore
  <2>4. \A b : BehindLimit(s, b) => BehindLimit(t, b) BY <2>1, OneMore
  <2>5. \A b \in d + 1 .. e : Has(t, b) BY <2>1, OneMore
  <2>6. e - d = Limit - 1 => BehindLimit(t, e + 1) BY <2>1, OneMore
  <2> QED BY <2>2, <2>3, <2>4, <2>5, <2>6
<1>10. UpTo(t, f)
  <2> SUFFICES ASSUME NEW k \in 1 .. Len(t), NEW m \in 1 .. Len(t[k])
               PROVE  t[k][m] <= f
    BY DEF UpTo
  <2>1. t[k] \in Seq(1 .. MaxIn) BY <1>a, ElementOfSeq
  <2>2. t[k][m] \in 1 .. MaxIn BY <2>1, ElementOfSeq
  <2>3. t[k][m] <= e BY <1>9 DEF UpTo
  <2> QED BY <1>2, <2>2, <2>3, ParserAssumption
<1>11. ASSUME NEW b \in 1 .. f
       PROVE  Has(t, b) \/ b \in delims \/ BehindLimit(t, b)
  <2>1. b \in 1 .. d \/ b \in d + 1 .. e \/ (b = e + 1 /\ f = e + 1) BY <1>2
  <2> QED BY <1>2, <1>8, <1>9, <2>1
<1>12. Ascending(shown') /\ UpTo(shown', Done') BY <1>1, <1>6, <1>9, <1>10
<1>13. \A b \in 1 .. Done' : Has(shown', b) \/ b \in delims' \/ BehindLimit(shown', b)
  BY <1>1, <1>6, <1>11
<1> QED BY <1>12, <1>13 DEF Order, Ascending, UpTo, Has, BehindLimit

(* Where the buffer lies in the input. *)
LEMMA DoneIs ==
    ASSUME ParserTypeOK, LineInv
    PROVE  /\ Base \in Nat /\ Done \in Nat /\ Done = Base + used /\ Done <= received
           /\ received \in Nat /\ received <= MaxIn /\ Base + Len(buf) = received
           /\ used \in Nat /\ Len(buf) \in Nat /\ used <= Len(buf)
<1>1. /\ buf \in Seq(0 .. MaxIn) /\ Len(buf) \in Nat /\ used \in Nat /\ used <= Len(buf)
      /\ received \in Nat /\ Len(buf) <= received /\ received <= MaxIn
  BY LenProperties, ParserAssumption DEF ParserTypeOK, LineInv
<1> QED BY <1>1 DEF Base, Done

(* What is in front of an empty line was overwritten, or is not there. *)
LEMMA SeemsEmptyIs ==
    ASSUME ParserTypeOK, LineInv, NEW p \in Nat,
        ComesTo(p)
    PROVE  /\ SeemsEmpty(p) => p = used + 1
           /\ p = used + 1 => SeemsEmpty(p) \/ before
<1>1. p \in used + 1 .. Len(buf) BY ComesToLine
<1>2. used \in Nat /\ Len(buf) \in Nat /\ Base \in Nat BY DoneIs
<1>3. ASSUME SeemsEmpty(p), p # used + 1 PROVE FALSE
  <2>1. p - 1 \in 1 .. Len(buf) /\ ~ p - 1 <= used /\ p # 1 BY <1>1, <1>2, <1>3
  <2>2. buf[p - 1] = Base + (p - 1) BY <2>1 DEF LineInv
  <2>3. buf[p - 1] = 0 BY <1>3, <2>1 DEF SeemsEmpty
  <2> QED BY <1>2, <2>1, <2>2, <2>3
<1>4. ASSUME p = used + 1, ~ SeemsEmpty(p) PROVE before
  <2>1. CASE p = 1 BY <1>4, <2>1 DEF SeemsEmpty, ParserTypeOK
  <2>2. CASE p # 1
    <3>1. used > 0 /\ p - 1 = used BY <1>2, <1>4, <2>2
    <3>2. buf[p - 1] = 0 BY <3>1 DEF LineInv
    <3> QED BY <1>4, <2>2, <3>2 DEF SeemsEmpty
  <2> QED BY <2>1, <2>2
<1> QED BY <1>3, <1>4

(* A line that is cut off is shown, or empty. *)
LEMMA OrderCut ==
    ASSUME ParserTypeOK, LineInv, Order, NEW p \in Nat,
        LineEnds(p) \/ LineTooLong(p)
    PROVE  Order'
<1>1. ComesTo(p) /\ Cut(p, p) /\ UNCHANGED <<open, settings, input>>
      /\ (UNCHANGED <<shown, event, pc>> \/ ShowLine(p))
  BY DEF LineEnds, LineTooLong, RestSkipped
<1>2. /\ p \in used + 1 .. Len(buf)
      /\ SubSeq(buf, LineStart, p - 1) = Bytes(Done + 1, Base + p - 1)
      /\ buf[p] = Base + p /\ Base \in Nat /\ Base + p \in 1 .. received
      /\ ~ IsDelimiter(p) => p - used = Limit
  BY <1>1, ComesToLine
<1>3. Done' = Base + p BY <1>1, CutInv
<1>4. /\ Done \in Nat /\ Done = Base + used /\ received \in Nat /\ received <= MaxIn
      /\ used \in Nat /\ Len(buf) \in Nat
  BY DoneIs
<1>5. open' = open /\ delims' = delims /\ received' = received BY <1>1
    DEF input
<1>6. CASE ShowLine(p)
  <2>0. PICK c \in Nat : c = Base + p /\ c > 0 BY <1>2, <1>4
  <2>1. PICK e \in Nat : e = Base + p - 1 /\ c = e + 1
    <3>1. c - 1 \in Nat /\ c - 1 = Base + p - 1 BY <1>2, <2>0
    <3> QED BY <2>0, <3>1
  <2>2. Done <= e /\ e <= MaxIn /\ Done' = e + 1
    <3>1. Done <= e BY <1>2, <1>4, <2>1
    <3>2. e <= MaxIn BY <1>2, <1>4, <2>1, ParserAssumption
    <3>3. Done' = c BY <1>3, <2>0
    <3> QED BY <2>1, <3>1, <3>2, <3>3
  <2>3. shown' = Append(shown, Bytes(Done + 1, e)) BY <1>2, <1>6, <2>1
      DEF ShowLine
  <2>4. e + 1 \in delims \/ e - Done = Limit - 1
    <3>1. e + 1 = buf[p] /\ e - Done = p - used - 1 BY <1>2, <1>4, <2>1
    <3> QED BY <1>2, <3>1 DEF IsDelimiter
  <2> QED BY <1>4, <1>5, <2>2, <2>3, <2>4, OrderShown
<1>7. CASE ~ ShowLine(p)
  <2>1. shown' = shown /\ IsDelimiter(p) /\ SeemsEmpty(p)
    BY <1>7 DEF LineEnds, LineTooLong
  <2>2. p = used + 1 BY <1>1, <2>1, SeemsEmptyIs
  <2>3. Done' = Done + 1 /\ Done' \in delims BY <1>2, <1>3, <1>4, <2>1, <2>2
      DEF IsDelimiter
  <2>4. Done' \in Done .. received' BY <1>2, <1>3, <1>4, <1>5, <2>3
  <2>5. \A b \in Done + 1 .. Done' : b \in delims'
    <3>1. PICK d \in Nat : d = Done BY <1>4
    <3>2. d + 1 \in delims' BY <1>5, <2>3, <3>1
    <3>3. \A b \in d + 1 .. d + 1 : b = d + 1 OBVIOUS
    <3> QED BY <2>3, <3>1, <3>2, <3>3
  <2> QED BY <1>5, <2>1, <2>4, <2>5, OrderSame
<1> QED BY <1>6, <1>7

(* Every step keeps what was shown in order. *)
LEMMA OrderStep ==
    ASSUME ParserTypeOK, LineInv, Order,
        [ParserNext]_parserVars
    PROVE  Order'
<1>1. Done \in Nat /\ Done <= received /\ received \in Nat /\ received <= MaxIn
  BY DoneIs
<1>2. ASSUME shown' = shown, open' => open, delims \subseteq delims',
    Done' = Done,
             received' \in Nat, received <= received'
      PROVE  Order'
  <2>1. Done' \in Done .. received' BY <1>1, <1>2
  <2>2. \A b \in Done + 1 .. Done' : b \in delims' BY <1>1, <1>2
  <2> QED BY <1>2, <2>1, <2>2, OrderSame
<1>3. ASSUME NEW n \in 1 .. MaxChunk, NEW D, Receive(n, D) PROVE Order'
  <2>1. Done' = Done BY <1>3, ReceiveInv
  <2>2. /\ shown' = shown /\ open' = open /\ delims' = delims \cup D
        /\ received' = received + n
    BY <1>3 DEF Receive
  <2>3. n \in Nat BY ParserAssumption
  <2> QED BY <1>1, <1>2, <2>1, <2>2, <2>3
<1>4. ASSUME NEW p \in 1 .. MaxIn, LineEnds(p) \/ LineTooLong(p)
    PROVE Order'
  <2>1. p \in Nat BY ParserAssumption
  <2> QED BY <1>4, <2>1, OrderCut
<1>5. CASE LoopEnds
  <2>1. Done' = Done BY <1>5, LoopEndsInv
  <2>2. shown' = shown /\ open' = open /\ delims' = delims /\ received' = received
    BY <1>5 DEF LoopEnds, input
  <2> QED BY <1>1, <1>2, <2>1, <2>2
<1>6. CASE TakeRaw
  <2>1. shown' = Append(shown, Bytes(Done + 1, received)) /\ Done' = received
    BY <1>6, TakeInv
  <2>2. open' = open /\ delims' = delims BY <1>6 DEF TakeRaw, input
  <2> QED BY <1>1, <2>1, <2>2, OrderShown
<1>7. CASE FreedLoop \/ ParserReturns \/ Switch \/ CloseSocket \/ UNCHANGED parserVars
  <2>1. UNCHANGED <<loop, input, shown>>
    BY <1>7 DEF FreedLoop, ParserReturns, Switch,
        CloseSocket, parserVars
  <2>2. Done' = Done BY <1>7, <2>1, OtherInv
  <2>3. open' => open
    BY <1>7 DEF FreedLoop, ParserReturns, Switch,
        CloseSocket, UserRuns, parserVars
  <2>4. shown' = shown /\ delims' = delims /\ received' = received
    BY <2>1 DEF input
  <2> QED BY <1>1, <1>2, <2>2, <2>3, <2>4
<1> QED BY <1>3, <1>4, <1>5, <1>6, <1>7 DEF ParserNext

(* What waits lies behind what was shown. *)
(* A byte that was overwritten at the limit follows the line that reached  *)
(* it at once.                                                             *)
LEMMA LimitFollows ==
    ASSUME ParserTypeOK, NEW b \in Nat, BehindLimit(shown, b)
    PROVE  FollowsTooLong(b)
<1>1. PICK k \in 1 .. Len(shown) : /\ Len(shown[k]) = Limit - 1
                                  /\ shown[k][Limit - 1] = b - 1
  BY DEF BehindLimit
<1>2. shown[k] \in Seq(1 .. MaxIn) BY ElementOfSeq DEF ParserTypeOK
<1>3. Limit - 1 \in 1 .. Len(shown[k]) BY <1>1, <1>2, ParserAssumption
<1>4. b - 1 \in 1 .. MaxIn BY <1>1, <1>2, <1>3, ElementOfSeq
<1>5. \A d \in delims : d \in Nat BY DEF ParserTypeOK
<1> DEFINE e == shown[k][Limit - 1]
<1>6. e = b - 1 /\ e \in Nat BY <1>1, <1>4
<1>7. b = e + 1 BY <1>6
<1> HIDE DEF e
<1>8. e < b /\ \A d \in delims : ~ (e < d /\ d < b)
  BY <1>5, <1>6, <1>7
<1> QED BY <1>1, <1>8 DEF FollowsTooLong, e

LEMMA OrderImplies ==
    ASSUME ParserTypeOK, LineInv, Order
        PROVE BytesInOrderUnlessTooLong
<1> SUFFICES ASSUME open PROVE BytesInOrderUnlessTooLong
  BY DEF BytesInOrderUnlessTooLong
<1>1. /\ Ascending(shown) /\ UpTo(shown, Done)
      /\ \A b \in 1 .. Done :
            Has(shown, b) \/ b \in delims \/ BehindLimit(shown, b)
  BY DEF Order
<1>2. SUFFICES ASSUME pc # "callback", pc # "loop"
      PROVE  /\ \A b \in Waiting, t \in Taken : t < b
             /\ \A b \in (1 .. received) \ (Taken \cup Waiting) :
                   b \in delims \/ BehindLimit(shown, b)
  BY <1>1, LimitFollows DEF BytesInOrderUnlessTooLong, Ascending
<1>3. used = 0 BY <1>2 DEF ParserTypeOK, LineInv
<1>4. /\ Done \in Nat /\ received \in Nat /\ Len(buf) \in Nat
      /\ Done + Len(buf) = received /\ Base = Done
  BY <1>3, DoneIs
<1>5. \A k \in 1 .. Len(buf) : buf[k] = Done + k
  BY <1>3, <1>4 DEF LineInv
<1>6. Waiting = Done + 1 .. received
  <2>1. ASSUME NEW b \in Waiting PROVE b \in Done + 1 .. received
    <3>1. PICK k \in 1 .. Len(buf) : b = buf[k] BY <2>1 DEF Waiting
    <3> QED BY <1>4, <1>5, <3>1
  <2>2. ASSUME NEW b \in Done + 1 .. received PROVE b \in Waiting
    <3>1. b - Done \in 1 .. Len(buf) /\ b # 0 BY <1>4
    <3>2. buf[b - Done] = b BY <1>4, <1>5, <3>1
    <3> QED BY <3>1, <3>2 DEF Waiting
  <2> QED BY <2>1, <2>2
<1>7. \A t \in Taken : t \in 1 .. MaxIn /\ t <= Done
  <2>1. SUFFICES ASSUME NEW k \in 1 .. Len(shown), NEW m \in 1 .. Len(shown[k])
                 PROVE  shown[k][m] \in 1 .. MaxIn /\ shown[k][m] <= Done
    BY DEF Taken
  <2>2. shown[k] \in Seq(1 .. MaxIn) BY ElementOfSeq DEF ParserTypeOK
  <2>3. shown[k][m] \in 1 .. MaxIn BY <2>2, ElementOfSeq
  <2> QED BY <1>1, <2>3 DEF UpTo
<1>8. \A b : Has(shown, b) => b \in Taken BY DEF Has, Taken
<1>9. \A b \in Waiting, t \in Taken : t < b
  BY <1>4, <1>6, <1>7, ParserAssumption
<1>10. \A b \in (1 .. received) \ (Taken \cup Waiting) :
          b \in delims \/ BehindLimit(shown, b)
  <2> TAKE b \in (1 .. received) \ (Taken \cup Waiting)
  <2>1. b \in 1 .. Done BY <1>4, <1>6
  <2>2. ~ Has(shown, b) BY <1>8
  <2> QED BY <1>1, <2>1, <2>2
<1> QED BY <1>9, <1>10

(* iosocket_events_callback() and user code that changes parse_delimiter:   *)
(* every byte gets to user code at most once and in the order of arrival,  *)
(* and only delimiters, and bytes that follow the limit of a line, never   *)
(* do.  The invariant it follows from, Order, is the narrower one of the   *)
(* code: of the latter only the one byte at each cut.                      *)
THEOREM ParserKeepsOrder == ParserSpec => []BytesInOrderUnlessTooLong
<1>1. ParserInit => ParserTypeOK /\ LineInv /\ Order BY InitInv, OrderInit
<1>2. ParserTypeOK /\ LineInv /\ Order /\ [ParserNext]_parserVars => (ParserTypeOK /\ LineInv /\ Order)'
  BY StepInv, OrderStep
<1>3. ParserTypeOK /\ LineInv /\ Order => BytesInOrderUnlessTooLong BY OrderImplies
<1> QED BY <1>1, <1>2, <1>3, PTL DEF ParserSpec

-----------------------------------------------------------------------------
(* Numbers. *)

(* A set of naturals has a least element. *)
LEMMA Least ==
    ASSUME NEW T \in SUBSET Nat, T # {}
    PROVE  \E m \in T : \A k \in T : m <= k
<1> DEFINE R == {ss \in Nat \X Nat : ss[1] < ss[2]}
<1>1. R = OpToRel(<, Nat) BY Zenon DEF OpToRel
<1>2. IsWellFoundedOn(R, Nat) BY <1>1, NatLessThanWellFounded, Zenon
<1> HIDE DEF R
<1>3. PICK m \in T : \A k \in T : ~ (<<k, m>> \in R) BY <1>2, WFMin, Zenon
<1>4. ASSUME NEW k \in T PROVE m <= k
  <2>1. <<k, m>> \notin R BY <1>3
  <2>2. k \in Nat /\ m \in Nat BY <1>3
  <2>3. ~ (k < m) BY <2>1, <2>2 DEF R
  <2> QED BY <2>2, <2>3
<1> QED BY <1>3, <1>4

(* A bounded set of naturals has a greatest element. *)
LEMMA Greatest ==
    ASSUME NEW n \in Nat, NEW T \in SUBSET (0 .. n), T # {}
    PROVE  \E m \in T : \A k \in T : k <= m
<1> DEFINE U == {n - k : k \in T}
<1>1. \A k \in T : n - k \in U /\ n - k \in Nat OBVIOUS
<1>2. U \in SUBSET Nat BY <1>1
<1>3. U # {} BY <1>1
<1> HIDE DEF U
<1>4. PICK u \in U : \A k \in U : u <= k BY <1>2, <1>3, Least
<1>5. PICK m \in T : u = n - m BY <1>4 DEF U
<1>6. ASSUME NEW k \in T PROVE k <= m
  <2>1. n - m <= n - k BY <1>1, <1>4, <1>5
  <2>2. k \in 0 .. n /\ m \in 0 .. n BY <1>5
  <2> QED BY <2>1, <2>2
<1> QED BY <1>5, <1>6

(* A number is its quotient and its remainder. *)
LEMMA Division ==
    ASSUME NEW m \in Nat \ {0}, NEW a \in Nat
    PROVE  a \div m \in Nat /\ a = (m * (a \div m)) + (a % m)
<1> QED BY SMT

(* The remainder of what is built from both. *)
LEMMA Remainder ==
    ASSUME NEW m \in Nat \ {0}, NEW q \in Nat, NEW d \in Nat, d < m
    PROVE  ((m * q) + d) % m = d
<1> QED BY SMT

(* From one cut at the limit to the next. *)
LEMMA NextAtLimit ==
    ASSUME NEW m \in Nat \ {0}, NEW a \in Nat, a % m = 0,
           NEW d \in Nat, 0 < d, d <= m
    PROVE  (a + d) % m = 0 <=> d = m
<1>1. PICK q \in Nat : a = (m * q) + (a % m) BY Division
<1>2. a = m * q BY <1>1
<1>3. CASE d < m
  <2>1. (a + d) % m = d BY <1>2, <1>3, Remainder
  <2> QED BY <1>3, <2>1
<1>4. CASE d = m
  <2>1. a + d = (m * (q + 1)) + 0 /\ q + 1 \in Nat /\ 0 < m BY <1>2, <1>4
  <2>2. ((m * (q + 1)) + 0) % m = 0 BY <2>1, Remainder
  <2> QED BY <1>4, <2>1, <2>2
<1> QED BY <1>3, <1>4

-----------------------------------------------------------------------------
(* The reference, as operators on the delimiters, the number of bytes and  *)
(* the cuts. *)

Below(S, p) ==
    IF \E d \in S : d < p
    THEN CHOOSE d \in S : d < p /\ \A e \in S : e < p => e <= d
    ELSE 0

CutsOf(D, r) ==
    {p \in 1 .. r : p \in D \/ (p \notin D /\ (p - Below(D, p)) % Limit = 0)}

LineOf(C, p) == Bytes(Below(C, p) + 1, p - 1)

Told(C, d) == {LineOf(C, c) : c \in {x \in C : x <= d /\ LineOf(C, x) # <<>>}}

Empties(C, d) == {x \in C : x <= d /\ LineOf(C, x) = <<>>}

(* The definitions of IOLineParser are these operators. *)
LEMMA ReferenceIs ==
    /\ BeyondLimit = {p \in 1 .. received : p - Below(delims, p) > Limit}
    /\ \A p : LineTo(p) = LineOf(delims, p)
<1>1. \A p : LastDelimiter(p) = Below(delims, p)
  BY DEF LastDelimiter, Below
<1> QED BY <1>1 DEF BeyondLimit, LineTo, LineOf

(* The last of S before p. *)
LEMMA BelowIs ==
    ASSUME NEW n \in Nat, NEW S \in SUBSET (1 .. n), NEW p \in Nat
    PROVE  /\ Below(S, p) \in S \cup {0} /\ Below(S, p) \in Nat
           /\ p > 0 => Below(S, p) < p
           /\ Below(S, p) <= p
           /\ \A e \in S : e < p => e <= Below(S, p)
<1>1. CASE \E d \in S : d < p
  <2> DEFINE T == {d \in S : d < p}
  <2>0. \A k \in 1 .. n : k \in 0 .. n OBVIOUS
  <2>1. T \in SUBSET (0 .. n) /\ T # {} BY <1>1, <2>0
  <2>2. PICK m \in T : \A k \in T : k <= m BY <2>1, Greatest
  <2>3. \E d \in S : d < p /\ \A e \in S : e < p => e <= d BY <2>2
  <2> DEFINE x == CHOOSE d \in S : d < p /\ \A e \in S : e < p => e <= d
  <2>4. x \in S /\ x < p /\ \A e \in S : e < p => e <= x BY <2>3
  <2>5. Below(S, p) = x BY <1>1 DEF Below
  <2> HIDE DEF x
  <2> QED BY <2>4, <2>5
<1>2. CASE ~ \E d \in S : d < p BY <1>2 DEF Below
<1> QED BY <1>1, <1>2

(* Nothing else is the last of S before p. *)
LEMMA BelowUnique ==
    ASSUME NEW n \in Nat, NEW S \in SUBSET (1 .. n), NEW p \in Nat,
           NEW d \in S \cup {0}, d < p, \A e \in S : e < p => e <= d
    PROVE  Below(S, p) = d
<1>0. d \in Nat /\ p > 0 OBVIOUS
<1>1. PICK x : x = Below(S, p) OBVIOUS
<1>2. /\ x \in S \cup {0} /\ x \in Nat /\ x < p
      /\ \A e \in S : e < p => e <= x
  BY <1>0, <1>1, BelowIs
<1>3. d \in Nat BY <1>0
<1>4. x <= d BY <1>2, <1>3
<1>5. d <= x BY <1>2, <1>3
<1> QED BY <1>1, <1>2, <1>3, <1>4, <1>5

(* Behind a cut at d the limit counts from there. *)
LEMMA LimitCounts ==
    ASSUME Limit \in Nat \ {0, 1}, NEW r \in Nat, NEW D \in SUBSET (1 .. r),
           NEW d \in CutsOf(D, r) \cup {0}, NEW e \in d + 1 .. r,
               e - d <= Limit,
           \A q \in d + 1 .. e - 1 : q \notin D
    PROVE  e \in CutsOf(D, r) <=> e \in D \/ e - d = Limit
<1>1. d \in Nat /\ e \in Nat /\ e \in 1 .. r /\ d < e BY DEF CutsOf
<1>2. PICK y \in D \cup {0} : /\ y \in Nat /\ y <= d /\ (d - y) % Limit = 0
                              /\ \A z \in D : z <= d => z <= y
  <2>1. CASE d \in D \/ d = 0
    <3>1. d - d = 0 /\ 0 % Limit = 0 BY <1>1
    <3> QED BY <1>1, <2>1, <3>1
  <2>2. CASE d \notin D /\ d # 0
    <3>1. (d - Below(D, d)) % Limit = 0 BY <2>2 DEF CutsOf
    <3>2. PICK y : y = Below(D, d) OBVIOUS
    <3>3. /\ y \in D \cup {0} /\ y \in Nat /\ y <= d
          /\ \A z \in D : z < d => z <= y
      BY <1>1, <3>2, BelowIs
    <3>4. \A z \in D : z <= d => z < d BY <1>1, <2>2
    <3> QED BY <3>1, <3>2, <3>3, <3>4
  <2> QED BY <2>1, <2>2
<1>3. Below(D, e) = y
  <2>1. y < e BY <1>1, <1>2
  <2>2. ASSUME NEW z \in D, z < e PROVE z <= y
    <3>1. z \in Nat OBVIOUS
    <3>2. z \notin d + 1 .. e - 1 OBVIOUS
    <3>3. z <= d BY <1>1, <2>2, <3>1, <3>2
    <3> QED BY <1>2, <3>3
  <2> QED BY <1>1, <1>2, <2>1, <2>2, BelowUnique
<1>4. e - y = (d - y) + (e - d) /\ d - y \in Nat /\ e - d \in Nat /\ 0 < e - d
  BY <1>1, <1>2
<1>5. (e - y) % Limit = 0 <=> e - d = Limit
  <2>1. PICK a \in Nat, c \in Nat : a = d - y /\ c = e - d BY <1>4
  <2>2. a % Limit = 0 /\ 0 < c /\ c <= Limit /\ Limit \in Nat \ {0}
    BY <1>2, <1>4, <2>1
  <2>3. (a + c) % Limit = 0 <=> c = Limit BY <2>2, NextAtLimit
  <2> QED BY <1>4, <2>1, <2>3
<1>6. e \in CutsOf(D, r) <=> e \in D \/ (e \notin D /\ (e - Below(D, e)) % Limit = 0)
  BY <1>1 DEF CutsOf
<1> QED BY <1>3, <1>5, <1>6

(* More bytes change nothing about the cuts among those that were there. *)
LEMMA BelowSame ==
    ASSUME NEW r \in Nat, NEW t \in Nat, r <= t,
           NEW D \in SUBSET (1 .. r), NEW E \in SUBSET (1 .. t),
           \A q \in 1 .. r : q \in D <=> q \in E,
           NEW p \in 1 .. r
    PROVE  Below(D, p) = Below(E, p)
<1>0. p \in Nat /\ p > 0 OBVIOUS
<1>1. PICK x : x = Below(D, p) OBVIOUS
<1>2. /\ x \in D \cup {0} /\ x \in Nat /\ x < p
      /\ \A e \in D : e < p => e <= x
  BY <1>0, <1>1, BelowIs
<1>3. x \in E \cup {0} BY <1>2
<1>4. \A e \in E : e < p => e <= x
  <2>1. ASSUME NEW e \in E, e < p PROVE e <= x
    <3>1. e \in 1 .. r BY <2>1
    <3> QED BY <1>2, <2>1, <3>1
  <2> QED BY <2>1
<1>5. Below(E, p) = x BY <1>0, <1>2, <1>3, <1>4, BelowUnique
<1> QED BY <1>1, <1>5

(* The cuts among the old bytes are the old cuts. *)
LEMMA CutsSame ==
    ASSUME NEW r \in Nat, NEW t \in Nat, r <= t,
           NEW D \in SUBSET (1 .. r), NEW E \in SUBSET (1 .. t),
           \A q \in 1 .. r : q \in D <=> q \in E
    PROVE  \A p \in 1 .. r : p \in CutsOf(D, r) <=> p \in CutsOf(E, t)
<1> TAKE p \in 1 .. r
<1>1. Below(D, p) = Below(E, p) BY BelowSame
<1>2. p \in 1 .. t OBVIOUS
<1>3. p \in CutsOf(D, r) <=> p \in D \/ (p \notin D /\ (p - Below(D, p)) % Limit = 0)
  BY DEF CutsOf
<1>4. p \in CutsOf(E, t) <=> p \in E \/ (p \notin E /\ (p - Below(E, p)) % Limit = 0)
  BY <1>2 DEF CutsOf
<1> QED BY <1>1, <1>3, <1>4

(* Their lines, and which are empty, are the same. *)
LEMMA LinesSame ==
    ASSUME NEW r \in Nat, NEW t \in Nat, r <= t,
           NEW C \in SUBSET (1 .. r), NEW F \in SUBSET (1 .. t),
           \A q \in 1 .. r : q \in C <=> q \in F,
           NEW d \in Nat, d <= r
    PROVE  Told(C, d) = Told(F, d) /\ Empties(C, d) = Empties(F, d)
<1>1. \A p \in 1 .. r : LineOf(C, p) = LineOf(F, p)
  <2> TAKE p \in 1 .. r
  <2>1. Below(C, p) = Below(F, p) BY BelowSame
  <2> QED BY <2>1 DEF LineOf
<1>2. \A x : x \in C /\ x <= d <=> x \in F /\ x <= d
  <2>1. ASSUME NEW x \in C, x <= d PROVE x \in F
    <3>1. x \in 1 .. r OBVIOUS
    <3> QED BY <3>1
  <2>2. ASSUME NEW x \in F, x <= d PROVE x \in C
    <3>1. x \in 1 .. t OBVIOUS
    <3>2. x \in 1 .. r BY <2>2, <3>1
    <3> QED BY <3>2
  <2> QED BY <2>1, <2>2
<1>3. {x \in C : x <= d /\ LineOf(C, x) # <<>>} = {x \in F : x <= d /\ LineOf(F, x) # <<>>}
  BY <1>1, <1>2
<1>4. Told(C, d) = Told(F, d) BY <1>1, <1>3 DEF Told
<1>5. Empties(C, d) = Empties(F, d) BY <1>1, <1>2 DEF Empties
<1> QED BY <1>4, <1>5

(* The next cut adds its line. *)
LEMMA UpToNext ==
    ASSUME NEW r \in Nat, NEW C \in SUBSET (1 .. r), NEW d \in C \cup {0},
           NEW c \in C, d < c, \A q \in d + 1 .. c - 1 : q \notin C
    PROVE  /\ \A x \in C : x <= c <=> x <= d \/ x = c
           /\ Below(C, c) = d
           /\ c \notin Empties(C, d)
<1>1. d \in Nat /\ c \in Nat OBVIOUS
<1>2. \A x \in C : (x <= c <=> x <= d \/ x = c) /\ (x < c => x <= d)
  <2> TAKE x \in C
  <2>1. x \in Nat /\ x \notin d + 1 .. c - 1 OBVIOUS
  <2> QED BY <1>1, <2>1
<1>3. Below(C, c) = d BY <1>1, <1>2, BelowUnique
<1>4. c \notin Empties(C, d) BY <1>1 DEF Empties
<1> QED BY <1>2, <1>3, <1>4

(* A line that is not empty. *)
LEMMA LineAdds ==
    ASSUME NEW C, NEW d, NEW c \in C,
           \A x \in C : x <= c <=> x <= d \/ x = c,
           LineOf(C, c) # <<>>
    PROVE  /\ Told(C, c) = Told(C, d) \cup {LineOf(C, c)}
           /\ Empties(C, c) = Empties(C, d)
<1>1. {x \in C : x <= c /\ LineOf(C, x) # <<>>}
        = {x \in C : x <= d /\ LineOf(C, x) # <<>>} \cup {c}
  OBVIOUS
<1>2. Told(C, c) = Told(C, d) \cup {LineOf(C, c)} BY <1>1 DEF Told
<1>3. Empties(C, c) = Empties(C, d) BY DEF Empties
<1> QED BY <1>2, <1>3

(* Cuts are bytes that arrived. *)
LEMMA CutsAre ==
    ASSUME NEW r \in Nat, NEW D \in SUBSET (1 .. r)
    PROVE  CutsOf(D, r) \in SUBSET (1 .. r)
BY DEF CutsOf

(* The end of the next line is the next cut. *)
LEMMA NextCut ==
    ASSUME Limit \in Nat \ {0, 1}, NEW r \in Nat, NEW D \in SUBSET (1 .. r),
           NEW d \in CutsOf(D, r) \cup {0}, NEW c \in d + 1 .. r,
               c - d <= Limit,
           \A q \in d + 1 .. c - 1 : q \notin D,
           c \in D \/ c - d = Limit
    PROVE  /\ c \in CutsOf(D, r)
           /\ \A q \in d + 1 .. c - 1 : q \notin CutsOf(D, r)
<1>1. d \in Nat /\ c \in Nat BY DEF CutsOf
<1>2. c \in CutsOf(D, r) BY LimitCounts
<1>3. ASSUME NEW q \in d + 1 .. c - 1 PROVE q \notin CutsOf(D, r)
  <2>1. q \in d + 1 .. r /\ q - d <= Limit /\ q - d # Limit /\ q \notin D
      BY <1>1
  <2>2. \A x \in d + 1 .. q - 1 : x \notin D BY <1>1
  <2> QED BY <2>1, <2>2, LimitCounts
<1> QED BY <1>2, <1>3

(* Fewer bytes than the limit, none of them a delimiter, have no cut. *)
LEMMA NoMoreCuts ==
    ASSUME Limit \in Nat \ {0, 1}, NEW r \in Nat, NEW D \in SUBSET (1 .. r),
           NEW d \in CutsOf(D, r) \cup {0}, r - d < Limit,
           \A q \in d + 1 .. r : q \notin D
    PROVE  \A c \in CutsOf(D, r) : c <= d
<1>1. d \in Nat BY DEF CutsOf
<1>2. SUFFICES ASSUME NEW c \in CutsOf(D, r), c > d PROVE FALSE
  BY <1>1, CutsAre
<1>3. c \in 1 .. r BY DEF CutsOf
<1>4. c \in d + 1 .. r /\ c - d <= Limit /\ c - d # Limit /\ c \notin D
  BY <1>1, <1>2, <1>3
<1>5. \A x \in d + 1 .. c - 1 : x \notin D BY <1>1, <1>3
<1> QED BY <1>4, <1>5, LimitCounts

-----------------------------------------------------------------------------
(* What user code got, and which of it is empty. *)
Elements(s) == {s[k] : k \in 1 .. Len(s)}

EmptyAt(s) == {k \in 1 .. Len(s) : s[k] = <<>>}

InLines == open /\ parse /\ ~ switched

(* What is cut off are the lines of the whole up to there, and in the loop *)
(* nothing but the rest of the chunk is behind it.                         *)
CutLines ==
    InLines =>
        /\ event # "recv_buf"
        /\ Done \in CutsOf(delims, received) \cup {0}
        /\ pc = "idle" => /\ \A c \in CutsOf(delims, received) : c <= Done
                          /\ Len(buf) < Limit
        /\ Elements(shown) \ {<<>>} = Told(CutsOf(delims, received), Done)
        /\ parseEmpty => Cardinality(EmptyAt(shown))
                           = Cardinality(Empties(CutsOf(delims, received), Done))
        /\ ~ parseEmpty /\ ~ before => EmptyAt(shown) = {}

(* One more line is shown. *)
LEMMA OneElementMore ==
    ASSUME NEW S, NEW s \in Seq(S), NEW e \in S
    PROVE  /\ Elements(Append(s, e)) = Elements(s) \cup {e}
           /\ e # <<>> => EmptyAt(Append(s, e)) = EmptyAt(s)
           /\ e = <<>> => EmptyAt(Append(s, e)) = EmptyAt(s) \cup {Len(s) + 1}
           /\ Len(s) + 1 \notin EmptyAt(s)
           /\ IsFiniteSet(EmptyAt(s))
<1> DEFINE t == Append(s, e)  n == Len(s)
<1>1. n \in Nat BY LenProperties
<1>2. Len(t) = n + 1 /\ t[n + 1] = e /\ \A k \in 1 .. n : t[k] = s[k]
  BY AppendProperties
<1> HIDE DEF t, n
<1>3. 1 .. n + 1 = (1 .. n) \cup {n + 1} BY <1>1
<1>4. Elements(t) = Elements(s) \cup {e} BY <1>2, <1>3 DEF Elements, n
<1>5. e # <<>> => EmptyAt(t) = EmptyAt(s) BY <1>2, <1>3 DEF EmptyAt, n
<1>6. e = <<>> => EmptyAt(t) = EmptyAt(s) \cup {n + 1} BY <1>2, <1>3
    DEF EmptyAt, n
<1>7. n + 1 \notin EmptyAt(s) BY <1>1 DEF EmptyAt, n
<1>8. IsFiniteSet(EmptyAt(s))
  <2>1. IsFiniteSet(1 .. n) BY <1>1, FS_Interval
  <2>2. EmptyAt(s) \subseteq 1 .. n BY DEF EmptyAt, n
  <2> QED BY <2>1, <2>2, FS_Subset
<1> QED BY <1>4, <1>5, <1>6, <1>7, <1>8 DEF t, n

(* There are finitely many empty lines. *)
LEMMA EmptiesFinite ==
    ASSUME NEW r \in Nat, NEW C \in SUBSET (1 .. r), NEW d
    PROVE  IsFiniteSet(Empties(C, d))
<1>1. IsFiniteSet(1 .. r) BY FS_Interval
<1>2. Empties(C, d) \subseteq 1 .. r BY DEF Empties
<1> QED BY <1>1, <1>2, FS_Subset

(* Nothing was cut off. *)
LEMMA LinesInit ==
    ASSUME ParserInit PROVE CutLines
<1>1. /\ Len(shown) = 0 /\ Len(buf) = 0 /\ received = 0 /\ used = 0 /\ delims = {}
      /\ event = "none"
  BY EmptySeq DEF ParserInit
<1>2. CutsOf(delims, received) = {} BY <1>1 DEF CutsOf
<1>3. Done = 0 BY <1>1 DEF Done, Base
<1>4. Elements(shown) = {} /\ EmptyAt(shown) = {} BY <1>1 DEF Elements, EmptyAt
<1>5. Told({}, 0) = {} /\ Empties({}, 0) = {} BY DEF Told, Empties
<1>6. 0 < Limit BY ParserAssumption
<1> QED BY <1>1, <1>2, <1>3, <1>4, <1>5, <1>6 DEF CutLines

(* No line is cut off. *)
LEMMA LinesUncut ==
    ASSUME ParserTypeOK, ParserTypeOK', LineInv, CutLines,
        InLines' => InLines,
           parseEmpty' = parseEmpty, before' = before, shown' = shown,
               Done' = Done,
           received <= received',
           \A q \in 1 .. received : q \in delims' <=> q \in delims,
           InLines' => event' # "recv_buf",
           InLines' /\ pc' = "idle" =>
               /\ \A c \in CutsOf(delims', received') : c <= Done'
               /\ Len(buf') < Limit
    PROVE  CutLines'
<1> SUFFICES ASSUME InLines' PROVE CutLines' BY DEF CutLines
<1>a. PICK r \in Nat, t \in Nat,
    d \in Nat : r = received /\ t = received' /\ d = Done
  <2>1. received \in Nat /\ received' \in Nat /\ Done \in Nat
    BY DoneIs, ParserAssumption DEF ParserTypeOK
  <2> QED BY <2>1
<1>b. PICK D \in SUBSET (1 .. r),
    E \in SUBSET (1 .. t) : D = delims /\ E = delims'
  <2>1. delims \in SUBSET (1 .. received) /\ delims' \in SUBSET (1 .. received')
    BY DEF ParserTypeOK
  <2> QED BY <1>a, <2>1
<1>1. r = received /\ t = received' /\ D = delims /\ E = delims' /\ d = Done
  BY <1>a, <1>b
<1>2. r <= t /\ d <= r /\ \A q \in 1 .. r : q \in D <=> q \in E BY <1>1, DoneIs
<1> DEFINE C == CutsOf(D, r)  F == CutsOf(E, t)
<1>3. C \in SUBSET (1 .. r) /\ F \in SUBSET (1 .. t) BY CutsAre
<1>4. \A q \in 1 .. r : q \in C <=> q \in F BY <1>2, CutsSame
<1>5. C = CutsOf(delims, received) /\ F = CutsOf(delims', received') BY <1>1
<1> HIDE DEF C, F
<1>6. Told(C, d) = Told(F, d) /\ Empties(C, d) = Empties(F, d)
  BY ONLY <1>2, <1>3, <1>4, r \in Nat, t \in Nat, d \in Nat, LinesSame,
      SMTT(30)
<1>7. /\ d \in C \cup {0}
      /\ Elements(shown) \ {<<>>} = Told(C, d)
      /\ parseEmpty => Cardinality(EmptyAt(shown)) = Cardinality(Empties(C, d))
      /\ ~ parseEmpty /\ ~ before => EmptyAt(shown) = {}
  BY <1>1, <1>5 DEF CutLines
<1>8. d \in F \cup {0} BY <1>3, <1>4, <1>7
<1>9. /\ Done' \in CutsOf(delims', received') \cup {0}
      /\ Elements(shown') \ {<<>>} = Told(CutsOf(delims', received'), Done')
      /\ parseEmpty' => Cardinality(EmptyAt(shown'))
                           = Cardinality(Empties(CutsOf(delims', received'), Done'))
      /\ ~ parseEmpty' /\ ~ before' => EmptyAt(shown') = {}
  BY <1>1, <1>5, <1>6, <1>7, <1>8
<1> QED BY <1>9 DEF CutLines

(* The line that is cut off is the next of the whole. *)
LEMMA LinesCut ==
    ASSUME ParserTypeOK, LineInv, CutLines, NEW p \in Nat,
        LineEnds(p) \/ LineTooLong(p)
    PROVE  CutLines'
<1>1. /\ ComesTo(p) /\ Cut(p, p) /\ UNCHANGED <<open, settings, input>>
      /\ UNCHANGED <<shown, event, pc>> \/ ShowLine(p)
  BY DEF LineEnds, LineTooLong, RestSkipped
<1>2. /\ p \in used + 1 .. Len(buf) /\ pc = "loop"
      /\ SubSeq(buf, LineStart, p - 1) = Bytes(Done + 1, Base + p - 1)
      /\ SubSeq(buf, LineStart, p - 1) \in Seq(1 .. MaxIn)
      /\ Len(SubSeq(buf, LineStart, p - 1)) = p - 1 - used
      /\ Base + p \in 1 .. received
      /\ p - used <= Limit
      /\ ~ IsDelimiter(p) => p - used = Limit
      /\ buf[p] = Base + p
  BY <1>1, ComesToLine
<1>3. Done' = Base + p BY <1>1, CutInv
<1>4. /\ Done \in Nat /\ Base \in Nat /\ Done = Base + used /\ received \in Nat
      /\ used \in Nat /\ Len(buf) \in Nat /\ Base + Len(buf) = received
      /\ Limit \in Nat \ {0, 1} /\ at = used
  BY DoneIs, ParserAssumption DEF LineInv
<1>5. /\ delims' = delims /\ received' = received /\ parseEmpty' = parseEmpty
      /\ before' = before /\ open' = open /\ parse' = parse /\ switched' = switched
  BY <1>1 DEF input, settings
<1> SUFFICES ASSUME InLines' PROVE CutLines' BY DEF CutLines
<1>6. InLines BY <1>5 DEF InLines
<1>a. PICK r \in Nat, d \in Nat,
    c \in Nat : r = received /\ d = Done /\ c = Base + p
  BY <1>2, <1>4
<1>b. PICK D \in SUBSET (1 .. r) : D = delims BY <1>a DEF ParserTypeOK
<1> DEFINE C == CutsOf(D, r)
<1>7. C = CutsOf(delims, received) /\ C = CutsOf(delims', received')
  BY <1>5, <1>a, <1>b
<1>8. C \in SUBSET (1 .. r) BY CutsAre
<1> HIDE DEF C
<1>9. /\ d \in C \cup {0}
      /\ Elements(shown) \ {<<>>} = Told(C, d)
      /\ parseEmpty => Cardinality(EmptyAt(shown)) = Cardinality(Empties(C, d))
      /\ ~ parseEmpty /\ ~ before => EmptyAt(shown) = {}
      /\ event # "recv_buf"
  BY <1>6, <1>7, <1>a DEF CutLines
<1>10. c \in d + 1 .. r /\ c - d = p - used /\ d < c /\ c - d <= Limit
  BY <1>2, <1>4, <1>a
<1>11. \A q \in d + 1 .. c - 1 : q \notin D
  <2> TAKE q \in d + 1 .. c - 1
  <2>1. q - Base \in used + 1 .. p - 1 BY <1>4, <1>10, <1>a
  <2>2. q - Base \in 1 .. Len(buf) /\ ~ q - Base <= used BY <1>2, <1>4, <2>1
  <2>3. buf[q - Base] = Base + (q - Base) BY <2>2 DEF LineInv
  <2>4. Base + (q - Base) = q BY <1>4, <1>10
  <2>5. ~ IsDelimiter(q - Base) BY <1>1, <1>4, <2>1 DEF ComesTo
  <2> QED BY <1>b, <2>3, <2>4, <2>5 DEF IsDelimiter
<1>12. c \in D \/ c - d = Limit BY <1>2, <1>10, <1>a, <1>b
    DEF IsDelimiter
<1>13. c \in C /\ \A q \in d + 1 .. c - 1 : q \notin C
  BY <1>4, <1>9, <1>10, <1>11, <1>12, NextCut DEF C
<1> DEFINE line == LineOf(C, c)
<1>14. /\ line = Bytes(d + 1, c - 1)
       /\ line # <<>> => /\ Told(C, c) = Told(C, d) \cup {line}
                         /\ Empties(C, c) = Empties(C, d)
       /\ line = <<>> => /\ Told(C, c) = Told(C, d)
                         /\ Empties(C, c) = Empties(C, d) \cup {c}
       /\ c \notin Empties(C, d)
  <2>1. /\ r \in Nat /\ C \in SUBSET (1 .. r) /\ d \in C \cup {0} /\ c \in C /\ d < c
        /\ \A q \in d + 1 .. c - 1 : q \notin C
    BY <1>8, <1>9, <1>10, <1>13
  <2>2. /\ \A x \in C : x <= c <=> x <= d \/ x = c
        /\ Below(C, c) = d
        /\ c \notin Empties(C, d)
    BY ONLY <2>1, UpToNext
  <2>3. line = Bytes(d + 1, c - 1) BY <2>2, Zenon DEF LineOf
  <2>4. ASSUME line # <<>>
        PROVE  Told(C, c) = Told(C, d) \cup {line} /\ Empties(C, c) = Empties(C, d)
    BY <2>1, <2>2, <2>4, LineAdds
  <2>5. ASSUME line = <<>>
        PROVE  Told(C, c) = Told(C, d) /\ Empties(C, c) = Empties(C, d) \cup {c}
    <3>1. \A x \in C : x <= c /\ LineOf(C, x) # <<>> <=> x <= d /\ LineOf(C, x) # <<>>
      BY <2>2, <2>5
    <3>2. Told(C, c) = Told(C, d) BY <3>1 DEF Told
    <3>3. \A x \in C : x <= c /\ LineOf(C, x) = <<>>
                         <=> (x <= d /\ LineOf(C, x) = <<>>) \/ x = c
      BY <2>2, <2>5
    <3>4. Empties(C, c) = Empties(C, d) \cup {c} BY <2>1, <3>3 DEF Empties
    <3> QED BY <3>2, <3>4
  <2> QED BY <2>2, <2>3, <2>4, <2>5
<1>15. line = SubSeq(buf, LineStart, p - 1)
  <2>1. c - 1 = Base + p - 1 BY <1>4, <1>a
  <2>2. Bytes(d + 1, c - 1) = Bytes(Done + 1, Base + p - 1)
      BY <1>a, <2>1, Zenon
  <2> QED BY <1>2, <1>14, <2>2, Zenon
<1> HIDE DEF line
<1>16. line \in Seq(1 .. MaxIn) /\ (line = <<>> <=> p = used + 1)
  <2>1. line \in Seq(1 .. MaxIn) /\ Len(line) = p - 1 - used BY <1>2, <1>15
  <2>2. line = <<>> <=> Len(line) = 0 BY <2>1, EmptySeq
  <2>3. p - 1 - used = 0 <=> p = used + 1 BY <1>2, <1>4
  <2> QED BY <2>1, <2>2, <2>3
<1>17. shown \in Seq(Seq(1 .. MaxIn)) BY DEF ParserTypeOK
<1>18. CASE ShowLine(p)
  <2>1. shown' = Append(shown, line) /\ event' = "recv_str" /\ pc' = "callback"
    BY <1>15, <1>18 DEF ShowLine
  <2>2. /\ Elements(shown') = Elements(shown) \cup {line}
        /\ line # <<>> => EmptyAt(shown') = EmptyAt(shown)
        /\ line = <<>> => EmptyAt(shown') = EmptyAt(shown) \cup {Len(shown) + 1}
        /\ Len(shown) + 1 \notin EmptyAt(shown)
        /\ IsFiniteSet(EmptyAt(shown))
    BY <1>16, <1>17, <2>1, OneElementMore
  <2>3. Elements(shown') \ {<<>>} = Told(C, c) BY <1>9, <1>14, <2>2
  <2>4. parseEmpty => Cardinality(EmptyAt(shown')) = Cardinality(Empties(C, c))
    <3>1. CASE line # <<>> BY <1>9, <1>14, <2>2, <3>1
    <3>2. CASE line = <<>>
      <4>1. IsFiniteSet(Empties(C, d)) BY <1>8, EmptiesFinite
      <4>2. Cardinality(EmptyAt(shown')) = Cardinality(EmptyAt(shown)) + 1
        BY <2>2, <3>2, FS_AddElement
      <4>3. Cardinality(Empties(C, c)) = Cardinality(Empties(C, d)) + 1
        BY <1>14, <3>2, <4>1, FS_AddElement
      <4> QED BY <1>9, <4>2, <4>3
    <3> QED BY <3>1, <3>2
  <2>5. ~ parseEmpty /\ ~ before => EmptyAt(shown') = {}
    <3> SUFFICES ASSUME ~ parseEmpty, ~ before
        PROVE EmptyAt(shown') = {} OBVIOUS
    <3>1. line # <<>>
      <4>1. CASE LineTooLong(p)
        <5>1. p - used = Limit BY <1>2, <4>1 DEF LineTooLong
        <5> QED BY <1>2, <1>4, <1>16, <5>1
      <4>2. CASE LineEnds(p)
        <5>1. ~ SeemsEmpty(p)
          BY <1>2, <1>18, <4>2 DEF LineEnds, ShowLine
        <5> QED BY <1>1, <1>16, <5>1, SeemsEmptyIs
      <4> QED BY <4>1, <4>2
    <3> QED BY <1>9, <2>2, <3>1
  <2>6. /\ event' # "recv_buf" /\ pc' # "idle"
        /\ Done' \in CutsOf(delims', received') \cup {0}
        /\ Elements(shown') \ {<<>>} = Told(CutsOf(delims', received'), Done')
        /\ parseEmpty' => Cardinality(EmptyAt(shown'))
                             = Cardinality(Empties(CutsOf(delims', received'), Done'))
        /\ ~ parseEmpty' /\ ~ before' => EmptyAt(shown') = {}
    BY <1>3, <1>5, <1>7, <1>13, <1>a, <2>1, <2>3, <2>4, <2>5
  <2> QED BY <2>6 DEF CutLines
<1>19. CASE ~ ShowLine(p)
  <2>1. /\ SeemsEmpty(p) /\ ~ parseEmpty /\ shown' = shown /\ event' = event /\ pc' = pc
    BY <1>19 DEF LineEnds, LineTooLong
  <2>2. line = <<>> BY <1>1, <1>16, <2>1, SeemsEmptyIs
  <2>3. /\ event' # "recv_buf" /\ pc' # "idle"
        /\ Done' \in CutsOf(delims', received') \cup {0}
        /\ Elements(shown') \ {<<>>} = Told(CutsOf(delims', received'), Done')
        /\ ~ parseEmpty'
        /\ ~ parseEmpty' /\ ~ before' => EmptyAt(shown') = {}
    BY <1>2, <1>3, <1>5, <1>7, <1>9, <1>13, <1>14, <1>a, <2>1, <2>2
  <2> QED BY <2>3 DEF CutLines
<1> QED BY <1>18, <1>19

(* Where the loop ends, what is left has no cut. *)
LEMMA LinesEnd ==
    ASSUME ParserTypeOK, ParserTypeOK', LineInv, CutLines,
        LoopEnds
    PROVE  CutLines'
<1>1. /\ Len(buf') = Len(buf) - used /\ Done' = Done BY LoopEndsInv
<1>2. /\ delims' = delims /\ received' = received /\ parseEmpty' = parseEmpty
      /\ before' = before /\ open' = open /\ parse' = parse /\ switched' = switched
      /\ shown' = shown /\ event' = "none" /\ pc = "loop"
  BY DEF LoopEnds, input, settings
<1>3. /\ Done \in Nat /\ Base \in Nat /\ Done = Base + used /\ received \in Nat
      /\ used \in Nat /\ Len(buf) \in Nat /\ used <= Len(buf) /\ Base + Len(buf) = received
      /\ Limit \in Nat \ {0, 1} /\ at = used
  BY DoneIs, ParserAssumption DEF LineInv
<1>4. \A p \in used + 1 .. Len(buf) : ~ IsDelimiter(p) /\ ~ TooLong(p)
  <2> DEFINE T == {p \in used + 1 .. Len(buf) : IsDelimiter(p) \/ TooLong(p)}
  <2>1. SUFFICES ASSUME T # {} PROVE FALSE OBVIOUS
  <2>2. T \in SUBSET Nat BY <1>3
  <2>3. PICK m \in T : \A k \in T : m <= k BY <2>1, <2>2, Least
  <2>4. \A q \in used + 1 .. m - 1 : q \notin T BY <1>3, <2>2, <2>3
  <2>5. \A q \in used + 1 .. m - 1 : q \in used + 1 .. Len(buf) BY <1>3, <2>3
  <2>6. ComesTo(m) BY <1>2, <1>3, <2>3, <2>4, <2>5 DEF ComesTo
  <2>7. m \in 1 .. Len(buf) BY <1>3, <2>3
  <2> QED BY <2>6, <2>7 DEF LoopEnds
<1>5. Len(buf) - used < Limit
  <2>1. CASE Len(buf) = used BY <1>3, <2>1
  <2>2. CASE Len(buf) # used
    <3>1. Len(buf) \in used + 1 .. Len(buf) BY <1>3, <2>2
    <3>2. ~ TooLong(Len(buf)) BY <1>4, <3>1
    <3> QED BY <1>3, <3>2 DEF TooLong
  <2> QED BY <2>1, <2>2
<1>6. \A q \in Done + 1 .. received : q \notin delims
  <2> TAKE q \in Done + 1 .. received
  <2>1. q - Base \in used + 1 .. Len(buf) BY <1>3
  <2>2. q - Base \in 1 .. Len(buf) /\ ~ q - Base <= used BY <1>3, <2>1
  <2>3. buf[q - Base] = Base + (q - Base) BY <2>2 DEF LineInv
  <2>4. Base + (q - Base) = q BY <1>3
  <2> QED BY <1>4, <2>1, <2>3, <2>4 DEF IsDelimiter
<1>7. ASSUME InLines PROVE \A c \in CutsOf(delims, received) : c <= Done
  <2>1. PICK r \in Nat, d \in Nat : r = received /\ d = Done BY <1>3
  <2>2. PICK D \in SUBSET (1 .. r) : D = delims BY <2>1 DEF ParserTypeOK
  <2>3. d \in CutsOf(D, r) \cup {0} BY <1>7, <2>1, <2>2 DEF CutLines
  <2>4. r - d < Limit BY <1>3, <1>5, <2>1
  <2>5. \A q \in d + 1 .. r : q \notin D BY <1>6, <2>1, <2>2
  <2>6. \A c \in CutsOf(D, r) : c <= d BY <1>3, <2>3, <2>4, <2>5, NoMoreCuts
  <2> QED BY <2>1, <2>2, <2>6
<1>8. InLines' => InLines BY <1>2 DEF InLines
<1>9. InLines' => \A c \in CutsOf(delims', received') : c <= Done'
  BY <1>1, <1>2, <1>7, <1>8
<1>10. Len(buf') < Limit BY <1>1, <1>5
<1>11. received <= received' /\ \A q \in 1 .. received : q \in delims' <=> q \in delims
  BY <1>2, <1>3
<1>12. event' # "recv_buf" BY <1>2
<1> QED BY <1>1, <1>2, <1>8, <1>9, <1>10, <1>11, <1>12, LinesUncut

(* Every step cuts off lines of the whole. *)
LEMMA LinesStep ==
    ASSUME ParserTypeOK, LineInv, CutLines,
        [ParserNext]_parserVars
    PROVE  CutLines'
<1>1. ParserTypeOK' BY StepInv
<1>2. received \in Nat BY DoneIs
<1>3. ASSUME NEW n \in 1 .. MaxChunk, NEW D, Receive(n, D)
    PROVE CutLines'
  <2>1. Done' = Done BY <1>3, ReceiveInv
  <2>2. /\ shown' = shown /\ delims' = delims \cup D /\ received' = received + n
        /\ parseEmpty' = parseEmpty /\ before' = before
        /\ open' = open /\ parse' = parse /\ switched' = switched
        /\ D \subseteq received + 1 .. received + n
        /\ InLines => pc' = "loop" /\ event' = event
    BY <1>3 DEF Receive, settings, InLines
  <2>3. n \in Nat BY ParserAssumption
  <2>4. received <= received' BY <1>2, <2>2, <2>3
  <2>5. \A q \in 1 .. received : q \in delims' <=> q \in delims
    <3> TAKE q \in 1 .. received
    <3>1. q \notin received + 1 .. received + n BY <1>2
    <3> QED BY <2>2, <3>1
  <2>6. InLines' => InLines BY <2>2 DEF InLines
  <2>7. InLines' => event' # "recv_buf" /\ pc' # "idle" BY <2>2, <2>6
      DEF CutLines
  <2> QED BY <1>1, <2>1, <2>2, <2>4, <2>5, <2>6, <2>7, LinesUncut
<1>4. ASSUME NEW p \in 1 .. MaxIn, LineEnds(p) \/ LineTooLong(p)
    PROVE CutLines'
  <2>1. p \in Nat BY ParserAssumption
  <2> QED BY <1>4, <2>1, LinesCut
<1>5. CASE LoopEnds BY <1>1, <1>5, LinesEnd
<1>6. CASE TakeRaw
  <2>1. ~ InLines /\ open' = open /\ parse' = parse /\ switched' = switched
    BY <1>6 DEF TakeRaw, CutLines, settings
  <2> QED BY <2>1 DEF CutLines, InLines
<1>7. CASE Switch \/ CloseSocket
  <2>1. ~ InLines' BY <1>7 DEF Switch, CloseSocket, InLines
  <2> QED BY <2>1 DEF CutLines
<1>8. CASE FreedLoop \/ ParserReturns \/ UNCHANGED parserVars
  <2>1. UNCHANGED <<loop, input, shown>>
    BY <1>8 DEF FreedLoop, ParserReturns, parserVars
  <2>2. Done' = Done BY <1>8, <2>1, OtherInv
  <2>3. /\ shown' = shown /\ delims' = delims /\ received' = received /\ buf' = buf
        /\ parseEmpty' = parseEmpty /\ before' = before /\ event' = event
        /\ open' = open /\ parse' = parse /\ switched' = switched
    BY <1>8 DEF FreedLoop, ParserReturns, parserVars,
        settings, input, loop
  <2>4. InLines' => InLines BY <2>3 DEF InLines
  <2>5. InLines /\ pc' = "idle" => pc = "idle"
    <3> SUFFICES ASSUME InLines, pc' = "idle" PROVE pc = "idle" OBVIOUS
    <3>1. CASE FreedLoop BY <3>1 DEF FreedLoop, LineInv, InLines
    <3>2. CASE ParserReturns
      <4>1. event \in {"recv_str", "recv_buf"} /\ event # "recv_buf" /\ open
        BY <3>2 DEF ParserReturns, LineInv, ParserTypeOK, CutLines,
            InLines
      <4> QED BY <3>2, <4>1 DEF ParserReturns
    <3>3. CASE UNCHANGED parserVars BY <3>3 DEF parserVars
    <3> QED BY <1>8, <3>1, <3>2, <3>3
  <2>6. received <= received' BY <1>2, <2>3
  <2>7. InLines' => event' # "recv_buf" BY <2>3, <2>4 DEF CutLines
  <2>8. InLines' /\ pc' = "idle" =>
            (\A c \in CutsOf(delims', received') : c <= Done') /\ Len(buf') < Limit
    BY <2>2, <2>3, <2>4, <2>5 DEF CutLines
  <2> QED BY <1>1, <2>2, <2>3, <2>4, <2>6, <2>7, <2>8, LinesUncut
<1> QED BY <1>3, <1>4, <1>5, <1>6, <1>7, <1>8 DEF ParserNext

-----------------------------------------------------------------------------
(* The lines of IOLineParser are those of the cuts, as far as the limit.   *)

(* Up to the limit the next cut is the end of the line, or the limit.      *)
LEMMA CutsInTime ==
    ASSUME Limit \in Nat \ {0, 1}, NEW r \in Nat, NEW D \in SUBSET (1 .. r),
           NEW p \in 1 .. r, p - Below(D, p) <= Limit
    PROVE  /\ p \in CutsOf(D, r) <=> p \in D \/ p - Below(D, p) = Limit
           /\ Below(CutsOf(D, r), p) = Below(D, p)
<1> DEFINE d == Below(D, p)
           C == CutsOf(D, r)
<1>0. p \in Nat /\ p > 0 OBVIOUS
<1>1. /\ d \in D \cup {0} /\ d \in Nat /\ d < p /\ p \in Nat
      /\ \A e \in D : e < p => e <= d
  BY <1>0, BelowIs
<1> HIDE DEF d
<1>2. 0 % Limit = 0
  <2>1. ((Limit * 0) + 0) % Limit = 0 BY Remainder
  <2> QED BY <2>1
<1>3. p \in C <=> p \in D \/ p - d = Limit
  <2>1. p - d \in Nat /\ 0 < p - d /\ p - d <= Limit BY <1>1 DEF d
  <2>2. (0 + (p - d)) % Limit = 0 <=> p - d = Limit
    BY <1>2, <2>1, NextAtLimit
  <2>3. (p - d) % Limit = 0 <=> p - d = Limit BY <1>1, <2>2
  <2> QED BY <2>3 DEF CutsOf, d
<1>4. d \in C \cup {0}
  BY <1>1 DEF CutsOf
<1>5. ASSUME NEW e \in C, e < p, d < e PROVE FALSE
  <2>1. e \in 1 .. r /\ e \in Nat /\ e \notin D BY <1>1, <1>5 DEF CutsOf
  <2>2. \A x \in D : x < e => x <= d BY <1>1, <1>5, <2>1
  <2> HIDE DEF C
  <2>3. Below(D, e) = d BY <1>1, <1>5, <2>1, <2>2, BelowUnique
  <2> USE DEF C
  <2>4. e - d \in Nat /\ 0 < e - d /\ e - d <= Limit /\ e - d # Limit
    BY <1>1, <1>5, <2>1 DEF d
  <2>5. (0 + (e - d)) % Limit = 0 <=> e - d = Limit
    BY <1>2, <2>4, NextAtLimit
  <2>6. (e - d) % Limit = 0 BY <2>1, <2>3 DEF CutsOf
  <2>7. 0 + (e - d) = e - d BY <2>4
  <2> QED BY <2>4, <2>5, <2>6, <2>7
<1>6. Below(C, p) = d
  <2>1. \A e \in C : e < p => e <= d BY <1>1, <1>5, CutsAre
  <2>2. C \in SUBSET (1 .. r) BY CutsAre
  <2> HIDE DEF C
  <2> QED BY <1>1, <1>4, <2>1, <2>2, BelowUnique
<1> QED BY <1>3, <1>6 DEF d, C

(* Behind the limit a line that is cut off is a part of the rest, and if   *)
(* it is empty a delimiter ends it.                                        *)
LEMMA CutsOfRest ==
    ASSUME Limit \in Nat \ {0, 1}, NEW r \in Nat, NEW D \in SUBSET (1 .. r),
           NEW p \in CutsOf(D, r), p - Below(D, p) > Limit
    PROVE  /\ \A b \in Below(CutsOf(D, r), p) + 1 .. p - 1 :
                 b \in 1 .. r /\ b - Below(D, b) > Limit
           /\ Below(CutsOf(D, r), p) = p - 1 => p \in D
<1> DEFINE d == Below(D, p)
           C == CutsOf(D, r)
           c == Below(C, p)
           x == d + Limit
<1>1. p \in 1 .. r /\ p \in Nat /\ p > 0 /\ C \in SUBSET (1 .. r)
  BY CutsAre
<1>2. /\ d \in D \cup {0} /\ d \in Nat /\ d < p
      /\ \A e \in D : e < p => e <= d
  BY <1>1, BelowIs
<1>3. p - d > Limit OBVIOUS
<1> HIDE DEF d
<1>4. \A b \in d + 1 .. p : b \in 1 .. r /\ Below(D, b) = d
  <2> TAKE b \in d + 1 .. p
  <2>1. b \in Nat /\ d < b /\ b \in 1 .. r BY <1>1, <1>2
  <2>2. \A e \in D : e < b => e <= d BY <1>1, <1>2, <2>1
  <2> QED BY <1>2, <2>1, <2>2, BelowUnique
<1>5. x \in d + 1 .. p /\ x < p /\ x \notin D /\ x - d = Limit
  BY <1>1, <1>2, <1>3
<1>6. x \in C
  <2>1. x \in 1 .. r /\ Below(D, x) = d BY <1>4, <1>5
  <2>2. x - Below(D, x) <= Limit /\ x - Below(D, x) = Limit
    BY <1>5, <2>1
  <2> QED BY <2>1, <2>2, CutsInTime
<1>7. c \in C \cup {0} /\ c \in Nat /\ c < p /\ x <= c
  <2>1. c \in C \cup {0} /\ c \in Nat /\ c < p /\ \A e \in C : e < p => e <= c
    <3> HIDE DEF C
    <3> QED BY <1>1, BelowIs
  <2> HIDE DEF C, x, c
  <2> QED BY <1>5, <1>6, <2>1
<1>8. ASSUME NEW b \in c + 1 .. p - 1
      PROVE  b \in 1 .. r /\ b - Below(D, b) > Limit
  <2>1. b \in d + 1 .. p /\ b - d > Limit BY <1>1, <1>2, <1>5, <1>7
  <2> QED BY <1>4, <2>1
<1>9. ASSUME c = p - 1, p \notin D PROVE FALSE
  <2>1. c \in C /\ c \in d + 1 .. p /\ c \notin D
    BY <1>1, <1>2, <1>3, <1>5, <1>7, <1>9
  <2> DEFINE a == c - d
  <2>2. a \in Nat /\ a % Limit = 0
    <3>1. Below(D, c) = d BY <1>4, <2>1
    <3>2. (c - Below(D, c)) % Limit = 0 BY <2>1 DEF CutsOf
    <3> QED BY <1>2, <2>1, <3>1, <3>2
  <2>3. (a + 1) % Limit = 0
    <3>1. (p - d) % Limit = 0 BY <1>9 DEF CutsOf, d
    <3>2. p - d = a + 1 BY <1>1, <1>2, <1>7, <1>9
    <3> QED BY <3>1, <3>2
  <2> HIDE DEF a
  <2>4. (a + 1) % Limit = 0 <=> 1 = Limit BY <2>2, NextAtLimit
  <2> QED BY <2>3, <2>4
<1> QED BY <1>8, <1>9 DEF c, C

(* The lines of the input are those of the cuts up to their limit, and the *)
(* other cuts show parts of the rest.                                      *)
LEMMA LinesOfCuts ==
    ASSUME ParserTypeOK, NEW C, C = CutsOf(delims, received)
    PROVE  /\ Ends = C \ BeyondLimit /\ C \in SUBSET (1 .. received)
           /\ \A p \in Ends : LineTo(p) = LineOf(C, p)
           /\ \A p \in C \cap BeyondLimit :
                 \A m \in 1 .. Len(LineOf(C, p)) : LineOf(C, p)[m] \in BeyondLimit
           /\ \A p \in C \cap BeyondLimit : LineOf(C, p) = <<>> => p \in delims
<1>1. /\ received \in Nat /\ delims \in SUBSET (1 .. received)
      /\ Limit \in Nat \ {0, 1}
  BY ParserAssumption DEF ParserTypeOK
<1>2. \A p : LastDelimiter(p) = Below(delims, p)
  BY DEF LastDelimiter, Below
<1>3. C \in SUBSET (1 .. received) BY <1>1, CutsAre
<1>4. \A p \in 1 .. received : Below(delims, p) \in Nat
  <2> TAKE p \in 1 .. received
  <2>1. p \in Nat BY <1>1
  <2> QED BY <1>1, <2>1, BelowIs
<1>5. \A p \in (1 .. received) \ BeyondLimit : p - Below(delims, p) <= Limit
  BY <1>1, <1>4, ReferenceIs
<1>6. \A p \in (1 .. received) \ BeyondLimit :
         /\ p \in C <=> p \in delims \/ p - Below(delims, p) = Limit
         /\ Below(C, p) = Below(delims, p)
  BY <1>1, <1>5, CutsInTime
<1>7. Ends = C \ BeyondLimit BY <1>2, <1>3, <1>6 DEF Ends
<1>8. \A p \in Ends : LineTo(p) = LineOf(C, p)
  BY <1>6, ReferenceIs DEF Ends, LineOf
<1>9. ASSUME NEW p \in C \cap BeyondLimit
      PROVE  /\ \A m \in 1 .. Len(LineOf(C, p)) : LineOf(C, p)[m] \in BeyondLimit
             /\ LineOf(C, p) = <<>> => p \in delims
  <2>1. p - Below(delims, p) > Limit /\ p \in Nat /\ p > 0
    BY <1>3, ReferenceIs
  <2> DEFINE c == Below(C, p)
  <2>2. /\ \A b \in c + 1 .. p - 1 :
              b \in 1 .. received /\ b - Below(delims, b) > Limit
        /\ c = p - 1 => p \in delims
    BY <1>1, <2>1, CutsOfRest
  <2>3. c \in Nat /\ c < p BY <1>1, <1>3, <2>1, BelowIs
  <2>4. \A b \in c + 1 .. p - 1 : b \in BeyondLimit BY <2>2, ReferenceIs
  <2> HIDE DEF c
  <2>5. /\ Len(Bytes(c + 1, p - 1)) = p - 1 - c
        /\ \A m \in 1 .. p - 1 - c : Bytes(c + 1, p - 1)[m] = c + m
    <3> DEFINE n == p - 1  m == c + 1
    <3>1. m \in Nat /\ n \in Nat /\ m <= n + 1 BY <2>1, <2>3
    <3> HIDE DEF m, n
    <3>2. /\ Len(Bytes(m, n)) = n - m + 1
          /\ \A i \in 1 .. n - m + 1 : Bytes(m, n)[i] = m + i - 1
      BY <3>1, BytesAre
    <3>3. n - m + 1 = p - 1 - c BY <2>1, <2>3 DEF m, n
    <3>4. \A i \in 1 .. p - 1 - c : m + i - 1 = c + i
      BY <2>1, <2>3 DEF m
    <3> QED BY <3>2, <3>3, <3>4 DEF m, n
  <2>6. LineOf(C, p) = Bytes(c + 1, p - 1) BY DEF LineOf, c
  <2>7. \A m \in 1 .. Len(LineOf(C, p)) : LineOf(C, p)[m] \in BeyondLimit
    BY <2>1, <2>3, <2>4, <2>5, <2>6
  <2>8. LineOf(C, p) = <<>> => c = p - 1
    <3>1. LineOf(C, p) = <<>> => Len(LineOf(C, p)) = 0 OBVIOUS
    <3> QED BY <2>1, <2>3, <2>5, <2>6, <3>1
  <2> QED BY <2>2, <2>7, <2>8
<1> QED BY <1>3, <1>7, <1>8, <1>9

(* While the loop waits, every cut has been made. *)
LEMMA LinesImply ==
    ASSUME ParserTypeOK, LineInv, CutLines PROVE LinesAsSentUnlessTooLong
<1> SUFFICES ASSUME pc = "idle", open, parse, ~ switched
    PROVE LinesAsSentUnlessTooLong
  BY DEF LinesAsSentUnlessTooLong
<1>1. PICK C : C = CutsOf(delims, received) OBVIOUS
<1>2. /\ Ends = C \ BeyondLimit /\ C \in SUBSET (1 .. received)
      /\ \A p \in Ends : LineTo(p) = LineOf(C, p)
      /\ \A p \in C \cap BeyondLimit :
            \A m \in 1 .. Len(LineOf(C, p)) : LineOf(C, p)[m] \in BeyondLimit
      /\ \A p \in C \cap BeyondLimit : LineOf(C, p) = <<>> => p \in delims
  BY <1>1, LinesOfCuts
<1>3. InLines BY DEF InLines
<1>4. /\ \A c \in C : c <= Done
      /\ Len(buf) < Limit
      /\ Elements(shown) \ {<<>>} = Told(C, Done)
      /\ parseEmpty => Cardinality(EmptyAt(shown)) = Cardinality(Empties(C, Done))
      /\ ~ parseEmpty /\ ~ before => EmptyAt(shown) = {}
  BY <1>1, <1>3 DEF CutLines
<1>5. Shown = Elements(shown) /\ ShownEmpty = EmptyAt(shown)
  BY DEF Shown, Elements, ShownEmpty, EmptyAt
<1>6. {LineTo(p) : p \in Ends \ EmptyEnds} \subseteq Shown
  BY <1>2, <1>4, <1>5 DEF Told, EmptyEnds
<1>7. ASSUME NEW line \in Shown \ {<<>>}
      PROVE  \/ line \in {LineTo(p) : p \in Ends}
             \/ \A m \in 1 .. Len(line) : line[m] \in BeyondLimit
  <2>1. PICK p \in C : line = LineOf(C, p) BY <1>4, <1>5, <1>7 DEF Told
  <2>2. CASE p \in BeyondLimit BY <1>2, <2>1, <2>2
  <2>3. CASE p \notin BeyondLimit BY <1>2, <2>1, <2>3
  <2> QED BY <2>2, <2>3
<1>8. IsFiniteSet(1 .. received)
  BY FS_Interval DEF ParserTypeOK
<1>9. ASSUME parseEmpty
      PROVE  /\ Cardinality(ShownEmpty) >= Cardinality(EmptyEnds)
             /\ Cardinality(ShownEmpty)
                   <= Cardinality(EmptyEnds \cup (BeyondLimit \cap delims))
  <2> DEFINE E == Empties(C, Done)
             F == EmptyEnds \cup (BeyondLimit \cap delims)
  <2>1. Cardinality(ShownEmpty) = Cardinality(E) BY <1>4, <1>5, <1>9
  <2>2. E = {x \in C : LineOf(C, x) = <<>>} BY <1>4 DEF Empties
  <2>3. EmptyEnds \subseteq E BY <1>2, <2>2 DEF EmptyEnds
  <2>4. E \subseteq F BY <1>2, <2>2 DEF EmptyEnds
  <2>5. F \subseteq 1 .. received BY <1>2 DEF EmptyEnds, BeyondLimit
  <2> HIDE DEF E, F
  <2>6. IsFiniteSet(F) BY <1>8, <2>5, FS_Subset
  <2>7. IsFiniteSet(E) /\ Cardinality(E) <= Cardinality(F)
    BY <2>4, <2>6, FS_Subset
  <2>8. Cardinality(EmptyEnds) <= Cardinality(E)
    BY <2>3, <2>7, FS_Subset
  <2>9. /\ Cardinality(E) \in Nat /\ Cardinality(F) \in Nat
        /\ Cardinality(EmptyEnds) \in Nat
    BY <2>3, <2>6, <2>7, FS_Subset, FS_CardinalityType
  <2> QED BY <2>1, <2>7, <2>8, <2>9 DEF F
<1>10. ASSUME ~ parseEmpty, ~ before
       PROVE  Cardinality(ShownEmpty)
                 <= Cardinality({p \in EmptyEnds : p - 1 \in BeyondLimit})
  <2> DEFINE G == {p \in EmptyEnds : p - 1 \in BeyondLimit}
  <2>1. G \subseteq 1 .. received BY <1>2 DEF EmptyEnds
  <2> HIDE DEF G
  <2>2. IsFiniteSet(G) BY <1>8, <2>1, FS_Subset
  <2>3. Cardinality(G) \in Nat BY <2>2, FS_CardinalityType
  <2>4. Cardinality(ShownEmpty) = 0 BY <1>4, <1>5, <1>10, FS_EmptySet
  <2> QED BY <2>3, <2>4 DEF G
<1>11. Len(buf) < Limit BY <1>4
<1> QED BY <1>6, <1>7, <1>9, <1>10, <1>11, Zenon DEF LinesAsSentUnlessTooLong

(* The lines iosocket_events_callback() shows do not depend on the chunks  *)
(* they come in: user code gets the lines of the whole input, and of one   *)
(* that is too long the part up to the limit.  CutLines, from which it     *)
(* follows, also says how the code cuts the rest.                          *)
THEOREM ParserCutsAsSent == ParserSpec => []LinesAsSentUnlessTooLong
<1>1. ParserInit => ParserTypeOK /\ LineInv /\ CutLines BY InitInv, LinesInit
<1>2. ParserTypeOK /\ LineInv /\ CutLines /\ [ParserNext]_parserVars => (ParserTypeOK /\ LineInv /\ CutLines)'
  BY StepInv, LinesStep
<1>3. ParserTypeOK /\ LineInv /\ CutLines => LinesAsSentUnlessTooLong
  BY LinesImply
<1> QED BY <1>1, <1>2, <1>3, PTL DEF ParserSpec
=============================================================================
