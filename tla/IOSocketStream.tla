--------------------------- MODULE IOSocketStream ---------------------------
(***************************************************************************)
(* The data of one connection of src/IOHandler/IOSockets.c, without SSL    *)
(* and without parse_delimiter: the buffers between user code and the      *)
(* kernel, what iosocket_events_callback() reads and writes in one         *)
(* dispatch, the one event it ends with, and iosocket_close(), which sends *)
(* what is left.  The bytes of each direction are numbered.                *)
(*                                                                         *)
(* A call of recv() or send() is a step, because the peer goes on in       *)
(* between; so is the callback of the user.  pc is where the handler is,   *)
(* event is callback_event.type, and shown is the number of bytes that     *)
(* were received when user code was last called with RECV.                 *)
(***************************************************************************)
EXTENDS IOSocketCallback

CONSTANTS
    BufInit,    \* 1024, the read buffer of a client
    BufMin,     \* 512, what a buffer of no length grows by
    Headroom,   \* 128, the buffer grows when no more than that is left
    GrowAt,     \* 2048, from there on it does not double
    GrowStep,   \* 1024, but grows by that
    MaxOut,     \* bound on the bytes user code sends
    MaxSend     \* bound on the bytes of one iosocket_send()

ASSUME StreamAssumption ==
    /\ BufInit \in Nat \ {0} /\ BufMin \in Nat \ {0}
    /\ GrowStep \in Nat \ {0} /\ GrowAt \in Nat
    /\ Headroom \in Nat
    /\ Headroom < BufMin /\ Headroom < BufInit /\ Headroom < GrowStep
    /\ MaxIn \in Nat /\ MaxOut \in Nat /\ MaxSend \in Nat

VARIABLES
    readbuf,    \* the bytes of the read buffer up to bufpos
    buflen,     \* the length of the read buffer
    writebuf,   \* the bytes of the write buffer up to bufpos
    watchW,     \* the engine was told to wait for writeable
    errno,      \* "EAGAIN", or "other"
    ready,      \* the arguments readable and writeable of the dispatch
    dead,       \* IOSOCKETFLAG_DEAD
    rx,         \* what arrived and was not read by recv() yet
    eof,        \* the peer closed the connection
    reset,      \* the connection failed
    taken,      \* history: what user code took out of the read buffer
    queued,     \* history: the number of bytes given to iosocket_send()
    sent,       \* history: what send() accepted
    partial     \* history: send() took a part of the buffer, or failed

reader == <<readbuf, buflen, taken, shown>>
writer == <<writebuf, watchW, queued, sent, partial>>
peer == <<rx, eof, reset>>
handler == <<pc, ready, event, dead>>
vars == <<open, errno, reader, writer, peer, handler>>

Received == Len(taken) + Len(readbuf)

First(s, n) == SubSeq(s, 1, n)
Rest(s, n) == SubSeq(s, n + 1, Len(s))

(* A socket that connected has a read buffer; one that was accepted has    *)
(* none, because iosocket_accept_client() enlarges that of the server.     *)
Init ==
    /\ open = TRUE
    /\ readbuf = <<>>
    /\ buflen \in {0, BufInit}
    /\ writebuf = <<>>
    /\ watchW = FALSE
    /\ errno = "other"
    /\ pc = "idle"
    /\ ready = [r |-> FALSE, w |-> FALSE]
    /\ event = "IGNORE"
    /\ dead = FALSE
    /\ rx = <<>>
    /\ eof = FALSE
    /\ reset = FALSE
    /\ taken = <<>>
    /\ shown = 0
    /\ queued = 0
    /\ sent = <<>>
    /\ partial = FALSE

-----------------------------------------------------------------------------
(* Outside: the peer. *)

Arrives ==
    /\ open /\ ~ eof /\ ~ reset
    /\ Received + Len(rx) < MaxIn
    /\ rx' = Append(rx, Received + Len(rx) + 1)
    /\ UNCHANGED <<open, errno, reader, writer, eof, reset, handler>>

PeerCloses ==
    /\ open /\ ~ eof
    /\ eof' = TRUE
    /\ UNCHANGED <<open, errno, reader, writer, rx, reset, handler>>

Fails ==
    /\ open /\ ~ reset
    /\ reset' = TRUE
    /\ UNCHANGED <<open, errno, reader, writer, rx, eof, handler>>

-----------------------------------------------------------------------------
(* iosocket_wants_writes() *)
WantsWrites(buf) == buf # <<>>

(* Mutant of AfterSend: what was sent stays in the buffer. *)
SentTwice(buf, n) == buf

(* What try_write() leaves of the buffer when send() took n bytes: bufpos  *)
(* goes down, the bytes stay where they are.                               *)
AfterSend(buf, n) == First(buf, Len(buf) - n)

(* send() accepts n bytes, and the engine is updated if it is asked to be. *)
Sends(n, watch) ==
    /\ sent' = sent \o First(writebuf, n)
    /\ writebuf' = AfterSend(writebuf, n)
    /\ watchW' = watch
    /\ partial' = (partial \/ n < Len(writebuf))

(* send() fails with an error or would block. *)
SendsNothing(error) ==
    /\ errno' = error
    /\ UNCHANGED <<sent, writebuf, watchW, partial>>

(* iosocket_close(): what is in the write buffer goes to a send() that     *)
(* blocks until all of it is sent, or fails.                               *)
Close ==
    /\ open' = FALSE
    /\ watchW' = FALSE
    /\ \/ /\ writebuf # <<>> /\ ~ reset
          /\ sent' = sent \o writebuf
          /\ UNCHANGED <<errno, partial>>
       \/ /\ writebuf # <<>> /\ (reset \/ eof)
          /\ errno' = "other"
          /\ partial' = TRUE
          /\ UNCHANGED sent
       \/ /\ writebuf = <<>>
          /\ UNCHANGED <<sent, errno, partial>>
    /\ writebuf' = <<>>
    /\ UNCHANGED <<reader, queued, peer>>

-----------------------------------------------------------------------------
(* User code, when no handler runs or in its callback. *)

WatchSend(buf) == WantsWrites(buf)

(* iosocket_send(), iosocket_write(), iosocket_printf() *)
Send(n) ==
    /\ UserRuns
    /\ queued + n <= MaxOut
    /\ writebuf' = writebuf \o Bytes(queued + 1, queued + n)
    /\ queued' = queued + n
    /\ watchW' = WatchSend(writebuf')
    /\ UNCHANGED <<open, errno, reader, sent, partial, peer, handler>>

UserClose ==
    /\ UserRuns
    /\ Close
    /\ UNCHANGED handler

(* The callback for RECV takes what is in the buffer and sets bufpos to 0, *)
(* as the test programs do, or leaves it there until there is more.        *)
Take ==
    /\ UserRuns /\ pc = "callback" /\ event = "RECV"
    /\ taken' = taken \o readbuf
    /\ readbuf' = <<>>
    /\ UNCHANGED <<open, errno, buflen, shown, writer, peer, handler>>

(* Other code of the process changes errno. *)
OtherError ==
    /\ pc \in {"idle", "callback"}
    /\ errno' \in {"EAGAIN", "other"}
    /\ UNCHANGED <<open, reader, writer, peer, handler>>

-----------------------------------------------------------------------------
(* iosocket_events_callback() *)

Readable == rx # <<>> \/ eof \/ reset

(* The engine reports what it waits for, and the kernel has.  It may       *)
(* report writeable although send() will then block.                       *)
Dispatch(w) ==
    /\ open /\ pc = "idle"
    /\ Readable \/ w
    /\ w => watchW
    /\ ready' = [r |-> Readable, w |-> w]
    /\ event' = "IGNORE"
    /\ pc' = IF Readable THEN "read" ELSE "write"
    /\ UNCHANGED <<open, errno, reader, writer, peer, dead>>

(* Mutant of Enlarged: the buffer is not enlarged. *)
NeverEnlarged(len, pos) == len

(* iosocket_increase_buffer(): the length of the buffer before a recv(). *)
Enlarged(len, pos) ==
    IF len - pos > Headroom THEN len
    ELSE IF len >= GrowAt THEN len + GrowStep
    ELSE IF len = 0 THEN BufMin ELSE len + len

(* Mutant of Space: one byte too many. *)
SpaceAndOne == Enlarged(buflen, Len(readbuf)) - Len(readbuf) + 1

(* The length that recv() is given. *)
Space == Enlarged(buflen, Len(readbuf)) - Len(readbuf)

(* Reading goes on at once if the buffer is full. *)
Fills(len, pos) == pos = len

(* recv() returns bytes. *)
ReadSome(n) ==
    /\ pc = "read"
    /\ ~ reset /\ n <= Len(rx) /\ n <= Space
    /\ readbuf' = readbuf \o First(rx, n)
    /\ rx' = Rest(rx, n)
    /\ buflen' = Enlarged(buflen, Len(readbuf))
    /\ event' = "RECV"
    /\ pc' = IF Fills(buflen', Len(readbuf')) THEN "read" ELSE "write"
    /\ UNCHANGED <<open, errno, taken, shown, writer, eof, reset, ready, dead>>

(* Mutant of Ignored: an end of the connection is never an error. *)
IgnoredAlways(error) == TRUE

Ignored(error) == error = "EAGAIN"

(* Mutant of EventAfter: the event of an earlier recv() is forgotten. *)
ForgetEvent(error) == IF Ignored(error) THEN "IGNORE" ELSE "CLOSED"

(* The event of an earlier recv() stays, unless this one failed. *)
EventAfter(error) == IF Ignored(error) THEN event ELSE "CLOSED"

(* recv() returns 0 at the end, and leaves errno as it was; it is -1       *)
(* without data, or if the connection failed.                              *)
ReadNothing ==
    /\ pc = "read"
    /\ rx = <<>> \/ reset
    /\ errno' = IF reset THEN "other" ELSE IF eof THEN errno ELSE "EAGAIN"
    /\ buflen' = Enlarged(buflen, Len(readbuf))
    /\ dead' = (dead \/ ~ Ignored(errno'))
    /\ event' = EventAfter(errno')
    /\ pc' = "write"
    /\ UNCHANGED <<open, readbuf, taken, shown, writer, peer, ready>>

WriteDone ==
    /\ pc' = "event"
    /\ UNCHANGED <<open, reader, queued, peer, ready>>

(* iosocket_try_write() *)
WriteSome(n) ==
    /\ pc = "write" /\ ready.w /\ ~ reset
    /\ n <= Len(writebuf)
    /\ Sends(n, WantsWrites(writebuf'))
    /\ WriteDone
    /\ UNCHANGED <<errno, event, dead>>

WriteBlocks ==
    /\ pc = "write" /\ ready.w /\ writebuf # <<>>
    /\ SendsNothing("EAGAIN")
    /\ WriteDone
    /\ UNCHANGED <<event, dead>>

WriteFails ==
    /\ pc = "write" /\ ready.w /\ writebuf # <<>>
    /\ reset \/ eof
    /\ SendsNothing("other")
    /\ WriteDone
    /\ event' = "CLOSED"
    /\ dead' = TRUE

WriteSkipped ==
    /\ pc = "write"
    /\ ~ ready.w \/ writebuf = <<>>
    /\ WriteDone
    /\ UNCHANGED <<errno, writebuf, watchW, sent, partial, event, dead>>

(* The one event of the dispatch is triggered. *)
TriggerEvent ==
    /\ pc = "event"
    /\ pc' = IF event = "IGNORE" THEN "idle" ELSE "callback"
    /\ shown' = IF event = "RECV" THEN Received ELSE shown
    /\ UNCHANGED <<open, errno, readbuf, buflen, taken, writer, peer, ready,
                   event, dead>>

(* The callback returns: a dead socket is closed, unless the callback did. *)
(* If the callback closed it, the flag that is looked at is that of a      *)
(* freed socket, and whatever it says, nothing more is done.               *)
CallbackReturns ==
    /\ pc = "callback"
    /\ pc' = "idle"
    /\ event' = "IGNORE"
    /\ UNCHANGED <<ready, dead>>
    /\ IF dead /\ open
       THEN Close
       ELSE UNCHANGED <<open, errno, reader, writer, peer>>

-----------------------------------------------------------------------------
User == Take \/ UserClose \/ \E n \in 1 .. MaxSend : Send(n)

Peer == Arrives \/ PeerCloses \/ Fails

Handler ==
    \/ \E w \in BOOLEAN : Dispatch(w)
    \/ \E n \in 1 .. MaxIn : ReadSome(n)
    \/ ReadNothing
    \/ \E n \in 1 .. MaxOut : WriteSome(n)
    \/ WriteBlocks \/ WriteFails \/ WriteSkipped
    \/ TriggerEvent
    \/ CallbackReturns

Next == User \/ Peer \/ Handler \/ OtherError

Spec == Init /\ [][Next]_vars

(* The handler runs on, and the loop dispatches what the engine reports.   *)
FairSpec == Spec /\ SF_vars(Handler)

-----------------------------------------------------------------------------
TypeOK ==
    /\ open \in BOOLEAN /\ dead \in BOOLEAN /\ watchW \in BOOLEAN
    /\ eof \in BOOLEAN /\ reset \in BOOLEAN /\ partial \in BOOLEAN
    /\ readbuf \in Seq(1 .. MaxIn) /\ rx \in Seq(1 .. MaxIn)
    /\ taken \in Seq(1 .. MaxIn)
    /\ writebuf \in Seq(1 .. MaxOut) /\ sent \in Seq(1 .. MaxOut)
    /\ buflen \in Nat /\ Len(readbuf) <= buflen
    /\ errno \in {"EAGAIN", "other"}
    /\ pc \in {"idle", "read", "write", "event", "callback"}
    /\ ready \in [r : BOOLEAN, w : BOOLEAN]
    /\ event \in {"IGNORE", "RECV", "CLOSED"}
    /\ shown \in 0 .. MaxIn /\ queued \in 0 .. MaxOut

(* User code gets what the peer sent, in order and without a gap, however  *)
(* it arrived in parts and however the buffer grew on the way.             *)
ReceivedInOrder ==
    taken \o readbuf \o rx = Bytes(1, Received + Len(rx))

(* recv() never gets a length of 0, for which it returns 0 as if the peer  *)
(* had closed the connection.                                              *)
SpaceToRead == pc = "read" => Space > 0

(* Reading, while the buffer grows. *)
ReadsInOrder == ReceivedInOrder /\ SpaceToRead

(* The number of bytes that wait or were sent is the number user code      *)
(* gave, and they are those bytes, in order, as long as send() never took  *)
(* only a part of the buffer.                                              *)
SentAsQueued ==
    /\ open => Len(sent) + Len(writebuf) = queued
    /\ ~ partial => sent \o writebuf = Bytes(1, queued)

(* The engine waits for writeable exactly while there is something to      *)
(* write: the data does not stay behind, and the loop does not spin.       *)
WatchedForWriting ==
    (open /\ pc \in {"idle", "callback"}) => watchW = WantsWrites(writebuf)

(* Writing, while send() takes the buffer, or nothing, or fails. *)
WritesInOrder == SentAsQueued /\ WatchedForWriting

(* What arrives is shown to user code or the socket is closed.             *)
ArrivedIsShown ==
    \A n \in 1 .. MaxIn :
        (Received + Len(rx) >= n) ~> (shown >= n \/ ~ open)

(* When the peer closes, the end of the connection is noticed and the      *)
(* socket closed, unless errno holds EAGAIN from another call: recv() does *)
(* not set it when it returns 0, and iosocket_events_callback() asks it.   *)
EndIsHeardUnlessStale == eof ~> (~ open \/ errno = "EAGAIN")

(* "try to send everything before closing" (IOSockets.c line 803): after   *)
(* the close, all that user code gave was sent, unless the peer was gone.  *)
AllSentBeforeClosing ==
    (~ open /\ ~ eof /\ ~ reset) => sent = Bytes(1, queued)
=============================================================================
