---------------------------- MODULE IOSSLSocket ----------------------------
(***************************************************************************)
(* One SSL connection: src/IOHandler/IOSSLBackend.c over GnuTLS or over    *)
(* OpenSSL, and the parts of IOSockets.c that drive it.  The handshake     *)
(* ends in a second visit of iosocket_events_callback() within the first.  *)
(* Reading and writing may then want the other direction, or another       *)
(* handshake, which READHS, WRITEHS and WANTWRITE keep for the engine.     *)
(*                                                                         *)
(* Of the data there are flights and records; IOSocketStream has the bytes *)
(* and IOSocketConnect what comes before the handshake.                    *)
(***************************************************************************)
EXTENDS Naturals, Sequences, FiniteSets

CONSTANTS
    MaxIn,      \* bound on what arrived and was not read yet
    MaxAsks     \* bound on the handshakes that the peer asks for

ASSUME SSLAssumption == MaxIn \in Nat \ {0} /\ MaxAsks \in Nat

VARIABLES
    backend,    \* "gnutls" or "openssl"
    role,       \* "client", or "server" for an accepted connection
    flags,      \* of socket_flags
    open,       \* iosocket_close() did not free the socket yet
    watch,      \* what engine->update() was last told to watch
    queued,     \* the write buffer is not empty
    again,      \* errno is EAGAIN
    pc,         \* "loop"; "read", "write" in iosocket_events_callback();
                \* "callback" in user code
    branch,     \* its locals: writeable, ssl_rehandshake, callback_event.type
                \* and whether the visit is the nested one of a handshake
    listener,   \* the listening socket was not closed
    hs,         \* library: the flights the handshake still needs
    failed,     \* library: the session met a fatal error
    waits,      \* library: the direction its last call wanted
    inq,        \* system: what arrived; "end" stays
    room,       \* system: send() takes data
    asks,       \* the handshakes the peer asked for
    heard       \* history: the events user code got, RECV after RECV once

library == <<hs, failed, waits>>
system == <<inq, room, asks>>
control == <<pc, branch>>
mode == <<backend, role>>
vars == <<mode, flags, open, watch, queued, again, control, listener, library,
          system, heard>>

Has(flag) == flag \in flags

(* The flights of a full handshake, as each side sees them. *)
FullHandshake ==
    IF role = "client" THEN <<"out", "in", "out", "in">>
    ELSE <<"in", "out", "in", "out">>

(* What the library does when the peer asks for another handshake. *)
Rehandshake == <<"out", "in">>

NoBranch ==
    [writeable |-> FALSE, rehandshake |-> 0, event |-> "IGNORE",
     nested |-> FALSE]

(* A client socket before it is connected, or one that was accepted.  An   *)
(* OpenSSL server whose session could not be made goes on without one.     *)
Init ==
    /\ backend \in {"gnutls", "openssl"}
    /\ role \in {"client", "server"}
    /\ flags \in IF role = "client" THEN {{"CONNECTING"}}
                 ELSE {{"INCOMING", "SSL_HANDSHAKE"}} \cup
                      (IF backend = "openssl" THEN {{"INCOMING"}} ELSE {})
    /\ open = TRUE
    /\ watch = IF role = "client" THEN {"r", "w"} ELSE {"r"}
    /\ queued = FALSE
    /\ again \in BOOLEAN
    /\ pc = "loop" /\ branch = NoBranch
    /\ listener = TRUE
    /\ hs = FullHandshake
    /\ failed = FALSE /\ waits = "none"
    /\ inq = <<>> /\ room = TRUE /\ asks = 0
    /\ heard = <<>>

-----------------------------------------------------------------------------
(* What the engine asks. *)

(* Mutant of Wants: a handshake within the data always waits for reads. *)
WantsReads(f, q) ==
    IF f \cap {"SSL_READHS", "SSL_WRITEHS"} # {} THEN {"r"}
    ELSE {"r"} \cup (IF q \/ "CONNECTING" \in f THEN {"w"} ELSE {})

(* iosocket_wants_reads(), iosocket_wants_writes() *)
Wants(f, q) ==
    IF f \cap {"SSL_READHS", "SSL_WRITEHS"} # {}
    THEN IF "SSL_WANTWRITE" \in f THEN {"w"} ELSE {"r"}
    ELSE {"r"} \cup (IF q \/ "CONNECTING" \in f THEN {"w"} ELSE {})

-----------------------------------------------------------------------------
(* The library: a handshake goes on as far as it can. *)

Flights(q) ==
    Cardinality({j \in 1 .. Len(q) : \A i \in 1 .. j : q[i] = "hs"})

InsOf(h, k) == Cardinality({j \in 1 .. k : h[j] = "in"})

StepsOf(h, q) ==
    CHOOSE k \in 0 .. Len(h) :
        /\ \A j \in 1 .. k : h[j] = "out" => room
        /\ InsOf(h, k) <= Flights(q)
        /\ k < Len(h) =>
              IF h[k + 1] = "out" THEN ~ room ELSE InsOf(h, k) = Flights(q)

FlightsLeft(h, q) == SubSeq(h, StepsOf(h, q) + 1, Len(h))

InputLeft(h, q) == SubSeq(q, InsOf(h, StepsOf(h, q)) + 1, Len(q))

(* "done", the direction it waits for, or "fatal" *)
Outcome(h, q) ==
    IF failed THEN "fatal"
    ELSE IF FlightsLeft(h, q) = <<>> THEN "done"
    ELSE IF Head(FlightsLeft(h, q)) = "out" THEN "write"
    ELSE IF InputLeft(h, q) = <<>> THEN "read" ELSE "fatal"

(* What it writes may leave no room. *)
LibraryHandshake(h, q, result) ==
    /\ result = Outcome(h, q)
    /\ failed' = (result = "fatal")
    /\ waits' = IF result \in {"read", "write"} THEN result ELSE "none"
    /\ IF failed THEN hs' = h /\ inq' = q ELSE
          hs' = FlightsLeft(h, q) /\ inq' = InputLeft(h, q)
    /\ IF ~ failed /\ \E j \in 1 .. StepsOf(h, q) : h[j] = "out"
       THEN room' \in BOOLEAN ELSE room' = room
    /\ UNCHANGED asks

LibraryRests == UNCHANGED <<library, system>>

-----------------------------------------------------------------------------
(* The end of iosocket_events_callback(). *)

Hear(event) ==
    heard' = IF heard # <<>> /\ heard[Len(heard)] = event
             THEN heard ELSE Append(heard, event)

(* Without ACCEPT there is no callback yet. *)
HasCallback(event) ==
    \/ role = "client"
    \/ event = "ACCEPT"
    \/ \E k \in 1 .. Len(heard) : heard[k] = "ACCEPT"

(* iosocket_trigger_event() is next, if there is an event, and then        *)
(* iosocket_close(), if f has DEAD.  A visit that is not the nested one is *)
(* over then.                                                              *)
Leave(event, f, nested) ==
    IF event # "IGNORE" /\ HasCallback(event)
    THEN /\ pc' = "callback"
         /\ branch' = [NoBranch EXCEPT !.event = event, !.nested = nested]
         /\ Hear(event)
         /\ flags' = f
         /\ UNCHANGED open
    ELSE /\ pc' = "loop"
         /\ branch' = NoBranch
         /\ UNCHANGED heard
         /\ open' = ("DEAD" \notin f)
         /\ flags' = f

(* Behind a nested visit comes engine->update(), also if the socket was    *)
(* freed, which the system then refuses for the closed descriptor.         *)
CallbackReturns ==
    /\ pc = "callback"
    /\ pc' = "loop"
    /\ branch' = NoBranch
    /\ open' = (open /\ ~ Has("DEAD"))
    /\ watch' = IF branch.nested /\ open THEN Wants(flags, queued) ELSE watch
    /\ UNCHANGED <<mode, flags, queued, again, listener, library, system,
                   heard>>

-----------------------------------------------------------------------------
(* The handshake: iossl_connect(), iossl_client_handshake(),               *)
(* iossl_server_handshake() and the visit they end with.                   *)

(* Mutant of EndOf: nobody tells user code. *)
EndUnheard(result) == "IGNORE"

(* The event of the nested visit. *)
EndOf(result) ==
    IF role = "server" THEN IF result = "done" THEN "ACCEPT" ELSE "IGNORE"
    ELSE IF result = "done" THEN "CONNECTED" ELSE "NOTCONNECTED"

FlagsAfter(f, result) ==
    LET g == f \ {"SSL_WANTWRITE"} IN
    CASE result = "read" -> g
      [] result = "write" -> g \cup {"SSL_WANTWRITE"}
      [] result = "done" -> (g \ {"SSL_HANDSHAKE"}) \cup {"SSL_ESTABLISHED"}
      [] result = "fatal" -> g \cup {"DEAD"}

(* f is what socket_flags was before.  ACCEPT goes to the descriptor that  *)
(* the listening socket has; where that was freed, it may go nowhere.      *)
Handshake(f) ==
    \E result \in {"read", "write", "done", "fatal"} :
        LET g == FlagsAfter(f, result) IN
        /\ LibraryHandshake(hs, inq, result)
        /\ watch' = Wants(g, queued)
        /\ IF result \in {"read", "write"} THEN Leave("IGNORE", g, FALSE)
           ELSE \/ Leave(EndOf(result), g, TRUE)
                \/ /\ result = "done" /\ role = "server" /\ ~ listener
                   /\ Leave("IGNORE", g, TRUE)

Readable == "r" \in watch /\ inq # <<>>

Writeable == "w" \in watch /\ room

(* The socket is connected; the session can be made or not, and then       *)
(* nothing is reported.                                                    *)
Connected ==
    /\ pc = "loop" /\ open
    /\ Has("CONNECTING") /\ Writeable
    /\ LET f == flags \ {"CONNECTING"} IN
       \/ Handshake(f \cup {"SSL_HANDSHAKE"})
       \/ /\ flags' = f
          /\ watch' = Wants(f, queued)
          /\ LibraryRests
          /\ UNCHANGED <<open, control, heard>>
    /\ UNCHANGED <<mode, queued, again, listener>>

(* Mutant of GoesOn: the handshake goes on only with what it can read. *)
GoesOnReading == Readable

GoesOn == Readable \/ Writeable

HandshakeGoesOn ==
    /\ pc = "loop" /\ open
    /\ Has("SSL_HANDSHAKE")
    /\ GoesOn
    /\ Handshake(flags)
    /\ UNCHANGED <<mode, queued, again, listener>>

-----------------------------------------------------------------------------
(* An established connection, or one without a session. *)

Dispatch ==
    /\ pc = "loop" /\ open
    /\ flags \cap {"CONNECTING", "SSL_HANDSHAKE"} = {}
    /\ Readable \/ Writeable
    /\ LET re == IF Has("SSL_READHS") THEN 1
                 ELSE IF Has("SSL_WRITEHS") THEN 2 ELSE 0 IN
       /\ branch' = [NoBranch EXCEPT !.writeable = Writeable,
                                     !.rehandshake = re]
       /\ pc' = IF (Readable /\ re = 0) \/ re = 1 THEN "read" ELSE "write"
    /\ UNCHANGED <<mode, flags, open, watch, queued, again, listener, library,
                   system, heard>>

(* The input without records that hold no data for the user: tickets, or   *)
(* the first part of a record.  GnuTLS returns for each.                   *)
Skipped ==
    LET n == Cardinality({j \in 1 .. Len(inq) :
                             \A i \in 1 .. j : inq[i] = "extra"}) IN
    IF backend = "openssl" THEN SubSeq(inq, n + 1, Len(inq))
    ELSE IF n > 0 THEN Tail(inq) ELSE inq

NextItem ==
    IF Skipped = <<>> \/ (backend = "gnutls" /\ Skipped # inq) THEN "none"
    ELSE Head(Skipped)

(* iossl_read() goes into a handshake: one that is under way, or one that  *)
(* the peer asks for.                                                      *)
ReadsHandshake ==
    IF backend = "gnutls"
    THEN Has("SSL_READHS") \/ (~ failed /\ NextItem = "rehs")
    ELSE ~ failed /\ (hs # <<>> \/ NextItem = "rehs")

ReadHandshake(result) ==
    IF hs = <<>> /\ NextItem = "rehs"
    THEN LibraryHandshake(Rehandshake, Tail(Skipped), result)
    ELSE LibraryHandshake(hs, inq, result)

(* What the call clears before it looks at the result. *)
ReadCleared ==
    IF backend = "openssl" THEN flags \ {"SSL_WANTWRITE", "SSL_READHS"}
    ELSE flags

ReadFlags(result) ==
    CASE result = "read" -> ReadCleared \cup {"SSL_READHS"}
      [] result = "write" -> ReadCleared \cup {"SSL_READHS", "SSL_WANTWRITE"}
      [] OTHER -> ReadCleared

(* iossl_rehandshake(): an error leaves the flag as it was. *)
RehandshakeFlags(flag, result) ==
    LET f == flags \ {"SSL_WANTWRITE"} IN
    CASE result = "read" -> f \cup {flag}
      [] result = "write" -> f \cup {flag, "SSL_WANTWRITE"}
      [] result = "done" -> f \ {flag}
      [] result = "fatal" -> f

(* Mutant of ReadFails: SSL_READHS does not keep the writes back. *)
ReadFailsAlone(f) ==
    /\ pc' = "write"
    /\ IF "SSL_READHS" \notin f /\ ~ again'
       THEN /\ flags' = f \cup {"DEAD"}
            /\ branch' = [branch EXCEPT !.event = "CLOSED"]
       ELSE flags' = f /\ UNCHANGED branch

(* bytes <= 0 *)
ReadFails(f) ==
    /\ pc' = "write"
    /\ \/ /\ "SSL_READHS" \in f
          /\ branch' = [branch EXCEPT !.rehandshake = 1]
          /\ flags' = f
       \/ /\ "SSL_READHS" \notin f /\ ~ again'
          /\ branch' = [branch EXCEPT !.event = "CLOSED"]
          /\ flags' = f \cup {"DEAD"}
       \/ /\ "SSL_READHS" \notin f /\ again'
          /\ flags' = f
          /\ UNCHANGED branch

(* errno after a fatal error: GnuTLS's own number, or for OpenSSL what the *)
(* system left, which may be older.                                        *)
FatalErrno ==
    again' \in IF backend = "openssl" THEN {again, FALSE} ELSE {FALSE}

ReadNoSession ==
    /\ ~ Has("SSL_ESTABLISHED")
    /\ LibraryRests /\ UNCHANGED again
    /\ ReadFails(flags)

ReadInHandshakeGnuTLS ==
    /\ backend = "gnutls" /\ ReadsHandshake
    /\ again' = TRUE
    /\ \E result \in {"read", "write", "done", "fatal"} :
          /\ ReadHandshake(result)
          /\ ReadFails(RehandshakeFlags("SSL_READHS", result))

(* SSL_read() goes on behind a handshake that is done. *)
ReadInHandshakeOpenSSL ==
    /\ backend = "openssl" /\ ReadsHandshake
    /\ \/ \E result \in {"read", "write"} :
             /\ ReadHandshake(result)
             /\ again' = TRUE
             /\ ReadFails(ReadFlags(result))
       \/ /\ ReadHandshake("fatal")
          /\ FatalErrno
          /\ ReadFails(ReadFlags("fatal"))
       \/ /\ ReadHandshake("done")
          /\ UNCHANGED <<flags, pc, branch, again>>

(* SSL_read() or gnutls_record_recv() outside of a handshake.  A record    *)
(* that fills the buffer is followed by another call; as the buffer then  *)
(* grows, one more is the bound.                                           *)
ReadRecord ==
    /\ ~ ReadsHandshake
    /\ UNCHANGED <<hs, room, asks>>
    /\ \/ /\ failed \/ NextItem = "bad"
          /\ FatalErrno
          /\ failed' = TRUE /\ waits' = "none"
          /\ UNCHANGED inq
          /\ ReadFails(ReadFlags("fatal"))
       \/ /\ ~ failed /\ NextItem = "none"
          /\ again' = TRUE
          /\ waits' = "read"
          /\ inq' = Skipped
          /\ UNCHANGED failed
          /\ ReadFails(IF backend = "openssl" THEN ReadFlags("read") ELSE flags)
       \/ /\ ~ failed /\ NextItem = "end"
          /\ waits' = "none"
          /\ inq' = Skipped
          /\ UNCHANGED <<failed, again>>
          /\ ReadFails(ReadFlags("end"))
       \/ /\ ~ failed /\ NextItem = "data"
          /\ waits' = "none"
          /\ inq' = Tail(Skipped)
          /\ UNCHANGED <<failed, again>>
          /\ flags' = ReadFlags("data")
          /\ branch' = [branch EXCEPT !.event = "RECV"]
          /\ pc' \in IF branch.event = "RECV" THEN {"write"}
                    ELSE {"read", "write"}

Read ==
    /\ pc = "read"
    /\ \/ ReadNoSession
       \/ /\ Has("SSL_ESTABLISHED")
          /\ ReadInHandshakeGnuTLS \/ ReadInHandshakeOpenSSL \/ ReadRecord
    /\ UNCHANGED <<mode, open, watch, queued, listener, heard>>

-----------------------------------------------------------------------------
(* iosocket_try_write() with iossl_write(), and the end of the visit. *)

Writes ==
    (branch.writeable /\ branch.rehandshake = 0) \/ branch.rehandshake = 2

(* f and q are socket_flags and the write buffer when the branch ends;     *)
(* told: try_write() called engine->update().                              *)
VisitEnds(event, f, q, told) ==
    /\ watch' = IF told \/ branch.rehandshake # 0 THEN Wants(f, q) ELSE watch
    /\ queued' = q
    /\ Leave(event, f, FALSE)

WriteCleared ==
    IF backend = "openssl" THEN flags \ {"SSL_WANTWRITE", "SSL_WRITEHS"}
    ELSE flags

(* A handshake that wants to read, or the record that wants to be written. *)
WriteFlags ==
    CASE backend = "gnutls" -> flags
      [] backend = "openssl" /\ room -> WriteCleared \cup {"SSL_WRITEHS"}
      [] backend = "openssl" /\ ~ room ->
            WriteCleared \cup {"SSL_WRITEHS", "SSL_WANTWRITE"}

NoWrite ==
    /\ ~ Writes \/ ~ (queued \/ Has("SSL_WRITEHS"))
    /\ VisitEnds(branch.event, flags, queued, FALSE)
    /\ LibraryRests /\ UNCHANGED again

(* iossl_write() returns 0. *)
WriteNoSession ==
    /\ Writes /\ queued /\ ~ Has("SSL_ESTABLISHED")
    /\ VisitEnds(branch.event, flags, queued, TRUE)
    /\ LibraryRests /\ UNCHANGED again

(* Everything is written, as one record. *)
WriteDone ==
    /\ ~ failed /\ hs = <<>> /\ room
    /\ room' \in BOOLEAN
    /\ waits' = "none"
    /\ VisitEnds(branch.event, WriteCleared, FALSE, TRUE)
    /\ UNCHANGED <<hs, failed, inq, asks, again>>

(* It wants a direction.  try_write() returns 0 for that, so that what the *)
(* visit would do for SSL_WRITEHS is left to the next one.                 *)
WriteWaits ==
    /\ ~ failed /\ ~ (hs = <<>> /\ room)
    /\ again' = TRUE
    /\ waits' = IF room THEN "read" ELSE "write"
    /\ VisitEnds(branch.event, WriteFlags, queued, FALSE)
    /\ UNCHANGED <<hs, failed, system>>

WriteFails ==
    /\ failed
    /\ FatalErrno
    /\ IF again' THEN VisitEnds(branch.event, WriteCleared, queued, FALSE)
       ELSE VisitEnds("CLOSED", WriteCleared \cup {"DEAD"}, queued, FALSE)
    /\ LibraryRests

Write ==
    /\ pc = "write"
    /\ \/ NoWrite
       \/ WriteNoSession
       \/ /\ Writes /\ (queued \/ Has("SSL_WRITEHS"))
          /\ Has("SSL_ESTABLISHED")
          /\ WriteDone \/ WriteWaits \/ WriteFails
    /\ UNCHANGED <<mode, listener>>

-----------------------------------------------------------------------------
(* User code, in a callback or from a timer. *)

UserRuns == open /\ pc \in {"loop", "callback"}

(* The descriptor of an accepted socket comes with ACCEPT. *)
HasDescriptor == HasCallback("SEND")

(* Mutant of Send: the engine is not told. *)
SendQuietly ==
    /\ UserRuns /\ HasDescriptor
    /\ ~ queued
    /\ queued' = TRUE
    /\ UNCHANGED <<mode, flags, open, watch, again, control, listener, library,
                   system, heard>>

(* iosocket_send() *)
Send ==
    /\ UserRuns /\ HasDescriptor
    /\ ~ queued
    /\ queued' = TRUE
    /\ watch' = Wants(flags, TRUE)
    /\ UNCHANGED <<mode, flags, open, again, control, listener, library,
                   system, heard>>

(* iosocket_close(), which tries to write and frees the socket. *)
Close ==
    /\ UserRuns /\ HasDescriptor
    /\ open' = FALSE
    /\ queued' = FALSE
    /\ UNCHANGED <<mode, flags, watch, again, control, listener, library,
                   system, heard>>

CloseListener ==
    /\ pc \in {"loop", "callback"}
    /\ role = "server" /\ listener
    /\ listener' = FALSE
    /\ UNCHANGED <<mode, flags, open, watch, queued, again, control, library,
                   system, heard>>

(* Other calls set errno. *)
ErrnoChanges ==
    /\ pc \in {"loop", "callback"}
    /\ again' = ~ again
    /\ UNCHANGED <<mode, flags, open, watch, queued, control, listener,
                   library, system, heard>>

-----------------------------------------------------------------------------
(* The peer and the system. *)

Arrives(item) ==
    /\ Len(inq) < MaxIn
    /\ inq' = Append(inq, item)
    /\ asks' = asks + (IF item = "rehs" THEN 1 ELSE 0)
    /\ UNCHANGED <<mode, flags, open, watch, queued, again, control, listener,
                   library, room, heard>>

Said(item) == \E j \in 1 .. Len(inq) : inq[j] = item

PeerIsThere == open /\ ~ Has("CONNECTING") /\ ~ Said("end") /\ ~ Said("bad")

(* The flight that the handshake waits for. *)
PeerAnswers ==
    /\ PeerIsThere
    /\ hs # <<>> /\ Head(hs) = "in" /\ ~ Said("hs")
    /\ Arrives("hs")

(* Records; none while a handshake is under way. *)
PeerSends ==
    /\ PeerIsThere
    /\ hs = <<>> /\ ~ Said("rehs")
    /\ \E item \in {"data", "extra"} \cup
                     (IF asks < MaxAsks THEN {"rehs"} ELSE {}) : Arrives(item)

PeerEnds ==
    /\ PeerIsThere
    /\ \E item \in {"end", "bad"} : Arrives(item)

PeerReads ==
    /\ ~ room
    /\ room' = TRUE
    /\ UNCHANGED <<mode, flags, open, watch, queued, again, control, listener,
                   library, inq, asks, heard>>

-----------------------------------------------------------------------------
Program ==
    Connected \/ HandshakeGoesOn \/ Dispatch \/ Read \/ Write \/ CallbackReturns

UserCode == Send \/ Close \/ CloseListener \/ ErrnoChanges

Next ==
    \/ Program
    \/ UserCode
    \/ PeerAnswers \/ PeerSends \/ PeerEnds \/ PeerReads

Spec == Init /\ [][Next]_vars

(* The loop goes on and callbacks return; the peer reads what is sent, and *)
(* answers in a handshake.                                                 *)
FairSpec ==
    /\ Spec
    /\ WF_vars(Program)
    /\ WF_vars(PeerAnswers)
    /\ WF_vars(PeerReads)

-----------------------------------------------------------------------------
Items == {"hs", "data", "extra", "rehs", "end", "bad"}

Events == {"CONNECTED", "NOTCONNECTED", "ACCEPT", "RECV", "CLOSED"}

(* The types; and reading and writing never both wait for the one          *)
(* SSL_WANTWRITE, whichever order their calls come in.                     *)
TypeOK ==
    /\ backend \in {"gnutls", "openssl"} /\ role \in {"client", "server"}
    /\ flags \subseteq {"CONNECTING", "INCOMING", "DEAD", "SSL_HANDSHAKE",
                        "SSL_ESTABLISHED", "SSL_WANTWRITE", "SSL_READHS",
                        "SSL_WRITEHS"}
    /\ ~ (Has("SSL_READHS") /\ Has("SSL_WRITEHS"))
    /\ open \in BOOLEAN /\ queued \in BOOLEAN /\ again \in BOOLEAN
    /\ watch \subseteq {"r", "w"}
    /\ pc \in {"loop", "read", "write", "callback"}
    /\ branch \in [writeable : BOOLEAN, rehandshake : 0 .. 2,
                   event : Events \cup {"IGNORE"}, nested : BOOLEAN]
    /\ listener \in BOOLEAN /\ failed \in BOOLEAN /\ room \in BOOLEAN
    /\ hs \in Seq({"in", "out"}) /\ Len(hs) <= 4
    /\ waits \in {"none", "read", "write"}
    /\ inq \in Seq(Items) /\ Len(inq) <= MaxIn
    /\ asks \in 0 .. MaxAsks
    /\ heard \in Seq(Events)

(* The handshake wants to write, and the engine was not told: the code     *)
(* looks at SSL_WANTWRITE only within READHS and WRITEHS.                  *)
Blocked == Has("SSL_HANDSHAKE") /\ Has("SSL_WANTWRITE") /\ "w" \notin watch

(* When the loop waits, the engine watches the direction that the library  *)
(* asked for last, in a handshake and in what follows it, unless the       *)
(* handshake is blocked.                                                   *)
WaitsAreWatched ==
    (/\ pc = "loop" /\ open
     /\ flags \cap {"SSL_READHS", "SSL_WRITEHS", "SSL_HANDSHAKE"} # {}
     /\ ~ Blocked) =>
        /\ waits = "read" => "r" \in watch
        /\ waits = "write" => "w" \in watch

HeardAt(n, event) == Len(heard) >= n /\ heard[n] = event

(* Also with the visit within the visit, user code hears once that the     *)
(* connection is there, if and only if it is, before any data, and nothing *)
(* behind the end.  The descriptor of the listening socket must be there   *)
(* for ACCEPT; a socket without a session ends without having begun.       *)
HeardAsEstablished ==
    LET first == IF role = "client" THEN "CONNECTED" ELSE "ACCEPT" IN
    /\ \A n \in 1 .. Len(heard) :
          /\ heard[n] = first <=> n = 1 /\ Has("SSL_ESTABLISHED")
          /\ heard[n] \in {"CLOSED", "NOTCONNECTED"} => n = Len(heard)
          /\ heard[n] = "RECV" => Has("SSL_ESTABLISHED")
          /\ heard[n] = "NOTCONNECTED" => n = 1
    /\ Has("SSL_ESTABLISHED") => HeardAt(1, first) \/ ~ listener
    /\ open /\ pc = "loop" => ~ Has("DEAD")

(* With a peer that answers, a handshake that does not end is blocked time *)
(* and again.                                                              *)
HandshakeEndsUnlessBlocked ==
    []<>(~ open \/ ~ Has("SSL_HANDSHAKE") \/ Blocked)

(* SSL_read() waits for the peer to send. *)
Reading == backend = "openssl" /\ Has("SSL_READHS")

(* A failure that is not noticed: errno is EAGAIN from an earlier call.    *)
Unnoticed == failed /\ again

NoSession == flags \cap {"CONNECTING", "SSL_HANDSHAKE", "SSL_ESTABLISHED"} = {}

(* With a peer that reads, what user code sends does not stay in the write *)
(* buffer, unless OpenSSL reads, a failure goes unnoticed or there is no   *)
(* session.                                                                *)
QueuedIsSentUnlessReading ==
    []<>(~ open \/ ~ queued \/ Reading \/ Unnoticed \/ NoSession)
=============================================================================
