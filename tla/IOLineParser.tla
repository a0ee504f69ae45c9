---------------------------- MODULE IOLineParser ----------------------------
(***************************************************************************)
(* How iosocket_events_callback() in src/IOHandler/IOSockets.c cuts what a *)
(* socket with parse_delimiter received into lines: the loop over the read *)
(* buffer, which overwrites the end of each line with 0 and calls the user *)
(* for each line while it goes on, and what it leaves for the next chunk.  *)
(*                                                                         *)
(* Bytes are numbered as they arrive; 0 is a byte that was overwritten.  A *)
(* 0 that arrives is a delimiter, as long as user code set fewer than five *)
(* of them, because the others are 0.  pc is also "loop", or "freed" when  *)
(* the loop goes on in a buffer that was freed; event is what a RECV event *)
(* holds, "recv_str" or "recv_buf"; shown has the lines user code got, and *)
(* what it took raw.                                                       *)
(***************************************************************************)
EXTENDS IOSocketCallback, FiniteSets

CONSTANTS
    Limit,      \* IOSOCKET_PARSE_LINE_LIMIT
    MaxChunk    \* bound on the bytes of one recv()

ASSUME ParserAssumption ==
    /\ Limit \in Nat \ {0, 1}
    /\ MaxIn \in Nat /\ MaxChunk \in Nat

VARIABLES
    parse,      \* parse_delimiter of the descriptor
    parseEmpty, \* parse_empty of the descriptor
    before,     \* the byte in front of the buffer is not 0: the code reads
                \* it, though it belongs to malloc
    buf,        \* the bytes of the read buffer up to bufpos
    at,         \* the loop variable i
    used,       \* used_bytes
    delims,     \* history: the delimiters among the bytes that arrived
    received,   \* history: the number of bytes that arrived
    switched    \* history: user code changed parse_delimiter

settings == <<parse, parseEmpty, before, switched>>
loop == <<buf, at, used>>
input == <<delims, received>>
parserVars == <<open, settings, loop, pc, event, input, shown>>

ParserInit ==
    /\ open = TRUE
    /\ parse \in BOOLEAN
    /\ parseEmpty \in BOOLEAN
    /\ before \in BOOLEAN
    /\ buf = <<>>
    /\ at = 0 /\ used = 0
    /\ pc = "idle"
    /\ event = "none"
    /\ delims = {} /\ received = 0
    /\ shown = <<>>
    /\ switched = FALSE

-----------------------------------------------------------------------------
(* recv() returns n bytes, those of D are delimiters.  Without             *)
(* parse_delimiter the dispatch ends with one event for the whole buffer.  *)
Receive(n, D) ==
    /\ pc = "idle" /\ open
    /\ received + n <= MaxIn
    /\ D \subseteq received + 1 .. received + n
    /\ buf' = buf \o Bytes(received + 1, received + n)
    /\ received' = received + n
    /\ delims' = delims \cup D
    /\ IF parse
       THEN pc' = "loop" /\ UNCHANGED event
       ELSE pc' = "callback" /\ event' = "recv_buf"
    /\ UNCHANGED <<open, settings, at, used, shown>>

IsDelimiter(p) == buf[p] \in delims

(* Mutant of TooLong: the limit counts from the start of the buffer. *)
TooLongBuffer(p) == p >= Limit

TooLong(p) == p - used >= Limit

(* The loop comes to an end of a line at position p. *)
ComesTo(p) ==
    /\ pc = "loop"
    /\ p \in at + 1 .. Len(buf)
    /\ IsDelimiter(p) \/ TooLong(p)
    /\ \A q \in at + 1 .. p - 1 : ~ IsDelimiter(q) /\ ~ TooLong(q)

(* The line is cut at p, and the loop goes on behind q. *)
Cut(p, q) ==
    /\ buf' = [buf EXCEPT ![p] = 0]
    /\ at' = q
    /\ used' = q

LineStart == used + 1

ShowLine(p) ==
    /\ shown' = Append(shown, SubSeq(buf, LineStart, p - 1))
    /\ event' = "recv_str"
    /\ pc' = "callback"

(* buffer[i-1] is 0: the byte before was cut off, or there is none. *)
SeemsEmpty(p) == IF p = 1 THEN ~ before ELSE buf[p - 1] = 0

LineEnds(p) ==
    /\ ComesTo(p)
    /\ IsDelimiter(p)
    /\ Cut(p, p)
    /\ IF SeemsEmpty(p) /\ ~ parseEmpty
       THEN UNCHANGED <<shown, event, pc>>
       ELSE ShowLine(p)
    /\ UNCHANGED <<open, settings, input>>

(* Mutant of RestSkipped: the rest of the line is skipped, as the comment  *)
(* of the code says; the end of the buffer is then passed.                 *)
RestToDelimiter(p) ==
    CHOOSE q \in p .. Len(buf) + 1 :
        /\ q = Len(buf) + 1 \/ buf[q] \in delims
        /\ \A r \in p .. q - 1 : buf[r] \notin delims

(* Where the loop that is to skip the rest of the line stops: it compares  *)
(* with the byte behind the last of delimiters, which calloc set to 0, and *)
(* finds the 0 that was just written.                                      *)
RestSkipped(p) == p

LineTooLong(p) ==
    /\ ComesTo(p)
    /\ ~ IsDelimiter(p)
    /\ Cut(p, RestSkipped(p))
    /\ ShowLine(p)
    /\ UNCHANGED <<open, settings, input>>

(* Mutant of Kept: the rest is dropped. *)
NothingKept == <<>>

(* What memmove() leaves in the buffer. *)
Kept == SubSeq(buf, used + 1, Len(buf))

LoopEnds ==
    /\ pc = "loop"
    /\ ~ \E p \in 1 .. Len(buf) : ComesTo(p)
    /\ buf' = Kept
    /\ at' = 0 /\ used' = 0
    /\ pc' = "idle"
    /\ event' = "none"
    /\ UNCHANGED <<open, settings, input, shown>>

(* The callback closed the socket.  The loop goes on over a buffer that is *)
(* freed, and may or may not find what it takes for another line.          *)
FreedLoop ==
    /\ pc = "freed"
    /\ pc' \in {"callback", "idle"}
    /\ UNCHANGED <<open, settings, loop, event, input, shown>>

-----------------------------------------------------------------------------
(* User code. *)

ParserReturns ==
    /\ pc = "callback"
    /\ pc' = CASE event = "recv_buf" -> "idle"
               [] event = "recv_str" /\ open -> "loop"
               [] event = "recv_str" /\ ~ open -> "freed"
    /\ UNCHANGED <<open, settings, loop, event, input, shown>>

(* User code sets parse_delimiter: a header in lines, say, and then a body *)
(* that is not.                                                            *)
Switch ==
    /\ UserRuns
    /\ parse' = ~ parse
    /\ switched' = TRUE
    /\ UNCHANGED <<open, parseEmpty, before, loop, pc, event, input, shown>>

(* User code takes what is in the buffer. *)
TakeRaw ==
    /\ UserRuns /\ pc = "callback" /\ event = "recv_buf"
    /\ buf # <<>>
    /\ shown' = Append(shown, buf)
    /\ buf' = <<>>
    /\ UNCHANGED <<open, settings, at, used, pc, event, input>>

CloseSocket ==
    /\ UserRuns
    /\ open' = FALSE
    /\ UNCHANGED <<settings, loop, pc, event, input, shown>>

-----------------------------------------------------------------------------
ParserNext ==
    \/ \E n \in 1 .. MaxChunk, D \in SUBSET (1 .. MaxIn) : Receive(n, D)
    \/ \E p \in 1 .. MaxIn : LineEnds(p) \/ LineTooLong(p)
    \/ LoopEnds
    \/ FreedLoop
    \/ ParserReturns
    \/ Switch \/ TakeRaw \/ CloseSocket

ParserSpec == ParserInit /\ [][ParserNext]_parserVars

-----------------------------------------------------------------------------
(* The types; the loop stays in the buffer, so that memmove() is never     *)
(* given a negative length.                                                *)
ParserTypeOK ==
    /\ open \in BOOLEAN /\ switched \in BOOLEAN
    /\ parse \in BOOLEAN /\ parseEmpty \in BOOLEAN /\ before \in BOOLEAN
    /\ buf \in Seq(0 .. MaxIn)
    /\ at \in 0 .. Len(buf) /\ used \in 0 .. at
    /\ pc \in {"idle", "loop", "callback", "freed"}
    /\ event \in {"none", "recv_str", "recv_buf"}
    /\ received \in 0 .. MaxIn /\ delims \subseteq 1 .. received
    /\ shown \in Seq(Seq(1 .. MaxIn))

(* The reference: the lines of the whole input, in one piece. *)
LastDelimiter(p) ==
    IF \E d \in delims : d < p
    THEN CHOOSE d \in delims : d < p /\ \A e \in delims : e < p => e <= d
    ELSE 0

(* What follows the limit of a line, up to the delimiter that ends it. *)
BeyondLimit == {p \in 1 .. received : p - LastDelimiter(p) > Limit}

(* Where a line ends, or reaches the limit. *)
Ends == {p \in (1 .. received) \ BeyondLimit :
            p \in delims \/ p - LastDelimiter(p) = Limit}

LineTo(p) == Bytes(LastDelimiter(p) + 1, p - 1)

EmptyEnds == {p \in Ends : LineTo(p) = <<>>}

Shown == {shown[k] : k \in 1 .. Len(shown)}

ShownEmpty == {k \in 1 .. Len(shown) : shown[k] = <<>>}

(* Whatever chunks the data comes in, user code gets the lines of the      *)
(* whole, up to the limit if they reach it, and no empty ones unless it    *)
(* asks for them, or malloc has something else than 0 in front of the      *)
(* buffer.  What waits for more data is shorter than the limit.            *)
(*                                                                         *)
(* A line that is too long is the exception: "skip the rest of the line"   *)
(* (IOSockets.c line 1120) says that its rest is not shown, and the code   *)
(* shows it as further lines.  The property allows for both, also where an *)
(* empty line follows the one that was too long, and for no line that      *)
(* mixes the rest with anything else.                                      *)
LinesAsSentUnlessTooLong ==
    pc = "idle" /\ open /\ parse /\ ~ switched =>
        /\ {LineTo(p) : p \in Ends \ EmptyEnds} \subseteq Shown
        /\ \A line \in Shown \ {<<>>} :
              \/ line \in {LineTo(p) : p \in Ends}
              \/ \A m \in 1 .. Len(line) : line[m] \in BeyondLimit
        /\ parseEmpty =>
              /\ Cardinality(ShownEmpty) >= Cardinality(EmptyEnds)
              /\ Cardinality(ShownEmpty)
                    <= Cardinality(EmptyEnds \cup (BeyondLimit \cap delims))
        /\ ~ parseEmpty /\ ~ before =>
              Cardinality(ShownEmpty)
                 <= Cardinality({p \in EmptyEnds : p - 1 \in BeyondLimit})
        /\ Len(buf) < Limit

Taken == UNION {{shown[k][m] : m \in 1 .. Len(shown[k])} :
                   k \in 1 .. Len(shown)}

Waiting == {buf[k] : k \in 1 .. Len(buf)} \ {0}

(* A line of the length to which the limit cuts was shown, and b follows   *)
(* it before the next delimiter.                                           *)
FollowsTooLong(b) ==
    \E k \in 1 .. Len(shown) :
        /\ Len(shown[k]) = Limit - 1
        /\ shown[k][Limit - 1] < b
        /\ \A d \in delims : ~ (shown[k][Limit - 1] < d /\ d < b)

(* Also when user code goes from lines to raw data and back: it gets each  *)
(* byte at most once and in the order of their arrival, and what it never  *)
(* gets are delimiters, and bytes of a line that reached the limit, behind *)
(* the part that was shown - the code loses one of them at each cut, "skip *)
(* the rest of the line" (IOSockets.c line 1120) would lose all.           *)
BytesInOrderUnlessTooLong ==
    open =>
        /\ \A k, l \in 1 .. Len(shown) :
              \A m \in 1 .. Len(shown[k]), n \in 1 .. Len(shown[l]) :
                  (k < l \/ (k = l /\ m < n)) => shown[k][m] < shown[l][n]
        /\ pc # "callback" /\ pc # "loop" =>
              /\ \A b \in Waiting, t \in Taken : t < b
              /\ \A b \in (1 .. received) \ (Taken \cup Waiting) :
                    b \in delims \/ FollowsTooLong(b)
=============================================================================
