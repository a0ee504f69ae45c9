# IOHandler: specifications and proofs

IOHandler is a C library for event-driven programs: sockets (plain and SSL),
timers and DNS queries, served by one thread from one loop. Its C code is in
`src/src/IOHandler`, C++ wrappers in `src/src/IOHandler++`, example programs in
`src/src/IOHandler_test`. It has no documents; what it promises is in its headers
and comments. Paths below are relative to `src/src/IOHandler`.

This directory holds TLA+ modules translated from that code, TLC
configurations, and proofs for TLAPS. `PROJECT.json` lists the runs, maps each
definition to the lines it stands for, and lists the hazards of the code with the
properties that watch them.

## 1. Inventory

`iohandler_loop()` (`IOHandler.c` 59-67) calls `iogc_exec()`, `iodns_poll()`
and `iosocket_loop()`, for as long as the program runs. Nothing is concurrent except the
kernel, the peers and the resolver. What makes the code hard is reentrancy: every event
ends in a callback of user code, which may create, close, free and restart
anything, including the object whose handler is on the stack, and the handler
goes on when the callback returns.

| Component | State | Operations | Talks to | Hard about it | Correct if |
|---|---|---|---|---|---|
| Garbage collector `IOGarbageCollector.c` | singly linked list with `first_object`, `last_object`; `iogc_enabled` | `iogc_add`, `iogc_add_callback`, `iogc_exec`, `iohandler_set_gc` | called by sockets, timers, DNS; first in the loop | a tail pointer that may dangle, reuse of cells by `malloc`, a wall clock that is set back | no double free, no walk off the heap, first in first out, grace period, nothing waits for ever |
| Timers `IOTimer.c` | doubly linked list in the order of due times; flags | `iotimer_create` ... `_destroy`, `_rearrange_timer`, `_trigger_timer` | the engines read the head | links that outlive the membership, callbacks that change the very timer that fires | links and flags agree, the head is the earliest, timers fire in order and none is forgotten, the trigger loop ends |
| Engines `IOEngine_epoll.c`, `_select.c`, `_kevent.c`, `_win32.c` | what is registered; nothing else | `init`, `add`, `remove`, `update`, `loop` | timers, `iosocket_events_callback` | arithmetic of the timeout in an `int`, clock readings that are old when used, early returns, batches of events | never sleeps past a timer or longer than the limit; every ready socket is served |
| Sockets `IOSockets.c` | descriptors with status, socket with flags, addresses, lookups, fd, buffers | `iosocket_connect*`, `_listen*`, `_send`, `_write`, `_printf`, `_close`, `iosocket_events_callback` | DNS (lookups), engine, collector, SSL | lookups for two hosts, fallback from IPv6 to IPv4, closing in callbacks, partial reads and writes, one event for several causes | no descriptor is lost, the engine watches what is alive, events are true and in a sensible order, data complete and in order |
| DNS queries `IODNSLookup.c` | list of queries; a pointer from the descriptor | `iodns_getaddrinfo`, `_getnameinfo`, `_abort`, `iodns_poll`, `iodns_event_callback` | sockets, user code, the DNS engines | abort while an engine works on the query | each query answered once, or aborted; never both; nothing leaks |
| DNS engines `IODNSEngine_default.c`, `_cares.c` | default: none (threads are compiled out); c-ares: requests, sockets, a timer | `add`, `stop`, `loop`, callback of the library | queries; c-ares uses sockets and a timer of the loop | answers in any order, synchronous answers, answers after an abort | order (default), the last answer ends the query |
| SSL `IOSSLBackend.c` | handshake and want-write flags of the socket | connect, listen, accept, read, write | sockets | a second visit of the event handler at the end of the handshake; a handshake in the middle of read or write | waits for what the library wants; heard as established once; no deadlock |
| Line splitting, in `iosocket_events_callback` | read buffer, delimiters | 1095-1163 | user code | data in chunks; a callback for one line closes the socket | same lines whatever the chunks |
| Event loop `IOHandler.c` | `iohandler_running` flag | `iohandler_init`, `_loop`, `_run`, `_stop` | everything | order of the parts | every part gets its turn |
| Logging `IOLog.c`, `compat/`, C++ wrappers, test programs | none the rest reads | | | | |

`PROJECT.json` repeats the list with the status of each.

## 2. Modules

| Module | Models | State to code |
|---|---|---|
| `IOGarbageCollector` | `IOGarbageCollector.c`, all of it | `first`, `last` are `first_object`, `last_object`; `node` and `live` a heap of cells in which a freed cell keeps its bytes and may be returned by a later `malloc`; `obj` the loop variable of `iogc_exec`, whose turns are steps |
| `DeferredFree` | no code: what the collector promises | objects are used, waiting or freed |
| `IOTimer` | `IOTimer.c`, all of it | `list` has the head and the `prev` and `next` of every timer, listed or not; the walk of `_rearrange_timer` and the loop of `_trigger_timer` are steps, callbacks may call any function |
| `IOEngineWait` | the loop functions of epoll, select and kevent up to the dispatch | `now` is the variable of that name, `due` the due times of the listed timers, `wait` the timeout of the system call, in each engine as the system reads it: milliseconds for epoll, microseconds for select, and for kevent the microseconds taken as nanoseconds, where a part of a microsecond counts as a whole one; `struct timeval` is kept as seconds and microseconds, `int` wraps |
| `IOEngineDispatch` | `add`, `remove`, `update` and the dispatch of the same engines; `dnsengine_cares_update_sockets` | `interest` is what the system has registered for a number, and the pointer it reports; `batch` the rest of the events of `epoll_wait` or `kevent`, `bits` and `cursor` the sets and `iosock` of select; `fallback` are the sockets that connect over IPv6 and may go on with IPv4; numbers of descriptors and the memory of sockets are used again, also within a round |
| `IOSocketConnect` | `IOSockets.c`: connect, listen, accept, lookups, fallback, events, close | `status`, `flags`, `addr`, `lookup`, `fd` are fields of the descriptor and the socket; `kernel`, `clients` stand behind the file descriptors; `watched` is what the engine knows; `broken` is set where the code goes on with a freed socket or through NULL, or connects one socket twice |
| `SocketEvents` | no code: the life of a descriptor as user code hears of it | |
| `IOSocketCallback` | the variables and operators that the next two have in common, so that one module can extend both | `open`, `pc`, `event`, `shown` |
| `IOSocketStream` | `IOSockets.c`: send, receive buffers, one dispatch of a connection, close | `readbuf`, `buflen`, `writebuf` are the buffers; `recv` and `send` are steps because the peer and `errno` change in between; bytes are numbered |
| `IOLineParser` | `IOSockets.c` 1095-1163: `parse_delimiter` | `buf` is the read buffer, with 0 for a byte that was overwritten; `at` and `used` are the locals `i` and `used_bytes` of the loop; a line that is handed to user code is a step, since the callback may close the socket or change the mode |
| `IOSSLSocket` | `IOSSLBackend.c` over GnuTLS or OpenSSL, and what `IOSockets.c` does for it | `flags` are the bits of `socket_flags`, `watch` what `update` last told the engine, `branch` the locals of `iosocket_events_callback`, of which a second visit may run within the first; `hs`, `failed`, `waits` are the library, as far as its caller sees it |
| `IODNSLookup` | `IODNSLookup.c` with both engines | `list`, `flags`, `type`, `result` are the query's; `left` are the requests c-ares has not answered; `descriptor` says whose query it is and whether the descriptor points to it; `stack` has the calls under way, because c-ares may answer within the call that asks, and the callback may ask again |
| `IOGarbageCollectorProofs`, `IOTimerProofs`, `IOEngineWaitProofs`, `IOEngineDispatchProofs`, `IOSocketConnectProofs`, `IOSocketStreamProofs`, `IOSSLSocketProofs`, `IODNSLookupProofs` | theorems | |
| `MC...` | model values for TLC | |

An action is a whole handler up to the point where something else can run: a
callback of user code, a system call whose outcome depends on the peer, or, in
the two list modules, a turn of a loop that might not end. Every definition
named "Mutant of" next to a definition is that definition with a plausible bug.
No property uses them; they show that the properties notice.

How the modules meet: `IOEngineWait` chooses from the timers of `IOTimer` how long to sleep;
`IOEngineDispatch` is what follows the sleep, and ends in
`iosocket_events_callback`, of which `IOSocketConnect`, `IOSocketStream`,
`IOLineParser` and `IOSSLSocket` each have the part that concerns them.
`IOSocketConnect` starts lookups, which are the queries of `IODNSLookup`. Each
module lets the others do whatever they may do at the points where the code calls them: a
callback is any sequence of calls, a resolver any answer, a connection any readiness.

What was abstracted, on purpose:

- malloc does not fail, except for the entry of the collector, where the code has a
  path of its own;
- the port and the `flags` argument of `iosocket_connect_flags` and
  `_listen_flags`; the defaults are modelled;
- `IOSocketConnect` leaves out one answer within the call that asks: the one for a name
  to bind a connecting socket to, when no file descriptor is left;
- the data of an SSL connection are flights of a handshake and records; which bytes
  they hold is left to `IOSocketStream`;
- in `IOEngineDispatch` callbacks open, change and close sockets, but user code asks for names
  only from timers, the
  callbacks of c-ares only let sockets connect, and c-ares has one
  connection at a time; the lowest free number, and the lowest free memory, is taken next; a socket that falls back has an
  IPv4 address to bind to if it binds, and `accept` succeeds (both failures are in `IOSocketConnect`);
- `IOSocketConnect` reports both directions of a descriptor in one call, as epoll and select do. kevent has a
  call for each, in any order (`IOEngineDispatch`), so that with it a connection that was refused may be taken
  for an established one first;
- the callback of an accepted socket is set by user code in the ACCEPT event;
- after an access to freed memory or through NULL a model is in a state of its own
  ("crashed", "freed", `broken`), from which either nothing follows or anything the loop could do;
  `broken` also stands for a socket that was connected twice.

## 3. Runs

Each run takes seconds to about two minutes with two workers.

| Run | Question | Bounds, and why they are enough |
|---|---|---|
| `GC` | does the list implement `DeferredFree`, without a double free or a walk into freed memory, and is what can be reached freed? | 3 objects and 3 cells: an entry can be reused while `last_object` points to it, and a list of 2 can follow; one step back of the clock puts due times out of order |
| `TimerOnce` | is the list exact and sorted, is no timer forgotten, does `_trigger_timer` return? | 3 timers: front, middle and end of the list; each is linked once, which leaves out the stale links of section 5 |
| `TimerRearm` | do links and flags agree and timers fire in order under every sequence of calls? | 2 timers, restart, periodic, a due time of 0; states after a stale link was used are reached but judged by no property |
| `Wait` | does each engine wake in time and within the limit, and does a due timer fire? | a second of 4 milliseconds of 2 microseconds: all borrows, carries and roundings, also to the parts of a microsecond that kevent waits, happen within a clock of 13 units; system calls time out, are interrupted or fail |
| `Dispatch` | is registered what the sockets want, do events reach the socket they are for, and is every reported socket served, while callbacks close and open others of the same round, and sockets fall back to IPv4? | 3 sockets, one of which may be that of c-ares, and 2 numbers: a callback can close the other socket of the batch and open a new one with its number or in its memory while the event is still to come; a fallback finds a number left or none |
| `ConnectSafety` | is every file descriptor accounted for, does the engine watch exactly what is alive, are events true, do they come in the order of `SocketEvents`? | 2 sockets with every combination of address and name, 3 file descriptors: either can fall back, with a descriptor left or none, and a name that is answered at once finds two, one or none; one server accepts the other |
| `ConnectLive` | does an attempt end, unless the program goes on with a freed socket? | 1 socket, 2 file descriptors: everything an attempt may meet |
| `Stream` | is data received in order and shown, does the buffer always have space, is the engine told to wait for writeable exactly when needed, is the end noticed? | a buffer of 2 that grows to 4 and then by 1: both rules of growth, full buffers and repeated reads within 5 bytes; 2 bytes are written |
| `StreamPartial` (violation) | is everything sent before closing? | 3 bytes, so that a part can be sent |
| `Lines` | are the lines the same whatever the chunks, and does each byte reach user code once when it switches between lines and raw data? | a limit of 3, 6 bytes in chunks of up to 3, every choice of delimiters: lines that are empty, short, at the limit and twice at the limit, cut anywhere; of a line that is too long only the part up to the limit is judged |
| `SSL` | with either library and in either role: does the engine watch what the library waits for, is the connection heard of once and rightly, does the handshake end, is what is queued sent? | 3 items on the way from the peer and one handshake it asks for: a handshake between two records, behind one, or before the end |
| `Dns` | is each query answered once, unless aborted, does the list hold what waits, is the default engine in order? | 2 queries of every type, with either engine: one can be asked, answered or aborted in the callback of the other, and in c-ares within the call that asks |

`CHECK_DEADLOCK FALSE` stands where descriptors are used once and the model
therefore comes to rest, and in `Dispatch`, where a program without a socket waits for ever.

Some properties are conjunctions that run as one: `ListIsSafe`, `ListIsSorted`,
`TimersProgress`, `DescriptorsSound`, `ReadsInOrder`, `WritesInOrder` and
`QueriesAccounted`; the parts have names and comments of their own.

A property whose name ends in "Unless..." is one that the code keeps except in
a case that the property names; section 5 describes these cases. They are as
narrow as TLC allows: without the exception the run finds a counterexample.

### Fairness

- `GC`: the loop calls `iogc_exec` again and again and its turns go on (weak
  fairness of `Exec`); time passes (strong, as it is interrupted by `exec`).
- Timers, engine wait: the library's own code runs on; a callback returns; the
  clock goes on. Strong, because user code may act in between for ever.
- Sockets: the resolver answers each lookup, if only with a failure; the kernel ends each
  attempt to connect (it has a timeout of its own); the engine, level-triggered, reports again what
  was not handled, so that `Dispatch` is strongly fair.
- Stream: `Handler` is strongly fair for the same reason. Nothing is assumed
  about the peer or about user code.
- SSL: the program runs on (weak fairness of `Program`); the peer answers in a
  handshake and reads what it is sent (weak: the two properties ask
  whether this side gets stuck although the other does its part).
- DNS: `iodns_poll` is called again and again, calls return, and the timer of c-ares fires
  (weak); c-ares answers each request that it still works on, or times it out
  (strong, per query). Nothing is assumed about the sockets of c-ares, so that the
  property shows that the timer alone is enough.
- `Dispatch` and `Lines` check safety and action properties only: what
  must happen within a round is said of the step that ends the round.

No run assumes that user code does anything but return from its callbacks.

## 4. Proofs

`tlapm` checks all of them, for every value of the constants.

**Collector** (assumption: `GCAssumption`, the types of the constants).
The invariant of `GC` is not inductive: nothing in it says why a dangling
`last_object` is harmless while the list has a head. `IInv` adds two
facts. `Chain`: while there is a head, the entries are linked in the order of
their tickets and `last` is the end. `NeverUsed`: there is no `last` only if
nothing was ever queued, so that a list that lost its head never gets one
back. From it follow `TypeCorrect`, `NoDoubleFree`, `WalkSafe` and `ListIsComplete`, which
together are `ListStaysSafe` (the invariant `ListIsSafe` of run `GC`);
`FirstInFirstOut` (objects are freed in the order of queueing), `Grace` (none is freed
within `IOGC_TIMEOUT`) and `Refinement`: every step is one of `DeferredFree` or
leaves it unchanged. `FirstInFirstOut` and `Grace` prove `CollectedInOrder` and
`KeptForTimeout`, which no run lists: what they say is part of `DeferredFree`, whose
refinement run `GC` checks.

`NeverUsed` is also the reason of the leak of section 5: the safety of
this collector rests on its never working again once it ran empty.

**Timers** (assumption: `TimerAssumption`, the types of the constants).
That the head is the earliest is a fact of the whole list, while the links are
facts about neighbours, and no number of links makes a list by first-order
reasoning. The invariant therefore says that an order exists: `Shaped(behind)` says
that `behind`, a strict total order of the timers in the list, agrees with the links
(`next` of a timer is the first of those behind it, and all others are behind the head), that
due times never fall along it, and that the walk of
`_rearrange_timer` has only passed timers due no later than the one it places. Every step either keeps an order or
says what the new one is: `Relinks` and `Destroys` take one timer out, `WalkInsert` and
`WalkAppend` put one in. It exists as long as no stale link was followed
(`WhileNotStale`), and gives `ListStaysSorted` and `TimersFireInOrder`.
`LinkedOnceIsNeverStale` shows why `TimerOnce` may ask for more than `TimerRearm`: in a program that links every timer
at most once no link is ever stale, so that for it the list is sorted without exception.

**Engine wait** (assumptions: `WaitAssumption`, and `NoOverflow` as hypothesis
of the theorems: the milliseconds to every timer fit in an `int`).
`WInv` says that after the check of the timers none is before the clock reading
from which the timeout is computed. Hence no difference is negative by more than one
borrow, and `LoopMaxTimeHolds` and `WakeUpInTime` follow by arithmetic on
seconds and microseconds, engine by engine: the milliseconds of epoll, rounded towards zero, `tout` as select
reads it, and as kevent reads it, where all that can be said is that the wait is no longer than `tout`.
The other half of `WakesInTimeUnlessKevent`, that an engine does not wake a millisecond or more before it need, holds for
epoll and select only. `WaitTypeCorrect` has `TypeOK`, which
depends on `WInv`: the timeout has a type only because the difference of two clock readings does.

**Dispatch** (assumption: `DispatchAssumption`, that there are a socket and a number
to have).
`RegistrationInv` holds also in the middle of c-ares' calls, where the properties of the run are silent:
a number belongs to one socket, except that the socket registered for c-ares may
have a number that c-ares has closed and another socket got since (`SlotStale`), what epoll or
kevent report for a number is the active socket that has it (`OwnerReported`), and a socket that may fall back can be taken
out of the table of kevent, which needs its registration for reading (`Removable`). `RoundInv` follows a
round: what is left of the batch goes to the sockets that own its numbers, once for each, and is all that is
pending (`BatchIsTrue`, `BatchIsApart`, `BatchIsAll`); for select the same holds of the
sockets that the walk has in front of it (`AheadIsTrue`, `AheadIsAll`). Each holds but for the numbers in
`closed`, so that the proof also says that `closed` has to excuse nothing more than what callbacks
closed in this round and what the fallback left. A socket may be opened, with a new number or one that was just closed, between any two
events, and a visit may be a fallback instead of a callback (`Visited`). A number that was opened in the round has no bit in the sets of select (`BitsAreOld`, `AresIsNew`). It gives
`DispatchTypeCorrect`, `RegistersAsWanted`, and the action properties
`EventsGoToTheirSockets` and `ReportedAreServed`, for all three engines. To prove
`RegistersAsWanted` its property was made stronger: it speaks of every entry of the table, not only of those of
sockets that are still there.

**Sockets** (assumption: `ConnectAssumption`; the types of the constants, and that `NULL`
is no callback).
None of the invariants of `ConnectSafety` is inductive. `SocketInv` collects what the
handlers rely on without checking it: a socket nobody asked for anything has no descriptor, lookup or
flag (`Idle`); the lookups under way of a socket that is not closed are those that `status` and the flags
say (`Looking`, `FlagsAsStatus`; the lookup of a closed one goes on, and nothing is assumed of it);
what is about to be reported as an end is closed already (`EndsInCallback`); an attempt
that may fall back still has the other address (`FallBackKnows`); and a descriptor is only ever connected
to what was asked (`GoesWhereAsked`). With them follow `SocketsTypeCorrect`, `DescriptorsStaySound` (no
descriptor is lost or shared, and the engine watches exactly those that are alive), `ConnectsAsAsked`,
`EventsStayTrue`, and `EventsRefinement`: every step is one of `SocketEvents` or leaves it unchanged.
They hold for user code that closes a socket during its lookup and for names that are answered within the
call, up to the step that sets `broken`. Such an answer leads to the same state as a later one if
it is applied once (`ChosenIfFound`, `ApplySafe`).
The first attempt at `ConnectsAsAsked` showed that the property excepted too much: the
case of a text address that is dropped (section 5) needs no exception, as `connect` then fails, or the fallback
goes through NULL.

**Stream** (assumption: `StreamAssumption`, that each way in which the read buffer grows
adds more than `Headroom`). `SInv` adds to the invariants of run `Stream` that a handler runs only while
the socket is open, so that nothing is read or sent behind `iosocket_close`, that the bytes that arrived
stay within the bound, and that the engine is told of the write buffer at once (`ToldAtOnce`), not only
by the time the loop waits. The rest is an argument about cutting and joining sequences (`BytesFollow`, `Cut`,
`Regroup`), made for each direction by itself. It gives `StreamTypeCorrect`, `ReadingInOrder` and
`WritingInOrder` for any sizes and any number of bytes. `WritingInOrder` has the order only
while `send` takes the whole buffer or nothing, which is where `StreamPartial` finds the code wrong.

**Lines** (assumption: `ParserAssumption`, the types of the constants and a limit of at least 2; these proofs are
the second half of `IOSocketStreamProofs`, and the parser's own specification is `ParserSpec`).
`LineInv` says which bytes the read buffer holds, and what the last byte is that was cut off
(`Done`). `Order` says that every byte up to it was shown, was a delimiter or was overwritten at the limit.
`CutLines` relates the parser, which sees chunks and a buffer that shrinks, to the cuts of the whole input as
this code makes them (`CutsOf`): `Done` is one of them, the lines shown are those of the cuts so far, and while the parser
waits for data no cut lies behind `Done`. They are counted from the start of the current line,
however long, with a remainder, the parser counts from where it cut last; `LimitCounts` says that these agree. It gives
`ParserTypeCorrect`, `ParserKeepsOrder` and `ParserCutsAsSent` for
any limit, any chunks and any number of bytes. `Order` and `CutLines` say more than the properties of run `Lines` that
follow from them: they describe what this code does with the rest of a line that is too long, which the
properties leave open (section 5).

**SSL** (assumption: `SSLAssumption`, the types of the bounds; what is proved holds for
any of them). The library's handshake stops where it can go no further, and `StepsExist` shows that there is such a
place, as a handshake has at most four flights. `SSLInv` says what the handlers take for granted.
`Phases`: a connection in its first handshake has no flag of a later one. `Visit`: a visit that goes on to write
has `SSL_READHS` only with the local that keeps the writes back, and a visit that reads never has `SSL_WRITEHS`,
which is why the two flags can share `SSL_WANTWRITE`. `Watched`: that flag is the direction which the library
wants, and the engine was told of it, even where `iosocket_try_write` returns before it
tells the engine; there the engine still watches both directions. `Begins` and `Finishes`: the
first event is that of the connection, and an end is heard only of a socket that is dead or closed. It
gives `ConnectionTypeCorrect`, `WaitsStayWatched` and `HeardOnlyAsEstablished`, for both libraries and both roles.

**DNS queries** (no assumption). Since c-ares may answer within the call that asks, a
query may be answered and freed while the call that asked for it is still on the stack. What `QueriesAccounted`
says of a query is decided by these calls, so the invariant speaks of them: each is one the code can make (`Sound`),
all calls of `dnsengine_cares_add` under the innermost have lost their query (`Freed`), and only the
innermost may still have it (`AddingGoesOn`, `Working`). It gives `QueriesTypeCorrect`,
`QueriesStayAccounted` and, with the list kept in the order of asking, `AnswersStayInOrder`.

Only model-checked: all liveness properties, among them `DueFires` of `IOEngineWait` and
`HandshakeEndsUnlessBlocked` of `IOSSLSocket`, because fairness is out of the prover's reach. So would be an
induction over a list; the proofs about lists avoid it by numbering the entries (`ticket`), by an order of
them (`behind`), or by taking the least element that is wrong (`Least`).

## 5. Disagreements between the code and its comments, and other surprises

Shown by a run:

- `StreamPartial`: after a partial `send`, the sent bytes stay at the front of the
  buffer and its end is lost (`IOSockets.c` 869); line 803 says "try to send everything before closing".

In the models, and excluded by name from the properties they would break:

*Collector and timers*

- `iogc_exec` never resets `last_object` (`IOGarbageCollector.c` 101, 79). Once the list
  ran empty, an object that is queued is linked behind freed memory and never freed, though
  `IOSockets.h` 154 speaks of "socket waiting for removal". `LinkedIsFreed` asks only for what can
  be reached.
- `_rearrange_timer` sets only one link of a timer it puts at an end of the list, and none when the list is
  empty (`IOTimer.c` 222-228): a timer that is linked again may be listed out of order or hide others
  (`stale` in `IOTimer`).
- A periodic timer with an interval of 0 keeps `_trigger_timer` from returning. `TimersProgress` is checked
  where timers are linked once.

*Engines*

- The `int` of milliseconds in `engine_epoll_loop` (83) wraps for a timer about 24.8 days ahead, and
  `epoll_wait` then blocks without a limit. Assumed away by `NoOverflow` and the bounds of `Wait`.
- `engine_kevent_loop` passes `tout`, a `struct timeval`, where `kevent` takes a `struct timespec` (`IOEngine_kevent.c` 109);
  the `ts` of line 78 is never used. The microseconds are read as nanoseconds: the loop
  waits a thousandth of them, and turns round about a thousand times as often as the comment "get timeout (timer or given
  timeout)" (87) says. Where `tv_usec` has fewer bytes than `tv_nsec`, the rest is whatever is behind it in memory, and the call may fail
  (`CallFails`). `WakesInTimeUnlessKevent`.
- The batch of epoll (`IOEngine_epoll.c` 105) and the pointer to the next socket of select
  (`IOEngine_select.c` 126) are taken before the callbacks that may free what they point to.
  `closed` in `EventsAreReal` and `ReportedIsServed`.
- The walk of select returns at the first socket that is not active, such as one whose name is looked up
  (128): those behind it are not served in that round. It stops there in every round at one that fell back to IPv4 and got no descriptor, which
  nothing activates again. `BehindInactive`.
- With kevent a connection that is refused has two events, and the fallback (`IOSockets.c` 1011-1018) happens at the one for reading. If
  the one for writing is behind it in the batch, it comes to the socket that has just begun to connect with IPv4, and is taken for
  "connection established" (1028). `closed`, which has the number that was left.
- `select` that is interrupted by a signal is dispatched all the same, with the sets as they were given
  (115-131). `signal`.
- c-ares' sockets are known by number only: when c-ares closes one and its number is used again
  before the next update, the new registration is removed with the old one (`IODNSEngine_cares.c` 82-96). `reused`.

*Sockets*

- Any readable event of a connecting socket counts as a failure (`IOSockets.c`
  1011): NOTCONNECTED for a peer that is fast to speak, while `IOSockets.h` 165 says "client socket could not
  connect". See `EventsAreTrueUnlessEarly`.
- An IPv6 address given as text is stored but the socket is opened for IPv4 (`IOSockets.c` 729). See `ConnectedAsAsked`.
- A text address to connect to is dropped when the name to bind to is looked up (415). It never connects elsewhere: `connect` fails,
  and the attempt ends in NOTCONNECTED although the peer was there. If the name to bind to has addresses of
  both families, the socket is marked for the fallback, and line 1013 goes through `dest.addrlookup`, which is NULL. State `broken`
  (`FallBackBreaks`).
- `accept` that fails is announced with the descriptor -1 (629).
- The fallback to IPv4 forgets the IPv6 descriptor without closing it (`forgotten` in `DescriptorsSound`).
- `socket()` that fails leaves the attempt in CONNECTING for ever, with no event (518). `Finish` has this, but
  `ConnectLive` has a file descriptor for each attempt.
- A socket that is closed during its lookup is freed, and the answer is written into it (260). State `broken`.
- A name that c-ares answers within `iosocket_connect` or `_listen` (731, 775): if it was not found, the answer closes
  the socket and the call goes on with it; if it was found, both connect the socket, or make it listen. The
  second time fails for want of a descriptor or leaks the first one. State `broken`, but for the cases without harm:
  the answer to one of two names, and a `socket()` that fails.
- `recv` that returns 0 is judged by an old `errno` (1084). See `EndIsHeardUnlessStale`.
- Bytes received in the dispatch that notices the end are shown by no RECV event (1087). See `ArrivedIsShown`.

*Lines*

- At the limit of a line a loop with the comment "skip the rest of the line" (1120) compares with the 0 it just wrote, and
  skips nothing: the rest arrives as further lines, of which one byte is lost at each cut.
  `LinesAsSentUnlessTooLong` and `BytesInOrderUnlessTooLong` ask of a line that is too long only for the part up to the limit, and
  hold whether what follows is skipped, as the comment says, or shown, as it is.
- The same loop reads `delimiters[5]`, one behind the array (1122).
- `buffer[i-1]` is read at `i = 0` (1112): whether a line that begins the buffer counts as empty depends on the byte in
  front of the memory that `malloc` returned. `before`.
- After a callback that closed the socket the loop goes on in the freed buffer. State "freed".

*SSL*

- A handshake that wants to write is not watched for writing: `SSL_WANTWRITE` is looked at only within
  `SSL_READHS` and `SSL_WRITEHS` (`IOSockets.c` 920-940). `Blocked`.
- With OpenSSL `SSL_read` that waits for data sets `SSL_READHS` (`IOSSLBackend.c` 429), and writing stops until the
  peer sends: two sides that both queue and wait do so for ever. `Reading`.
- An `EAGAIN` left over from another call hides a fatal error of the library (425-447, `IOSockets.c` 1084), also
  that of a handshake in the middle of the data, which with GnuTLS leaves `SSL_READHS` set (190). `Unnoticed`.
- The visit within the visit may free the socket before the outer one calls `engine->update` (963); the model has
  the memory still intact, and the system refuse the descriptor, which is closed.
- ACCEPT is reported through the listening descriptor, which may have been freed during the handshake (972).
  `listener`.
- An OpenSSL session that cannot be made clears the `sslnode` of the listening socket (`IOSSLBackend.c` 379), and the
  connection goes on without one; nothing is reported. `NoSession`.

*DNS*

- For a query that was stopped, c-ares' callback sets its pointer to
  NULL and then dereferences it (`IODNSEngine_cares.c` 220-224). State "crashed".
- When c-ares answers the first family within the call that asks, `query_count` is 0, and the query is
  freed while `dnsengine_cares_add` goes on with it (314). Also "crashed".
- c-ares is told that a socket is writeable when it is readable (203): a request that waits to write goes on
  only with the timer.
- After `iodns_abort` the descriptor still points to the freed query (`IODNSLookup.c` 230).

Seen while reading, and not in a model:

- GnuTLS' `bye` is called on a descriptor made blocking in `iosocket_close`, and OpenSSL is given a write buffer
  that `realloc` may have moved when it repeats a write.
- Lines 1150-1151 of `IOSockets.c` are never reached.
- `IOSocket.cpp` 99 chooses between the string and the buffer of a RECV event by the present value of
  `parse_delimiter`, which a callback may have changed since the event was made.

## 6. Plan

Done: the list of section 2, in that order, and the proofs of section 4.
Next, in order:

1. `IOHandlerLoop`: collector, queries, engine and timers in the order of
   `iohandler_loop`, for what only the whole shows: no handler uses a freed
   descriptor within the grace period.
2. The carry of microseconds in `IOTimer`; now it is only in `IOEngineWait`.

Abstract specifications: `DeferredFree` and `SocketEvents` are done; a priority
queue for the timers and a byte stream for each direction of a connection would be worth stating.

### Not modelled

- `IOEngine_win32.c`: driven by window messages and `SetTimer`, whose behaviour is not in the repository.
- `IOLog.c`, `compat/`: formatting and replacements of library functions, without state that another part reads.
- The C++ wrappers: one call each to a function that is modelled.
- The worker threads of the default DNS engine, which `IOHandler_config.h` leaves out.
- The set-up of SSL (`iossl_init`, certificates and keys) and what the libraries do within a call.
- `iodns_print_address` and `iodns_free_result`, which change nothing that lasts.
- `iohandler_stop`, which clears the flag of the loop, and the initialisers.
