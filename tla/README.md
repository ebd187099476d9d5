# udtrelay in TLA+

A verification development for the udtgate repository: `udtrelay`, a socks4
proxy that carries each TCP connection over a UDT tunnel to another udtrelay,
and `minisocks`, a preloaded library that redirects an application's `connect`
to it. File names below are relative to the repository.

## The system

```
application --TCP/socks4--> udtrelay client process ==UDT==> udtrelay server process --TCP--> destination
   (minisocks)              one thread per connection          one thread per connection
```

One invocation of udtrelay is three processes: the parent forks a *server*
process (udt -> tcp) and a *client* process (tcp -> udt) and waits. Each of the
two runs an accept loop and starts a thread `start_child` per connection.
`start_child` performs its half of the socks4 handshake, then starts two more
threads that copy bytes, one per direction, joins them and closes both sockets.

| component | source | state | operations | what makes it correct |
|---|---|---|---|---|
| data phase | `src/relay/udtrelay.cpp` 745-869, `src/lib/socket_api.cpp` 134-161 | two sockets, two 1 MB buffers, the flag `cargs.shutdown` | poll, recv, writen, stop, join, close | the bytes written are a prefix of the bytes sent; both directions end together; nothing is closed under a thread |
| handshake | `udtrelay.cpp` 584-744 | `spkt`, `c`, two sockets | read request, check, forward, connect, reply | 90 means connected; one reply; no handshake byte reaches the data phase |
| accept loop | `udtrelay.cpp` 229-236, 472-556 | `atcpsock` / `audtsock` on main's stack, the ports of -R | accept or rendezvous, check, create thread | each connection is served by its own thread; sockets come back; whoever connects is accepted |
| UDP buffer check | `udtrelay.cpp` 870-975, 1036-1056 | `udt_options`, six statics shared by all threads, a probe's descriptor | parse -U, probe, record, apply | each socket gets the largest size granted of what was asked for; nothing of others is closed |
| supervisor | `udtrelay.cpp` 183-465, 1058-1063 | options, process groups, handlers, children | getopt, setpgid, daemonise, fork, signal, wait, kill; in the children resolve, bind, listen | only the processes asked for are forked; they end together and alone |
| access control | `src/lib/utils.cpp` 83-192, `src/lib/getifaddrs.cpp` | the interface list | list, walk, mask, compare | the answer is the one the documentation promises, or a stricter one |
| minisocks | `src/minisocks/minisocks.c` | `serv_status`, `server`, one socket per call | init, lookup, connect, send, recv | 0 means a tunnel to the right destination |
| multiplexed worker | `src/lib/worker.cpp`, `src/include/loopbuffer.h`, `src/lib/socket_api.cpp` 20-41, 99-141, 203-228, 339-427 | two ring buffers, two descriptor sets, four shut bits | select, read, write, close | meant to replace the data phase; suspended since 1.3-fix5; it must end and close its sockets |
| rest of SOCK_API, logger, process title, globals, udtwrap | `src/lib`, `src/include`, `scripts` | | | not modelled, see the end |

What is hard here: two threads and a flag with no lock; blocking calls that see
the flag only on a time-out; ends of file, resets, SIGPIPE and a breaking link
at any point; partial reads and writes; recv results that the handshake does not
test; an `errno` tested where nobody set it; a variable of main shared with the threads it starts; statics written by
all threads; signals nested in a signal handler. `PROJECT.json` lists each as a
hazard, at its line, with the properties that watch it.

## Modules

Data is abstracted: the i-th byte an endpoint sends is the number i, a socks
packet is what is tested in it, an address is the set of its 1 bits. Control is
kept: program counters name the places between two shared accesses or two
blocking calls, and every error path is a disjunct or an action. Operators whose
comment begins with *Variant* are deliberate mistakes: putting one in place of
the definition that follows it must break the property named in `PROJECT.json`.

**Pipe** - what a tunnel promises: two byte streams; bytes are delivered in
order to an open end, and an end is cut off only after something ended the
connection.

**Relay** - the data phase of one tunnel, both sides. `s2p`/`p2s` are the two
workers of a side, `main` the tail of `start_child`, `shutdown` the shared flag,
`udtq` the bytes in the UDT connection, `wrote` all bytes given to a TCP socket.
One action per step of a worker (`S2pCheck`, `S2pPoll`, `S2pRecv`, `S2pSend`,
`P2sRecv`, `P2sWrite`, ...), one per call of the tail (`RcvCreate` ...
`TcpClose`). `S2pSend` and `P2sWrite` are single iterations of `writen`. `errno` is
kept because `writen` tests it after `UDT::send`, which does not set it: after an
interrupted poll a failing send is repeated for ever (`S2pSendSpins`). External:
the endpoints and the network (`EndSend`, `EndEof`, `EndReset`, `LinkBreak`).
`Faults` says for each side what it may meet. UDT is modelled from its use: recv returns what arrived before a failure, close
lingers for what was sent and drops what was not received.

**Handshake** - both halves of `start_child` before the workers, with the
application in front and a foreign or rejected peer behind. Untested `recv`
results are choices over what the uninitialized variable may hold. A reply may be
received in part (`CReplyShort`): its rest then stays in the stream.

**Acceptor** - the accept loop of the client, of the server, and of the server with
-R; `slot` is the variable whose address is passed to the thread, `holder` the
connection behind a descriptor, `udt` the open UDT sockets. `raced` remembers that
a connection was accepted while an earlier thread had not copied `slot` yet. The
descriptor of the destination, the early return of a refusing server child and
`close` on a UDT socket and a `pthread_create` that fails are there, since they
decide what leaks.

**UdpBuffer** - `parse_udt_option` in a word of 2^w, and `check_udp_buffer`, one of
its two instances, with one action per read or write of a static that another thread
could come between, and one per close of the probe's descriptor. `limit` is what the system grants; other code opens and
closes descriptors meanwhile, and is given the lowest free number.

**Supervisor** - main up to the accept loop: the options (those that change no
process are one, those that are refused another), the parent, and the children
until they listen. `grp` and `cgrp` are process groups, `mask` the
signals whose handler is running. `Kill` reaches the parent too, so the handler
runs nested.

**Access** - `check_source`, one action per interface, with the in-place masking
of the list; `subnet` and the test of `net_access` come from its callers. The list
is the system's, or made by the fallback `getifaddrs`, one action per interface.

**Minisocks** - the wrapper in several threads, which share `serv_status` and `server`;
the relay answers, splits its reply, stays silent or goes away as it likes.

**Worker** - `utl::worker`, one action per part of its loop: two selects, then read
and write of each direction. A Loopbuffer is its two pointers and its size;
`maxfdn`, what `select` watches and what it leaves in its sets come from
`socket_api.cpp`.

**MCRelay** gives Relay its per-side bounds and faults. The other modules are checked as they
are. Each component's theorems are in a module of their own, `<component>Proofs`,
that extends it: **RelayProofs**, **HandshakeProofs**, **AcceptorProofs**,
**UdpBufferProofs**, **SupervisorProofs**, **AccessProofs**, **MinisocksProofs** and
**WorkerProofs**.

## Runs

| run | checks | bounds |
|---|---|---|
| `relay_safety` | TypeOK, StreamIntegrity, StopSignalled, JoinBeforeClose, OneWayDrains, NothingDropped, ImplementsPipe | all faults: a break, a failing poll and interrupted calls on one side, a reset, SIGPIPE and an expired linger on the other; 3 and 1 bytes, `rcvbuffer` and UDT buffer 2, TCP buffer 1: a read of two bytes must be written in two pieces, every buffer fills, and a lost byte in the middle shows |
| `relay_live` | Teardown | 4 and 1 bytes, every buffer 1: four bytes fill the receiver's TCP socket, both `data[]` and the UDT connection, so that `peer2sock_worker` blocks in write and `sock2peer_worker` in UDT::send, and only the endpoint's reading, or its end, goes on; a failing poll at the sender, reset and SIGPIPE at the receiver (which also breaks the link) |
| `relay_eof` | EofDrains, violated | 2 and 1 bytes, no faults |
| `handshake` | HTypeOK, GrantedMeansConnected, CleanStart, NoStandoff, AnsweredOnce, Answered, ServerChildEnds | all faults, a short reply among them; 5 tokens: packet, user id, NUL, data |
| `acceptor` | ATypeOK, ApartServed, OnlyKnownLeaks, EqualPortsAccepted | all three processes, 4 connections, threads that cannot be created, 2 descriptors, a connection turned away and one whose packet is refused, 2 ports: reuse, exhaustion and a second connection behind a refused one all happen |
| `acceptor_served` | ServedByOwnChild, violated | 2 connections |
| `acceptor_ports` | EveryoneAccepted, violated | rendezvous, 2 ports |
| `udp_buffer` | UTypeOK, AloneExact, CheckedIsGranted, GrantedSpared | 2 threads, 2 sockets each, 2 descriptors, words of 5 bits, Kilo 4, default 13, floor 2, every limit up to 14: suffixes, overflow, three halvings, a reused descriptor and a probe without one all happen |
| `supervisor` | STypeOK, NoOrphan, OnlyAsAsked, KillReachesRelay, AllExit, SignalEndsAll | command lines of up to three options (-C and -S together, in both orders, with another between them), two ways of starting, all three signals at any time |
| `access` | XTypeOK, AnswerIsPermitted | addresses of 2 bits, up to 2 interfaces of every kind, room for 1 or 2 of them, four levels |
| `minisocks` | MTypeOK, SuccessIsTunnel, ServerFound, Returns | 2 threads, replies of 2 parts, 1 byte of data, failing lookups, short sends, split replies, non-blocking sockets |
| `worker` | WTypeOK, Closes | 3 TCP and 2 UDT descriptors in every role, buffers of 2 that a wrong variant fills and wraps, 1 byte per descriptor |

The properties, and what would break them:

- *StreamIntegrity*: a short write that is not continued, or continued at the
  wrong place; a buffer handed on after an error.
- *StopSignalled*: line 848 clears the flag after a recv error although the other
  worker may have set it. This is harmless only because the same thread sets it
  again at 862, before it ends.
- *OneWayDrains*: in a one-way transfer the end of file reaches the receiver after
  all the data. It rests on UDT's linger and on recv returning data before the
  error.
- *NothingDropped*: as long as the receiving side has not called `UDT::close` and its
  endpoint has not reset, every byte read is written or under way, also with data both
  ways. The test of the flag that 839 has commented out would break it: it would throw
  away what recv has just returned. It says where the bytes of finding 1 below go:
  they are lost at the receiver's `UDT::close`, and nowhere before.
- *Teardown*: neither worker waits for the other for ever, also when both are blocked in
  `writen` behind a reader that is slow. `Stuck` names the two calls that can hold a
  side: the `recv` after a failed poll, and the repeated send of `S2pSendSpins`.
- *CleanStart*: both ends enter the data phase with nothing of the handshake left
  in the streams. The client replaces the user id by an empty one, so the server
  must read exactly one NUL. One piece can be left, and the property names it: the
  rest of a reply that 732 took in part, in front of the data.
- *NoStandoff*: the children never wait for each other. While the client child waits
  for its reply over a connection that stands, all the server child still has to read
  is under way to it. It is the safety that Answered rests on.
- *Answered*: an application that stays gets a reply wherever the link fails.
- *ServerChildEnds*: a server child reaches its workers or ends. The exception,
  `Deserted`, is the spinning child of the list below.
- *ApartServed*, *OnlyKnownLeaks*: what holds of the accept loop when threads
  start in time. OnlyKnownLeaks says that each open descriptor and UDT socket
  belongs to a connection in hand, but for three leaks, which it names.
- *EqualPortsAccepted*: neither a rejected connection nor a rendezvous stops the
  loop, as long as -R names one port.
- *AloneExact*: parsing, the probe by halving, and what later sockets reuse of it,
  give the largest size on the ladder that the system grants, also when that one is
  at or below 8096, where the loop ends without having tried it.
- *CheckedIsGranted*: what still holds of the statics when threads race: 942 compares
  and assigns in two steps, and may overwrite a larger size, never record a refused one.
- *GrantedSpared*: the double close at 941 and 947 hits nobody else's descriptor
  when the system grants the first size: then 943 returns before 947.
- *AnswerIsPermitted*: masking in place, early return and a list that may have lost
  entries: never more permissive than the documentation.
- *Closes*: the suspended worker ends after its time limit, and after an error of the
  UDT connection it reads from, as long as select still looks at `sd`.
- *NoOrphan*, *KillReachesRelay*, *AllExit*, *SignalEndsAll*: rest on the early
  `setpgid` at 285. Without it the one at 379 would move the parent out of its
  children's group: `kill(0)` would miss them and the parent would wait for ever.
- *SuccessIsTunnel*, *Returns*: the wrapper with failing lookups, short sends, split
  replies and a relay that may never answer, which is the one thing that keeps a call
  from returning.
- *ServerFound*: threads that look the relay up at once share `server` and
  `serv_status` without a lock. No thread follows a null pointer, because each sets
  `DONE` only after its own `getaddrinfo` and a failed one leaves `server` alone.

Deadlock is not checked: every one of these systems may stop (all processes
ended, or an idle connection with its byte bound used up).

Fairness. Relay: weak fairness of each thread, and of the endpoints' reading; a
thread that can run does run, and an endpoint that never reads would block `writen`,
which ignores the flag. That a signal interrupts a recv is not assumed. Handshake:
weak fairness of the two children only. Supervisor: of the parent and of the
delivery of SIGTERM. Minisocks: of the threads only, since the relay leaves some
requests without an answer. Nothing is assumed of faults, signals, crashes or the
application's sending. Acceptor: of main; a rendezvous of two sockets that wait at
each other's ports takes place. Worker: of the loop, and strong fairness of a first
select that succeeds: it may be interrupted, but not every time.

## What the models show to be wrong

Three runs end in a violation; `PROJECT.json` quotes the line each contradicts.

1. `relay_eof`: with data in both directions, an end of file on one side makes the
   other side's *send* fail, which stops its *receiver* before it drained: bytes
   sent before the end of file are lost with no fault at all.
2. `acceptor_served`: the thread reads `atcpsock` through a pointer after main may
   have accepted the next connection into it (547, 668; 527, 588).
3. `acceptor_ports`: `if (c = 1)` (234) replaces the second port of -R by the first,
   and two sides that were given different ports never meet.

Others the models hold, and whose properties are stated so as to leave them out:

- 683: an unsupported command is answered with 90, the code of success
  (GrantedMeansConnected speaks of connect requests only);
- 596: recv's -1 moves the pointer back, and a server child whose peer goes before
  the request is complete spins for ever (`Deserted`); 617 spins the same way;
- 732: a reply received in part is taken for a whole one: its last bytes reach the
  application as data, after the eight bytes it was given (CleanStart names them);
- 527, 547: the result of pthread_create is not tested, and no thread is ever joined or
  detached: when it fails the socket stays open in nobody's hands (`Abandoned`);
- 787: a failed poll leads to a recv that may block for ever; `socket_api.cpp` 152: after
  an interrupted poll a failing UDT::send is repeated for ever (`Stuck`); 790: an
  interrupted recv ends the tunnel (`Interrupted`);
- 605, 611: the server child returns without closing its sockets (`returned` in
  Handshake and Acceptor);
- 519: a rejected UDT connection gets `close`, not `UDT::close`; it stays open, and
  its application waits for ever (excluded from Answered by `spc = "rejected"`);
- 689: the user id loop spins when the application ends before the NUL;
- 936-958: a second thread may apply an intermediate value of the probe, and another one
  than it compared, hence
  *Alone* in AloneExact; a request at or below 8096 reaches the comparison at 952
  with `max_size` 0, against the comment at 950; the result is the opposite of the
  comment at 876;
- 941, 947: a probe that was refused its first size closes its descriptor twice,
  and may close a connection accepted in between; 934: without a descriptor the
  probe halves down to the floor;
- 1044, 1046: a size of 2G or more wraps; a value that is no number leaves an
  uninitialized one;
- `getifaddrs.cpp` 92: interfaces beyond the buffer are cut off silently;
- `worker.cpp` 163, 183 and `loopbuffer.h` 18, 38: every read asks for 0 bytes and the
  suspended loop moves nothing; 134: with a TCP socket in front and no time limit it
  never ends; `socket_api.cpp` 424: a UDT `fd_out` hides a TCP `sd` from select;
- 357-376: a signal before the handlers are installed orphans the children;
- `minisocks.c` 159: a non-blocking socket never sends its request; 164, 173: a request
  sent or a reply received in parts is a failure, and the socket stays as it is; 100:
  one failed lookup disables the library for the process; 173 waits for ever for a relay
  that rejected the peer (519) or lost the connection (547).

## Proofs

Checked by TLAPS for all values of the constants, from the ASSUME of each module
(buffers at least one byte, bounds natural numbers). Every invariant that a run
checks is a theorem. Each module states an inductive invariant,
shows that every action keeps it (one lemma or one step per action), and derives
the properties from it.

**RelayProofs.** `TypeCorrect`: TypeOK is inductive; Capacity is part of it because
a sequence's type is only kept if reads and writes stay inside the buffers.
`ControlHolds`: the control invariant `Control` relates the program counters of
main and the workers (`Phases`), the flag (`Signalled`) and the reasons to stop
(`Caused`: a side stops only when something `Ended` the connection or a signal
interrupted its recv, and both are for good: `OverStable`).
`StopAlwaysSignalled` and `ClosedAfterJoin` follow. `FlowHolds`: StreamIntegrity is
not inductive, since a byte written comes out of a buffer filled earlier; `Flow` says that
what was written, what `p2sBuf`, `udtq` and `s2pBuf` hold, laid end to end, are
consecutive bytes up to what was read, as long as the receiver can still read.
`StreamsIntact` follows, and `RelayImplementsPipe` shows each step to be a step of
Pipe or a stutter.

`OneWayAlwaysDrains`: Flow says that bytes are in order, not that none is missing at
the end. `Draining(s)` adds, as long as only side s sends over a connection that
stays up and no recv was interrupted: no byte is dropped between the two TCP sockets (`Conserved`); the sending
side stops only after it has passed on everything (`SenderStops`); the receiving side
stops only on recv's error, hence after the sender has closed and the connection is
empty (`ReceiverStops`). The last is where a transfer both ways fails: there
`sock2peer_worker` of the receiver can stop it first.

`NothingEverDropped` is what remains true then. `Kept(s)` is `Conserved` and that a
worker that has ended left nothing in its buffer, as long as the other side is
`Carrying`. The hypothesis can only become false (`CarryingBefore`), and each action
that drops bytes needs or makes it false: a failing send needs the connection gone, a
failing write needs the endpoint reset, a break, a SIGPIPE and an expired linger break
the link. The lemmas `ConservedRead`, `ConservedSend`, `ConservedReceive` and
`ConservedWrite`, one per move of bytes, serve this proof and the one before.
`BacklogBounded` adds the capacities up: what one endpoint has sent and the other has
not read is at most 2 TcpBuf + 2 rcvbuffer + UdtBuf bytes, so that a slow reader holds
its writer back.

**HandshakeProofs.** `HInv` says what is under way for each place of the two children.
`Upstream`: before the server child reads, at most a packet and a NUL; afterwards what
is left of them; past the user id, nothing. `Downstream`: nothing before the server
child replies, then one code or the rest of it, then data if the code was 90. `Grant`: whoever knows of a 90,
in the packet, on the way or as an answer, knows it from a server child that has its
destination. `Request` and `UserId` follow the application's bytes into the client
child. `GrantIsConnection` and `WorkersStartClean` need all of them: a 90 is only
believed because an untested `UDT::recv` leaves the command of the request in the
packet, which is no 90, and a start is
only as clean as it is because each NUL is consumed once and a reply that is taken in
part leaves its rest in the place of its code. `NeverStandoff` adds `Waiting`: for a
client child in `reply` with the connection up, the server child has exactly two, one
or none of the two tokens left to read, as its place says; it has not given up on the
user id, which only a lost connection makes it do; and it leaves no reply behind unsent.
`RepliesOnce` is the action property:
a child that has answered is past the places that answer.

**AcceptorProofs.** `AInv`: `Own` follows a connection from `slot` to its thread's copy,
`Held` says who has each descriptor and UDT socket, and both hold as long as `raced` is
false; `Numbers` and `Destinations` hold with the race too. The race is the only
hypothesis: descriptors may be closed and used again in any order, which is why `Held` is needed
in the other direction from `Own`: a thread that closes its copy must close no other
connection's. A connection whose thread was not created keeps its socket for good, which
`Held` says too. `LowestFree` shows, from the well-ordering of the naturals, that
`accept` and `socket` return a descriptor nobody uses. `ApartAlwaysServed` and
`NothingElseLeaks` follow.

**UdpBufferProofs.** `CheckedAlwaysGranted`, for any number of threads: CheckedIsGranted
needs that a thread between its bind and its assignment to `chk_size` had its size
accepted (`BoundAccepted`), whatever the others have assigned meanwhile.
`GrantedAlwaysSpared`: `Owned` says that, while the size is granted, `max_size` stays 0
and each probing thread has a descriptor that is open, no connection's and no other
thread's; hence every size is accepted at once, and nobody gets to the second close.

`AloneAlwaysExact`, for every size, limit, floor and word length. The probe halves what
is left, AloneExact speaks of asked / 2^k, and the two agree for every k only by
induction. `LeastNat`, from the well-ordering of the naturals, replaces it: a least
counterexample to a statement about numbers has a predecessor that is none. It gives the
equations of the recursive function `TwoTo` (`DoublingExists`, `DoublingUnique`), that
2^k > k (`TwoToLarge`), and with them that one halving leads from one rung to the next
(`Rungs`) and that the CHOOSE of Granted has a single candidate (`GrantedIs`). The
invariant is `Lone`, for a thread that is alone. While it probes, its size is a rung and,
if not the first, the rung above was refused and `max_size` is the same rung (`Tried`).
When it is through, `max_size` is 0 and the first rung was granted, or the first was
refused and `max_size` is Granted (`Settled`): that is what its next socket starts from.
The other threads stand still (`OthersStill`), but connections come and go.

**SupervisorProofs.** `SInv`, for command lines of any length: `Grouped` says that the
parent leaves its starter's group before the first fork and that each child is in the
parent's group, so that the `setpgid` after the forks moves nobody; `Installing`
counts the handlers; `Narrowed` says what the options read so far made of `mode`.
`NobodyOrphaned` and `KillReachesAll` rest on the first two,
`ForkedAsAsked` on the third.

**AccessProofs.** `AccessCorrect`, for addresses of any width and lists of any length.
`Making` says that what the fallback has listed so far is `Sound` (each entry is an
interface of the machine, or null) and, as long as nothing was lost, `Whole` (no
interface passed is missing). `Walk` says that entries passed were no match and
entries to come are as they were listed, which the in-place masking leaves true.

**MinisocksProofs.** `MInv` gives, for each thread, what its place says of its socket and
of the reply (`Place`: nothing is exchanged before send, and nothing is judged that is
not a whole reply) and why the application was told what it was (`Told`). Threads share
`serv_status` and `server`: `Found` says that `DONE`, and a thread about to set it or
past reading it, tell of addresses. `SuccessMeansTunnel` and `ServerAlwaysFound` follow.

**WorkerProofs.** `WorkerTypes` rests on `Idle`: both buffers stay as constructed, so that
every read asks for 0 bytes. The pointers are in the buffer because they never move, not
because of how they are advanced.

The type invariants are theorems of every module: `TypeCorrect`, `HandshakeTypes`,
`AcceptorTypes`, `BufferTypes`, `SupervisorTypes`, `AccessTypes`, `MinisocksTypes`,
`WorkerTypes`.

Only model-checked: the liveness properties (Teardown, Answered, ServerChildEnds,
EqualPortsAccepted, AllExit, SignalEndsAll, Returns, Closes). They need fairness and
ENABLED, which are beyond the installed provers. The safety that three of them rest on is
proved: StopSignalled for Teardown, NoStandoff for Answered, KillReachesRelay for
SignalEndsAll.

## Not modelled

- `logger.cpp`: output; `log_die` is an end of the process wherever it is called.
- `setproctitle.cpp`: third-party code that rewrites argv for `ps`.
- `udtgate.cpp`, `udtgate.h`: globals, and an ACL that is declared and not
  implemented; the code under `UDT_ACL_OPTION`, `UDT_CCC_OPTION` and
  `UDP_BASEPORT_OPTION` is not compiled.
- the wrappers of SOCK_API that nothing calls (`readn`, `recvmsg`, `getsockopt`, ...),
  and the helpers of `utils.cpp` that nothing calls or that only format.
- `udtwrap.pl`: sets two environment variables and runs a command.
- UDT itself, TCP and the kernel: modelled from their use, and marked external.

## What is left

Every operation of the components above that changes state is modelled, and every
invariant and action property that a run checks is proved. Open are the liveness
properties, which TLC checks on small instances, and fixes: a code change for one of the
three findings should first turn its run from a violation into a pass, as a drain before
the receiver's `UDT::close` would do for EofDrains, from NothingDropped.
