----------------------------- MODULE Minisocks -----------------------------
(***************************************************************************)
(* The preloaded library that replaces connect() in an application: it     *)
(* finds the relay named by MINISOCKS_SERVER once per process, connects    *)
(* there instead, asks for the real destination, and waits for the reply.  *)
(* The threads of the application share serv_status and server without a   *)
(* lock.                                                                   *)
(*                                                                         *)
(* A reply has Reply parts that may arrive one by one, and is followed by  *)
(* the destination's data.  What the relay answers, and whether it ever    *)
(* does, is its own choice.                                                *)
(***************************************************************************)
EXTENDS Integers, Sequences

CONSTANTS
  Thread,       \* threads of the application, each with one socket
  Reply,        \* parts of a reply: recv asks for all of them at once
  MaxData,      \* bound on the data the destination sends
  Env,          \* what MINISOCKS_SERVER may hold: "absent", "bad" or "name"
  Faults        \* "lookup": getaddrinfo may fail; "split": a reply may come in
                \* parts; "short": send may take less than it is given;
                \* "nonblocking": a socket may be non-blocking

ASSUME MinisocksAssumption ==
  /\ Reply \in Nat \ {0} /\ MaxData \in Nat
  /\ Env \subseteq {"absent", "bad", "name"}
  /\ Faults \subseteq {"lookup", "split", "short", "nonblocking"}

VARIABLES
  env,          \* MINISOCKS_SERVER
  serv_status,  \* PENDING, DONE, ERROR or ABSENT
  server,       \* the addresses that getaddrinfo found: "null" or "list"
  pc,           \* each call of connect: program counter
  ret,          \* its result: "none", "ok" (0) or "error" (-1)
  tcp,          \* its socket: "new", "pending", "open", "shut" or "reset"
  toRelay,      \* what the application's side has sent
  code,         \* the relay's reply, "none" before it is made
  arrived,      \* parts of the reply, then data, that have arrived
  got           \* how many of them were received by the wrapper

vars == <<env, serv_status, server, pc, ret, tcp, toRelay, code, arrived, got>>

Init ==
  /\ env \in Env /\ serv_status = "PENDING" /\ server = "null"
  /\ pc = [t \in Thread |-> "idle"]
  /\ ret = [t \in Thread |-> "none"]
  /\ tcp = [t \in Thread |-> "new"]
  /\ toRelay = [t \in Thread |-> <<>>]
  /\ code = [t \in Thread |-> "none"]
  /\ arrived = [t \in Thread |-> 0]
  /\ got = [t \in Thread |-> 0]

Goto(t, l) == pc' = [pc EXCEPT ![t] = l]

\* The wrapper returns r to the application.
Return(t, r) == Goto(t, "back") /\ ret' = [ret EXCEPT ![t] = r]

-----------------------------------------------------------------------------
\* The application calls connect: anything but AF_INET is refused.
Call(t) ==
  /\ pc[t] = "idle"
  /\ \/ Goto(t, "init") /\ UNCHANGED ret
     \/ Return(t, "error")
  /\ UNCHANGED <<env, serv_status, server, tcp, toRelay, code, arrived, got>>

\* Variant: init waits until the status is no longer PENDING.
AfterBadWaits == "init"
AfterBad == "server"

\* Variant: the thread that looks the server up says so at once, to spare the others.
WhileLookingDone == "DONE"
WhileLooking == serv_status

\* init: if (serv_status == PENDING) look at the environment; a value with no
\* host in front of the colon leaves the status PENDING.
InitStatus(t) ==
  /\ pc[t] = "init"
  /\ \/ serv_status # "PENDING" /\ Goto(t, "server") /\ UNCHANGED serv_status
     \/ serv_status = "PENDING" /\ env = "absent" /\ Goto(t, "server") /\ serv_status' = "ABSENT"
     \/ serv_status = "PENDING" /\ env = "bad" /\ Goto(t, AfterBad) /\ UNCHANGED serv_status
     \/ serv_status = "PENDING" /\ env = "name" /\ Goto(t, "lookup") /\ serv_status' = WhileLooking
  /\ UNCHANGED <<env, server, ret, tcp, toRelay, code, arrived, got>>

\* getaddrinfo(host, port, &hints, &server): every thread that found PENDING calls it,
\* and a failure leaves server as it was.
Lookup(t) ==
  /\ pc[t] = "lookup"
  /\ \/ server' = "list" /\ Goto(t, "found")
     \/ "lookup" \in Faults /\ UNCHANGED server /\ Goto(t, "missed")
  /\ UNCHANGED <<env, serv_status, ret, tcp, toRelay, code, arrived, got>>

\* serv_status = DONE or ERROR: the last thread to get here has the last word.
SetStatus(t) ==
  /\ \/ pc[t] = "found" /\ serv_status' = "DONE"
     \/ pc[t] = "missed" /\ serv_status' = "ERROR"
  /\ Goto(t, "server")
  /\ UNCHANGED <<env, server, ret, tcp, toRelay, code, arrived, got>>

\* getserver: NULL unless DONE, and then connect returns EFAULT.
GetServer(t) ==
  /\ pc[t] = "server"
  /\ IF serv_status = "DONE" THEN Goto(t, "addr") /\ UNCHANGED ret ELSE Return(t, "error")
  /\ UNCHANGED <<env, serv_status, server, tcp, toRelay, code, arrived, got>>

\* return server->ai_addr.
Address(t) ==
  /\ pc[t] = "addr"
  /\ Goto(t, "connect")
  /\ UNCHANGED <<env, serv_status, server, ret, tcp, toRelay, code, arrived, got>>

\* orig_connect(sd, srv, namelen): a result other than 0 is returned as it is,
\* EINPROGRESS too.
OrigConnect(t) ==
  /\ pc[t] = "connect"
  /\ \/ tcp' = [tcp EXCEPT ![t] = "open"] /\ Goto(t, "send") /\ UNCHANGED ret
     \/ tcp' = tcp /\ Return(t, "error")
     \/ "nonblocking" \in Faults /\ tcp' = [tcp EXCEPT ![t] = "pending"] /\ Return(t, "error")
  /\ UNCHANGED <<env, serv_status, server, toRelay, code, arrived, got>>

\* send of the packet and the empty user id: all of it, a part, which makes connect
\* fail with errno 0 and leaves the socket as it is, or an error after a reset.
Send(t) ==
  /\ pc[t] = "send"
  /\ \/ /\ tcp[t] = "open"
        /\ toRelay' = [toRelay EXCEPT ![t] = @ \o <<"pkt", "nul">>]
        /\ Goto(t, "recv") /\ UNCHANGED ret
     \/ /\ "short" \in Faults /\ tcp[t] = "open"
        /\ \E q \in {"piece", "pkt"} : toRelay' = [toRelay EXCEPT ![t] = Append(@, q)]
        /\ Return(t, "error")
     \/ tcp[t] = "reset" /\ Return(t, "error") /\ UNCHANGED toRelay
  /\ UNCHANGED <<env, serv_status, server, tcp, code, arrived, got>>

\* Variant: recv takes whatever has arrived.
TakenAll(t) == arrived[t]
Taken(t) == IF arrived[t] < Reply THEN arrived[t] ELSE Reply

\* Variant: a short reply is taken for a whole one.
WholeOrPart(n) == n > 0
Whole(n) == n = Reply

\* recv of the reply returns what is there, once: less than a whole reply, an
\* end of file or an error make connect fail.
Recv(t) ==
  /\ pc[t] = "recv"
  /\ arrived[t] > 0 \/ tcp[t] = "reset"
  /\ got' = [got EXCEPT ![t] = Taken(t)]
  /\ IF Whole(Taken(t)) THEN Goto(t, "judge") /\ UNCHANGED ret ELSE Return(t, "error")
  /\ UNCHANGED <<env, serv_status, server, tcp, toRelay, code, arrived>>

\* A code other than 90: shutdown(sd, SHUT_RDWR), ECONNREFUSED.
Judge(t) ==
  /\ pc[t] = "judge"
  /\ IF code[t] = "90"
     THEN Return(t, "ok") /\ UNCHANGED tcp
     ELSE Return(t, "error") /\ tcp' = [tcp EXCEPT ![t] = "shut"]
  /\ UNCHANGED <<env, serv_status, server, toRelay, code, arrived, got>>

-----------------------------------------------------------------------------
(* The application after connect, and the relay.                           *)

\* After a result of 0, or of EINPROGRESS once the socket is connected, the
\* application sends its data.
AppData(t) ==
  /\ pc[t] = "back"
  /\ \/ ret[t] = "ok" /\ tcp[t] = "open"
     \/ ret[t] = "error" /\ tcp[t] = "pending"
  /\ Len(toRelay[t]) < 3
  /\ toRelay' = [toRelay EXCEPT ![t] = Append(@, "data")]
  /\ UNCHANGED <<env, serv_status, server, pc, ret, tcp, code, arrived, got>>

\* The relay answers what it takes for a request.
RelayAnswers(t) ==
  /\ tcp[t] \in {"open", "pending"} /\ toRelay[t] # <<>> /\ code[t] = "none"
  /\ \E c \in {"90", "92"} : code' = [code EXCEPT ![t] = c]
  /\ UNCHANGED <<env, serv_status, server, pc, ret, tcp, toRelay, arrived, got>>

\* The reply arrives, whole or in part, and then the destination's data.
Arrive(t) ==
  /\ code[t] # "none" /\ tcp[t] \in {"open", "pending"}
  /\ \E n \in 1..(Reply + MaxData) :
       /\ arrived[t] + n <= IF code[t] = "90" THEN Reply + MaxData ELSE Reply
       /\ "split" \notin Faults => arrived[t] + n >= Reply
       /\ arrived' = [arrived EXCEPT ![t] = @ + n]
  /\ UNCHANGED <<env, serv_status, server, pc, ret, tcp, toRelay, code, got>>

\* The relay closes the connection or dies.
RelayGone(t) ==
  /\ tcp[t] = "open"
  /\ tcp' = [tcp EXCEPT ![t] = "reset"]
  /\ UNCHANGED <<env, serv_status, server, pc, ret, toRelay, code, arrived, got>>

Wrapper(t) ==
  \/ Call(t) \/ InitStatus(t) \/ Lookup(t) \/ SetStatus(t) \/ GetServer(t) \/ Address(t)
  \/ OrigConnect(t) \/ Send(t) \/ Recv(t) \/ Judge(t)

Relay(t) == RelayAnswers(t) \/ Arrive(t) \/ RelayGone(t)

Next == \E t \in Thread : Wrapper(t) \/ AppData(t) \/ Relay(t)

Spec == Init /\ [][Next]_vars

\* The threads run; nothing is assumed of the relay, which leaves some requests without
\* an answer: those of a peer it rejects, and those it lost in its accept loop.
FairSpec == Spec /\ \A t \in Thread : WF_vars(Wrapper(t))

-----------------------------------------------------------------------------
MTypeOK ==
  /\ env \in Env /\ serv_status \in {"PENDING", "DONE", "ERROR", "ABSENT"}
  /\ server \in {"null", "list"}
  /\ pc \in [Thread -> {"idle", "init", "lookup", "found", "missed", "server", "addr",
                        "connect", "send", "recv", "judge", "back"}]
  /\ ret \in [Thread -> {"none", "ok", "error"}]
  /\ tcp \in [Thread -> {"new", "pending", "open", "shut", "reset"}]
  /\ toRelay \in [Thread -> Seq({"pkt", "piece", "nul", "data"})]
  /\ code \in [Thread -> {"none", "90", "92"}]
  /\ arrived \in [Thread -> 0..(Reply + MaxData)] /\ got \in [Thread -> 0..Reply]

\* connect returns 0 only when the relay granted the tunnel, after taking exactly
\* the reply off the stream: the application's first read is the destination's
\* first byte.
SuccessIsTunnel ==
  \A t \in Thread :
    ret[t] = "ok" => code[t] = "90" /\ got[t] = Reply /\ toRelay[t][1] = "pkt"

\* getserver never follows a null pointer: a thread that has found DONE finds addresses
\* behind server, whichever threads are looking the server up at the same time and
\* whatever becomes of their lookups.
ServerFound == \A t \in Thread : pc[t] = "addr" => server = "list"

\* The wrapper waits in recv, and nothing has come back from the relay.
Unanswered(t) == pc[t] = "recv" /\ tcp[t] = "open" /\ arrived[t] = 0

\* A call of connect returns, unless the relay takes the request and never sends any
\* part of an answer, nor closes the connection: then it waits for ever.
Returns == \A t \in Thread : pc[t] = "init" ~> (pc[t] = "back" \/ []Unanswered(t))

=============================================================================
