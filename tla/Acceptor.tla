------------------------------ MODULE Acceptor ------------------------------
(***************************************************************************)
(* The accept loop of main, in the client process (TCP), in the server     *)
(* process (UDT), and in the server process with -R, which has nothing to  *)
(* accept: it binds a UDT socket and connects to the peer's client port    *)
(* until the peer does the same.  Each new socket is stored in one         *)
(* variable of main's stack (atcpsock or audtsock), whose address is       *)
(* handed to the thread start_child: the thread reads the variable when it *)
(* comes to run, and by then the loop may have stored another one there.   *)
(***************************************************************************)
EXTENDS Integers

CONSTANTS
  Mode,     \* the processes considered: "client", "server", "rendezvous"
  MaxConn,  \* bound on the connections that arrive
  Handle,   \* the descriptors the process may have for connections
  Allowed,  \* the connections that the access check lets in
  Misfit,   \* the UDT connections whose packet is no socks4 connect
  Port,     \* ports -R may name
  PeerPort, \* the operand <peer_port>
  Faults    \* "udt", "bind", "thread": UDT::accept, UDT::bind, pthread_create may fail

Conn == 1..MaxConn

ASSUME AcceptorAssumption ==
  /\ Mode \subseteq {"client", "server", "rendezvous"}
  /\ MaxConn \in Nat /\ Allowed \subseteq Conn /\ Misfit \subseteq Conn
  /\ Handle \subseteq Nat \ {0}
  /\ PeerPort \notin Port /\ Faults \subseteq {"udt", "bind", "thread"}

VARIABLES
  mode,      \* which process this is
  lp, rp,    \* -R <lp>:<rp> as given
  arrived,   \* connections that have arrived: 1..arrived
  accepted,  \* of them accepted, or met: 1..accepted
  mpc,       \* main: "accept", "connect", "check", "create" or "exited"
  slot,      \* atcpsock (a descriptor) or audtsock (UDT numbers are never reused)
  holder,    \* the connection each descriptor is used for, 0 if closed
  udt,       \* the open UDT connections of the server process
  child,     \* the thread started for a connection: program counter; "unborn" if it was not
  serves,    \* its copy of slot, cargs.tcpsock or cargs.udtsock
  peersock,  \* its descriptor for the destination, in the server process
  begun,     \* the connection behind slot when it was copied
  raced      \* a connection was accepted before an earlier child had its copy

config == <<mode, lp, rp>>
sockets == <<holder, udt>>
threads == <<child, serves, peersock, begun>>
vars == <<config, arrived, accepted, mpc, slot, sockets, threads, raced>>

Starting(c) == child[c] \in {"new", "named"}

Init ==
  /\ mode \in Mode /\ lp \in Port /\ rp \in Port
  /\ mode # "rendezvous" => lp = rp
  /\ arrived = 0 /\ accepted = 0
  /\ mpc = "accept" /\ slot = 0
  /\ holder = [h \in Handle |-> 0] /\ udt = {}
  /\ child = [c \in Conn |-> "none"]
  /\ serves = [c \in Conn |-> 0]
  /\ peersock = [c \in Conn |-> 0]
  /\ begun = [c \in Conn |-> 0]
  /\ raced = FALSE

\* A connection arrives; with -R, the peer's client child binds its port, our <rp>,
\* and connects to our <peer_port>.
Arrive ==
  /\ arrived < MaxConn /\ mpc # "exited"
  /\ arrived' = arrived + 1
  /\ UNCHANGED <<config, accepted, mpc, slot, sockets, threads, raced>>

Free == {h \in Handle : holder[h] = 0}
Lowest(S) == CHOOSE h \in S : \A g \in S : h <= g

-----------------------------------------------------------------------------
(* main                                                                    *)

\* -R <lp>[:<rp>]: if (c = 1) holds whatever sscanf found, and <lp> replaces <rp>.
sPeer_rzv_rport == lp

\* The port that the rendezvous server connects to.
TargetPeer == PeerPort
Target == sPeer_rzv_rport

\* The next connection is in slot.
Accepted ==
  /\ accepted' = accepted + 1 /\ mpc' = "check"
  /\ raced' = (raced \/ \E c \in Conn : Starting(c))
  /\ UNCHANGED <<config, arrived, threads>>

\* atcpsock = accept(ltcpsock, ...): the lowest free descriptor.
Accept ==
  /\ mode = "client" /\ mpc = "accept" /\ accepted < arrived /\ Free # {}
  /\ slot' = Lowest(Free)
  /\ holder' = [holder EXCEPT ![slot'] = accepted + 1]
  /\ Accepted /\ UNCHANGED udt

\* With -R: audtsock = UDT::socket(...), setsockopt, UDT::bind.
RzvBind ==
  /\ mode = "rendezvous" /\ mpc = "accept"
  /\ mpc' = "connect"
  /\ UNCHANGED <<config, arrived, accepted, slot, sockets, threads, raced>>

\* audtsock = UDT::accept(ludtsock, ...); with -R, UDT::connect is tried again for
\* ever (its result -1 is below 5000) until the peer connects from the same port.
UdtAccept ==
  /\ accepted < arrived
  /\ \/ mode = "server" /\ mpc = "accept"
     \/ mpc = "connect" /\ Target = rp
  /\ slot' = accepted + 1
  /\ udt' = udt \cup {slot'}
  /\ Accepted /\ UNCHANGED holder

\* Variant: the result of accept is not tested.
AcceptFailsOn ==
  /\ mode = "client" /\ mpc = "accept" /\ Free = {} /\ accepted < arrived
  /\ slot' = -1 /\ Accepted /\ UNCHANGED sockets

\* accept fails when no descriptor is left, UDT::accept or UDT::bind for reasons of
\* their own: return 0 ends the process with all its connections.
AcceptFails ==
  /\ mpc = "accept"
  /\ \/ mode = "client" /\ Free = {} /\ accepted < arrived
     \/ mode = "server" /\ "udt" \in Faults
     \/ mode = "rendezvous" /\ "bind" \in Faults
  /\ mpc' = "exited"
  /\ holder' = [h \in Handle |-> 0] /\ udt' = {}
  /\ child' = [c \in Conn |-> IF child[c] \in {"none", "unborn"} THEN child[c] ELSE "ended"]
  /\ UNCHANGED <<config, arrived, accepted, slot, serves, peersock, begun, raced>>

\* A peer met by rendezvous has the peer's address.
Admitted == accepted \in Allowed \/ mode = "rendezvous"

\* Variant: a rejected descriptor is closed, and served all the same.
AfterCheckAlways == "create"
AfterCheck == IF Admitted THEN "create" ELSE "accept"

\* close(atcpsock) or close(audtsock): close does nothing to a UDT socket.
Reject == IF mode = "client" THEN [holder EXCEPT ![slot] = 0] ELSE holder

\* sockaddr_match or check_source.
Check ==
  /\ mpc = "check"
  /\ mpc' = AfterCheck
  /\ holder' = IF Admitted THEN holder ELSE Reject
  /\ UNCHANGED <<config, arrived, accepted, slot, udt, threads, raced>>

\* pthread_create(&childthread, NULL, start_child, &slot);
Create ==
  /\ mpc = "create"
  /\ child' = [child EXCEPT ![accepted] = "new"]
  /\ mpc' = "accept"
  /\ UNCHANGED <<config, arrived, accepted, slot, sockets, serves, peersock, begun, raced>>

\* pthread_create fails, as it must in the end: no thread is ever joined or detached.
\* Its result is not tested: the loop goes on and nobody has the socket.
CreateFails ==
  /\ "thread" \in Faults
  /\ mpc = "create"
  /\ child' = [child EXCEPT ![accepted] = "unborn"]
  /\ mpc' = "accept"
  /\ UNCHANGED <<config, arrived, accepted, slot, sockets, serves, peersock, begun, raced>>

-----------------------------------------------------------------------------
(* start_child                                                             *)

\* getpeername(*(int*) servsock, ...), for the log.
ChildName(c) ==
  /\ child[c] = "new"
  /\ child' = [child EXCEPT ![c] = "named"]
  /\ UNCHANGED <<config, arrived, accepted, mpc, slot, sockets, serves, peersock, begun, raced>>

\* The connection behind a socket.
Behind(s) == IF mode = "client" THEN holder[s] ELSE IF s \in udt THEN s ELSE 0

\* cargs.tcpsock = *(int*) servsock; in the server process first the socket for the
\* destination, whose failure is not tested, then cargs.udtsock.
ChildCopy(c) ==
  /\ child[c] = "named"
  /\ child' = [child EXCEPT ![c] = "serving"]
  /\ serves' = [serves EXCEPT ![c] = slot]
  /\ begun' = [begun EXCEPT ![c] = Behind(slot)]
  /\ IF mode = "client" \/ Free = {}
     THEN UNCHANGED <<holder, peersock>>
     ELSE /\ peersock' = [peersock EXCEPT ![c] = Lowest(Free)]
          /\ holder' = [holder EXCEPT ![Lowest(Free)] = c]
  /\ UNCHANGED <<config, arrived, accepted, mpc, slot, udt, raced>>

\* The server child refuses a packet and returns without closing anything.
ChildRefuses(c) ==
  /\ mode # "client" /\ child[c] = "serving" /\ serves[c] \in Misfit
  /\ child' = [child EXCEPT ![c] = "returned"]
  /\ UNCHANGED <<config, arrived, accepted, mpc, slot, sockets, serves, peersock, begun, raced>>

\* Variant: start_child does not close the descriptor of the destination.
ClosedOnlyOwn(c) == IF mode = "client" THEN {serves[c]} ELSE {}
Closed(c) == IF mode = "client" THEN {serves[c]} ELSE {peersock[c]}

\* The end of start_child closes its copies, whatever is behind them now.
ChildEnd(c) ==
  /\ child[c] = "serving" /\ (mode # "client" => serves[c] \notin Misfit)
  /\ child' = [child EXCEPT ![c] = "ended"]
  /\ holder' = [h \in Handle |-> IF h \in Closed(c) THEN 0 ELSE holder[h]]
  /\ udt' = udt \ {serves[c]}
  /\ UNCHANGED <<config, arrived, accepted, mpc, slot, serves, peersock, begun, raced>>

-----------------------------------------------------------------------------
Main == Accept \/ RzvBind \/ UdtAccept \/ AcceptFails \/ Check \/ Create \/ CreateFails

Next ==
  \/ Arrive \/ Main
  \/ \E c \in Conn : ChildName(c) \/ ChildCopy(c) \/ ChildRefuses(c) \/ ChildEnd(c)

Spec == Init /\ [][Next]_vars

\* main runs, and two rendezvous sockets that wait for each other meet.
FairSpec == Spec /\ WF_vars(Main)

-----------------------------------------------------------------------------
ATypeOK ==
  /\ mode \in Mode /\ {lp, rp} \subseteq Port
  /\ arrived \in 0..MaxConn /\ accepted \in 0..arrived
  /\ mpc \in {"accept", "connect", "check", "create", "exited"}
  /\ slot \in (IF mode = "client" THEN Handle ELSE Conn) \cup {0}
  /\ holder \in [Handle -> 0..accepted] /\ udt \subseteq 1..accepted
  /\ child \in [Conn -> {"none", "unborn", "new", "named", "serving", "returned", "ended"}]
  /\ serves \in [Conn -> Handle \cup Conn \cup {0}]
  /\ peersock \in [Conn -> Handle \cup {0}] /\ begun \in [Conn -> 0..accepted]
  /\ raced \in BOOLEAN

\* A connection that was accepted, passed the check and has its thread is served
\* by that thread: the thread took the socket of this connection, and the socket
\* stays this connection's until the thread closes it.
ServedByOwnChild ==
  \A c \in Conn :
    /\ child[c] \in {"serving", "returned", "ended"} /\ begun[c] # 0 => begun[c] = c
    /\ child[c] = "serving" => Behind(serves[c]) = c

\* As long as no connection is accepted while an earlier thread is starting, each
\* is served by its own thread, also when descriptors are reused.
ApartServed == ~ raced => ServedByOwnChild

\* Connection c is in the hands of main, or of a thread that has not ended.
InHand(c) ==
  \/ c = accepted /\ mpc \in {"check", "create"}
  \/ Starting(c) \/ child[c] = "serving"

\* Connection c was left by a server child that refused its packet and returned, or
\* got no thread at all.
Abandoned(c) == child[c] \in {"returned", "unborn"}

\* These are all the leaks: a descriptor or a UDT socket that stays open belongs to a
\* connection somebody still handles, or was left open by a server child that returned
\* on a wrong packet, by a pthread_create that failed, or by main's close (not
\* UDT::close) of a rejected UDT socket.
OnlyKnownLeaks ==
  ~ raced =>
    /\ \A h \in Handle : holder[h] # 0 => InHand(holder[h]) \/ Abandoned(holder[h])
    /\ \A c \in udt : InHand(c) \/ Abandoned(c) \/ c \notin Allowed

\* Whoever connects is accepted, unless the process exits: the loop never stops on
\* a rejected connection, and the two ends of a rendezvous meet.
EveryoneAccepted ==
  \A c \in Conn : arrived >= c ~> (accepted >= c \/ mpc = "exited")

\* The same when the two ports of -R are equal.
EqualPortsAccepted == [](lp = rp) => EveryoneAccepted

=============================================================================
