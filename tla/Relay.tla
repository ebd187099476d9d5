------------------------------- MODULE Relay -------------------------------
(***************************************************************************)
(* The data phase of one relayed connection.  Two udtrelay processes, the  *)
(* "client" one (tcp -> udt) and the "server" one (udt -> tcp), have       *)
(* finished the socks handshake.  On each side start_child creates two     *)
(* threads, peer2sock_worker and sock2peer_worker, that copy bytes between *)
(* the side's TCP socket and the UDT connection, share the flag            *)
(* cargs.shutdown, and are joined before the two sockets are closed.       *)
(*                                                                         *)
(* A side's TCP socket leads to its endpoint: the application on the       *)
(* client side, the destination on the server side.  The i-th byte an      *)
(* endpoint sends is the number i, so that a lost, repeated or reordered   *)
(* byte can be told.                                                       *)
(***************************************************************************)
EXTENDS Integers, Sequences

CONSTANTS
  MaxSent,    \* [Side -> Nat]: bound on the bytes an endpoint sends
  RcvBuffer,  \* rcvbuffer: most bytes one recv returns
  TcpBuf,     \* bytes the kernel holds for one direction of a TCP socket
  UdtBuf,     \* bytes one direction of the UDT connection holds
  Faults      \* [Side -> SUBSET FaultKind]: the failures each side may meet

Side == {"client", "server"}

Peer(s) == IF s = "client" THEN "server" ELSE "client"

FaultKind == {"reset", "sigpipe", "break", "linger", "pollerr", "eintr"}

ASSUME RelayAssumption ==
  /\ MaxSent \in [Side -> Nat]
  /\ RcvBuffer \in Nat \ {0}
  /\ TcpBuf \in Nat \ {0}
  /\ UdtBuf \in Nat \ {0}
  /\ Faults \in [Side -> SUBSET FaultKind]

VARIABLES
  eop,       \* endpoint: "open", "eof" (sent FIN, still reads) or "gone" (reset)
  sent,      \* bytes the endpoint has sent
  taken,     \* bytes the endpoint has read
  read,      \* bytes the relay has received from its TCP socket
  wrote,     \* the bytes the relay has written to its TCP socket
  udtq,      \* bytes sent by this side and not yet received by the other
  link,      \* the UDT connection: "up" or "broken"
  fds,       \* the descriptors of the connection this side holds open
  shutdown,  \* cargs.shutdown
  s2p,       \* sock2peer_worker: program counter
  s2pBuf,    \*                   data[] still to be sent to UDT
  errno,     \*                   the call whose EINTR errno holds, or "none"
  p2s,       \* peer2sock_worker: program counter
  p2sBuf,    \*                   data[] still to be written to TCP
  main       \* start_child: program counter

endVars == <<eop, sent, taken>>
workVars == <<s2p, s2pBuf, errno, p2s, p2sBuf>>
vars == <<eop, sent, taken, read, wrote, udtq, link, fds, shutdown,
          s2p, s2pBuf, errno, p2s, p2sBuf, main>>

S2pPC == {"new", "check", "poll", "recv", "send", "spin", "stop", "exit"}
P2sPC == {"new", "check", "recv", "err", "write", "stop", "exit"}
MainPC == {"idle", "rcvcreate", "sndcreate", "rcvjoin", "sndjoin",
           "udtclose", "tcpclose", "done", "dead"}

Least(a, b) == IF a <= b THEN a ELSE b
Take(q, n) == SubSeq(q, 1, n)
Drop(q, n) == SubSeq(q, n + 1, Len(q))

\* The n bytes that follow the first k of a stream.
Bytes(k, n) == [i \in 1..n |-> k + i]

\* The UDT connection of side s can still carry data.
Connected(s) == link = "up" /\ "udt" \in fds[Peer(s)]

Init ==
  /\ eop = [s \in Side |-> "open"]
  /\ sent = [s \in Side |-> 0]
  /\ taken = [s \in Side |-> 0]
  /\ read = [s \in Side |-> 0]
  /\ wrote = [s \in Side |-> <<>>]
  /\ udtq = [s \in Side |-> <<>>]
  /\ link = "up"
  /\ fds = [s \in Side |-> {"tcp", "udt"}]
  /\ shutdown = [s \in Side |-> 0]
  /\ s2p = [s \in Side |-> "new"]
  /\ s2pBuf = [s \in Side |-> <<>>]
  /\ errno = [s \in Side |-> "none"]
  /\ p2s = [s \in Side |-> "new"]
  /\ p2sBuf = [s \in Side |-> <<>>]
  /\ main = [s \in Side |-> "rcvcreate"]

-----------------------------------------------------------------------------
(* The endpoints and the network.                                          *)

\* The endpoint sends its next byte.
EndSend(s) ==
  /\ eop[s] = "open" /\ "tcp" \in fds[s]
  /\ sent[s] < MaxSent[s]
  /\ sent[s] - read[s] < TcpBuf
  /\ sent' = [sent EXCEPT ![s] = @ + 1]
  /\ UNCHANGED <<eop, taken, read, wrote, udtq, link, fds, shutdown, workVars, main>>

\* The endpoint reads a byte.
EndTake(s) ==
  /\ eop[s] # "gone"
  /\ taken[s] < Len(wrote[s])
  /\ taken' = [taken EXCEPT ![s] = @ + 1]
  /\ UNCHANGED <<eop, sent, read, wrote, udtq, link, fds, shutdown, workVars, main>>

\* The endpoint ends its output and goes on reading.
EndEof(s) ==
  /\ eop[s] = "open"
  /\ eop' = [eop EXCEPT ![s] = "eof"]
  /\ UNCHANGED <<sent, taken, read, wrote, udtq, link, fds, shutdown, workVars, main>>

\* The endpoint resets the connection; bytes it sent and nobody read are lost.
EndReset(s) ==
  /\ "reset" \in Faults[s]
  /\ eop[s] # "gone"
  /\ eop' = [eop EXCEPT ![s] = "gone"]
  /\ UNCHANGED <<sent, taken, read, wrote, udtq, link, fds, shutdown, workVars, main>>

\* The UDT connection breaks; of the bytes under way only a prefix had arrived.
LinkBreak ==
  /\ \E s \in Side : "break" \in Faults[s]
  /\ link = "up"
  /\ link' = "broken"
  /\ \E k \in [Side -> 0..UdtBuf] :
       /\ \A s \in Side : k[s] <= Len(udtq[s])
       /\ udtq' = [s \in Side |-> Take(udtq[s], k[s])]
  /\ UNCHANGED <<endVars, read, wrote, fds, shutdown, workVars, main>>

-----------------------------------------------------------------------------
(* sock2peer_worker: TCP -> UDT.                                           *)

\* while (!pCargs->shutdown)
S2pCheck(s) ==
  /\ s2p[s] = "check"
  /\ s2p' = [s2p EXCEPT ![s] = IF shutdown[s] = 1 THEN "stop" ELSE "poll"]
  /\ UNCHANGED <<endVars, read, wrote, udtq, link, fds, shutdown, s2pBuf, p2s, p2sBuf, errno, main>>

\* The TCP socket has data, an end of file or an error for recv.
Readable(s) == read[s] < sent[s] \/ eop[s] # "open"

\* poll(pfd,1,10): zero is a timeout.  A negative result, an interrupted call or
\* another error, is tested neither by the EINTR loop (which compares it with
\* errno's value) nor by poll < 0 (which tests the function), so it leads to recv.
S2pPoll(s) ==
  /\ s2p[s] = "poll"
  /\ \/ /\ s2p' = [s2p EXCEPT ![s] = IF Readable(s) THEN "recv" ELSE "check"]
        /\ UNCHANGED errno
     \/ /\ "pollerr" \in Faults[s]
        /\ s2p' = [s2p EXCEPT ![s] = "recv"]
        /\ \E e \in {"none", "poll"} : errno' = [errno EXCEPT ![s] = e]
  /\ UNCHANGED <<endVars, read, wrote, udtq, link, fds, shutdown, s2pBuf, p2s, p2sBuf, main>>

\* recv returns data; it blocks while there is nothing to return.
S2pRecv(s) ==
  /\ s2p[s] = "recv"
  /\ eop[s] # "gone" /\ read[s] < sent[s]
  /\ LET n == Least(RcvBuffer, sent[s] - read[s]) IN
       /\ s2pBuf' = [s2pBuf EXCEPT ![s] = Bytes(read[s], n)]
       /\ read' = [read EXCEPT ![s] = @ + n]
  /\ s2p' = [s2p EXCEPT ![s] = "send"]
  /\ UNCHANGED <<endVars, wrote, udtq, link, fds, shutdown, p2s, p2sBuf, errno, main>>

\* Variant: the -1 of recv is not tested and is counted as bytes read.
ReadEndUntested(s) ==
  s2p' = [s2p EXCEPT ![s] = "send"] /\ read' = [read EXCEPT ![s] = @ - 1]
ReadEnd(s) == s2p' = [s2p EXCEPT ![s] = "stop"] /\ UNCHANGED read

\* recv returns 0 (end of file) or -1 (reset).
S2pRecvEnd(s) ==
  /\ s2p[s] = "recv"
  /\ eop[s] = "gone" \/ (eop[s] = "eof" /\ read[s] = sent[s])
  /\ ReadEnd(s)
  /\ UNCHANGED <<endVars, wrote, udtq, link, fds, shutdown, s2pBuf, p2s, p2sBuf, errno, main>>

\* A signal interrupts a recv that blocks: its -1 ends the worker.
S2pRecvInterrupted(s) ==
  /\ "eintr" \in Faults[s]
  /\ s2p[s] = "recv" /\ ~ Readable(s)
  /\ s2p' = [s2p EXCEPT ![s] = "stop"]
  /\ errno' = [errno EXCEPT ![s] = "recv"]
  /\ UNCHANGED <<endVars, read, wrote, udtq, link, fds, shutdown, s2pBuf, p2s, p2sBuf, main>>

\* One UDT::send of the writen loop takes what fits; a connection that is lost
\* and not yet known to be lost takes the bytes and drops them.
S2pSend(s) ==
  /\ s2p[s] = "send"
  /\ \E n \in 1..Len(s2pBuf[s]) :
       /\ n <= UdtBuf - Len(udtq[s])
       /\ udtq' = IF Connected(s)
                  THEN [udtq EXCEPT ![s] = @ \o Take(s2pBuf[s], n)] ELSE udtq
       /\ s2pBuf' = [s2pBuf EXCEPT ![s] = Drop(@, n)]
       /\ s2p' = [s2p EXCEPT ![s] = IF n = Len(s2pBuf[s]) THEN "check" ELSE "send"]
  /\ UNCHANGED <<endVars, read, wrote, link, fds, shutdown, p2s, p2sBuf, errno, main>>

\* UDT::send fails, writen returns -1.
S2pSendFails(s) ==
  /\ s2p[s] = "send"
  /\ ~ Connected(s) /\ errno[s] = "none"
  /\ s2p' = [s2p EXCEPT ![s] = "stop"]
  /\ s2pBuf' = [s2pBuf EXCEPT ![s] = <<>>]
  /\ UNCHANGED <<endVars, read, wrote, udtq, link, fds, shutdown, p2s, p2sBuf, errno, main>>

\* UDT::send fails and errno, which UDT does not set, still holds the EINTR of
\* poll: writen takes the error for an interrupted call and sends again, for ever,
\* what data[] holds being lost either way.
S2pSendSpins(s) ==
  /\ s2p[s] = "send"
  /\ ~ Connected(s) /\ errno[s] # "none"
  /\ s2p' = [s2p EXCEPT ![s] = "spin"]
  /\ s2pBuf' = [s2pBuf EXCEPT ![s] = <<>>]
  /\ UNCHANGED <<endVars, read, wrote, udtq, link, fds, shutdown, p2s, p2sBuf, errno, main>>

\* Variant: the flag is not set.
StoppedSilent(s) == shutdown
Stopped(s) == [shutdown EXCEPT ![s] = 1]

\* delete [] data; pCargs->shutdown = 1;
S2pStop(s) ==
  /\ s2p[s] = "stop"
  /\ shutdown' = Stopped(s)
  /\ s2p' = [s2p EXCEPT ![s] = "exit"]
  /\ UNCHANGED <<endVars, read, wrote, udtq, link, fds, s2pBuf, p2s, p2sBuf, errno, main>>

-----------------------------------------------------------------------------
(* peer2sock_worker: UDT -> TCP.                                           *)

\* while (!pCargs->shutdown)
P2sCheck(s) ==
  /\ p2s[s] = "check"
  /\ p2s' = [p2s EXCEPT ![s] = IF shutdown[s] = 1 THEN "stop" ELSE "recv"]
  /\ UNCHANGED <<endVars, read, wrote, udtq, link, fds, shutdown, s2p, s2pBuf, p2sBuf, errno, main>>

\* Variant: the test of the flag after the recv loop, which the code has commented out.
AfterRecvTested(s) == IF shutdown[s] = 1 THEN "stop" ELSE "write"
AfterRecv(s) == "write"

\* UDT::recv returns data, also what arrived before the connection was lost.
P2sRecv(s) ==
  /\ p2s[s] = "recv"
  /\ udtq[Peer(s)] # <<>>
  /\ LET n == Least(RcvBuffer, Len(udtq[Peer(s)])) IN
       /\ p2sBuf' = [p2sBuf EXCEPT ![s] = Take(udtq[Peer(s)], n)]
       /\ udtq' = [udtq EXCEPT ![Peer(s)] = Drop(@, n)]
  /\ p2s' = [p2s EXCEPT ![s] = AfterRecv(s)]
  /\ UNCHANGED <<endVars, read, wrote, link, fds, shutdown, s2p, s2pBuf, errno, main>>

\* UDT_RCVTIMEO passes and recv returns 0: the inner loop ends when it finds
\* shutdown set, with nothing to write.
P2sRecvTimeout(s) ==
  /\ p2s[s] = "recv"
  /\ shutdown[s] = 1
  /\ p2s' = [p2s EXCEPT ![s] = AfterRecv(s)]
  /\ UNCHANGED <<endVars, read, wrote, udtq, link, fds, shutdown, s2p, s2pBuf, p2sBuf, errno, main>>

\* UDT::recv returns UDT::ERROR: the connection is lost and all was received.
P2sRecvErr(s) ==
  /\ p2s[s] = "recv"
  /\ udtq[Peer(s)] = <<>> /\ ~ Connected(s)
  /\ p2s' = [p2s EXCEPT ![s] = "err"]
  /\ UNCHANGED <<endVars, read, wrote, udtq, link, fds, shutdown, s2p, s2pBuf, p2sBuf, errno, main>>

\* pCargs->shutdown = 0; break;
P2sErr(s) ==
  /\ p2s[s] = "err"
  /\ shutdown' = [shutdown EXCEPT ![s] = 0]
  /\ p2s' = [p2s EXCEPT ![s] = "stop"]
  /\ UNCHANGED <<endVars, read, wrote, udtq, link, fds, s2p, s2pBuf, p2sBuf, errno, main>>

\* Variant: one write in place of writen, a short write loses the rest.
RestLost(q, n) == <<>>

\* Variant: writen does not advance its pointer after a short write.
RestAgain(q, n) == Take(q, Len(q) - n)
Rest(q, n) == Drop(q, n)

\* One write of the writen loop takes what fits, or nothing when a signal
\* interrupts it (EINTR); writen of nothing returns.
P2sWrite(s) ==
  /\ p2s[s] = "write"
  /\ \E n \in 0..Len(p2sBuf[s]) :
       /\ n = 0 => p2sBuf[s] = <<>> \/ "eintr" \in Faults[s]
       /\ n > 0 => eop[s] # "gone" /\ n <= TcpBuf - (Len(wrote[s]) - taken[s])
       /\ wrote' = [wrote EXCEPT ![s] = @ \o Take(p2sBuf[s], n)]
       /\ p2sBuf' = [p2sBuf EXCEPT ![s] = Rest(@, n)]
       /\ p2s' = [p2s EXCEPT ![s] = IF n = Len(p2sBuf[s]) THEN "check" ELSE "write"]
  /\ UNCHANGED <<endVars, read, udtq, link, fds, shutdown, s2p, s2pBuf, errno, main>>

\* The endpoint has reset the TCP connection: write fails with an errno of its
\* own and writen returns -1.
P2sWriteFails(s) ==
  /\ p2s[s] = "write"
  /\ eop[s] = "gone" /\ p2sBuf[s] # <<>>
  /\ p2s' = [p2s EXCEPT ![s] = "stop"]
  /\ p2sBuf' = [p2sBuf EXCEPT ![s] = <<>>]
  /\ UNCHANGED <<endVars, read, wrote, udtq, link, fds, shutdown, s2p, s2pBuf, errno, main>>

\* The same write raises SIGPIPE, which nothing handles: the process ends, the
\* kernel closes its descriptors, and its UDT connections break.
P2sWriteSigpipe(s) ==
  /\ "sigpipe" \in Faults[s]
  /\ p2s[s] = "write"
  /\ eop[s] = "gone" /\ p2sBuf[s] # <<>>
  /\ p2s' = [p2s EXCEPT ![s] = "exit"]
  /\ s2p' = [s2p EXCEPT ![s] = "exit"]
  /\ main' = [main EXCEPT ![s] = "dead"]
  /\ fds' = [fds EXCEPT ![s] = {}]
  /\ link' = "broken"
  /\ \E k \in 0..Len(udtq[s]) :
       udtq' = [udtq EXCEPT ![s] = Take(@, k), ![Peer(s)] = <<>>]
  /\ UNCHANGED <<endVars, read, wrote, shutdown, s2pBuf, p2sBuf, errno>>

\* delete [] data; pCargs->shutdown = 1;
P2sStop(s) ==
  /\ p2s[s] = "stop"
  /\ shutdown' = Stopped(s)
  /\ p2s' = [p2s EXCEPT ![s] = "exit"]
  /\ UNCHANGED <<endVars, read, wrote, udtq, link, fds, s2p, s2pBuf, p2sBuf, errno, main>>

-----------------------------------------------------------------------------
(* The tail of start_child.                                                *)

\* pthread_create(&rcvthread, NULL, peer2sock_worker, &cargs);
RcvCreate(s) ==
  /\ main[s] = "rcvcreate"
  /\ main' = [main EXCEPT ![s] = "sndcreate"]
  /\ p2s' = [p2s EXCEPT ![s] = "check"]
  /\ UNCHANGED <<endVars, read, wrote, udtq, link, fds, shutdown, s2p, s2pBuf, p2sBuf, errno>>

\* pthread_create(&sndthread, NULL, sock2peer_worker, &cargs);
SndCreate(s) ==
  /\ main[s] = "sndcreate"
  /\ main' = [main EXCEPT ![s] = "rcvjoin"]
  /\ s2p' = [s2p EXCEPT ![s] = "check"]
  /\ UNCHANGED <<endVars, read, wrote, udtq, link, fds, shutdown, s2pBuf, p2s, p2sBuf, errno>>

\* pthread_join(rcvthread, NULL);
RcvJoin(s) ==
  /\ main[s] = "rcvjoin" /\ p2s[s] = "exit"
  /\ main' = [main EXCEPT ![s] = "sndjoin"]
  /\ UNCHANGED <<endVars, read, wrote, udtq, link, fds, shutdown, workVars>>

\* Variant: the second thread is not joined.
SndEndedAssumed(s) == TRUE
SndEnded(s) == s2p[s] = "exit"

\* pthread_join(sndthread, NULL);
SndJoin(s) ==
  /\ main[s] = "sndjoin" /\ SndEnded(s)
  /\ main' = [main EXCEPT ![s] = "udtclose"]
  /\ UNCHANGED <<endVars, read, wrote, udtq, link, fds, shutdown, workVars>>

\* Variant: close does not linger for what was sent.
LingeredNot(s) == [t \in Side |-> <<>>]
Lingered(s) == [udtq EXCEPT ![Peer(s)] = <<>>]

\* UDT::close(cargs.udtsock): it lingers until the peer holds what was sent;
\* what the peer sent and this side did not receive is discarded.
UdtClose(s) ==
  /\ main[s] = "udtclose"
  /\ main' = [main EXCEPT ![s] = "tcpclose"]
  /\ fds' = [fds EXCEPT ![s] = @ \ {"udt"}]
  /\ udtq' = Lingered(s)
  /\ UNCHANGED <<endVars, read, wrote, link, shutdown, workVars>>

\* The linger time passes first: only a prefix of what was sent arrives.
UdtCloseLingers(s) ==
  /\ "linger" \in Faults[s]
  /\ main[s] = "udtclose"
  /\ main' = [main EXCEPT ![s] = "tcpclose"]
  /\ fds' = [fds EXCEPT ![s] = @ \ {"udt"}]
  /\ \E k \in 0..(Len(udtq[s]) - 1) :
       udtq' = [udtq EXCEPT ![s] = Take(@, k), ![Peer(s)] = <<>>]
  /\ link' = "broken"
  /\ UNCHANGED <<endVars, read, wrote, shutdown, workVars>>

\* close(cargs.tcpsock); return NULL;
TcpClose(s) ==
  /\ main[s] = "tcpclose"
  /\ main' = [main EXCEPT ![s] = "done"]
  /\ fds' = [fds EXCEPT ![s] = @ \ {"tcp"}]
  /\ UNCHANGED <<endVars, read, wrote, udtq, link, shutdown, workVars>>

-----------------------------------------------------------------------------
Endpoint(s) == EndSend(s) \/ EndTake(s) \/ EndEof(s) \/ EndReset(s)

Sock2Peer(s) ==
  \/ S2pCheck(s) \/ S2pPoll(s) \/ S2pRecv(s) \/ S2pRecvEnd(s) \/ S2pRecvInterrupted(s)
  \/ S2pSend(s) \/ S2pSendFails(s) \/ S2pSendSpins(s) \/ S2pStop(s)

Peer2Sock(s) ==
  \/ P2sCheck(s) \/ P2sRecv(s) \/ P2sRecvTimeout(s) \/ P2sRecvErr(s) \/ P2sErr(s)
  \/ P2sWrite(s) \/ P2sWriteFails(s) \/ P2sWriteSigpipe(s) \/ P2sStop(s)

StartChild(s) ==
  \/ RcvCreate(s) \/ SndCreate(s) \/ RcvJoin(s) \/ SndJoin(s)
  \/ UdtClose(s) \/ UdtCloseLingers(s) \/ TcpClose(s)

Next ==
  \/ LinkBreak
  \/ \E s \in Side : Endpoint(s) \/ Sock2Peer(s) \/ Peer2Sock(s) \/ StartChild(s)

Spec == Init /\ [][Next]_vars

\* Threads that can run do run, and the endpoints go on reading; no signal need
\* ever come.
Fairness ==
  \A s \in Side :
    /\ WF_vars(Sock2Peer(s) /\ ~ S2pRecvInterrupted(s))
    /\ WF_vars(Peer2Sock(s)) /\ WF_vars(StartChild(s)) /\ WF_vars(EndTake(s))

FairSpec == Spec /\ Fairness

-----------------------------------------------------------------------------
(* Properties.                                                             *)

\* No buffer of side s overflows: data[] holds rcvbuffer bytes.
Capacity(s) ==
  /\ taken[s] <= Len(wrote[s]) /\ Len(wrote[s]) - taken[s] <= TcpBuf
  /\ read[s] <= sent[s] /\ sent[s] - read[s] <= TcpBuf
  /\ Len(udtq[s]) <= UdtBuf
  /\ Len(s2pBuf[s]) <= RcvBuffer /\ Len(p2sBuf[s]) <= RcvBuffer

\* Types, and the capacity of every buffer the workers read into or write to.
TypeOK ==
  /\ eop \in [Side -> {"open", "eof", "gone"}]
  /\ link \in {"up", "broken"}
  /\ fds \in [Side -> SUBSET {"tcp", "udt"}]
  /\ shutdown \in [Side -> {0, 1}]
  /\ s2p \in [Side -> S2pPC]
  /\ errno \in [Side -> {"none", "poll", "recv"}]
  /\ p2s \in [Side -> P2sPC]
  /\ main \in [Side -> MainPC]
  /\ sent \in [Side -> Nat] /\ taken \in [Side -> Nat] /\ read \in [Side -> Nat]
  /\ wrote \in [Side -> Seq(Nat)] /\ udtq \in [Side -> Seq(Nat)]
  /\ s2pBuf \in [Side -> Seq(Nat)] /\ p2sBuf \in [Side -> Seq(Nat)]
  /\ \A s \in Side : Capacity(s)

\* What is written to a TCP socket is a prefix of what the endpoint at the other
\* end of the tunnel sent: nothing lost in the middle, repeated or reordered,
\* through partial reads, partial writes, resets, breaks and teardown.
StreamIntegrity ==
  \A s \in Side :
    /\ Len(wrote[s]) <= sent[Peer(s)]
    /\ wrote[s] = Bytes(0, Len(wrote[s]))

\* A worker that has ended leaves the stop flag set for the other, although
\* peer2sock_worker writes shutdown = 0 after a recv error: it is then itself
\* about to set the flag.
StopSignalled ==
  \A s \in Side :
    main[s] # "dead" /\ (s2p[s] = "exit" \/ p2s[s] = "exit")
      => shutdown[s] = 1 \/ p2s[s] = "stop"

\* A descriptor is closed only when no worker can use it again.
JoinBeforeClose ==
  \A s \in Side :
    fds[s] # {"tcp", "udt"} => s2p[s] = "exit" /\ p2s[s] = "exit"

\* The bytes read from the TCP socket of side s and not yet written at the other side:
\* in data[] of a worker that will pass it on, and in the UDT connection.
UnderWay(s) ==
  (IF s2p[s] = "send" THEN Len(s2pBuf[s]) ELSE 0) + Len(udtq[s])
    + (IF p2s[Peer(s)] = "write" THEN Len(p2sBuf[Peer(s)]) ELSE 0)

\* The other side can still be given what side s reads: the connection is up, not yet
\* closed over there, and the endpoint over there has not reset.
Carrying(s) == Connected(s) /\ eop[Peer(s)] # "gone"

\* Every byte a worker has read is written or under way until the receiving side
\* calls UDT::close: no timeout, short write or stop flag, of either side and in
\* either direction, loses one.  What the tunnel does lose is lost at that call.
NothingDropped ==
  \A s \in Side : Carrying(s) => Len(wrote[Peer(s)]) + UnderWay(s) = read[s]

\* A signal made a worker give up.
Interrupted == \E s \in Side : errno[s] = "recv"

\* In a transfer one way, the sender's end of file closes the tunnel only after
\* the receiver was given every byte, unless a fault broke the connection or a
\* signal a recv.
OneWayDrains ==
  \A s \in Side :
    /\ link = "up" /\ eop[s] = "eof" /\ ~ Interrupted
    /\ eop[Peer(s)] = "open" /\ sent[Peer(s)] = 0
    /\ main[Peer(s)] = "done"
    => Len(wrote[Peer(s)]) = sent[s]

\* Something ended the connection: the network, or an endpoint.
Ended == link = "broken" \/ \E s \in Side : eop[s] # "open"

\* What can hold the join of side s for ever: a recv that poll did not announce, and
\* a send that writen repeats.  Both need a poll that failed before.
Stuck(s) == s2p[s] = "spin" \/ (s2p[s] = "recv" /\ ~ Readable(s))

\* Once an endpoint ends its output, or the UDT connection breaks, both sides close
\* both descriptors (or die), also when the workers were blocked in writen: neither
\* waits for ever for the other.  The two calls of Stuck are the only exception.
Teardown ==
  Ended ~> \A s \in Side : main[s] \in {"done", "dead"} \/ Stuck(s)

\* The same, or a signal that made a worker give up.
Over == Ended \/ Interrupted

Stream == INSTANCE Pipe WITH
  out <- wrote, open <- [s \in Side |-> "tcp" \in fds[s]], ended <- Over

\* The relay implements the pair of byte streams of module Pipe: each write to a
\* TCP socket delivers the next bytes, to a socket that is still open, and
\* start_child closes a socket only when something ended the connection or
\* a signal interrupted its recv.
ImplementsPipe == Stream!PipeSpec

\* The same drain when data also flows the other way.
EofDrains ==
  \A s \in Side :
    /\ link = "up" /\ eop[s] = "eof" /\ eop[Peer(s)] = "open"
    /\ main[Peer(s)] = "done"
    => Len(wrote[Peer(s)]) = sent[s]

=============================================================================
