----------------------------- MODULE Handshake -----------------------------
(***************************************************************************)
(* The socks4 handshake at the head of start_child, on both sides of one   *)
(* tunnel.  The client child reads the application's request from TCP,     *)
(* opens a UDT connection to the peer, passes the request on and hands the *)
(* peer's reply to the application; the server child reads the request     *)
(* from UDT, connects to the destination and replies.  A child that gets   *)
(* as far as "relay" starts the two workers of module Relay.               *)
(*                                                                         *)
(* A request is a sequence of tokens: the eight bytes of a sock_pkt (what  *)
(* it asks for), the bytes of the user id, the NUL that ends them, and     *)
(* then the application's own data.  A reply is its code, spkt.cd; of one  *)
(* that UDT::recv returned in part, "rest" is what it has yet to return.   *)
(***************************************************************************)
EXTENDS Integers, Sequences

CONSTANTS
  MaxSaid,  \* bound on the tokens the application sends
  Faults    \* the failures of the environment that may happen

\* A sock_pkt by what the two children test in it: vn = 4 and cd = 1, or not.
Packet == {"connect", "badvn", "badcd"}

FaultKind == {"reset", "sigpipe", "break", "bind", "reject", "foreign", "short"}

ASSUME HandshakeAssumption == MaxSaid \in Nat /\ Faults \subseteq FaultKind

VARIABLES
  app,     \* the application: "open", "eof" (sent FIN, still reads) or "gone" (reset)
  said,    \* the tokens the application has sent
  heard,   \* how many of them the client child has received
  answer,  \* the reply code the application has received, "none" before that
  link,    \* the UDT connection: "none", "up" or "broken"
  c2s,     \* tokens under way from client to server
  s2c,     \* reply codes, the rest of one and data under way from server to client
  cpc,     \* client child: program counter
  cpkt,    \*               spkt: the request, or the reply code
  cc,      \*               c: "uninit", "nul" or "other"
  cfd,     \*               descriptors open
  spc,     \* server child: program counter
  spkt,    \*               spkt
  sfd,     \*               descriptors open
  dest     \* the destination has accepted the server's connection

appVars == <<app, said, heard, answer>>
cVars == <<cpc, cpkt, cc, cfd>>
sVars == <<spc, spkt, sfd, dest>>
vars == <<app, said, heard, answer, link, c2s, s2c, cpc, cpkt, cc, cfd,
          spc, spkt, sfd, dest>>

\* The request: complete once the NUL was sent.
Complete == \E i \in 1..Len(said) : said[i] = "nul"

\* The other end of the UDT connection is still there.
ClientLinked == link = "up" /\ "udt" \in sfd
ServerLinked == link = "up" /\ "udt" \in cfd

Init ==
  /\ app = "open" /\ said = <<>> /\ heard = 0 /\ answer = "none"
  /\ link = "none" /\ c2s = <<>> /\ s2c = <<>>
  /\ cpc = "idle" /\ cpkt = "connect" /\ cc = "uninit" /\ cfd = {}
  /\ spc = "idle" /\ spkt = "connect" /\ sfd = {} /\ dest = FALSE

-----------------------------------------------------------------------------
(* The application and the network.                                        *)

\* The application sends the next token of its request, or data.
AppSend ==
  /\ app = "open" /\ "tcp" \in cfd /\ Len(said) < MaxSaid
  /\ \E tok \in IF said = <<>> THEN Packet
                ELSE IF Complete THEN {"data"} ELSE {"user", "nul"} :
       said' = Append(said, tok)
  /\ UNCHANGED <<app, heard, answer, link, c2s, s2c, cVars, sVars>>

\* The application ends its output, maybe in the middle of the request.
AppEof ==
  /\ app = "open" /\ "tcp" \in cfd
  /\ app' = "eof"
  /\ UNCHANGED <<said, heard, answer, link, c2s, s2c, cVars, sVars>>

\* The application resets the connection.
AppReset ==
  /\ "reset" \in Faults
  /\ app # "gone" /\ "tcp" \in cfd
  /\ app' = "gone"
  /\ UNCHANGED <<said, heard, answer, link, c2s, s2c, cVars, sVars>>

\* The UDT connection breaks; of the tokens under way only a prefix arrives.
LinkBreak ==
  /\ "break" \in Faults
  /\ link = "up"
  /\ link' = "broken"
  /\ \E i \in 0..Len(c2s), j \in 0..Len(s2c) :
       c2s' = SubSeq(c2s, 1, i) /\ s2c' = SubSeq(s2c, 1, j)
  /\ UNCHANGED <<appVars, cVars, sVars>>

\* Some other program at the peer's address connects to the UDT port and sends
\* any packet and user id; it takes the place of the client child.
Foreign ==
  /\ "foreign" \in Faults
  /\ cpc = "idle"
  /\ cpc' = "foreign" /\ cfd' = {"udt"} /\ sfd' = {"udt"} /\ link' = "up"
  /\ \E p \in Packet : c2s' = <<p, "nul">> \/ c2s' = <<p>>
  /\ UNCHANGED <<appVars, s2c, cpkt, cc, spc, spkt, dest>>

ForeignClose ==
  /\ cpc = "foreign"
  /\ cpc' = "closed" /\ cfd' = {}
  /\ UNCHANGED <<appVars, link, c2s, s2c, cpkt, cc, sVars>>

-----------------------------------------------------------------------------
(* start_child, tcp -> udt.                                                *)

\* The listening process accepts the application and starts the child, which
\* first makes its UDT socket.
CStart ==
  /\ cpc = "idle"
  /\ cpc' = "request" /\ cfd' = {"tcp", "udt"}
  /\ UNCHANGED <<appVars, link, c2s, s2c, cpkt, cc, sVars>>

\* recv on the application's socket returns data, or an end of file or an error.
AppData == app # "gone" /\ heard < Len(said)
AppEnded == app = "gone" \/ (app = "eof" /\ heard = Len(said))

\* recv(..., MSG_WAITALL) of the packet.  Its result is not tested: after an end
\* of file or an error spkt keeps whatever the stack held.
CRequest ==
  /\ cpc = "request"
  /\ \/ AppData /\ cpkt' = said[heard + 1] /\ heard' = heard + 1
     \/ AppEnded /\ cpkt' \in Packet /\ UNCHANGED heard
  /\ cpc' = "check"
  /\ UNCHANGED <<app, said, answer, link, c2s, s2c, cc, cfd, sVars>>

\* send(cargs.tcpsock, &spkt, ...) with the code: nothing tests its result.
TellApp(code) == answer' = IF app = "gone" THEN answer ELSE code

\* Version, then command; a wrong command is answered with 90.
CCheck ==
  /\ cpc = "check"
  /\ \/ cpkt = "connect" /\ cpc' = "userid" /\ UNCHANGED answer
     \/ cpkt = "badvn" /\ TellApp("91") /\ cpc' = "close"
     \/ cpkt = "badcd" /\ TellApp("90") /\ cpc' = "close"
  /\ UNCHANGED <<app, said, heard, link, c2s, s2c, cpkt, cc, cfd, sVars>>

\* do { recv(&c, 1) } while (c != 0).  Its result is not tested: after an end of
\* file or an error c keeps its value, which was never set if no byte came, and
\* the loop spins on a value other than 0.
CUserid ==
  /\ cpc = "userid"
  /\ \/ /\ AppData /\ heard' = heard + 1
        /\ cc' = IF said[heard + 1] = "nul" THEN "nul" ELSE "other"
     \/ /\ AppEnded
        /\ cc' \in IF cc = "uninit" THEN {"nul", "other"} ELSE {cc}
        /\ UNCHANGED heard
  /\ cpc' = IF cc' = "nul" THEN "bind" ELSE "userid"
  /\ UNCHANGED <<app, said, answer, link, c2s, s2c, cpkt, cfd, sVars>>

\* The process ends and the kernel closes its descriptors.
CDie ==
  /\ cpc' = "dead" /\ cfd' = {}
  /\ link' = IF link = "up" THEN "broken" ELSE link
  /\ UNCHANGED <<appVars, c2s, s2c, cpkt, cc, sVars>>

\* UDT::bind; a failure ends the whole process (log_die).
CBind ==
  /\ cpc = "bind"
  /\ cpc' = "connect"
  /\ UNCHANGED <<appVars, link, c2s, s2c, cpkt, cc, cfd, sVars>>

CBindFails == "bind" \in Faults /\ cpc = "bind" /\ CDie

\* UDT::connect; the peer's library makes the socket that accept will return.
CConnect ==
  /\ cpc = "connect"
  /\ cpc' = "reqsend" /\ link' = "up" /\ sfd' = {"udt"}
  /\ UNCHANGED <<appVars, c2s, s2c, cpkt, cc, cfd, spc, spkt, dest>>

\* Variant: no break after the refusal.
AfterRefusalGoesOn == "reqsend"
AfterRefusal == "close"

CConnectFails ==
  /\ cpc = "connect"
  /\ TellApp("92") /\ cpc' = AfterRefusal
  /\ UNCHANGED <<app, said, heard, link, c2s, s2c, cpkt, cc, cfd, sVars>>

\* Variant: the empty user id is not sent.
AfterSendSkipsNul == "reply"
AfterSend == IF cpc = "reqsend" THEN "nulsend" ELSE "reply"

\* The two UDT::send of the request: the packet, then an empty user id.
CForward ==
  /\ cpc \in {"reqsend", "nulsend"}
  /\ LET tok == IF cpc = "reqsend" THEN cpkt ELSE "nul" IN
       c2s' = IF ClientLinked THEN Append(c2s, tok) ELSE c2s
  /\ cpc' = AfterSend
  /\ UNCHANGED <<appVars, link, s2c, cpkt, cc, cfd, sVars>>

\* Variant: the loop also goes on after an error.
ReplyLostIgnored == FALSE
ReplyLost == s2c = <<>> /\ ~ ClientLinked

\* while (UDT::recv(...) == 0): an error ends the loop like a reply, and leaves
\* the request in spkt, with cd = 1.
CReply ==
  /\ cpc = "reply"
  /\ \/ s2c # <<>> /\ cpkt' = Head(s2c) /\ s2c' = Tail(s2c)
     \/ ReplyLost /\ cpkt' = "1" /\ UNCHANGED s2c
  /\ cpc' = "answer"
  /\ UNCHANGED <<appVars, link, c2s, cc, cfd, sVars>>

\* Any positive count ends the loop too: a reply of which fewer than sizeof(spkt) bytes
\* are there is taken in part, with its code if two bytes came and with the request's
\* cd = 1 if one did.  The rest stays in front of whoever reads next.
CReplyShort ==
  /\ "short" \in Faults
  /\ cpc = "reply" /\ s2c # <<>>
  /\ cpkt' \in {Head(s2c), "1"} /\ s2c' = [s2c EXCEPT ![1] = "rest"]
  /\ cpc' = "answer"
  /\ UNCHANGED <<appVars, link, c2s, cc, cfd, sVars>>

\* The reply goes to the application; only 90 leads on to the workers.
CAnswer ==
  /\ cpc = "answer"
  /\ TellApp(cpkt)
  /\ cpc' = IF cpkt = "90" THEN "relay" ELSE "close"
  /\ UNCHANGED <<app, said, heard, link, c2s, s2c, cpkt, cc, cfd, sVars>>

\* A send to an application that has reset raises SIGPIPE, which ends the process.
CSigpipe ==
  /\ "sigpipe" \in Faults
  /\ app = "gone"
  /\ cpc \in {"connect", "answer"} \/ (cpc = "check" /\ cpkt # "connect")
  /\ CDie

\* UDT::close(cargs.udtsock); close(cargs.tcpsock);
CClose ==
  /\ cpc = "close"
  /\ cpc' = "closed" /\ cfd' = {} /\ s2c' = <<>>
  /\ UNCHANGED <<appVars, link, c2s, cpkt, cc, sVars>>

-----------------------------------------------------------------------------
(* start_child, udt -> tcp.                                                *)

\* main accepts the connection and starts the child, which makes its TCP socket.
SStart ==
  /\ spc = "idle" /\ link # "none"
  /\ spc' = "request" /\ sfd' = sfd \cup {"tcp"}
  /\ UNCHANGED <<appVars, link, c2s, s2c, cVars, spkt, dest>>

\* main finds that the peer's address does not match and calls close, not
\* UDT::close, on the UDT socket: the connection stays up and nobody serves it.
SReject ==
  /\ "reject" \in Faults
  /\ spc = "idle" /\ link # "none"
  /\ spc' = "rejected"
  /\ UNCHANGED <<appVars, link, c2s, s2c, cVars, spkt, sfd, dest>>

\* for (p = spktp; p < spktp + sizeof(spkt);) p += UDT::recv(...): an error moves
\* p one back, and the loop spins: the child stays here.
SRequest ==
  /\ spc = "request"
  /\ c2s # <<>>
  /\ spkt' = Head(c2s) /\ c2s' = Tail(c2s)
  /\ spc' = "check"
  /\ UNCHANGED <<appVars, link, s2c, cVars, sfd, dest>>

\* Variant: the code is not put into the packet that is sent back.
TellClientEcho(code) == s2c' = IF ServerLinked THEN Append(s2c, spkt) ELSE s2c

\* UDT::send of a reply code.
TellClient(code) == s2c' = IF ServerLinked THEN Append(s2c, code) ELSE s2c

\* Variant: the user id is not read.
AfterPacketAccess == "access"
AfterPacket == "userid"

\* Version and command; a wrong one is refused, and the child returns at once.
SCheck ==
  /\ spc = "check"
  /\ \/ spkt = "connect" /\ spc' = AfterPacket /\ UNCHANGED s2c
     \/ spkt # "connect" /\ TellClient("91") /\ spc' = "returned"
  /\ UNCHANGED <<appVars, link, c2s, cVars, spkt, sfd, dest>>

\* Variant: the end of the user id is missed.
LastByteNever(c) == FALSE
LastByte(c) == c = "nul"

\* do { UDT::recv(&c, 1) } while (c != 0): after an error c, never set, may be
\* any value; a value other than 0 spins.
SUserid ==
  /\ spc = "userid"
  /\ \/ c2s # <<>> /\ c2s' = Tail(c2s) /\ spc' = IF LastByte(Head(c2s)) THEN "access" ELSE spc
     \/ c2s = <<>> /\ ~ ServerLinked /\ UNCHANGED c2s /\ spc' \in {"access", "spin"}
  /\ UNCHANGED <<appVars, link, s2c, cVars, spkt, sfd, dest>>

\* check_source on the destination: refused with 92 or allowed.
SAccess ==
  /\ spc = "access"
  /\ \/ spc' = "connect" /\ UNCHANGED s2c
     \/ TellClient("92") /\ spc' = "close"
  /\ UNCHANGED <<appVars, link, c2s, cVars, spkt, sfd, dest>>

\* Variant: the result of connect is not tested.
ConnectUntested(ok) == FALSE
ConnectFailed(ok) == ~ ok

\* connect to the destination: success, or 92.
SConnect ==
  /\ spc = "connect"
  /\ \E ok \in BOOLEAN :
       /\ dest' = ok
       /\ IF ConnectFailed(ok) THEN TellClient("92") /\ spc' = "close"
                              ELSE spc' = "answer" /\ UNCHANGED s2c
  /\ UNCHANGED <<appVars, link, c2s, cVars, spkt, sfd>>

SAnswer ==
  /\ spc = "answer"
  /\ TellClient("90") /\ spc' = "relay"
  /\ UNCHANGED <<appVars, link, c2s, cVars, spkt, sfd, dest>>

\* The workers of the server pass on what the destination says first.
SData ==
  /\ spc = "relay" /\ Len(s2c) < 2
  /\ TellClient("data")
  /\ UNCHANGED <<appVars, link, c2s, cVars, sVars>>

\* UDT::close(cargs.udtsock); close(cargs.tcpsock);
SClose ==
  /\ spc = "close"
  /\ spc' = "closed" /\ sfd' = {} /\ c2s' = <<>>
  /\ UNCHANGED <<appVars, link, s2c, cVars, spkt, dest>>

-----------------------------------------------------------------------------
Client ==
  \/ CStart \/ CRequest \/ CCheck \/ CUserid \/ CBind \/ CBindFails \/ CConnect
  \/ CConnectFails \/ CForward \/ CReply \/ CReplyShort \/ CAnswer \/ CSigpipe
  \/ CClose

Server ==
  \/ SStart \/ SReject \/ SRequest \/ SCheck \/ SUserid \/ SAccess \/ SConnect
  \/ SAnswer \/ SClose

Environment == AppSend \/ AppEof \/ AppReset \/ LinkBreak \/ Foreign \/ ForeignClose \/ SData

Next == Client \/ Server \/ Environment

Spec == Init /\ [][Next]_vars

\* Both children run; nothing is assumed of the application or the network.
FairSpec == Spec /\ WF_vars(Client) /\ WF_vars(Server)

-----------------------------------------------------------------------------
(* Properties.                                                             *)

HTypeOK ==
  /\ app \in {"open", "eof", "gone"}
  /\ said \in Seq(Packet \cup {"user", "nul", "data"}) /\ Len(said) <= MaxSaid
  /\ heard \in 0..Len(said)
  /\ answer \in {"none", "1", "90", "91", "92"}
  /\ link \in {"none", "up", "broken"}
  /\ c2s \in Seq(Packet \cup {"nul"}) /\ s2c \in Seq({"90", "91", "92", "rest", "data"})
  /\ cpc \in {"idle", "foreign", "request", "check", "userid", "bind", "connect", "reqsend",
              "nulsend", "reply", "answer", "relay", "close", "closed", "dead"}
  /\ cc \in {"uninit", "nul", "other"}
  /\ cfd \subseteq {"tcp", "udt"} /\ sfd \subseteq {"tcp", "udt"}
  /\ spc \in {"idle", "rejected", "request", "check", "userid", "access", "connect", "answer",
              "relay", "close", "closed", "returned", "spin"}
  /\ dest \in BOOLEAN

\* An application that asked to connect is told 90 only when the destination has
\* accepted the connection.
GrantedMeansConnected ==
  said # <<>> /\ said[1] = "connect" /\ answer = "90" => dest

\* Both ends leave the handshake together, and workers that start find application data
\* in front of them and no other piece of the handshake than this one: the rest of a
\* reply whose first bytes, the 90 among them, were all that UDT::recv had when it
\* ended the client's loop.  It then precedes the data the application gets.
CleanStart ==
  /\ cpc = "relay" =>
       /\ spc = "relay"
       /\ \A i \in 1..Len(s2c) : s2c[i] = "data" \/ (i = 1 /\ s2c[i] = "rest")
       /\ app # "gone" => \A i \in (heard + 1)..Len(said) : said[i] = "data"
  /\ spc = "relay" => c2s = <<>>

\* The children never wait for each other: while the client child is in UDT::recv with
\* no reply on its way and the connection stands, the server child has what it reads
\* next in front of it, or needs nothing more from the client to reply.  Only a peer
\* that main rejected by its address leaves the client waiting.
NoStandoff ==
  cpc = "reply" /\ s2c = <<>> /\ ClientLinked =>
    \/ spc \in {"idle", "rejected", "check", "access", "connect", "answer"}
    \/ spc \in {"request", "userid"} /\ c2s # <<>>

\* The first reply is the last: nothing but relayed data follows it.
AnsweredOnce == [][answer # "none" => answer' = answer]_vars

\* An application that sent a whole request to connect, and stays, is answered, and
\* its child relays or has closed both descriptors: no refusal and no link that
\* breaks at any point leaves it waiting.  Only a peer that main rejects by its
\* address, without closing its connection, never answers.
Answered ==
  (Complete /\ said[1] = "connect")
    ~> \/ answer # "none" /\ cpc \in {"relay", "closed"}
       \/ app = "gone" \/ cpc = "dead" \/ spc = "rejected"

\* The server child is still reading the request of a peer that has gone, or that
\* is no relay and may never send it: recv fails or waits for ever.
Deserted == spc \in {"request", "userid", "spin"} /\ (~ ServerLinked \/ cpc = "foreign")

\* A server child that has started reaches the workers or ends, unless its peer
\* goes while it is still reading the request: then it spins for ever.
ServerChildEnds == spc = "request" ~> (spc \in {"relay", "closed", "returned"} \/ Deserted)

=============================================================================
