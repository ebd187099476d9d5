-------------------------- MODULE HandshakeProofs --------------------------
(***************************************************************************)
(* The safety of the socks4 handshake, for requests of any length and any  *)
(* set of faults: the types, GrantedMeansConnected, CleanStart, NoStandoff *)
(* and AnsweredOnce.  The inductive invariant says, for each place of the  *)
(* two children, what is under way between them in both directions.        *)
(***************************************************************************)
EXTENDS Handshake, TLAPS

\* The client child has read the request and waits, or is about to, for the reply.
Asking == {"reqsend", "nulsend", "reply"}

\* The places of the client child before its connection is up.
Before == {"idle", "request", "check", "userid", "bind", "connect"}

\* The places of the server child before and after it has read the packet.
Unread == {"idle", "rejected", "request"}
Reading == {"check", "userid"}
Through == {"access", "connect", "answer", "relay", "spin"}

\* Before the UDT connection there is no server child and nothing under way; as long
\* as the client child waits for the reply it keeps its end.
Unlinked ==
  /\ cpc \in Before => link = "none"
  /\ link = "none" => spc = "idle" /\ c2s = <<>> /\ s2c = <<>>
  /\ cpc \in Asking \cup {"connect", "bind", "userid", "check", "request"} => "udt" \in cfd

\* The request, as the application sent it and as the client child has it.
Request ==
  /\ said = <<>> /\ app = "open" =>
       cpc \in {"idle", "foreign", "closed", "request"} /\ answer = "none"
  /\ cpc \in {"idle", "request"} => heard = 0
  /\ cpc = "check" /\ cpkt # "connect" /\ said # <<>> /\ said[1] = "connect" => app = "gone"
  /\ cpc \in {"userid", "bind", "connect"} \cup Asking => cpkt = "connect"

\* The NUL is followed by data only, and a client child past the user id has the
\* NUL, or the application has ended.
UserId ==
  /\ \A i \in 1..Len(said) : said[i] = "nul" => \A j \in (i + 1)..Len(said) : said[j] = "data"
  /\ cpc \in {"bind", "connect", "answer", "relay"} \cup Asking =>
       AppEnded \/ \E i \in 1..heard : said[i] = "nul"

\* What is under way to the server child is what it has yet to read of a packet
\* and a NUL.
Upstream ==
  /\ spc \in Unread =>
       /\ Len(c2s) <= 2
       /\ Len(c2s) >= 1 => c2s[1] \in Packet
       /\ Len(c2s) = 2 => c2s[2] = "nul"
  /\ spc \in Reading => Len(c2s) <= 1 /\ (Len(c2s) = 1 => c2s[1] = "nul")
  /\ spc \in Through => c2s = <<>>
  /\ cpc = "reqsend" => spc \in Unread /\ c2s = <<>>
  /\ cpc = "nulsend" /\ ClientLinked =>
       /\ spc \in Unread => Len(c2s) = 1
       /\ spc \in Reading => c2s = <<>>
       /\ spc \notin Through

\* What is under way to the client child: nothing before the server child replies,
\* then one code, then data if the code was 90.  The rest of a reply takes its place.
Downstream ==
  /\ spc \in Unread \cup Reading \cup {"access", "connect", "answer", "spin"} => s2c = <<>>
  /\ spc \in {"close", "closed", "returned"} =>
       \A i \in 1..Len(s2c) : s2c[i] \in {"91", "92", "rest"}
  /\ spc = "relay" =>
       /\ \A i \in 1..Len(s2c) : i > 1 => s2c[i] = "data"
       /\ s2c # <<>> => s2c[1] \in {"90", "rest", "data"}
       /\ cpc \in Asking =>
            /\ s2c # <<>> => s2c[1] = "90"
            /\ ServerLinked => s2c # <<>>
  /\ cpc \in Asking /\ s2c # <<>> => s2c[1] # "rest"

\* The server child has granted the tunnel.
Granting == spc = "relay" /\ dest

\* Whoever knows of a 90 knows it from a server child that granted the tunnel.
Grant ==
  /\ spc \in {"answer", "relay"} => dest
  /\ cpc = "answer" => cpkt \in {"1", "90", "91", "92"}
  /\ cpc = "relay" \/ (cpc = "answer" /\ cpkt = "90") =>
       Granting /\ \A i \in 1..Len(s2c) : s2c[i] = "data" \/ (i = 1 /\ s2c[i] = "rest")
  /\ answer = "90" /\ said # <<>> /\ said[1] = "connect" => Granting
  /\ answer # "none" => cpc \in {"relay", "close", "closed", "dead"}

\* What a client child that waits can count on, as long as the connection stands: the
\* server child has not given up, it has replied before it leaves, and what it has yet
\* to read of the request is all under way.
Waiting ==
  /\ spc = "closed" => sfd = {}
  /\ cpc \in Asking /\ link = "up" =>
       /\ spc # "spin"
       /\ spc \in {"close", "returned"} => s2c # <<>>
  /\ cpc = "reply" /\ ClientLinked =>
       /\ spc \in Unread => Len(c2s) = 2
       /\ spc \in Reading => Len(c2s) = 1

HInv == HTypeOK /\ Unlinked /\ Request /\ UserId /\ Upstream /\ Downstream /\ Grant

-----------------------------------------------------------------------------
(* The operators on sequences that the actions use.                        *)

\* What is put at the end of a channel is last, and moves nothing.
LEMMA AppendFacts ==
  ASSUME NEW S, NEW q \in Seq(S), NEW e \in S
  PROVE  /\ Append(q, e) \in Seq(S) /\ Append(q, e) # <<>>
         /\ Len(Append(q, e)) = Len(q) + 1
         /\ \A i \in 1..Len(q) : Append(q, e)[i] = q[i]
         /\ Append(q, e)[Len(q) + 1] = e
  OBVIOUS

\* What is taken from a channel was first, and the rest moves up.
LEMMA TailFacts ==
  ASSUME NEW S, NEW q \in Seq(S), q # <<>>
  PROVE  /\ Tail(q) \in Seq(S) /\ Len(Tail(q)) = Len(q) - 1
         /\ \A i \in 1..Len(Tail(q)) : Tail(q)[i] = q[i + 1]
         /\ Head(q) = q[1] /\ Head(q) \in S /\ Len(q) >= 1
  OBVIOUS

\* A broken connection leaves a prefix of what was under way.
LEMMA CutFacts ==
  ASSUME NEW S, NEW q \in Seq(S), NEW k \in 0..Len(q)
  PROVE  /\ SubSeq(q, 1, k) \in Seq(S) /\ Len(SubSeq(q, 1, k)) = k
         /\ \A i \in 1..k : SubSeq(q, 1, k)[i] = q[i]
  OBVIOUS

\* What is taken in part leaves its rest in its place.
LEMMA PutBack ==
  ASSUME NEW S, NEW q \in Seq(S), q # <<>>, NEW e \in S
  PROVE  /\ [q EXCEPT ![1] = e] \in Seq(S)
         /\ Len([q EXCEPT ![1] = e]) = Len(q) /\ Len(q) \in Nat /\ Len(q) >= 1
         /\ Head(q) = q[1]
         /\ \A i \in 1..Len(q) : [q EXCEPT ![1] = e][i] = IF i = 1 THEN e ELSE q[i]
  OBVIOUS

\* A channel is empty when nothing is in it.
LEMMA EmptyFacts ==
  ASSUME NEW S, NEW q \in Seq(S)
  PROVE  q = <<>> <=> Len(q) = 0
  OBVIOUS

\* The first code of the server child is, or is not, under way.
LEMMA FirstReply ==
  ASSUME s2c = <<>>, NEW code \in {"90", "91", "92"}, s2c' = s2c \/ TellClient(code)
  PROVE  /\ s2c' \in Seq({"90", "91", "92", "rest", "data"})
         /\ \A i \in 1..Len(s2c') : i = 1 /\ s2c'[i] = code
         /\ s2c' # <<>> => s2c'[1] = code
         /\ TellClient(code) /\ ServerLinked => s2c' # <<>>
<1>1. s2c' = <<>> \/ s2c' = <<code>>
  BY DEF TellClient
<1>2. CASE s2c' = <<>>
  BY <1>2 DEF TellClient
<1>3. CASE s2c' = <<code>>
  BY <1>3
<1> QED
  BY <1>1, <1>2, <1>3

\* What is left of Upstream when only a prefix of what is under way arrives.
LEMMA UpstreamCut ==
  ASSUME Upstream, ~ ClientLinked', cpc' = cpc, spc' = spc, Len(c2s) \in Nat,
         NEW n \in Nat, n <= Len(c2s), Len(c2s') = n,
         n >= 1 => c2s'[1] = c2s[1], n = 2 => c2s'[2] = c2s[2],
         c2s = <<>> <=> Len(c2s) = 0, c2s' = <<>> <=> n = 0
  PROVE  Upstream'
<1> USE DEF Unread, Reading, Through
<1>1. c2s = <<>> => c2s' = <<>>
  OBVIOUS
<1>2. CASE spc \in Unread
  <2>1. Len(c2s) <= 2 /\ (Len(c2s) >= 1 => c2s[1] \in Packet) /\ (Len(c2s) = 2 => c2s[2] = "nul")
    BY <1>2 DEF Upstream
  <2>2. Len(c2s') <= 2 /\ (Len(c2s') >= 1 => c2s'[1] \in Packet) /\ (Len(c2s') = 2 => c2s'[2] = "nul")
    BY <2>1
  <2>3. cpc' = "reqsend" => c2s' = <<>>
    BY <1>1 DEF Upstream
  <2> QED
    BY <1>2, <2>2, <2>3 DEF Upstream
<1>3. CASE spc \in Reading
  <2>1. Len(c2s) <= 1 /\ (Len(c2s) = 1 => c2s[1] = "nul") /\ cpc # "reqsend"
    BY <1>3 DEF Upstream
  <2>2. Len(c2s') <= 1 /\ (Len(c2s') = 1 => c2s'[1] = "nul")
    BY <2>1
  <2> QED
    BY <1>3, <2>1, <2>2 DEF Upstream
<1>4. CASE spc \notin Unread /\ spc \notin Reading
  BY <1>1, <1>4 DEF Upstream
<1> QED
  BY <1>2, <1>3, <1>4

-----------------------------------------------------------------------------
\* Every step of the children, the application and the network keeps the invariant.
LEMMA HInvStep == HInv /\ [Next]_vars => HInv'
<1> SUFFICES ASSUME HInv, [Next]_vars PROVE HInv'
  OBVIOUS
<1> USE DEF HInv, HTypeOK, Unlinked, Request, UserId, Upstream, Downstream, Grant, Granting,
            Asking, Before, Unread, Reading, Through, Packet, AppData, AppEnded,
            ClientLinked, ServerLinked, appVars, cVars, sVars
<1>1. CASE AppSend
  <2> DEFINE Tok == Packet \cup {"user", "nul", "data"}
  <2>1. PICK tok \in Tok :
          /\ said' = Append(said, tok) /\ app = "open"
          /\ said = <<>> => tok \in Packet
          /\ said # <<>> /\ Complete => tok = "data"
          /\ said # <<>> /\ ~ Complete => tok \in {"user", "nul"}
    BY <1>1 DEF AppSend
  <2>2. /\ said' \in Seq(Tok) /\ said' # <<>> /\ Len(said') = Len(said) + 1
        /\ \A i \in 1..Len(said) : said'[i] = said[i]
        /\ said'[Len(said) + 1] = tok
    BY <2>1, AppendFacts
  <2>3. Len(said) \in Nat /\ (said = <<>> <=> Len(said) = 0)
    BY EmptyFacts
  <2>4. UserId'
    <3>1. ASSUME NEW n \in 1..Len(said'), said'[n] = "nul", NEW j \in (n + 1)..Len(said')
          PROVE  said'[j] = "data"
      <4>1. n \in 1..Len(said) /\ said[n] = "nul"
        BY <2>2, <2>3, <3>1
      <4>2. CASE j \in 1..Len(said)
        <5>1. \A k \in (n + 1)..Len(said) : said[k] = "data"
          BY <4>1
        <5>2. j \in (n + 1)..Len(said) /\ said'[j] = said[j]
          <6> HIDE DEF HInv
          <6> QED
            BY <2>2, <2>3, <4>1, <4>2
        <5> QED
          BY <5>1, <5>2
      <4>3. CASE j = Len(said) + 1
        BY <2>1, <2>2, <2>3, <4>1, <4>3 DEF Complete
      <4>4. j \in 1..Len(said) \/ j = Len(said) + 1
        <5> HIDE DEF HInv
        <5> QED
          BY <2>2, <2>3, <4>1
      <4> QED
        BY <4>2, <4>3, <4>4
    <3>2. ASSUME cpc \in {"bind", "connect", "answer", "relay"} \cup Asking
          PROVE  \E n \in 1..heard : said'[n] = "nul"
      BY <2>1, <2>2, <2>3, <3>2
    <3> QED
      BY <1>1, <3>1, <3>2 DEF AppSend
  <2>5. HTypeOK'
    BY <1>1, <2>1, <2>2, <2>3, HandshakeAssumption DEF AppSend
  <2>6. Unlinked' /\ Request'
    BY <1>1, <2>1, <2>2, <2>3 DEF AppSend
  <2>7. Upstream' /\ Downstream'
    BY <1>1 DEF AppSend
  <2>8. Grant'
    BY <1>1, <2>1, <2>2, <2>3 DEF AppSend
  <2> QED
    BY <2>4, <2>5, <2>6, <2>7, <2>8
<1>2. CASE AppEof
  BY <1>2 DEF AppEof
<1>3. CASE AppReset
  BY <1>3 DEF AppReset
<1>4. CASE LinkBreak
  <2> HIDE DEF HTypeOK, Unlinked, Request, UserId, Upstream, Downstream, Grant, Packet
  <2>0. c2s \in Seq(Packet \cup {"nul"}) /\ s2c \in Seq({"90", "91", "92", "rest", "data"})
    BY DEF HTypeOK
  <2>1. PICK i \in 0..Len(c2s), j \in 0..Len(s2c) :
          c2s' = SubSeq(c2s, 1, i) /\ s2c' = SubSeq(s2c, 1, j)
    BY <1>4 DEF LinkBreak
  <2>2. /\ c2s' \in Seq(Packet \cup {"nul"}) /\ Len(c2s') = i /\ Len(c2s) \in Nat
        /\ \A n \in 1..i : c2s'[n] = c2s[n]
        /\ c2s = <<>> <=> Len(c2s) = 0
        /\ c2s' = <<>> <=> i = 0
    <3>1. /\ c2s' \in Seq(Packet \cup {"nul"}) /\ Len(c2s') = i
          /\ \A n \in 1..i : c2s'[n] = c2s[n]
      BY <2>0, <2>1, CutFacts
    <3> QED
      BY <2>0, <3>1, EmptyFacts
  <2>3. /\ s2c' \in Seq({"90", "91", "92", "rest", "data"}) /\ Len(s2c') = j /\ Len(s2c) \in Nat
        /\ \A n \in 1..j : s2c'[n] = s2c[n]
        /\ s2c = <<>> <=> Len(s2c) = 0
        /\ s2c' = <<>> <=> j = 0
    <3>1. /\ s2c' \in Seq({"90", "91", "92", "rest", "data"}) /\ Len(s2c') = j
          /\ \A n \in 1..j : s2c'[n] = s2c[n]
      BY <2>0, <2>1, CutFacts
    <3> QED
      BY <2>0, <3>1, EmptyFacts
  <2>4. /\ link = "up" /\ link' = "broken"
        /\ UNCHANGED <<app, said, heard, answer, cpc, cpkt, cc, cfd, spc, spkt, sfd, dest>>
    BY <1>4 DEF LinkBreak
  <2>5. HTypeOK'
    BY <2>2, <2>3, <2>4 DEF HTypeOK
  <2>6. Unlinked' /\ Request' /\ UserId'
    BY <2>4 DEF Unlinked, Request, UserId
  <2>7. Upstream'
    <3>1. /\ i \in Nat /\ i <= Len(c2s)
          /\ i >= 1 => c2s'[1] = c2s[1]
          /\ i = 2 => c2s'[2] = c2s[2]
      BY <2>2
    <3> QED
      BY <2>2, <2>4, <3>1, UpstreamCut
  <2>8. Downstream'
    BY <2>3, <2>4 DEF Downstream
  <2>9. Grant'
    BY <2>3, <2>4 DEF Grant
  <2> QED
    BY <2>5, <2>6, <2>7, <2>8, <2>9
<1>5. CASE Foreign
  <2> HIDE DEF HTypeOK, Unlinked, Request, UserId, Upstream, Downstream, Grant, Packet
  <2>1. PICK p \in Packet : c2s' = <<p, "nul">> \/ c2s' = <<p>>
    BY <1>5 DEF Foreign
  <2>2. /\ c2s' \in Seq(Packet \cup {"nul"}) /\ Len(c2s') \in 1..2
        /\ c2s'[1] \in Packet /\ (Len(c2s') = 2 => c2s'[2] = "nul")
    <3>1. CASE c2s' = <<p, "nul">>
      BY <3>1
    <3>2. CASE c2s' = <<p>>
      BY <3>2
    <3> QED
      BY <2>1, <3>1, <3>2
  <2>3. /\ spc' = "idle" /\ cpc = "idle" /\ cpc' = "foreign" /\ s2c' = s2c /\ link' = "up"
        /\ UNCHANGED <<app, said, heard, answer, cpkt, cc, dest>> /\ cfd' = {"udt"} /\ sfd' = {"udt"}
    BY <1>5 DEF Foreign, Unlinked
  <2>4. HTypeOK'
    BY <2>2, <2>3 DEF HTypeOK
  <2>5. Unlinked' /\ Request' /\ UserId'
    BY <2>3 DEF Unlinked, Request, UserId
  <2>6. Upstream'
    BY <2>2, <2>3 DEF Upstream
  <2>7. Downstream' /\ Grant'
    BY <1>5, <2>3 DEF Downstream, Grant, Unlinked
  <2> QED
    BY <2>4, <2>5, <2>6, <2>7
<1>6. CASE ForeignClose
  BY <1>6 DEF ForeignClose
<1>7. CASE CStart
  BY <1>7 DEF CStart
<1>8. CASE CRequest
  BY <1>8 DEF CRequest
<1>9. CASE CCheck
  BY <1>9 DEF CCheck, TellApp
<1>10. CASE CUserid
  BY <1>10 DEF CUserid
<1>11. CASE CBind
  BY <1>11 DEF CBind
<1>12. CASE CBindFails
  BY <1>12 DEF CBindFails, CDie
<1>13. CASE CConnect
  <2>1. link = "none" /\ spc = "idle" /\ c2s = <<>> /\ s2c = <<>> /\ cfd' = cfd
    BY <1>13 DEF CConnect
  <2>2. HTypeOK' /\ Unlinked' /\ Request' /\ UserId'
    BY <1>13, <2>1 DEF CConnect
  <2>3. Upstream' /\ Downstream' /\ Grant'
    BY <1>13, <2>1 DEF CConnect
  <2> QED
    BY <2>2, <2>3
<1>14. CASE CConnectFails
  BY <1>14 DEF CConnectFails, TellApp, AfterRefusal
<1>15. CASE CForward
  <2> HIDE DEF HTypeOK, Unlinked, Request, UserId, Upstream, Downstream, Grant, Packet
  <2>0. /\ c2s \in Seq(Packet \cup {"nul"}) /\ Len(c2s) \in Nat /\ (c2s = <<>> <=> Len(c2s) = 0)
        /\ cpkt = "connect" /\ cpkt \in Packet
    BY <1>15, EmptyFacts DEF CForward, HTypeOK, Request, Packet
  <2>1. PICK e \in {"connect", "nul"} :
          /\ e = IF cpc = "reqsend" THEN "connect" ELSE "nul"
          /\ c2s' = IF ClientLinked THEN Append(c2s, e) ELSE c2s
    BY <1>15, <2>0 DEF CForward
  <2>2. /\ c2s' \in Seq(Packet \cup {"nul"})
        /\ IF ClientLinked THEN /\ Len(c2s') = Len(c2s) + 1 /\ c2s'[Len(c2s) + 1] = e
                                /\ \A i \in 1..Len(c2s) : c2s'[i] = c2s[i]
                           ELSE c2s' = c2s
    <3>1. e \in Packet \cup {"nul"}
      BY <2>0, <2>1
    <3> QED
      BY <2>0, <2>1, <3>1, AppendFacts
  <2>3. /\ cpc \in {"reqsend", "nulsend"} /\ cpc' = IF cpc = "reqsend" THEN "nulsend" ELSE "reply"
        /\ UNCHANGED <<app, said, heard, answer, link, s2c, cpkt, cc, cfd, spc, spkt, sfd, dest>>
    BY <1>15 DEF CForward, AfterSend
  <2>4. HTypeOK'
    BY <2>2, <2>3 DEF HTypeOK
  <2>5. Unlinked'
    BY <2>1, <2>3 DEF Unlinked
  <2>6. Request' /\ UserId'
    BY <2>3 DEF Request, UserId
  <2>7. Upstream'
    <3>1. CASE cpc = "reqsend"
      BY <2>0, <2>1, <2>2, <2>3, <3>1 DEF Upstream, Packet
    <3>2. CASE cpc = "nulsend"
      BY <2>0, <2>1, <2>2, <2>3, <3>2 DEF Upstream
    <3> QED
      BY <2>3, <3>1, <3>2
  <2>8. Downstream' /\ Grant'
    BY <2>3 DEF Downstream, Grant
  <2> QED
    BY <2>4, <2>5, <2>6, <2>7, <2>8
<1>16. CASE CReply
  <2> HIDE DEF HTypeOK, Unlinked, Request, UserId, Upstream, Downstream, Grant, Packet
  <2>1. /\ cpc = "reply" /\ cpc' = "answer"
        /\ UNCHANGED <<app, said, heard, answer, link, c2s, cc, cfd, spc, spkt, sfd, dest>>
    BY <1>16 DEF CReply
  <2>2. s2c \in Seq({"90", "91", "92", "rest", "data"}) /\ Len(s2c) \in Nat /\ (s2c = <<>> <=> Len(s2c) = 0)
    BY EmptyFacts DEF HTypeOK
  <2>3. \/ /\ s2c # <<>> /\ cpkt' = s2c[1] /\ Len(s2c) >= 1
           /\ s2c' \in Seq({"90", "91", "92", "rest", "data"}) /\ Len(s2c') = Len(s2c) - 1
           /\ \A i \in 1..Len(s2c') : s2c'[i] = s2c[i + 1] /\ i + 1 \in 1..Len(s2c)
        \/ cpkt' = "1" /\ s2c' = s2c /\ s2c = <<>>
    BY <1>16, <2>2, TailFacts DEF CReply, ReplyLost
  <2>4. HTypeOK'
    BY <2>1, <2>2, <2>3 DEF HTypeOK
  <2>5. Unlinked' /\ Request' /\ UserId'
    BY <2>1, <2>3 DEF Unlinked, Request, UserId
  <2>6. Upstream'
    BY <2>1 DEF Upstream
  <2>7. Downstream'
    <3>1. CASE s2c = <<>>
      BY <2>1, <2>3, <3>1 DEF Downstream
    <3>2. CASE s2c # <<>>
      <4>1. \A i \in 1..Len(s2c') : s2c'[i] = s2c[i + 1] /\ i + 1 \in 1..Len(s2c) /\ i + 1 > 1
        BY <2>2, <2>3, <3>2
      <4>2. s2c' # <<>> => 1 \in 1..Len(s2c')
        BY <2>2, <2>3, <3>2
      <4> QED
        BY <2>1, <3>2, <4>1, <4>2 DEF Downstream
    <3> QED
      BY <3>1, <3>2
  <2>8. cpkt' = "1" \/ spc \in {"relay", "close", "closed", "returned"}
    BY <2>3 DEF Downstream, HTypeOK
  <2>9. Grant'
    <3>1. answer = "none" /\ answer' = "none"
      BY <2>1 DEF Grant
    <3>2. CASE cpkt' = "1"
      BY <2>1, <3>1, <3>2 DEF Grant
    <3>3. CASE cpkt' # "1" /\ spc = "relay"
      BY <2>1, <2>2, <2>3, <3>1, <3>3 DEF Grant, Downstream
    <3>4. CASE cpkt' # "1" /\ spc \in {"close", "closed", "returned"}
      BY <2>1, <2>2, <2>3, <3>1, <3>4 DEF Grant, Downstream
    <3> QED
      BY <2>8, <3>2, <3>3, <3>4
  <2> QED
    BY <2>4, <2>5, <2>6, <2>7, <2>9
<1>17. CASE CAnswer
  BY <1>17 DEF CAnswer, TellApp
<1>18. CASE CSigpipe
  BY <1>18 DEF CSigpipe, CDie
<1>19. CASE CClose
  BY <1>19 DEF CClose
<1>20. CASE SStart
  BY <1>20 DEF SStart
<1>21. CASE SReject
  BY <1>21 DEF SReject
<1>22. CASE SRequest
  BY <1>22 DEF SRequest
<1>23. CASE SCheck
  <2>1. s2c = <<>> /\ (s2c' = s2c \/ TellClient("91"))
    BY <1>23 DEF SCheck, AfterPacket
  <2>2. /\ s2c' \in Seq({"90", "91", "92", "rest", "data"})
        /\ \A i \in 1..Len(s2c') : i = 1 /\ s2c'[i] = "91"
        /\ s2c' # <<>> => s2c'[1] = "91"
        /\ TellClient("91") /\ ServerLinked => s2c' # <<>>
    BY <2>1, FirstReply
  <2>3. HTypeOK' /\ Unlinked' /\ Request' /\ UserId'
    BY <1>23, <2>2 DEF SCheck, AfterPacket
  <2>4. Upstream' /\ Downstream' /\ Grant'
    BY <1>23, <2>1, <2>2 DEF SCheck, AfterPacket
  <2> QED
    BY <2>3, <2>4
<1>24. CASE SUserid
  BY <1>24 DEF SUserid, LastByte
<1>25. CASE SAccess
  <2>1. s2c = <<>> /\ (s2c' = s2c \/ TellClient("92"))
    BY <1>25 DEF SAccess
  <2>2. /\ s2c' \in Seq({"90", "91", "92", "rest", "data"})
        /\ \A i \in 1..Len(s2c') : i = 1 /\ s2c'[i] = "92"
        /\ s2c' # <<>> => s2c'[1] = "92"
        /\ TellClient("92") /\ ServerLinked => s2c' # <<>>
    BY <2>1, FirstReply
  <2>3. HTypeOK' /\ Unlinked' /\ Request' /\ UserId'
    BY <1>25, <2>2 DEF SAccess
  <2>4. Upstream' /\ Downstream' /\ Grant'
    BY <1>25, <2>1, <2>2 DEF SAccess
  <2> QED
    BY <2>3, <2>4
<1>26. CASE SConnect
  <2>1. s2c = <<>> /\ (s2c' = s2c \/ TellClient("92"))
    BY <1>26 DEF SConnect, ConnectFailed
  <2>2. /\ s2c' \in Seq({"90", "91", "92", "rest", "data"})
        /\ \A i \in 1..Len(s2c') : i = 1 /\ s2c'[i] = "92"
        /\ s2c' # <<>> => s2c'[1] = "92"
        /\ TellClient("92") /\ ServerLinked => s2c' # <<>>
    BY <2>1, FirstReply
  <2>3. HTypeOK' /\ Unlinked' /\ Request' /\ UserId'
    BY <1>26, <2>2 DEF SConnect, ConnectFailed
  <2>4. Upstream' /\ Downstream' /\ Grant'
    BY <1>26, <2>1, <2>2 DEF SConnect, ConnectFailed
  <2> QED
    BY <2>3, <2>4
<1>27. CASE SAnswer
  <2>1. s2c = <<>> /\ (s2c' = s2c \/ TellClient("90"))
    BY <1>27 DEF SAnswer
  <2>2. /\ s2c' \in Seq({"90", "91", "92", "rest", "data"})
        /\ \A i \in 1..Len(s2c') : i = 1 /\ s2c'[i] = "90"
        /\ s2c' # <<>> => s2c'[1] = "90"
        /\ TellClient("90") /\ ServerLinked => s2c' # <<>>
    BY <2>1, FirstReply
  <2>3. HTypeOK' /\ Unlinked' /\ Request' /\ UserId'
    BY <1>27, <2>2 DEF SAnswer
  <2>4. Upstream' /\ Downstream' /\ Grant'
    BY <1>27, <2>1, <2>2 DEF SAnswer
  <2> QED
    BY <2>3, <2>4
<1>28. CASE SData
  BY <1>28 DEF SData, TellClient
<1>29. CASE SClose
  BY <1>29 DEF SClose
<1>30. CASE CReplyShort
  <2> HIDE DEF HTypeOK, Unlinked, Request, UserId, Upstream, Downstream, Grant, Packet
  <2>1. /\ cpc = "reply" /\ cpc' = "answer" /\ s2c # <<>> /\ s2c' = [s2c EXCEPT ![1] = "rest"]
        /\ cpkt' \in {Head(s2c), "1"}
        /\ UNCHANGED <<app, said, heard, answer, link, c2s, cc, cfd, spc, spkt, sfd, dest>>
    BY <1>30 DEF CReplyShort
  <2>2. s2c \in Seq({"90", "91", "92", "rest", "data"})
    BY DEF HTypeOK
  <2>3. /\ s2c' \in Seq({"90", "91", "92", "rest", "data"})
        /\ Len(s2c') = Len(s2c) /\ Len(s2c) \in Nat /\ Len(s2c) >= 1 /\ Head(s2c) = s2c[1]
        /\ \A i \in 1..Len(s2c) : s2c'[i] = IF i = 1 THEN "rest" ELSE s2c[i]
    BY <2>1, <2>2, PutBack
  <2>4. HTypeOK'
    BY <2>1, <2>3 DEF HTypeOK
  <2>5. Unlinked' /\ Request' /\ UserId'
    <3>1. link # "none"
      BY <2>1 DEF Unlinked
    <3> QED
      BY <2>1, <3>1 DEF Unlinked, Request, UserId
  <2>6. Upstream'
    BY <2>1 DEF Upstream
  <2>7. spc \in {"relay", "close", "closed", "returned"}
    BY <2>1 DEF Downstream, HTypeOK
  <2>8. Downstream'
    BY <2>1, <2>3, <2>7 DEF Downstream
  <2>9. Grant'
    <3>1. answer' = "none"
      BY <2>1 DEF Grant
    <3>2. cpkt' \in {"1", s2c[1]}
      BY <2>1, <2>3
    <3>3. CASE spc = "relay"
      BY <2>1, <2>3, <3>1, <3>2, <3>3 DEF Grant, Downstream
    <3>4. CASE spc # "relay"
      <4>1. s2c[1] \in {"91", "92"}
        BY <2>1, <2>3, <2>7, <3>4 DEF Downstream
      <4> QED
        BY <2>1, <3>1, <3>2, <3>4, <4>1 DEF Grant
    <3> QED
      BY <3>3, <3>4
  <2> QED
    BY <2>4, <2>5, <2>6, <2>8, <2>9
<1>31. CASE UNCHANGED vars
  BY <1>31 DEF vars
<1> QED
  BY <1>1, <1>2, <1>3, <1>4, <1>5, <1>6, <1>7, <1>8, <1>9, <1>10, <1>11, <1>12, <1>13, <1>14,
     <1>15, <1>16, <1>17, <1>18, <1>19, <1>20, <1>21, <1>22, <1>23, <1>24, <1>25, <1>26, <1>27,
     <1>28, <1>29, <1>30, <1>31 DEF Next, Client, Server, Environment

-----------------------------------------------------------------------------
\* A step of the server child takes at most one token, and replies before it leaves.
LEMMA WaitingStep == HInv /\ Waiting /\ [Next]_vars => Waiting'
<1> SUFFICES ASSUME HInv, Waiting, [Next]_vars PROVE Waiting'
  OBVIOUS
<1> USE DEF Waiting, Asking, Unread, Reading, Through, ClientLinked, ServerLinked,
            appVars, cVars, sVars
<1>1. /\ c2s \in Seq(Packet \cup {"nul"}) /\ s2c \in Seq({"90", "91", "92", "rest", "data"})
      /\ Len(c2s) \in Nat /\ (c2s = <<>> <=> Len(c2s) = 0)
      /\ link = "none" => spc = "idle"
      /\ cpc \in Before => link = "none"
      /\ cpc \in Asking => "udt" \in cfd
  BY EmptyFacts DEF HInv, HTypeOK, Unlinked
<1>2. CASE Environment
  <2>1. CASE LinkBreak
    BY <2>1 DEF LinkBreak
  <2>2. CASE SData
    BY <2>2 DEF SData
  <2>3. CASE Foreign
    BY <1>1, <2>3 DEF Foreign, Before
  <2>4. CASE AppSend \/ AppEof \/ AppReset \/ ForeignClose
    BY <2>4 DEF AppSend, AppEof, AppReset, ForeignClose
  <2> QED
    BY <1>2, <2>1, <2>2, <2>3, <2>4 DEF Environment
<1>3. CASE Client
  <2>1. CASE CForward
    <3>1. CASE cpc = "reqsend"
      BY <2>1, <3>1 DEF CForward, AfterSend
    <3>2. CASE cpc = "nulsend" /\ ClientLinked
      <4>1. Len(c2s') = Len(c2s) + 1
        BY <1>1, <2>1, <3>2, AppendFacts DEF CForward
      <4>2. /\ spc \in Unread => Len(c2s) = 1
            /\ spc \in Reading => c2s = <<>>
        BY <3>2 DEF HInv, Upstream
      <4> QED
        BY <1>1, <2>1, <3>2, <4>1, <4>2 DEF CForward, AfterSend
    <3>3. CASE cpc = "nulsend" /\ ~ ClientLinked
      BY <2>1, <3>3 DEF CForward, AfterSend
    <3> QED
      BY <2>1, <3>1, <3>2, <3>3 DEF CForward
  <2>2. CASE CConnect
    BY <1>1, <2>2 DEF CConnect, Before
  <2>3. CASE CStart \/ CRequest \/ CCheck \/ CUserid \/ CBind \/ CConnectFails
    BY <2>3 DEF CStart, CRequest, CCheck, CUserid, CBind, CConnectFails, AfterRefusal
  <2>4. CASE CBindFails \/ CReply \/ CReplyShort \/ CAnswer \/ CSigpipe \/ CClose
    BY <2>4 DEF CBindFails, CReply, CReplyShort, CAnswer, CSigpipe, CDie, CClose
  <2> QED
    BY <1>3, <2>1, <2>2, <2>3, <2>4 DEF Client
<1>4. CASE Server
  <2>1. CASE SStart \/ SReject
    BY <2>1 DEF SStart, SReject
  <2>2. CASE SRequest
    <3>1. Len(c2s') = Len(c2s) - 1
      BY <1>1, <2>2, TailFacts DEF SRequest
    <3> QED
      BY <1>1, <2>2, <3>1 DEF SRequest
  <2>3. CASE SUserid
    <3>1. Len(c2s) <= 1
      BY <2>3 DEF HInv, Upstream, SUserid
    <3>2. Len(c2s) = 1 => c2s[1] = "nul"
      BY <2>3 DEF HInv, Upstream, SUserid
    <3>3. c2s = <<>> \/ Len(c2s) = 1
      <4>1. \A n \in Nat : n <= 1 => n = 0 \/ n = 1
        OBVIOUS
      <4>2. Len(c2s) = 0 \/ Len(c2s) = 1
        BY <1>1, <3>1, <4>1, Zenon
      <4> QED
        BY <1>1, <4>2, Zenon
    <3>4. Head(c2s) = c2s[1]
      BY <1>1
    <3> QED
      BY <1>1, <2>3, <3>2, <3>3, <3>4 DEF SUserid, LastByte
  <2>4. CASE SCheck
    BY <1>1, <2>4, AppendFacts DEF SCheck, AfterPacket, TellClient
  <2>5. CASE SAccess
    BY <1>1, <2>5, AppendFacts DEF SAccess, TellClient
  <2>6. CASE SConnect
    BY <1>1, <2>6, AppendFacts DEF SConnect, ConnectFailed, TellClient
  <2>7. CASE SAnswer \/ SClose
    BY <2>7 DEF SAnswer, SClose
  <2> QED
    BY <1>4, <2>1, <2>2, <2>3, <2>4, <2>5, <2>6, <2>7 DEF Server
<1>5. CASE UNCHANGED vars
  BY <1>5 DEF vars
<1> QED
  BY <1>2, <1>3, <1>4, <1>5 DEF Next

-----------------------------------------------------------------------------
\* The invariant holds of the initial state, and so always.
THEOREM HandshakeInvariant == Spec => []HInv
<1>1. Init => HInv
  <2> SUFFICES ASSUME Init PROVE HInv
    OBVIOUS
  <2>1. HTypeOK
    <3>1. /\ said \in Seq(Packet \cup {"user", "nul", "data"}) /\ Len(said) <= MaxSaid
          /\ heard \in 0..Len(said)
      BY HandshakeAssumption DEF Init
    <3>2. c2s \in Seq(Packet \cup {"nul"}) /\ s2c \in Seq({"90", "91", "92", "rest", "data"})
      BY DEF Init
    <3> QED
      BY <3>1, <3>2 DEF Init, HTypeOK
  <2>2. Unlinked /\ Request /\ UserId
    BY DEF Init, Unlinked, Request, UserId, Asking
  <2>3. Upstream /\ Downstream /\ Grant
    BY DEF Init, Upstream, Downstream, Grant, Unread, Reading, Through, Asking
  <2> QED
    BY <2>1, <2>2, <2>3 DEF HInv
<1>2. HInv /\ [Next]_vars => HInv'
  BY HInvStep
<1> QED
  BY <1>1, <1>2, PTL DEF Spec

\* Types: above all, no code but a reply's reaches the application, and no data is
\* taken for one.
THEOREM HandshakeTypes == Spec => []HTypeOK
<1>1. HInv => HTypeOK
  BY DEF HInv
<1> QED
  BY <1>1, HandshakeInvariant, PTL

\* 90 means connected: start_child tells the application of a grant only after the
\* server child's connect to the destination succeeded, whatever recv and UDT::recv
\* returned untested on the way.
THEOREM GrantIsConnection == Spec => []GrantedMeansConnected
<1>1. HInv => GrantedMeansConnected
  BY DEF HInv, Grant, Granting, GrantedMeansConnected
<1> QED
  BY <1>1, HandshakeInvariant, PTL

\* The workers of both sides start with nothing of the handshake in front of them but
\* the rest of a reply that the untested count of UDT::recv cut in two.
THEOREM WorkersStartClean == Spec => []CleanStart
<1>1. HInv => CleanStart
  <2> SUFFICES ASSUME HInv PROVE CleanStart
    OBVIOUS
  <2>1. cpc = "relay" => /\ spc = "relay"
                         /\ \A i \in 1..Len(s2c) : s2c[i] = "data" \/ (i = 1 /\ s2c[i] = "rest")
    BY DEF HInv, Grant, Granting
  <2>2. ASSUME cpc = "relay", app # "gone", NEW i \in (heard + 1)..Len(said)
        PROVE  said[i] = "data"
    <3>1. heard \in Nat /\ Len(said) \in Nat /\ heard <= Len(said)
      BY DEF HInv, HTypeOK
    <3>2. \E n \in 1..heard : said[n] = "nul"
      BY <2>2, <3>1 DEF HInv, UserId, AppEnded
    <3> QED
      BY <2>2, <3>1, <3>2 DEF HInv, UserId
  <2>3. spc = "relay" => c2s = <<>>
    BY DEF HInv, Upstream, Through
  <2> QED
    BY <2>1, <2>2, <2>3 DEF CleanStart
<1> QED
  BY <1>1, HandshakeInvariant, PTL

\* Neither start_child waits for the other: with the connection up and no reply under
\* way, the next step towards the reply is the server child's, and it can take it.
THEOREM NeverStandoff == Spec => []NoStandoff
<1>1. Init => Waiting
  BY DEF Init, Waiting, Asking, Unread, Reading, ClientLinked
<1>2. HInv /\ Waiting => NoStandoff
  <2> SUFFICES ASSUME HInv, Waiting, cpc = "reply", s2c = <<>>, ClientLinked
               PROVE  \/ spc \in {"idle", "rejected", "check", "access", "connect", "answer"}
                      \/ spc \in {"request", "userid"} /\ c2s # <<>>
    BY DEF NoStandoff
  <2>1. spc \notin {"relay", "close", "returned", "closed", "spin"}
    BY DEF Waiting, HInv, Downstream, Unlinked, Asking, ClientLinked, ServerLinked
  <2>2. spc \in {"request", "userid"} => c2s # <<>>
    <3>1. Len(<<>>) = 0
      OBVIOUS
    <3> QED
      BY <3>1 DEF Waiting, Unread, Reading
  <2> QED
    BY <2>1, <2>2 DEF HInv, HTypeOK
<1> QED
  BY <1>1, <1>2, HandshakeInvariant, WaitingStep, PTL DEF Spec

\* start_child sends the application at most one reply.
THEOREM RepliesOnce == Spec => AnsweredOnce
<1>1. HInv /\ [Next]_vars => [answer # "none" => answer' = answer]_vars
  <2> SUFFICES ASSUME HInv, Next, answer # "none" PROVE answer' = answer
    BY DEF vars
  <2>1. cpc \in {"relay", "close", "closed", "dead"}
    BY DEF HInv, Grant
  <2>2. CASE Client
    BY <2>1, <2>2 DEF Client, CStart, CRequest, CCheck, CUserid, CBind, CBindFails, CConnect,
       CConnectFails, CForward, CReply, CReplyShort, CAnswer, CSigpipe, CClose, CDie,
       appVars
  <2>3. CASE Server
    BY <2>3 DEF Server, SStart, SReject, SRequest, SCheck, SUserid, SAccess, SConnect, SAnswer,
       SClose, appVars
  <2>4. CASE Environment
    BY <2>4 DEF Environment, AppSend, AppEof, AppReset, LinkBreak, Foreign, ForeignClose, SData,
       appVars
  <2> QED
    BY <2>2, <2>3, <2>4 DEF Next
<1> QED
  BY <1>1, HandshakeInvariant, PTL DEF Spec, AnsweredOnce

=============================================================================
