-------------------------- MODULE MinisocksProofs --------------------------
(***************************************************************************)
(* The safety of the connect wrapper, for any number of threads, replies   *)
(* in any number of parts, any amount of data and any faults.              *)
(***************************************************************************)
EXTENDS Minisocks, TLAPS

\* What the application's side sends.
Token == {"pkt", "piece", "nul", "data"}

\* Nothing has been exchanged on the socket of thread t.
Silent(t) == toRelay[t] = <<>> /\ code[t] = "none" /\ arrived[t] = 0 /\ got[t] = 0

\* The request is the first thing sent on the socket of thread t.
Asked(t) == toRelay[t] # <<>> /\ toRelay[t][1] = "pkt"

\* What each place of the wrapper says of its socket, its result and the reply.
Place(t) ==
  /\ pc[t] \in {"idle", "init", "lookup", "found", "missed", "server", "addr", "connect"} =>
       Silent(t) /\ ret[t] = "none" /\ tcp[t] = "new"
  /\ pc[t] = "send" => Silent(t) /\ ret[t] = "none" /\ tcp[t] \in {"open", "reset"}
  /\ pc[t] \in {"recv", "judge"} =>
       Asked(t) /\ ret[t] = "none" /\ tcp[t] \in {"open", "reset"}
  /\ pc[t] = "recv" => got[t] = 0
  /\ pc[t] = "judge" => got[t] = Reply
  /\ got[t] > 0 => code[t] # "none"
  /\ arrived[t] > 0 => code[t] # "none"
  /\ toRelay[t] = <<>> => code[t] = "none"

\* What the application was told, and why.
Told(t) ==
  /\ ret[t] = "ok" => code[t] = "90" /\ got[t] = Reply /\ Asked(t)

\* DONE, and the place of a thread on its way to DONE, tell of addresses that were found.
Found ==
  /\ serv_status = "DONE" => server = "list"
  /\ \A t \in Thread : pc[t] \in {"found", "addr"} => server = "list"

MInv == MTypeOK /\ Found /\ \A t \in Thread : Place(t) /\ Told(t)

\* Lemma: what has been sent first stays first when more is sent.
LEMMA AppendKeepsFirst ==
  ASSUME NEW T, NEW s \in Seq(T), NEW x \in T
  PROVE  Append(s, x) # <<>> /\ (s # <<>> => Append(s, x)[1] = s[1])
<1>1. Len(Append(s, x)) = Len(s) + 1 /\ Len(s) \in Nat
  OBVIOUS
<1>2. s # <<>> => Len(s) >= 1
  OBVIOUS
<1>3. \A i \in 1..Len(s) : Append(s, x)[i] = s[i]
  OBVIOUS
<1>4. Append(s, x) # <<>>
  BY <1>1
<1> QED
  BY <1>1, <1>2, <1>3, <1>4

-----------------------------------------------------------------------------
\* What is said of a thread is said of its own socket: the steps of others keep it.
LEMMA OtherKeeps ==
  ASSUME NEW u, Place(u), Told(u),
         UNCHANGED <<pc[u], ret[u], tcp[u], toRelay[u], code[u], arrived[u], got[u]>>
  PROVE  Place(u)' /\ Told(u)'
  BY DEF Place, Told, Silent, Asked

\* Every step of a thread, of the application and of the relay keeps the invariant.
LEMMA MInvStep == MInv /\ [Next]_vars => MInv'
<1> SUFFICES ASSUME MInv, [Next]_vars PROVE MInv'
  OBVIOUS
<1> USE MinisocksAssumption DEF MInv, Goto, Return
<1>1. ASSUME NEW t \in Thread, Call(t) PROVE MInv'
  <2>1. MTypeOK'
    BY <1>1 DEF Call, MTypeOK
  <2>2. Place(t)' /\ Told(t)'
    BY <1>1 DEF Call, MTypeOK, Place, Told, Silent, Asked
  <2>3. ASSUME NEW u \in Thread \ {t} PROVE Place(u)' /\ Told(u)'
    BY <1>1, OtherKeeps DEF Call, MTypeOK
  <2>4. Found'
    BY <1>1 DEF Call, MTypeOK, Found
  <2> QED
    BY <2>1, <2>2, <2>3, <2>4
<1>2. ASSUME NEW t \in Thread, InitStatus(t) PROVE MInv'
  <2>1. MTypeOK'
    BY <1>2 DEF InitStatus, AfterBad, WhileLooking, MTypeOK
  <2>2. Place(t)' /\ Told(t)'
    BY <1>2 DEF InitStatus, AfterBad, WhileLooking, MTypeOK, Place, Told, Silent, Asked
  <2>3. ASSUME NEW u \in Thread \ {t} PROVE Place(u)' /\ Told(u)'
    BY <1>2, OtherKeeps DEF InitStatus, AfterBad, WhileLooking, MTypeOK
  <2>4. Found'
    BY <1>2 DEF InitStatus, AfterBad, WhileLooking, MTypeOK, Found
  <2> QED
    BY <2>1, <2>2, <2>3, <2>4
<1>3. ASSUME NEW t \in Thread, Lookup(t) PROVE MInv'
  <2>1. MTypeOK'
    BY <1>3 DEF Lookup, MTypeOK
  <2>2. Place(t)' /\ Told(t)'
    BY <1>3 DEF Lookup, MTypeOK, Place, Told, Silent, Asked
  <2>3. ASSUME NEW u \in Thread \ {t} PROVE Place(u)' /\ Told(u)'
    BY <1>3, OtherKeeps DEF Lookup, MTypeOK
  <2>4. Found'
    BY <1>3 DEF Lookup, MTypeOK, Found
  <2> QED
    BY <2>1, <2>2, <2>3, <2>4
<1>4. ASSUME NEW t \in Thread, GetServer(t) PROVE MInv'
  <2>1. MTypeOK'
    BY <1>4 DEF GetServer, MTypeOK
  <2>2. Place(t)' /\ Told(t)'
    BY <1>4 DEF GetServer, MTypeOK, Place, Told, Silent, Asked
  <2>3. ASSUME NEW u \in Thread \ {t} PROVE Place(u)' /\ Told(u)'
    BY <1>4, OtherKeeps DEF GetServer, MTypeOK
  <2>4. Found'
    BY <1>4 DEF GetServer, MTypeOK, Found
  <2> QED
    BY <2>1, <2>2, <2>3, <2>4
<1>5. ASSUME NEW t \in Thread, OrigConnect(t) PROVE MInv'
  <2>1. MTypeOK'
    BY <1>5 DEF OrigConnect, MTypeOK
  <2>2. Place(t)' /\ Told(t)'
    BY <1>5 DEF OrigConnect, MTypeOK, Place, Told, Silent, Asked
  <2>3. ASSUME NEW u \in Thread \ {t} PROVE Place(u)' /\ Told(u)'
    BY <1>5, OtherKeeps DEF OrigConnect, MTypeOK
  <2>4. Found'
    BY <1>5 DEF OrigConnect, MTypeOK, Found
  <2> QED
    BY <2>1, <2>2, <2>3, <2>4
<1>6. ASSUME NEW t \in Thread, Send(t) PROVE MInv'
  <2>1. MTypeOK'
    <3>1. toRelay'[t] \in Seq(Token)
      <4>1. \A q \in Seq(Token) :
              /\ q \o <<"pkt", "nul">> \in Seq(Token)
              /\ Append(q, "pkt") \in Seq(Token) /\ Append(q, "piece") \in Seq(Token)
        BY DEF Token
      <4>2. /\ toRelay[t] \in Seq(Token)
            /\ toRelay'[t] \in {toRelay[t], toRelay[t] \o <<"pkt", "nul">>,
                                Append(toRelay[t], "pkt"), Append(toRelay[t], "piece")}
        BY <1>6 DEF Send, MTypeOK, Token
      <4> QED
        BY <4>1, <4>2
    <3> QED
      BY <1>6, <3>1 DEF Send, MTypeOK, Token
  <2>2. Place(t)' /\ Told(t)'
    BY <1>6 DEF Send, MTypeOK, Place, Told, Silent, Asked
  <2>3. ASSUME NEW u \in Thread \ {t} PROVE Place(u)' /\ Told(u)'
    BY <1>6, OtherKeeps DEF Send, MTypeOK
  <2>4. Found'
    BY <1>6 DEF Send, MTypeOK, Found
  <2> QED
    BY <2>1, <2>2, <2>3, <2>4
<1>7. ASSUME NEW t \in Thread, Recv(t) PROVE MInv'
  <2>1. MTypeOK'
    <3>1. Taken(t) \in 0..Reply
      BY DEF MTypeOK, Taken
    <3> QED
      BY <1>7, <3>1 DEF Recv, MTypeOK
  <2>2. Place(t)' /\ Told(t)'
    BY <1>7 DEF Recv, Taken, Whole, MTypeOK, Place, Told, Silent, Asked
  <2>3. ASSUME NEW u \in Thread \ {t} PROVE Place(u)' /\ Told(u)'
    BY <1>7, OtherKeeps DEF Recv, Taken, Whole, MTypeOK
  <2>4. Found'
    BY <1>7 DEF Recv, MTypeOK, Found
  <2> QED
    BY <2>1, <2>2, <2>3, <2>4
<1>8. ASSUME NEW t \in Thread, Judge(t) PROVE MInv'
  <2>1. MTypeOK'
    <3>1. CASE code[t] = "90"
      BY <1>8, <3>1 DEF Judge, MTypeOK
    <3>2. CASE ~ code[t] = "90"
      BY <1>8, <3>2 DEF Judge, MTypeOK
    <3> QED
      BY <3>1, <3>2
  <2>2. Place(t)' /\ Told(t)'
    BY <1>8 DEF Judge, MTypeOK, Place, Told, Silent, Asked
  <2>3. ASSUME NEW u \in Thread \ {t} PROVE Place(u)' /\ Told(u)'
    BY <1>8, OtherKeeps DEF Judge, MTypeOK
  <2>4. Found'
    BY <1>8 DEF Judge, MTypeOK, Found
  <2> QED
    BY <2>1, <2>2, <2>3, <2>4
<1>9. ASSUME NEW t \in Thread, AppData(t) PROVE MInv'
  <2>1. MTypeOK'
    BY <1>9 DEF AppData, MTypeOK
  <2>2. Place(t)' /\ Told(t)'
    <3>1. /\ pc[t] = "back" /\ (ret[t] = "ok" \/ tcp[t] = "pending")
          /\ toRelay[t] \in Seq(Token) /\ toRelay'[t] = Append(toRelay[t], "data")
          /\ UNCHANGED <<pc, ret, tcp, code, arrived, got>>
      BY <1>9 DEF AppData, MTypeOK, Token
    <3>2. toRelay'[t] # <<>> /\ (toRelay[t] # <<>> => toRelay'[t][1] = toRelay[t][1])
      <4>1. "data" \in Token
        BY DEF Token
      <4> QED
        BY <3>1, <4>1, AppendKeepsFirst
    <3> QED
      BY <1>9, <3>1, <3>2 DEF AppData, Place, Told, Silent, Asked
  <2>3. ASSUME NEW u \in Thread \ {t} PROVE Place(u)' /\ Told(u)'
    BY <1>9, OtherKeeps DEF AppData, MTypeOK
  <2>4. Found'
    BY <1>9 DEF AppData, MTypeOK, Found
  <2> QED
    BY <2>1, <2>2, <2>3, <2>4
<1>10. ASSUME NEW t \in Thread, RelayAnswers(t) PROVE MInv'
  <2>1. MTypeOK'
    BY <1>10 DEF RelayAnswers, MTypeOK
  <2>2. Place(t)' /\ Told(t)'
    BY <1>10 DEF RelayAnswers, MTypeOK, Place, Told, Silent, Asked
  <2>3. ASSUME NEW u \in Thread \ {t} PROVE Place(u)' /\ Told(u)'
    BY <1>10, OtherKeeps DEF RelayAnswers, MTypeOK
  <2>4. Found'
    BY <1>10 DEF RelayAnswers, MTypeOK, Found
  <2> QED
    BY <2>1, <2>2, <2>3, <2>4
<1>11. ASSUME NEW t \in Thread, Arrive(t) PROVE MInv'
  <2>1. MTypeOK'
    BY <1>11 DEF Arrive, MTypeOK
  <2>2. Place(t)' /\ Told(t)'
    BY <1>11 DEF Arrive, MTypeOK, Place, Told, Silent, Asked
  <2>3. ASSUME NEW u \in Thread \ {t} PROVE Place(u)' /\ Told(u)'
    BY <1>11, OtherKeeps DEF Arrive, MTypeOK
  <2>4. Found'
    BY <1>11 DEF Arrive, MTypeOK, Found
  <2> QED
    BY <2>1, <2>2, <2>3, <2>4
<1>12. ASSUME NEW t \in Thread, RelayGone(t) PROVE MInv'
  <2>1. MTypeOK'
    BY <1>12 DEF RelayGone, MTypeOK
  <2>2. Place(t)' /\ Told(t)'
    BY <1>12 DEF RelayGone, MTypeOK, Place, Told, Silent, Asked
  <2>3. ASSUME NEW u \in Thread \ {t} PROVE Place(u)' /\ Told(u)'
    BY <1>12, OtherKeeps DEF RelayGone, MTypeOK
  <2>4. Found'
    BY <1>12 DEF RelayGone, MTypeOK, Found
  <2> QED
    BY <2>1, <2>2, <2>3, <2>4
<1>13. ASSUME NEW t \in Thread, SetStatus(t) PROVE MInv'
  <2>1. MTypeOK'
    BY <1>13 DEF SetStatus, MTypeOK
  <2>2. Place(t)' /\ Told(t)'
    BY <1>13 DEF SetStatus, MTypeOK, Place, Told, Silent, Asked
  <2>3. ASSUME NEW u \in Thread \ {t} PROVE Place(u)' /\ Told(u)'
    BY <1>13, OtherKeeps DEF SetStatus, MTypeOK
  <2>4. Found'
    BY <1>13 DEF SetStatus, MTypeOK, Found
  <2> QED
    BY <2>1, <2>2, <2>3, <2>4
<1>14. ASSUME NEW t \in Thread, Address(t) PROVE MInv'
  <2>1. MTypeOK'
    BY <1>14 DEF Address, MTypeOK
  <2>2. Place(t)' /\ Told(t)'
    BY <1>14 DEF Address, MTypeOK, Place, Told, Silent, Asked
  <2>3. ASSUME NEW u \in Thread \ {t} PROVE Place(u)' /\ Told(u)'
    BY <1>14, OtherKeeps DEF Address, MTypeOK
  <2>4. Found'
    BY <1>14 DEF Address, MTypeOK, Found
  <2> QED
    BY <2>1, <2>2, <2>3, <2>4
<1>15. CASE UNCHANGED vars
  BY <1>15 DEF vars, MTypeOK, Found, Place, Told, Silent, Asked
<1> QED
  BY <1>1, <1>2, <1>3, <1>4, <1>5, <1>6, <1>7, <1>8, <1>9, <1>10, <1>11, <1>12, <1>13,
     <1>14, <1>15
     DEF Next, Wrapper, Relay

\* The invariant holds before the first call, and so always.
THEOREM MinisocksInvariant == Spec => []MInv
<1>1. Init => MInv
  <2> SUFFICES ASSUME Init PROVE MInv
    OBVIOUS
  <2>1. MTypeOK
    BY MinisocksAssumption DEF Init, MTypeOK
  <2>2. \A t \in Thread : Place(t) /\ Told(t)
    <3> SUFFICES ASSUME NEW t \in Thread PROVE Place(t) /\ Told(t)
      OBVIOUS
    <3>1. /\ pc[t] = "idle" /\ ret[t] = "none" /\ tcp[t] = "new" /\ toRelay[t] = <<>>
          /\ code[t] = "none" /\ arrived[t] = 0 /\ got[t] = 0
      BY DEF Init
    <3> QED
      BY <3>1, MinisocksAssumption DEF Place, Told, Silent
  <2>3. Found
    BY DEF Init, Found
  <2> QED
    BY <2>1, <2>2, <2>3 DEF MInv
<1>2. MInv /\ [Next]_vars => MInv'
  BY MInvStep
<1> QED
  BY <1>1, <1>2, PTL DEF Spec

\* Types; recv never takes more than the reply off the stream.
THEOREM MinisocksTypes == Spec => []MTypeOK
<1>1. MInv => MTypeOK
  BY DEF MInv
<1> QED
  BY <1>1, MinisocksInvariant, PTL

\* connect returns 0 only for a tunnel that was asked for and granted, with exactly
\* the reply taken off the stream, whatever the other threads do to serv_status.
THEOREM SuccessMeansTunnel == Spec => []SuccessIsTunnel
<1>1. MInv => SuccessIsTunnel
  BY DEF MInv, Told, Asked, SuccessIsTunnel
<1> QED
  BY <1>1, MinisocksInvariant, PTL

\* The pointer server is there when serv_status says so, in every thread that reads it,
\* although neither is locked.
THEOREM ServerAlwaysFound == Spec => []ServerFound
<1>1. MInv => ServerFound
  BY DEF MInv, Found, ServerFound
<1> QED
  BY <1>1, MinisocksInvariant, PTL

=============================================================================
