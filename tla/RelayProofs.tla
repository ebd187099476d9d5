---------------------------- MODULE RelayProofs ----------------------------
(***************************************************************************)
(* Proofs about Relay for every number of bytes, every buffer size and     *)
(* every set of faults.                                                    *)
(***************************************************************************)
EXTENDS Relay, SequenceTheorems, TLAPS

\* What peer2sock_worker does with what it received is the same in every proof.
USE DEF AfterRecv

-----------------------------------------------------------------------------
(* The operators the model is built from.                                  *)

\* Each of the two sides is the other's peer.
LEMMA PeerFacts ==
  ASSUME NEW s \in Side
  PROVE  /\ Peer(s) \in Side /\ Peer(s) # s /\ Peer(Peer(s)) = s
         /\ \A x \in Side : x # s => x = Peer(s)
BY DEF Side, Peer

\* Bytes(k, n) is a sequence of n numbers.
LEMMA BytesType ==
  ASSUME NEW k \in Nat, NEW n \in Nat
  PROVE  /\ Bytes(k, n) \in Seq(Nat)
         /\ Len(Bytes(k, n)) = n
         /\ \A i \in 1..n : Bytes(k, n)[i] = k + i
BY DEF Bytes

\* No bytes.
LEMMA BytesEmpty ==
  ASSUME NEW k \in Nat
  PROVE  Bytes(k, 0) = <<>>
BY DEF Bytes

\* What recv takes from a buffer and what it leaves there.
LEMMA TakeDropType ==
  ASSUME NEW q \in Seq(Nat), NEW n \in 0..Len(q)
  PROVE  /\ Take(q, n) \in Seq(Nat) /\ Len(Take(q, n)) = n
         /\ Drop(q, n) \in Seq(Nat) /\ Len(Drop(q, n)) = Len(q) - n
         /\ \A i \in 1..n : Take(q, n)[i] = q[i]
         /\ \A i \in 1..(Len(q) - n) : Drop(q, n)[i] = q[n + i]
BY DEF Take, Drop

\* A buffer appended to a buffer.
LEMMA ConcatType ==
  ASSUME NEW q \in Seq(Nat), NEW u \in Seq(Nat)
  PROVE  q \o u \in Seq(Nat) /\ Len(q \o u) = Len(q) + Len(u)
OBVIOUS

\* A prefix and a suffix of consecutive bytes are consecutive bytes.
LEMMA TakeDropBytes ==
  ASSUME NEW k \in Nat, NEW n \in Nat, NEW m \in 0..n
  PROVE  /\ Take(Bytes(k, n), m) = Bytes(k, m)
         /\ Drop(Bytes(k, n), m) = Bytes(k + m, n - m)
<1>1. /\ Bytes(k, n) \in Seq(Nat) /\ Len(Bytes(k, n)) = n
      /\ \A i \in 1..n : Bytes(k, n)[i] = k + i
  BY BytesType
<1>2. Take(Bytes(k, n), m) = Bytes(k, m)
  <2>1. /\ Bytes(k, m) \in Seq(Nat) /\ Len(Bytes(k, m)) = m
        /\ \A i \in 1..m : Bytes(k, m)[i] = k + i
    BY BytesType
  <2>2. /\ Take(Bytes(k, n), m) \in Seq(Nat) /\ Len(Take(Bytes(k, n), m)) = m
        /\ \A i \in 1..m : Take(Bytes(k, n), m)[i] = Bytes(k, n)[i]
    BY <1>1, TakeDropType
  <2>3. QED BY <1>1, <2>1, <2>2, SeqEqual
<1>3. Drop(Bytes(k, n), m) = Bytes(k + m, n - m)
  <2>1. PICK b \in Seq(Nat) : b = Bytes(k, n)
    BY <1>1
  <2>2. Len(b) = n /\ \A i \in 1..n : b[i] = k + i
    BY <1>1, <2>1
  <2>3. k + m \in Nat /\ n - m \in Nat
    OBVIOUS
  <2>4. PICK c \in Seq(Nat) : c = Bytes(k + m, n - m)
    BY <2>3, BytesType
  <2>5. Len(c) = n - m /\ \A i \in 1..(n - m) : c[i] = (k + m) + i
    BY <2>3, <2>4, BytesType
  <2>6. /\ Drop(b, m) \in Seq(Nat) /\ Len(Drop(b, m)) = n - m
        /\ \A i \in 1..(n - m) : Drop(b, m)[i] = b[m + i]
    BY <2>2, TakeDropType
  <2>7. \A i \in 1..(n - m) : Drop(b, m)[i] = c[i]
    BY <2>2, <2>5, <2>6
  <2>8. Drop(b, m) = c
    BY <2>5, <2>6, <2>7, SeqEqual
  <2>9. QED BY <2>1, <2>4, <2>8
<1>4. QED BY <1>2, <1>3

\* Consecutive bytes followed by the next ones are consecutive bytes.
LEMMA ConcatBytes ==
  ASSUME NEW k \in Nat, NEW n \in Nat, NEW m \in Nat
  PROVE  Bytes(k, n) \o Bytes(k + n, m) = Bytes(k, n + m)
<1>1. k + n \in Nat /\ n + m \in Nat
  OBVIOUS
<1>2. PICK b \in Seq(Nat) : b = Bytes(k, n)
  BY BytesType
<1>3. Len(b) = n /\ \A i \in 1..n : b[i] = k + i
  BY <1>2, BytesType
<1>4. PICK c \in Seq(Nat) : c = Bytes(k + n, m)
  BY <1>1, BytesType
<1>5. Len(c) = m /\ \A i \in 1..m : c[i] = (k + n) + i
  BY <1>1, <1>4, BytesType
<1>6. PICK d \in Seq(Nat) : d = Bytes(k, n + m)
  BY <1>1, BytesType
<1>7. Len(d) = n + m /\ \A i \in 1..(n + m) : d[i] = k + i
  BY <1>1, <1>6, BytesType
<1>8. /\ b \o c \in Seq(Nat) /\ Len(b \o c) = n + m
      /\ \A i \in 1..(n + m) : (b \o c)[i] = IF i <= n THEN b[i] ELSE c[i - n]
  BY <1>3, <1>5, ConcatProperties
<1>9. \A i \in 1..(n + m) : (b \o c)[i] = d[i]
  <2> TAKE i \in 1..(n + m)
  <2>1. CASE i <= n
    <3>1. (b \o c)[i] = b[i]
      BY <1>8, <2>1
    <3>2. b[i] = k + i
      BY <1>3, <2>1
    <3>3. QED BY <1>7, <3>1, <3>2
  <2>2. CASE ~ (i <= n)
    <3>1. i - n \in 1..m
      BY <2>2
    <3>2. (b \o c)[i] = c[i - n]
      BY <1>8, <2>2
    <3>3. c[i - n] = k + i
      BY <1>5, <3>1
    <3>4. QED BY <1>7, <3>2, <3>3
  <2>3. QED BY <2>1, <2>2
<1>10. b \o c = d
  BY <1>7, <1>8, <1>9, SeqEqual
<1>11. QED BY <1>2, <1>4, <1>6, <1>10

-----------------------------------------------------------------------------
(* Types and buffer capacities.                                            *)

\* The empty buffer.
LEMMA EmptyType == <<>> \in Seq(Nat) /\ Len(<<>>) = 0
OBVIOUS

\* What a lost connection leaves under way: a prefix one way, nothing the other.
LEMMA CutType ==
  ASSUME TypeOK, NEW s \in Side,
         \E k \in 0..Len(udtq[s]) :
           udtq' = [udtq EXCEPT ![s] = Take(udtq[s], k), ![Peer(s)] = <<>>]
  PROVE  udtq' \in [Side -> Seq(Nat)] /\ \A x \in Side : Len(udtq'[x]) <= UdtBuf
<1>1. PICK k \in 0..Len(udtq[s]) :
        udtq' = [udtq EXCEPT ![s] = Take(udtq[s], k), ![Peer(s)] = <<>>]
  OBVIOUS
<1>2. udtq \in [Side -> Seq(Nat)] /\ \A x \in Side : Len(udtq[x]) <= UdtBuf
  BY DEF TypeOK, Capacity
<1>3. PICK u \in Seq(Nat) : u = Take(udtq[s], k) /\ Len(u) <= Len(udtq[s])
  BY <1>2, TakeDropType
<1>4. udtq' = [udtq EXCEPT ![s] = u, ![Peer(s)] = <<>>]
  BY <1>1, <1>3
<1>5. QED BY <1>2, <1>3, <1>4, EmptyType, PeerFacts, RelayAssumption

\* Every step keeps the types and the capacity of every buffer.
LEMMA TypeStep ==
  ASSUME TypeOK, [Next]_vars
  PROVE  TypeOK'
<1>a. /\ wrote \in [Side -> Seq(Nat)] /\ udtq \in [Side -> Seq(Nat)]
      /\ s2pBuf \in [Side -> Seq(Nat)] /\ p2sBuf \in [Side -> Seq(Nat)]
  BY DEF TypeOK
<1>b. sent \in [Side -> Nat] /\ taken \in [Side -> Nat] /\ read \in [Side -> Nat]
  BY DEF TypeOK
<1>c. \A x \in Side : Capacity(x)
  BY DEF TypeOK
<1>d. RcvBuffer \in Nat /\ TcpBuf \in Nat /\ UdtBuf \in Nat
  BY RelayAssumption
<1> USE DEF endVars, workVars
<1>1. CASE LinkBreak
  <2>1. PICK k \in [Side -> 0..UdtBuf] :
          /\ \A x \in Side : k[x] <= Len(udtq[x])
          /\ udtq' = [x \in Side |-> Take(udtq[x], k[x])]
    BY <1>1 DEF LinkBreak
  <2>2. ASSUME NEW x \in Side
        PROVE  udtq'[x] \in Seq(Nat) /\ Len(udtq'[x]) <= Len(udtq[x])
    <3>1. PICK q \in Seq(Nat), n \in Nat : q = udtq[x] /\ n = k[x] /\ n \in 0..Len(q)
      BY <1>a, <1>d, <2>1
    <3>2. Take(q, n) \in Seq(Nat) /\ Len(Take(q, n)) = n
      BY <3>1, TakeDropType
    <3>3. QED BY <2>1, <3>1, <3>2
  <2>3. udtq' \in [Side -> Seq(Nat)]
    BY <2>1, <2>2
  <2>4. \A x \in Side : Capacity(x)'
    <3> TAKE x \in Side
    <3>1. Len(udtq'[x]) <= UdtBuf
      BY <1>a, <1>c, <1>d, <2>2 DEF Capacity
    <3>2. QED BY <1>1, <1>c, <3>1 DEF LinkBreak, Capacity
  <2>5. QED BY <1>1, <2>3, <2>4 DEF TypeOK, LinkBreak
<1>2. ASSUME NEW s \in Side, Endpoint(s) PROVE TypeOK'
  <2>1. CASE EndSend(s)
    <3>1. sent' \in [Side -> Nat]
      BY <1>a, <1>b, <1>d, <2>1 DEF EndSend
    <3>2. \A x \in Side : Capacity(x)'
      BY <1>a, <1>b, <1>c, <1>d, <2>1 DEF EndSend, Capacity
    <3>3. QED BY <2>1, <3>1, <3>2 DEF TypeOK, EndSend
  <2>2. CASE EndTake(s)
    <3>1. taken' \in [Side -> Nat]
      BY <1>a, <1>b, <1>d, <2>2 DEF EndTake
    <3>2. \A x \in Side : Capacity(x)'
      <4> TAKE x \in Side
      <4>1. UNCHANGED <<sent, read, wrote, udtq, s2pBuf, p2sBuf>>
        BY <2>2 DEF EndTake
      <4>2. /\ taken[x] \in Nat /\ Len(wrote[x]) \in Nat
            /\ taken[x] <= Len(wrote[x]) /\ Len(wrote[x]) - taken[x] <= TcpBuf
        BY <1>a, <1>b, <1>c DEF Capacity
      <4>3. taken'[x] = taken[x] \/ (taken'[x] = taken[x] + 1 /\ taken[x] < Len(wrote[x]))
        BY <1>b, <2>2 DEF EndTake
      <4>4. taken'[x] <= Len(wrote[x]) /\ Len(wrote[x]) - taken'[x] <= TcpBuf
        BY <1>d, <4>2, <4>3
      <4>5. QED BY <1>c, <4>1, <4>4 DEF Capacity
    <3>3. QED BY <2>2, <3>1, <3>2 DEF TypeOK, EndTake
  <2>3. CASE EndEof(s) \/ EndReset(s)
    BY <1>a, <1>b, <1>c, <1>d, <2>3, EmptyType DEF TypeOK, EndEof, EndReset, Capacity
  <2>4. QED BY <1>2, <2>1, <2>2, <2>3 DEF Endpoint
<1>3. ASSUME NEW s \in Side, Sock2Peer(s) PROVE TypeOK'
  <2>1. CASE S2pCheck(s) \/ S2pPoll(s) \/ S2pRecvEnd(s) \/ S2pRecvInterrupted(s) \/ S2pStop(s)
    <3>1. UNCHANGED <<eop, sent, taken, read, wrote, udtq, link, fds, s2pBuf, p2s, p2sBuf, main>>
      BY <2>1 DEF S2pCheck, S2pPoll, S2pRecvEnd, ReadEnd, S2pRecvInterrupted, S2pStop
    <3>2. s2p' \in [Side -> S2pPC] /\ shutdown' \in [Side -> {0, 1}]
      BY <2>1 DEF TypeOK, S2pCheck, S2pPoll, S2pRecvEnd, ReadEnd, S2pRecvInterrupted, S2pStop, Stopped, S2pPC
    <3>3. errno' \in [Side -> {"none", "poll", "recv"}]
      BY <2>1 DEF TypeOK, S2pCheck, S2pPoll, S2pRecvEnd, S2pRecvInterrupted, S2pStop
    <3>4. \A x \in Side : Capacity(x)'
      BY <1>c, <3>1 DEF Capacity
    <3>5. QED BY <3>1, <3>2, <3>3, <3>4 DEF TypeOK
  <2>2. CASE S2pRecv(s)
    <3>1. PICK n \in Nat : /\ n = Least(RcvBuffer, sent[s] - read[s])
                           /\ n <= RcvBuffer /\ n <= sent[s] - read[s]
      BY <1>a, <1>b, <1>c, <1>d, <2>2 DEF S2pRecv, Least, Capacity
    <3>2. Bytes(read[s], n) \in Seq(Nat) /\ Len(Bytes(read[s], n)) = n
      BY <1>a, <1>b, <1>d, BytesType
    <3>3. /\ s2pBuf' = [s2pBuf EXCEPT ![s] = Bytes(read[s], n)]
          /\ read' = [read EXCEPT ![s] = read[s] + n]
      BY <1>a, <1>b, <1>d, <2>2, <3>1 DEF S2pRecv
    <3>4. s2pBuf' \in [Side -> Seq(Nat)] /\ read' \in [Side -> Nat]
      BY <1>a, <1>b, <1>d, <3>2, <3>3
    <3>5. \A x \in Side : Capacity(x)'
      <4> TAKE x \in Side
      <4>1. UNCHANGED <<taken, sent, wrote, udtq, p2sBuf>>
        BY <2>2 DEF S2pRecv
      <4>2. CASE x # s
        <5>1. read'[x] = read[x] /\ s2pBuf'[x] = s2pBuf[x]
          BY <1>a, <1>b, <3>3, <4>2
        <5>2. QED BY <1>c, <4>1, <5>1 DEF Capacity
      <4>3. CASE x = s
        <5>1. read'[x] = read[x] + n /\ Len(s2pBuf'[x]) = n
          BY <1>a, <1>b, <3>2, <3>3, <4>3
        <5>2. read[x] \in Nat /\ sent[x] \in Nat /\ sent[x] - read[x] <= TcpBuf
          BY <1>b, <1>c DEF Capacity
        <5>3. read'[x] <= sent[x] /\ sent[x] - read'[x] <= TcpBuf /\ Len(s2pBuf'[x]) <= RcvBuffer
          BY <1>d, <3>1, <4>3, <5>1, <5>2
        <5>4. QED BY <1>c, <4>1, <5>3 DEF Capacity
      <4>4. QED BY <4>2, <4>3
    <3>6. QED BY <2>2, <3>4, <3>5 DEF TypeOK, S2pRecv, S2pPC
  <2>3. CASE S2pSend(s)
    <3>1. PICK n \in 1..Len(s2pBuf[s]) :
            /\ n <= UdtBuf - Len(udtq[s])
            /\ udtq' = IF Connected(s)
                       THEN [udtq EXCEPT ![s] = udtq[s] \o Take(s2pBuf[s], n)] ELSE udtq
            /\ s2pBuf' = [s2pBuf EXCEPT ![s] = Drop(s2pBuf[s], n)]
            /\ s2p' = [s2p EXCEPT ![s] = IF n = Len(s2pBuf[s]) THEN "check" ELSE "send"]
      BY <1>a, <1>b, <1>d, <2>3 DEF S2pSend
    <3>a. n \in Nat /\ n \in 0..Len(s2pBuf[s])
      BY <1>a
    <3>2. PICK u \in Seq(Nat) : u = Take(s2pBuf[s], n) /\ Len(u) = n
      BY <1>a, <3>a, TakeDropType
    <3>3. PICK v \in Seq(Nat) : v = Drop(s2pBuf[s], n) /\ Len(v) = Len(s2pBuf[s]) - n
      BY <1>a, <3>a, TakeDropType
    <3>4. PICK w \in Seq(Nat) : w = udtq[s] \o u /\ Len(w) = Len(udtq[s]) + n
      <4>1. PICK q \in Seq(Nat) : q = udtq[s]
        BY <1>a
      <4>2. q \o u \in Seq(Nat) /\ Len(q \o u) = Len(q) + n
        BY <3>2, ConcatType
      <4>3. QED BY <4>1, <4>2, Zenon
    <3>5. udtq' = IF Connected(s) THEN [udtq EXCEPT ![s] = w] ELSE udtq
      BY <3>1, <3>2, <3>4
    <3>6. s2pBuf' = [s2pBuf EXCEPT ![s] = v]
      BY <3>1, <3>3
    <3>7. Len(w) <= UdtBuf /\ Len(v) <= RcvBuffer
      BY <1>a, <1>c, <1>d, <3>1, <3>3, <3>4 DEF Capacity
    <3>8. s2pBuf' \in [Side -> Seq(Nat)] /\ udtq' \in [Side -> Seq(Nat)]
      BY <1>a, <3>5, <3>6
    <3>9. s2p' \in [Side -> S2pPC]
      BY <3>1 DEF TypeOK, S2pPC
    <3>10. \A x \in Side : Capacity(x)'
      BY <1>a, <1>c, <2>3, <3>5, <3>6, <3>7 DEF S2pSend, Capacity
    <3>11. QED BY <2>3, <3>8, <3>9, <3>10 DEF TypeOK, S2pSend
  <2>4. CASE S2pSendFails(s) \/ S2pSendSpins(s)
    <3>1. s2pBuf' \in [Side -> Seq(Nat)]
      BY <1>a, <2>4, EmptyType DEF S2pSendFails, S2pSendSpins
    <3>2. \A x \in Side : Capacity(x)'
      <4>1. s2pBuf' = [s2pBuf EXCEPT ![s] = <<>>] /\ UNCHANGED <<sent, taken, read, wrote, udtq, p2sBuf>>
        BY <2>4 DEF S2pSendFails, S2pSendSpins
      <4>2. QED BY <1>a, <1>c, <1>d, <4>1, EmptyType DEF Capacity
    <3>3. QED BY <2>4, <3>1, <3>2 DEF TypeOK, S2pSendFails, S2pSendSpins, S2pPC
  <2>5. QED BY <1>3, <2>1, <2>2, <2>3, <2>4 DEF Sock2Peer
<1>4. ASSUME NEW s \in Side, Peer2Sock(s) PROVE TypeOK'
  <2>1. CASE P2sCheck(s) \/ P2sRecvTimeout(s) \/ P2sRecvErr(s) \/ P2sErr(s) \/ P2sStop(s)
    BY <1>a, <1>b, <1>c, <1>d, <2>1, EmptyType DEF TypeOK, P2sCheck, P2sRecvTimeout, P2sRecvErr, P2sErr, P2sStop, Stopped, P2sPC, Capacity
  <2>2. CASE P2sRecv(s)
    <3>1. PICK t \in Side, q \in Seq(Nat) : t = Peer(s) /\ q = udtq[t] /\ Len(q) <= UdtBuf
      BY <1>a, <1>c, PeerFacts DEF Capacity
    <3>2. PICK n \in 0..Len(q) : n = Least(RcvBuffer, Len(q)) /\ n <= RcvBuffer
      BY <1>d DEF Least
    <3>3. PICK u \in Seq(Nat) : u = Take(q, n) /\ Len(u) = n
      BY TakeDropType
    <3>4. PICK v \in Seq(Nat) : v = Drop(q, n) /\ Len(v) = Len(q) - n
      BY TakeDropType
    <3>5. p2sBuf' = [p2sBuf EXCEPT ![s] = u] /\ udtq' = [udtq EXCEPT ![t] = v]
      BY <2>2, <3>1, <3>2, <3>3, <3>4 DEF P2sRecv
    <3>6. p2sBuf' \in [Side -> Seq(Nat)] /\ udtq' \in [Side -> Seq(Nat)]
      BY <1>a, <3>5
    <3>7. Len(v) <= UdtBuf /\ Len(u) <= RcvBuffer
      BY <1>d, <3>1, <3>2, <3>3, <3>4
    <3>8. \A x \in Side : Capacity(x)'
      BY <1>a, <1>c, <2>2, <3>5, <3>7 DEF P2sRecv, Capacity
    <3>9. QED BY <2>2, <3>6, <3>8 DEF TypeOK, P2sRecv, P2sPC
  <2>3. CASE P2sWrite(s)
    <3>1. PICK n \in 0..Len(p2sBuf[s]) :
            /\ n > 0 => n <= TcpBuf - (Len(wrote[s]) - taken[s])
            /\ wrote' = [wrote EXCEPT ![s] = wrote[s] \o Take(p2sBuf[s], n)]
            /\ p2sBuf' = [p2sBuf EXCEPT ![s] = Drop(p2sBuf[s], n)]
            /\ p2s' = [p2s EXCEPT ![s] = IF n = Len(p2sBuf[s]) THEN "check" ELSE "write"]
      BY <1>a, <1>b, <1>d, <2>3 DEF P2sWrite, Rest
    <3>2. PICK u \in Seq(Nat) : u = Take(p2sBuf[s], n) /\ Len(u) = n
      BY <1>a, TakeDropType
    <3>3. PICK v \in Seq(Nat) : v = Drop(p2sBuf[s], n) /\ Len(v) = Len(p2sBuf[s]) - n
      BY <1>a, TakeDropType
    <3>4. PICK w \in Seq(Nat) : w = wrote[s] \o u /\ Len(w) = Len(wrote[s]) + n
      <4>1. PICK q \in Seq(Nat) : q = wrote[s]
        BY <1>a
      <4>2. q \o u \in Seq(Nat) /\ Len(q \o u) = Len(q) + n
        BY <3>2, ConcatType
      <4>3. QED BY <4>1, <4>2, Zenon
    <3>5. wrote' = [wrote EXCEPT ![s] = w] /\ p2sBuf' = [p2sBuf EXCEPT ![s] = v]
      BY <3>1, <3>2, <3>3, <3>4
    <3>6. taken[s] <= Len(w) /\ Len(w) - taken[s] <= TcpBuf /\ Len(v) <= RcvBuffer
      <4>1. /\ taken[s] \in Nat /\ Len(wrote[s]) \in Nat /\ Len(p2sBuf[s]) \in Nat
            /\ taken[s] <= Len(wrote[s]) /\ Len(wrote[s]) - taken[s] <= TcpBuf
            /\ Len(p2sBuf[s]) <= RcvBuffer
        BY <1>a, <1>b, <1>c DEF Capacity
      <4>2. n \in Nat /\ (n = 0 \/ n <= TcpBuf - (Len(wrote[s]) - taken[s]))
        BY <3>1, <4>1
      <4>3. Len(w) = Len(wrote[s]) + n
        BY <3>4
      <4>4. n <= Len(p2sBuf[s]) /\ Len(v) = Len(p2sBuf[s]) - n
        BY <3>3, <4>1
      <4>5. Len(v) <= RcvBuffer
        BY <1>d, <4>1, <4>2, <4>4
      <4>6. taken[s] <= Len(w)
        BY <4>1, <4>2, <4>3
      <4>7. Len(w) - taken[s] <= TcpBuf
        BY <1>d, <4>1, <4>2, <4>3
      <4>8. QED BY <4>5, <4>6, <4>7
    <3>7. p2sBuf' \in [Side -> Seq(Nat)] /\ wrote' \in [Side -> Seq(Nat)]
      BY <1>a, <3>5
    <3>8. p2s' \in [Side -> P2sPC]
      BY <3>1 DEF TypeOK, P2sPC
    <3>9. \A x \in Side : Capacity(x)'
      BY <1>a, <1>c, <2>3, <3>5, <3>6 DEF P2sWrite, Rest, Capacity
    <3>10. QED BY <2>3, <3>7, <3>8, <3>9 DEF TypeOK, P2sWrite, Rest
  <2>4. CASE P2sWriteFails(s)
    <3>1. p2sBuf' \in [Side -> Seq(Nat)]
      BY <1>a, <2>4, EmptyType DEF P2sWriteFails
    <3>2. \A x \in Side : Capacity(x)'
      BY <1>a, <1>c, <1>d, <2>4, EmptyType DEF P2sWriteFails, Capacity
    <3>3. QED BY <2>4, <3>1, <3>2 DEF TypeOK, P2sWriteFails, P2sPC
  <2>5. CASE P2sWriteSigpipe(s)
    <3>1. \E k \in 0..Len(udtq[s]) :
            udtq' = [udtq EXCEPT ![s] = Take(udtq[s], k), ![Peer(s)] = <<>>]
      BY <1>a, <1>b, <1>d, <2>5 DEF P2sWriteSigpipe
    <3>2. udtq' \in [Side -> Seq(Nat)] /\ \A x \in Side : Len(udtq'[x]) <= UdtBuf
      BY <3>1, CutType
    <3>3. \A x \in Side : Capacity(x)'
      BY <1>a, <1>b, <1>c, <1>d, <2>5, <3>2 DEF P2sWriteSigpipe, Capacity
    <3>4. QED BY <2>5, <3>2, <3>3 DEF TypeOK, P2sWriteSigpipe, P2sPC, S2pPC, MainPC
  <2>6. QED BY <1>4, <2>1, <2>2, <2>3, <2>4, <2>5 DEF Peer2Sock
<1>5. ASSUME NEW s \in Side, StartChild(s) PROVE TypeOK'
  <2>1. CASE RcvCreate(s) \/ SndCreate(s) \/ RcvJoin(s) \/ SndJoin(s) \/ TcpClose(s)
    <3>1. \A x \in Side : Capacity(x)'
      BY <1>c, <2>1 DEF RcvCreate, SndCreate, RcvJoin, SndJoin, SndEnded, TcpClose, Capacity
    <3>2. main' \in [Side -> MainPC] /\ p2s' \in [Side -> P2sPC] /\ s2p' \in [Side -> S2pPC]
      BY <2>1 DEF TypeOK, RcvCreate, SndCreate, RcvJoin, SndJoin, SndEnded, TcpClose, MainPC, P2sPC, S2pPC
    <3>3. fds' \in [Side -> SUBSET {"tcp", "udt"}]
      <4>1. fds \in [Side -> SUBSET {"tcp", "udt"}]
        BY DEF TypeOK
      <4>2. CASE TcpClose(s)
        BY <4>1, <4>2 DEF TcpClose
      <4>3. CASE ~ TcpClose(s)
        BY <2>1, <4>1, <4>3 DEF RcvCreate, SndCreate, RcvJoin, SndJoin, SndEnded
      <4>4. QED BY <4>2, <4>3
    <3>4. QED BY <2>1, <3>1, <3>2, <3>3
             DEF TypeOK, RcvCreate, SndCreate, RcvJoin, SndJoin, SndEnded, TcpClose
  <2>2. CASE UdtClose(s)
    <3>0. PICK t \in Side : t = Peer(s)
      BY PeerFacts
    <3>1. udtq' \in [Side -> Seq(Nat)] /\ \A x \in Side : Len(udtq'[x]) <= UdtBuf
      <4>1. udtq' = [udtq EXCEPT ![t] = <<>>]
        BY <2>2, <3>0 DEF UdtClose, Lingered
      <4>2. \A x \in Side : Len(udtq[x]) <= UdtBuf
        BY <1>c DEF Capacity
      <4>3. QED BY <1>a, <1>d, <4>1, <4>2, EmptyType
    <3>2. \A x \in Side : Capacity(x)'
      BY <1>a, <1>b, <1>c, <1>d, <2>2, <3>1 DEF UdtClose, Lingered, Capacity
    <3>3. QED BY <2>2, <3>1, <3>2 DEF TypeOK, UdtClose, Lingered, MainPC
  <2>3. CASE UdtCloseLingers(s)
    <3>1. \E k \in 0..Len(udtq[s]) :
            udtq' = [udtq EXCEPT ![s] = Take(udtq[s], k), ![Peer(s)] = <<>>]
      <4>1. PICK k \in 0..(Len(udtq[s]) - 1) :
              udtq' = [udtq EXCEPT ![s] = Take(udtq[s], k), ![Peer(s)] = <<>>]
        BY <2>3 DEF UdtCloseLingers
      <4>2. k \in 0..Len(udtq[s])
        BY <1>a
      <4>3. QED BY <4>1, <4>2
    <3>2. udtq' \in [Side -> Seq(Nat)] /\ \A x \in Side : Len(udtq'[x]) <= UdtBuf
      BY <3>1, CutType
    <3>3. \A x \in Side : Capacity(x)'
      BY <1>a, <1>b, <1>c, <1>d, <2>3, <3>2 DEF UdtCloseLingers, Capacity
    <3>4. QED BY <2>3, <3>2, <3>3 DEF TypeOK, UdtCloseLingers, MainPC
  <2>4. QED BY <1>5, <2>1, <2>2, <2>3 DEF StartChild
<1>6. CASE UNCHANGED vars
  BY <1>a, <1>b, <1>c, <1>d, <1>6, EmptyType DEF TypeOK, vars, Capacity
<1>7. QED BY <1>1, <1>2, <1>3, <1>4, <1>5, <1>6 DEF Next

\* Types and buffer capacities hold throughout, whatever the sizes: no recv
\* overruns data[] and no writen puts more than fits.
THEOREM TypeCorrect == Spec => []TypeOK
<1>1. Init => TypeOK
  BY RelayAssumption, EmptyType DEF Init, TypeOK, Capacity, S2pPC, P2sPC, MainPC
<1>2. QED BY <1>1, TypeStep, PTL DEF Spec

-----------------------------------------------------------------------------
(* The order in which start_child and the workers stop.                    *)

\* How far start_child has come tells which workers run and what is open.
Phases(s) ==
  /\ main[s] = "rcvcreate" => p2s[s] = "new"
  /\ main[s] \in {"rcvcreate", "sndcreate"} => s2p[s] = "new"
  /\ main[s] \in {"sndjoin", "udtclose", "tcpclose", "done", "dead"} => p2s[s] = "exit"
  /\ main[s] \in {"udtclose", "tcpclose", "done", "dead"} => s2p[s] = "exit"
  /\ main[s] \notin {"tcpclose", "done", "dead"} => fds[s] = {"tcp", "udt"}
  /\ errno[s] = "recv" => s2p[s] \in {"stop", "exit"}

\* StopSignalled, for one side.
Signalled(s) ==
  main[s] # "dead" /\ (s2p[s] = "exit" \/ p2s[s] = "exit")
    => shutdown[s] = 1 \/ p2s[s] = "stop"

\* A worker leaves its loop, or is told to, only after something ended the
\* connection or interrupted a worker's recv.
Caused(s) ==
  shutdown[s] = 1 \/ s2p[s] \in {"stop", "exit"} \/ p2s[s] \in {"err", "stop", "exit"}
    => Over

Control == \A s \in Side : Phases(s) /\ Signalled(s) /\ Caused(s)

\* A broken connection stays broken, an endpoint that ended does not come back, and
\* a worker that gave up stays so.
LEMMA CausesStay ==
  ASSUME TypeOK, Control, [Next]_vars
  PROVE  /\ link = "broken" => link' = "broken"
         /\ \A x \in Side : eop[x] # "open" => eop'[x] # "open"
         /\ \A x \in Side : errno[x] = "recv" => errno'[x] = "recv"
<1>a. /\ eop \in [Side -> {"open", "eof", "gone"}] /\ errno \in [Side -> {"none", "poll", "recv"}]
      /\ s2p \in [Side -> S2pPC]
  BY DEF TypeOK
<1>b. \A x \in Side : errno[x] = "recv" => s2p[x] \in {"stop", "exit"}
  BY DEF Control, Phases
<1> USE DEF endVars, workVars
<1>1. CASE LinkBreak
  BY <1>1 DEF LinkBreak
<1>2. ASSUME NEW s \in Side, Endpoint(s)
      PROVE  /\ UNCHANGED <<link, errno>>
             /\ \A x \in Side : eop[x] # "open" => eop'[x] # "open"
  BY <1>a, <1>2 DEF Endpoint, EndSend, EndTake, EndEof, EndReset
<1>3. ASSUME NEW s \in Side, Sock2Peer(s)
      PROVE  /\ UNCHANGED <<link, eop>>
             /\ \A x \in Side : errno[x] = "recv" => errno'[x] = "recv"
  <2>1. UNCHANGED <<link, eop>>
    BY <1>3 DEF Sock2Peer, S2pCheck, S2pPoll, S2pRecv, S2pRecvEnd, S2pSend, S2pSendFails, S2pSendSpins, S2pRecvInterrupted, S2pStop
  <2>2. CASE S2pPoll(s)
    BY <1>a, <1>b, <2>1, <2>2 DEF S2pPoll
  <2>3. CASE S2pRecvInterrupted(s)
    BY <1>a, <2>1, <2>3 DEF S2pRecvInterrupted
  <2>4. CASE ~ S2pPoll(s) /\ ~ S2pRecvInterrupted(s)
    BY <1>3, <2>1, <2>4 DEF Sock2Peer, S2pCheck, S2pRecv, S2pRecvEnd, S2pSend, S2pSendFails, S2pSendSpins, S2pStop
  <2>5. QED BY <2>2, <2>3, <2>4
<1>4. ASSUME NEW s \in Side, Peer2Sock(s)
      PROVE  UNCHANGED <<eop, errno>> /\ (link = "broken" => link' = "broken")
  BY <1>4 DEF Peer2Sock, P2sCheck, P2sRecv, P2sRecvTimeout, P2sRecvErr, P2sErr, P2sWrite, Rest,
              P2sWriteFails, P2sWriteSigpipe, P2sStop, Stopped
<1>5. ASSUME NEW s \in Side, StartChild(s)
      PROVE  UNCHANGED <<eop, errno>> /\ (link = "broken" => link' = "broken")
  BY <1>5 DEF StartChild, RcvCreate, SndCreate, RcvJoin, SndJoin, SndEnded, UdtClose, Lingered, UdtCloseLingers, TcpClose
<1>6. CASE UNCHANGED vars
  BY <1>6 DEF vars
<1>7. QED BY <1>1, <1>2, <1>3, <1>4, <1>5, <1>6 DEF Next

\* Over never becomes false.
LEMMA OverStable ==
  ASSUME TypeOK, Control, [Next]_vars, Over
  PROVE  Over'
BY CausesStay DEF Over, Ended, Interrupted

\* Every step keeps the stopping order.
LEMMA ControlStep ==
  ASSUME TypeOK, Control, [Next]_vars
  PROVE  Control'
<1>a. /\ s2p \in [Side -> S2pPC] /\ p2s \in [Side -> P2sPC] /\ main \in [Side -> MainPC]
      /\ fds \in [Side -> SUBSET {"tcp", "udt"}] /\ shutdown \in [Side -> {0, 1}]
      /\ errno \in [Side -> {"none", "poll", "recv"}]
  BY DEF TypeOK
<1>b. Over => Over'
  BY OverStable
<1> SUFFICES ASSUME NEW x \in Side
             PROVE  (Phases(x) /\ Signalled(x) /\ Caused(x))'
  BY DEF Control
<1>c. Phases(x) /\ Signalled(x) /\ Caused(x)
  BY DEF Control
<1>d. ~ Connected(x) => Over
  <2>1. Peer(x) \in Side
    BY PeerFacts
  <2>2. "udt" \notin fds[Peer(x)] => p2s[Peer(x)] = "exit"
    BY <1>a, <2>1 DEF Control, Phases, MainPC
  <2>3. QED BY <2>1, <2>2 DEF Control, Caused, Connected, Over, Ended, TypeOK
<1> USE DEF endVars, workVars
<1>1. CASE LinkBreak \/ UNCHANGED vars \/ \E s \in Side : Endpoint(s)
  <2>1. UNCHANGED <<fds, shutdown, workVars, main>>
    BY <1>1 DEF LinkBreak, vars, Endpoint, EndSend, EndTake, EndEof, EndReset
  <2>2. QED BY <1>b, <1>c, <2>1 DEF Phases, Signalled, Caused
<1>2. ASSUME NEW s \in Side, s # x, Sock2Peer(s) \/ Peer2Sock(s) \/ StartChild(s)
      PROVE  (Phases(x) /\ Signalled(x) /\ Caused(x))'
  <2>1. /\ s2p'[x] = s2p[x] /\ p2s'[x] = p2s[x] /\ main'[x] = main[x]
        /\ fds'[x] = fds[x] /\ shutdown'[x] = shutdown[x] /\ errno'[x] = errno[x]
    <3>1. CASE Sock2Peer(s)
      BY <1>2, <3>1, <1>a DEF Sock2Peer, S2pCheck, S2pPoll, S2pRecv, S2pRecvEnd, ReadEnd, S2pSend,
                              S2pSendFails, S2pSendSpins, S2pRecvInterrupted, S2pStop, Stopped
    <3>2. CASE Peer2Sock(s)
      BY <1>2, <3>2, <1>a DEF Peer2Sock, P2sCheck, P2sRecv, P2sRecvTimeout, P2sRecvErr, P2sErr,
                              P2sWrite, Rest, P2sWriteFails, P2sWriteSigpipe, P2sStop, Stopped
    <3>3. CASE StartChild(s)
      BY <1>2, <3>3, <1>a DEF StartChild, RcvCreate, SndCreate, RcvJoin, SndJoin, SndEnded, UdtClose, Lingered,
                              UdtCloseLingers, TcpClose
    <3>4. QED BY <1>2, <3>1, <3>2, <3>3
  <2>2. QED BY <1>b, <1>c, <2>1 DEF Phases, Signalled, Caused
<1>3. CASE Sock2Peer(x)
  <2>1. UNCHANGED <<fds, main, p2s>>
    BY <1>3 DEF Sock2Peer, S2pCheck, S2pPoll, S2pRecv, S2pRecvEnd, ReadEnd, S2pSend, S2pSendFails, S2pSendSpins, S2pRecvInterrupted, S2pStop, Stopped
  <2>2. CASE S2pCheck(x) \/ S2pPoll(x) \/ S2pRecv(x)
    BY <1>a, <1>b, <1>c, <2>1, <2>2 DEF S2pCheck, S2pPoll, S2pRecv, Phases, Signalled, Caused
  <2>3. CASE S2pRecvEnd(x)
    BY <1>a, <1>b, <1>c, <2>1, <2>3 DEF S2pRecvEnd, ReadEnd, Phases, Signalled, Caused, Over, Ended
  <2>3i. CASE S2pRecvInterrupted(x)
    BY <1>a, <1>b, <1>c, <2>1, <2>3i DEF S2pRecvInterrupted, Phases, Signalled, Caused, Over, Interrupted
  <2>4. CASE S2pSend(x)
    BY <1>a, <1>b, <1>c, <2>1, <2>4 DEF S2pSend, Phases, Signalled, Caused
  <2>5. CASE S2pSendFails(x) \/ S2pSendSpins(x)
    BY <1>a, <1>b, <1>c, <1>d, <2>1, <2>5 DEF S2pSendFails, S2pSendSpins, Phases, Signalled, Caused
  <2>6. CASE S2pStop(x)
    BY <1>a, <1>b, <1>c, <2>1, <2>6 DEF S2pStop, Stopped, Phases, Signalled, Caused
  <2>7. QED BY <1>3, <2>2, <2>3, <2>3i, <2>4, <2>5, <2>6 DEF Sock2Peer
<1>4. CASE Peer2Sock(x)
  <2>1. CASE P2sCheck(x) \/ P2sRecv(x) \/ P2sRecvTimeout(x)
    BY <1>a, <1>b, <1>c, <2>1 DEF P2sCheck, P2sRecv, P2sRecvTimeout, Phases, Signalled, Caused
  <2>2. CASE P2sRecvErr(x)
    BY <1>a, <1>b, <1>c, <1>d, <2>2 DEF P2sRecvErr, Phases, Signalled, Caused
  <2>3. CASE P2sErr(x) \/ P2sStop(x)
    BY <1>a, <1>b, <1>c, <2>3 DEF P2sErr, P2sStop, Stopped, Phases, Signalled, Caused
  <2>4. CASE P2sWrite(x)
    BY <1>a, <1>b, <1>c, <2>4 DEF P2sWrite, Rest, Phases, Signalled, Caused
  <2>5. CASE P2sWriteFails(x)
    BY <1>a, <1>b, <1>c, <2>5 DEF P2sWriteFails, Phases, Signalled, Caused, Over, Ended
  <2>6. CASE P2sWriteSigpipe(x)
    BY <1>a, <1>b, <1>c, <2>6 DEF P2sWriteSigpipe, Phases, Signalled, Caused, Over, Ended
  <2>7. QED BY <1>4, <2>1, <2>2, <2>3, <2>4, <2>5, <2>6 DEF Peer2Sock
<1>5. CASE StartChild(x)
  <2>1. CASE RcvCreate(x) \/ SndCreate(x)
    BY <1>a, <1>b, <1>c, <2>1 DEF RcvCreate, SndCreate, Phases, Signalled, Caused
  <2>2. CASE RcvJoin(x) \/ SndJoin(x)
    BY <1>a, <1>b, <1>c, <2>2 DEF RcvJoin, SndJoin, SndEnded, Phases, Signalled, Caused
  <2>3. CASE UdtClose(x) \/ UdtCloseLingers(x)
    BY <1>a, <1>b, <1>c, <2>3 DEF UdtClose, Lingered, UdtCloseLingers, Phases, Signalled, Caused
  <2>4. CASE TcpClose(x)
    BY <1>a, <1>b, <1>c, <2>4 DEF TcpClose, Phases, Signalled, Caused
  <2>5. QED BY <1>5, <2>1, <2>2, <2>3, <2>4 DEF StartChild
<1>6. QED BY <1>1, <1>2, <1>3, <1>4, <1>5 DEF Next

\* The stopping order holds throughout.
THEOREM ControlHolds == Spec => []Control
<1>1. Init => Control
  BY DEF Init, Control, Phases, Signalled, Caused, Side
<1>2. QED BY <1>1, ControlStep, TypeCorrect, PTL DEF Spec

\* The write shutdown = 0 of peer2sock_worker never hides that a worker ended.
THEOREM StopAlwaysSignalled == Spec => []StopSignalled
<1>1. Control => StopSignalled
  BY DEF Control, Signalled, StopSignalled
<1>2. QED BY <1>1, ControlHolds, PTL

\* start_child closes no descriptor that a worker may still use.
THEOREM ClosedAfterJoin == Spec => []JoinBeforeClose
<1>1. TypeOK /\ Control => JoinBeforeClose
  BY DEF TypeOK, MainPC, Control, Phases, JoinBeforeClose
<1>2. QED BY <1>1, TypeCorrect, ControlHolds, PTL

-----------------------------------------------------------------------------
(* The bytes of one direction, from the sender's TCP socket to the         *)
(* receiver's: written w, then held by peer2sock b, under way q, held by   *)
(* sock2peer c; k bytes were read from the sender's socket, the receiving  *)
(* worker is at rpc, the sending one at spc, the link is lk and the        *)
(* receiving side has f open.  As long as the receiving worker runs, w, b  *)
(* and q are consecutive; as long as nothing was dropped, c is next.       *)

FlowOK(w, b, q, c, k, rpc, spc, lk, f) ==
  /\ w \in Seq(Nat) /\ b \in Seq(Nat) /\ q \in Seq(Nat) /\ c \in Seq(Nat) /\ k \in Nat
  /\ w = Bytes(0, Len(w)) /\ Len(w) <= k
  /\ rpc \notin {"write", "exit"} => b = <<>>
  /\ spc \notin {"send", "exit"} => c = <<>>
  /\ rpc \notin {"stop", "exit"} =>
       /\ b = Bytes(Len(w), Len(b))
       /\ q = Bytes(Len(w) + Len(b), Len(q))
       /\ Len(w) + Len(b) + Len(q) <= k
       /\ lk = "up" /\ "udt" \in f /\ spc \notin {"stop", "exit"} =>
            /\ c = Bytes(Len(w) + Len(b) + Len(q), Len(c))
            /\ Len(w) + Len(b) + Len(q) + Len(c) = k

Flow(s) ==
  FlowOK(wrote[s], p2sBuf[s], udtq[Peer(s)], s2pBuf[Peer(s)], read[Peer(s)],
         p2s[s], s2p[Peer(s)], link, fds[s])

\* sock2peer_worker reads n bytes from its TCP socket.
LEMMA FlowRead ==
  ASSUME NEW w, NEW b, NEW q, NEW c, NEW k, NEW rpc, NEW lk, NEW f, NEW n \in Nat,
         FlowOK(w, b, q, c, k, rpc, "recv", lk, f)
  PROVE  FlowOK(w, b, q, Bytes(k, n), k + n, rpc, "send", lk, f)
<1>1. w \in Seq(Nat) /\ b \in Seq(Nat) /\ q \in Seq(Nat) /\ c = <<>> /\ k \in Nat
  BY DEF FlowOK
<1>2. PICK d \in Seq(Nat) : d = Bytes(k, n) /\ Len(d) = n
  BY <1>1, BytesType
<1>3. Len(c) = 0
  BY <1>1, EmptyType
<1>4. QED
  <2>1. FlowOK(w, b, q, d, k + n, rpc, "send", lk, f)
    <3>1. k + n \in Nat /\ Len(w) <= k + n
      BY <1>1 DEF FlowOK
    <3>2. ASSUME rpc \notin {"stop", "exit"}
          PROVE  Len(w) + Len(b) + Len(q) <= k + n
      BY <1>1, <3>2 DEF FlowOK
    <3>3. ASSUME rpc \notin {"stop", "exit"}, lk = "up", "udt" \in f
          PROVE  Len(w) + Len(b) + Len(q) = k
      BY <1>1, <1>3, <3>3 DEF FlowOK
    <3>4. QED BY <1>1, <1>2, <3>1, <3>2, <3>3 DEF FlowOK
  <2>2. QED BY <1>2, <2>1

\* sock2peer_worker hands n bytes to a connection that still carries data.
LEMMA FlowSend ==
  ASSUME NEW w, NEW b, NEW q, NEW c \in Seq(Nat), NEW k, NEW rpc, NEW lk, NEW f,
         NEW n \in 1..Len(c), NEW spc, spc = IF n = Len(c) THEN "check" ELSE "send",
         lk = "up", "udt" \in f,
         FlowOK(w, b, q, c, k, rpc, "send", lk, f)
  PROVE  FlowOK(w, b, q \o Take(c, n), Drop(c, n), k, rpc, spc, lk, f)
<1>1. w \in Seq(Nat) /\ b \in Seq(Nat) /\ q \in Seq(Nat) /\ k \in Nat
  BY DEF FlowOK
<1>2. n \in Nat /\ n \in 0..Len(c)
  OBVIOUS
<1>3. PICK u \in Seq(Nat) : u = Take(c, n) /\ Len(u) = n
  BY <1>2, TakeDropType
<1>4. PICK v \in Seq(Nat) : v = Drop(c, n) /\ Len(v) = Len(c) - n
  BY <1>2, TakeDropType
<1>5. PICK z \in Seq(Nat) : z = q \o u /\ Len(z) = Len(q) + n
  <2>1. PICK y \in Seq(Nat) : y = q
    BY <1>1
  <2>2. y \o u \in Seq(Nat) /\ Len(y \o u) = Len(y) + n
    BY <1>3, ConcatType
  <2>3. QED BY <2>1, <2>2, Zenon
<1>6. spc \notin {"send", "exit"} => v = <<>>
  BY <1>4
<1>7. ASSUME rpc \notin {"stop", "exit"}
      PROVE  /\ z = Bytes(Len(w) + Len(b), Len(z))
             /\ v = Bytes(Len(w) + Len(b) + Len(z), Len(v))
             /\ Len(w) + Len(b) + Len(z) + Len(v) = k
  <2>1. PICK j \in Nat, l \in Nat, m \in Nat :
          j = Len(w) + Len(b) /\ l = Len(q) /\ m = Len(c)
    BY <1>1
  <2>2. q = Bytes(j, l) /\ c = Bytes(j + l, m) /\ j + l + m = k
    BY <1>7, <2>1 DEF FlowOK
  <2>3. j + l \in Nat /\ m - n \in Nat /\ n \in 0..m
    BY <2>1
  <2>4. u = Bytes(j + l, n) /\ v = Bytes((j + l) + n, m - n)
    BY <1>3, <1>4, <2>2, <2>3, TakeDropBytes
  <2>5. z = Bytes(j, l + n)
    BY <1>2, <1>5, <2>2, <2>4, ConcatBytes, Zenon
  <2>6. Len(z) = l + n /\ Len(v) = m - n /\ (j + l) + n = j + (l + n)
    BY <1>4, <1>5, <2>1
  <2>7. Len(w) + Len(b) + Len(z) + Len(v) = k
    <3>1. (Len(w) + Len(b)) + Len(z) + Len(v) = j + (l + n) + (m - n)
      BY <2>1, <2>6
    <3>2. j + (l + n) + (m - n) = k
      BY <1>2, <2>2
    <3>3. QED BY <3>1, <3>2
  <2>8. z = Bytes(Len(w) + Len(b), Len(z))
    BY <2>1, <2>5, <2>6
  <2>9. v = Bytes(Len(w) + Len(b) + Len(z), Len(v))
    BY <2>1, <2>4, <2>6
  <2>10. QED BY <2>7, <2>8, <2>9
<1>8. FlowOK(w, b, z, v, k, rpc, spc, lk, f)
  <2>1. ASSUME rpc \notin {"stop", "exit"}
        PROVE  Len(w) + Len(b) + Len(z) <= k
    BY <1>1, <1>7, <2>1
  <2>2. QED BY <1>1, <1>6, <1>7, <2>1 DEF FlowOK
<1>9. QED BY <1>3, <1>4, <1>5, <1>8

\* peer2sock_worker receives n bytes.
LEMMA FlowReceive ==
  ASSUME NEW w, NEW b, NEW q \in Seq(Nat), NEW c, NEW k, NEW spc, NEW lk, NEW f,
         NEW n \in 0..Len(q),
         FlowOK(w, b, q, c, k, "recv", spc, lk, f)
  PROVE  FlowOK(w, Take(q, n), Drop(q, n), c, k, "write", spc, lk, f)
<1>1. /\ w \in Seq(Nat) /\ c \in Seq(Nat) /\ k \in Nat /\ b = <<>>
      /\ w = Bytes(0, Len(w)) /\ Len(w) <= k /\ (spc \notin {"send", "exit"} => c = <<>>)
  BY DEF FlowOK
<1>2. PICK u \in Seq(Nat) : u = Take(q, n) /\ Len(u) = n
  BY TakeDropType
<1>3. PICK v \in Seq(Nat) : v = Drop(q, n) /\ Len(v) = Len(q) - n
  BY TakeDropType
<1>4. PICK j \in Nat, l \in Nat : j = Len(w) /\ l = Len(q)
  BY <1>1
<1>5. Len(b) = 0
  BY <1>1, EmptyType
<1>6. /\ q = Bytes(j, l) /\ j + l <= k
      /\ lk = "up" /\ "udt" \in f /\ spc \notin {"stop", "exit"} =>
           c = Bytes(j + l, Len(c)) /\ j + l + Len(c) = k
  BY <1>1, <1>4, <1>5 DEF FlowOK
<1>7. n \in Nat /\ n \in 0..l /\ l - n \in Nat
  BY <1>4
<1>8. u = Bytes(j, n) /\ v = Bytes(j + n, l - n)
  BY <1>2, <1>3, <1>6, <1>7, TakeDropBytes
<1>9. Len(u) = n /\ Len(v) = l - n /\ j + n + (l - n) = j + l
  BY <1>2, <1>3, <1>4, <1>7
<1>10. FlowOK(w, u, v, c, k, "write", spc, lk, f)
  BY <1>1, <1>4, <1>6, <1>8, <1>9 DEF FlowOK
<1>11. QED BY <1>2, <1>3, <1>10

\* peer2sock_worker writes n of the bytes it holds.
LEMMA FlowWrite ==
  ASSUME NEW w, NEW b \in Seq(Nat), NEW q, NEW c, NEW k, NEW spc, NEW lk, NEW f,
         NEW n \in 0..Len(b), NEW rpc, rpc = IF n = Len(b) THEN "check" ELSE "write",
         FlowOK(w, b, q, c, k, "write", spc, lk, f)
  PROVE  FlowOK(w \o Take(b, n), Drop(b, n), q, c, k, rpc, spc, lk, f)
<1>1. /\ w \in Seq(Nat) /\ q \in Seq(Nat) /\ c \in Seq(Nat) /\ k \in Nat
      /\ (spc \notin {"send", "exit"} => c = <<>>)
  BY DEF FlowOK
<1>2. PICK u \in Seq(Nat) : u = Take(b, n) /\ Len(u) = n
  BY TakeDropType
<1>3. PICK v \in Seq(Nat) : v = Drop(b, n) /\ Len(v) = Len(b) - n
  BY TakeDropType
<1>4. PICK z \in Seq(Nat) : z = w \o u /\ Len(z) = Len(w) + n
  <2>1. PICK y \in Seq(Nat) : y = w
    BY <1>1
  <2>2. y \o u \in Seq(Nat) /\ Len(y \o u) = Len(y) + n
    BY <1>2, ConcatType
  <2>3. QED BY <2>1, <2>2, Zenon
<1>5. PICK j \in Nat, l \in Nat, m \in Nat : j = Len(w) /\ l = Len(b) /\ m = Len(q)
  BY <1>1
<1>6. /\ w = Bytes(0, j) /\ b = Bytes(j, l) /\ q = Bytes(j + l, m) /\ j + l + m <= k
      /\ lk = "up" /\ "udt" \in f /\ spc \notin {"stop", "exit"} =>
           c = Bytes(j + l + m, Len(c)) /\ j + l + m + Len(c) = k
  BY <1>5 DEF FlowOK
<1>7. n \in Nat /\ n \in 0..l /\ l - n \in Nat
  BY <1>5
<1>8. u = Bytes(j, n) /\ v = Bytes(j + n, l - n)
  BY <1>2, <1>3, <1>6, <1>7, TakeDropBytes
<1>9. z = Bytes(0, j + n)
  <2>1. Bytes(0, j) \o Bytes(0 + j, n) = Bytes(0, j + n)
    BY <1>7, ConcatBytes
  <2>2. 0 + j = j
    OBVIOUS
  <2>3. QED BY <1>4, <1>6, <1>8, <2>1, <2>2, Zenon
<1>10. /\ Len(z) = j + n /\ Len(v) = l - n /\ Len(z) + Len(v) = j + l
       /\ Len(z) <= k /\ (rpc \notin {"write", "exit"} => v = <<>>)
  <2>1. Len(z) = j + n /\ Len(v) = l - n /\ Len(z) + Len(v) = j + l
    BY <1>3, <1>4, <1>5, <1>7
  <2>2. Len(z) <= k
    BY <1>1, <1>6, <1>7, <2>1
  <2>3. rpc \notin {"write", "exit"} => v = <<>>
    BY <1>3
  <2>4. QED BY <2>1, <2>2, <2>3
<1>11. FlowOK(z, v, q, c, k, rpc, spc, lk, f)
  BY <1>1, <1>5, <1>6, <1>8, <1>9, <1>10 DEF FlowOK
<1>12. QED BY <1>2, <1>3, <1>4, <1>11

\* The connection is lost and only the first n bytes under way arrive.
LEMMA FlowCut ==
  ASSUME NEW w, NEW b, NEW q \in Seq(Nat), NEW c, NEW k, NEW rpc, NEW spc, NEW lk, NEW f,
         NEW n \in 0..Len(q), NEW spc2, spc2 = spc \/ spc2 = "exit",
         FlowOK(w, b, q, c, k, rpc, spc, lk, f)
  PROVE  FlowOK(w, b, Take(q, n), c, k, rpc, spc2, "broken", f)
<1>1. /\ w \in Seq(Nat) /\ b \in Seq(Nat) /\ c \in Seq(Nat) /\ k \in Nat
      /\ (spc2 \notin {"send", "exit"} => c = <<>>)
  BY DEF FlowOK
<1>2. PICK u \in Seq(Nat) : u = Take(q, n) /\ Len(u) = n
  BY TakeDropType
<1>3. PICK j \in Nat, l \in Nat : j = Len(w) + Len(b) /\ l = Len(q)
  BY <1>1
<1>4. ASSUME rpc \notin {"stop", "exit"}
      PROVE  u = Bytes(j, n) /\ j + n <= k
  <2>1. q = Bytes(j, l) /\ j + l <= k
    BY <1>3, <1>4 DEF FlowOK
  <2>2. n \in 0..l
    BY <1>3
  <2>3. QED BY <1>1, <1>2, <2>1, <2>2, TakeDropBytes
<1>5. FlowOK(w, b, u, c, k, rpc, spc2, "broken", f)
  BY <1>1, <1>2, <1>3, <1>4 DEF FlowOK
<1>6. QED BY <1>2, <1>5

\* A change of the program counters that neither starts nor ends a transfer,
\* and a close by a side whose receiving worker has exited, move no byte.
LEMMA FlowMove ==
  ASSUME NEW w, NEW b, NEW q, NEW c, NEW k, NEW rpc, NEW spc, NEW lk, NEW f,
         NEW rpc2, NEW spc2, NEW f2,
         FlowOK(w, b, q, c, k, rpc, spc, lk, f),
         rpc2 = rpc \/ rpc2 \in {"stop", "exit"} \/ rpc \notin {"stop", "exit"},
         rpc2 \in {"write", "exit"} \/ rpc \notin {"write", "exit"},
         spc2 = spc \/ spc2 \in {"stop", "exit"} \/ spc \notin {"stop", "exit"},
         spc2 \in {"send", "exit"} \/ spc \notin {"send", "exit"},
         f2 \subseteq f
  PROVE  FlowOK(w, b, q, c, k, rpc2, spc2, lk, f2)
BY DEF FlowOK

\* A receiving worker that has stopped no longer constrains what is under way.
LEMMA FlowStopped ==
  ASSUME NEW w, NEW b, NEW q, NEW c, NEW k, NEW rpc, NEW spc, NEW lk, NEW f,
         NEW b2 \in Seq(Nat), NEW q2 \in Seq(Nat), NEW rpc2 \in {"stop", "exit"},
         NEW lk2, NEW f2,
         rpc2 = "stop" => b2 = <<>>,
         FlowOK(w, b, q, c, k, rpc, spc, lk, f)
  PROVE  FlowOK(w, b2, q2, c, k, rpc2, spc, lk2, f2)
BY DEF FlowOK

\* Every step keeps both directions in order.
LEMMA FlowStep ==
  ASSUME TypeOK, Control, [Next]_vars, NEW r \in Side, Flow(r)
  PROVE  Flow(r)'
<1>1. PICK t \in Side : t = Peer(r) /\ t # r /\ Peer(t) = r /\ \A x \in Side : x = r \/ x = t
  BY PeerFacts
<1>2. FlowOK(wrote[r], p2sBuf[r], udtq[t], s2pBuf[t], read[t], p2s[r], s2p[t], link, fds[r])
  BY <1>1 DEF Flow
<1>3. SUFFICES FlowOK(wrote'[r], p2sBuf'[r], udtq'[t], s2pBuf'[t], read'[t],
                      p2s'[r], s2p'[t], link', fds'[r])
  BY <1>1 DEF Flow
<1>4. /\ wrote \in [Side -> Seq(Nat)] /\ udtq \in [Side -> Seq(Nat)]
      /\ s2pBuf \in [Side -> Seq(Nat)] /\ p2sBuf \in [Side -> Seq(Nat)]
      /\ read \in [Side -> Nat] /\ sent \in [Side -> Nat]
      /\ s2p \in [Side -> S2pPC] /\ p2s \in [Side -> P2sPC] /\ main \in [Side -> MainPC]
      /\ fds \in [Side -> SUBSET {"tcp", "udt"}]
  BY DEF TypeOK
<1>5. wrote' \in [Side -> Seq(Nat)] /\ udtq' \in [Side -> Seq(Nat)] /\ p2sBuf' \in [Side -> Seq(Nat)]
  BY TypeStep DEF TypeOK
<1> USE DEF endVars, workVars
<1>6. CASE LinkBreak
  <2>1. PICK k \in [Side -> 0..UdtBuf] :
          /\ \A x \in Side : k[x] <= Len(udtq[x])
          /\ udtq' = [x \in Side |-> Take(udtq[x], k[x])]
    BY <1>6 DEF LinkBreak
  <2>2. PICK n \in 0..Len(udtq[t]) : udtq'[t] = Take(udtq[t], n)
    <3>1. k[t] \in 0..UdtBuf /\ k[t] <= Len(udtq[t]) /\ Len(udtq[t]) \in Nat
      BY <1>4, <2>1
    <3>2. k[t] \in 0..Len(udtq[t])
      BY <3>1, RelayAssumption
    <3>3. udtq'[t] = Take(udtq[t], k[t])
      BY <2>1
    <3>4. QED BY <3>2, <3>3
  <2>3. /\ link' = "broken" /\ fds' = fds /\ wrote' = wrote /\ p2sBuf' = p2sBuf
        /\ s2pBuf' = s2pBuf /\ read' = read /\ p2s' = p2s /\ s2p' = s2p
    BY <1>6 DEF LinkBreak
  <2>4. FlowOK(wrote[r], p2sBuf[r], Take(udtq[t], n), s2pBuf[t], read[t],
               p2s[r], s2p[t], "broken", fds[r])
    BY <1>2, <1>4, FlowCut
  <2>5. QED BY <2>2, <2>3, <2>4
<1>7. CASE UNCHANGED vars \/ \E s \in Side : Endpoint(s)
  <2>1. /\ link' = link /\ fds' = fds /\ wrote' = wrote /\ p2sBuf' = p2sBuf /\ udtq' = udtq
        /\ s2pBuf' = s2pBuf /\ read' = read /\ p2s' = p2s /\ s2p' = s2p
    BY <1>7 DEF vars, Endpoint, EndSend, EndTake, EndEof, EndReset
  <2>2. QED BY <1>2, <2>1
<1>8. CASE Sock2Peer(t)
  <2>1. link' = link /\ fds' = fds /\ wrote' = wrote /\ p2sBuf' = p2sBuf /\ p2s' = p2s
    BY <1>8 DEF Sock2Peer, S2pCheck, S2pPoll, S2pRecv, S2pRecvEnd, ReadEnd, S2pSend, S2pSendFails, S2pSendSpins, S2pRecvInterrupted, S2pStop, Stopped
  <2>2. CASE S2pCheck(t) \/ S2pPoll(t) \/ S2pRecvEnd(t) \/ S2pRecvInterrupted(t) \/ S2pStop(t)
    <3>1. /\ udtq' = udtq /\ s2pBuf' = s2pBuf /\ read' = read
          /\ s2p'[t] \in {"stop", "exit"} \/ s2p[t] \notin {"stop", "exit"}
          /\ s2p'[t] \in {"send", "exit"} \/ s2p[t] \notin {"send", "exit"}
      BY <1>4, <2>2 DEF S2pCheck, S2pPoll, S2pRecvEnd, ReadEnd, S2pRecvInterrupted, S2pStop, Stopped
    <3>2. QED BY <1>2, <2>1, <3>1, FlowMove
  <2>3. CASE S2pRecv(t)
    <3>1. PICK n \in Nat : n = Least(RcvBuffer, sent[t] - read[t])
      BY <1>4, <2>3, RelayAssumption DEF S2pRecv, Least
    <3>2. /\ s2pBuf'[t] = Bytes(read[t], n) /\ read'[t] = read[t] + n
          /\ s2p[t] = "recv" /\ s2p'[t] = "send" /\ udtq' = udtq
      BY <1>4, <2>3, <3>1 DEF S2pRecv
    <3>3. FlowOK(wrote[r], p2sBuf[r], udtq[t], Bytes(read[t], n), read[t] + n,
                 p2s[r], "send", link, fds[r])
      BY <1>2, <3>2, FlowRead
    <3>4. QED BY <2>1, <3>2, <3>3
  <2>4. CASE S2pSend(t)
    <3>1. PICK n \in 1..Len(s2pBuf[t]) :
            /\ udtq' = IF Connected(t)
                       THEN [udtq EXCEPT ![t] = udtq[t] \o Take(s2pBuf[t], n)] ELSE udtq
            /\ s2pBuf' = [s2pBuf EXCEPT ![t] = Drop(s2pBuf[t], n)]
            /\ s2p' = [s2p EXCEPT ![t] = IF n = Len(s2pBuf[t]) THEN "check" ELSE "send"]
            /\ s2p[t] = "send" /\ read' = read
      BY <2>4 DEF S2pSend
    <3>2. s2p'[t] = IF n = Len(s2pBuf[t]) THEN "check" ELSE "send"
      BY <1>4, <3>1
    <3>3. s2pBuf'[t] = Drop(s2pBuf[t], n)
      BY <1>4, <3>1
    <3>4. s2pBuf[t] \in Seq(Nat)
      BY <1>4
    <3>5. CASE Connected(t)
      <4>1. udtq'[t] = udtq[t] \o Take(s2pBuf[t], n)
        BY <1>4, <3>1, <3>5
      <4>2. link = "up" /\ "udt" \in fds[r]
        BY <1>1, <3>5 DEF Connected
      <4>3. FlowOK(wrote[r], p2sBuf[r], udtq[t] \o Take(s2pBuf[t], n), Drop(s2pBuf[t], n),
                   read[t], p2s[r], s2p'[t], link, fds[r])
        BY <1>2, <3>1, <3>2, <3>4, <4>2, FlowSend
      <4>4. QED BY <2>1, <3>1, <3>3, <4>1, <4>3
    <3>6. CASE ~ Connected(t)
      <4>1. udtq'[t] = udtq[t] /\ ~ (link = "up" /\ "udt" \in fds[r])
        BY <1>1, <3>1, <3>6 DEF Connected
      <4>2. PICK v \in Seq(Nat) : v = Drop(s2pBuf[t], n) /\ Len(v) = Len(s2pBuf[t]) - n
        <5>1. n \in 0..Len(s2pBuf[t])
          BY <3>4
        <5>2. QED BY <3>4, <5>1, TakeDropType
      <4>3. s2p'[t] \notin {"send", "exit"} => v = <<>>
        BY <3>2, <4>2
      <4>4. FlowOK(wrote[r], p2sBuf[r], udtq[t], v, read[t], p2s[r], s2p'[t], link, fds[r])
        BY <1>2, <4>1, <4>3 DEF FlowOK
      <4>5. QED BY <2>1, <3>1, <3>3, <4>1, <4>2, <4>4
    <3>7. QED BY <3>5, <3>6
  <2>5. CASE S2pSendFails(t)
    <3>1. s2pBuf'[t] = <<>> /\ s2p'[t] = "stop" /\ udtq' = udtq /\ read' = read
      BY <1>4, <2>5 DEF S2pSendFails
    <3>2. FlowOK(wrote[r], p2sBuf[r], udtq[t], <<>>, read[t], p2s[r], "stop", link, fds[r])
      BY <1>2, EmptyType DEF FlowOK
    <3>3. QED BY <2>1, <3>1, <3>2
  <2>6. CASE S2pSendSpins(t)
    <3>1. s2pBuf'[t] = <<>> /\ s2p'[t] = "spin" /\ udtq' = udtq /\ read' = read
      BY <1>4, <2>6 DEF S2pSendSpins
    <3>2. ~ (link = "up" /\ "udt" \in fds[r])
      BY <1>1, <2>6 DEF S2pSendSpins, Connected
    <3>3. FlowOK(wrote[r], p2sBuf[r], udtq[t], <<>>, read[t], p2s[r], "spin", link, fds[r])
      BY <1>2, <3>2, EmptyType DEF FlowOK
    <3>4. QED BY <2>1, <3>1, <3>3
  <2>7. QED BY <1>8, <2>2, <2>3, <2>4, <2>5, <2>6 DEF Sock2Peer
<1>9. CASE Sock2Peer(r)
  <2>1. /\ link' = link /\ fds' = fds /\ wrote' = wrote /\ p2sBuf' = p2sBuf /\ p2s' = p2s
        /\ udtq'[t] = udtq[t] /\ s2pBuf'[t] = s2pBuf[t] /\ read'[t] = read[t] /\ s2p'[t] = s2p[t]
    BY <1>1, <1>4, <1>9
       DEF Sock2Peer, S2pCheck, S2pPoll, S2pRecv, S2pRecvEnd, ReadEnd, S2pSend, S2pSendFails, S2pSendSpins, S2pRecvInterrupted, S2pStop, Stopped
  <2>2. QED BY <1>2, <2>1
<1>10. CASE Peer2Sock(r)
  <2>1. s2pBuf' = s2pBuf /\ read' = read
    BY <1>10 DEF Peer2Sock, P2sCheck, P2sRecv, P2sRecvTimeout, P2sRecvErr, P2sErr, P2sWrite, Rest,
                 P2sWriteFails, P2sWriteSigpipe, P2sStop, Stopped
  <2>2. CASE P2sCheck(r) \/ P2sRecvTimeout(r) \/ P2sRecvErr(r) \/ P2sErr(r) \/ P2sStop(r)
    <3>1. /\ udtq' = udtq /\ wrote' = wrote /\ p2sBuf' = p2sBuf
          /\ link' = link /\ fds' = fds /\ s2p' = s2p
          /\ p2s'[r] \in {"stop", "exit"} \/ p2s[r] \notin {"stop", "exit"}
          /\ p2s'[r] \in {"write", "exit"} \/ p2s[r] \notin {"write", "exit"}
      BY <1>4, <2>2 DEF P2sCheck, P2sRecvTimeout, P2sRecvErr, P2sErr, P2sStop, Stopped
    <3>2. QED BY <1>2, <2>1, <3>1, FlowMove
  <2>3. CASE P2sRecv(r)
    <3>1. PICK n \in 0..Len(udtq[t]) : n = Least(RcvBuffer, Len(udtq[t]))
      <4>1. Len(udtq[t]) \in Nat
        BY <1>4
      <4>2. QED BY <4>1, RelayAssumption DEF Least
    <3>2. /\ p2sBuf'[r] = Take(udtq[t], n) /\ udtq'[t] = Drop(udtq[t], n)
          /\ p2s[r] = "recv" /\ p2s'[r] = "write"
          /\ wrote' = wrote /\ link' = link /\ fds' = fds /\ s2p' = s2p
      BY <1>1, <1>4, <2>3, <3>1 DEF P2sRecv
    <3>3. FlowOK(wrote[r], Take(udtq[t], n), Drop(udtq[t], n), s2pBuf[t], read[t],
                 "write", s2p[t], link, fds[r])
      BY <1>2, <1>4, <3>2, FlowReceive
    <3>4. QED BY <2>1, <3>2, <3>3
  <2>4. CASE P2sWrite(r)
    <3>1. PICK n \in 0..Len(p2sBuf[r]) :
            /\ wrote' = [wrote EXCEPT ![r] = wrote[r] \o Take(p2sBuf[r], n)]
            /\ p2sBuf' = [p2sBuf EXCEPT ![r] = Drop(p2sBuf[r], n)]
            /\ p2s' = [p2s EXCEPT ![r] = IF n = Len(p2sBuf[r]) THEN "check" ELSE "write"]
            /\ p2s[r] = "write" /\ udtq' = udtq /\ link' = link /\ fds' = fds /\ s2p' = s2p
      BY <2>4 DEF P2sWrite, Rest
    <3>2. p2s'[r] = IF n = Len(p2sBuf[r]) THEN "check" ELSE "write"
      BY <1>4, <3>1
    <3>3. wrote'[r] = wrote[r] \o Take(p2sBuf[r], n)
      BY <1>4, <3>1
    <3>4. p2sBuf'[r] = Drop(p2sBuf[r], n)
      BY <1>4, <3>1
    <3>5. p2sBuf[r] \in Seq(Nat)
      BY <1>4
    <3>6. FlowOK(wrote[r] \o Take(p2sBuf[r], n), Drop(p2sBuf[r], n), udtq[t], s2pBuf[t], read[t],
                 p2s'[r], s2p[t], link, fds[r])
      BY <1>2, <3>1, <3>2, <3>5, FlowWrite
    <3>7. QED BY <2>1, <3>1, <3>3, <3>4, <3>6
  <2>5. CASE P2sWriteFails(r) \/ P2sWriteSigpipe(r)
    <3>1. /\ p2s'[r] \in {"stop", "exit"} /\ (p2s'[r] = "stop" => p2sBuf'[r] = <<>>)
          /\ wrote' = wrote /\ s2p'[t] = s2p[t]
      BY <1>1, <1>4, <2>5 DEF P2sWriteFails, P2sWriteSigpipe
    <3>2. p2sBuf'[r] \in Seq(Nat) /\ udtq'[t] \in Seq(Nat)
      BY <1>5
    <3>3. QED BY <1>2, <2>1, <3>1, <3>2, FlowStopped
  <2>6. QED BY <1>10, <2>2, <2>3, <2>4, <2>5 DEF Peer2Sock
<1>11. CASE Peer2Sock(t)
  <2>1. CASE ~ P2sWriteSigpipe(t)
    <3>1. /\ link' = link /\ fds' = fds /\ wrote'[r] = wrote[r] /\ p2sBuf'[r] = p2sBuf[r]
          /\ p2s'[r] = p2s[r] /\ udtq'[t] = udtq[t]
          /\ s2pBuf' = s2pBuf /\ read' = read /\ s2p' = s2p
      <4>1. CASE P2sRecv(t)
        BY <1>1, <1>4, <4>1 DEF P2sRecv
      <4>2. CASE P2sWrite(t)
        BY <1>1, <1>4, <4>2 DEF P2sWrite
      <4>3. CASE P2sWriteFails(t)
        BY <1>1, <1>4, <4>3 DEF P2sWriteFails
      <4>4. CASE P2sCheck(t) \/ P2sRecvTimeout(t) \/ P2sRecvErr(t) \/ P2sErr(t) \/ P2sStop(t)
        BY <1>1, <1>4, <4>4 DEF P2sCheck, P2sRecvTimeout, P2sRecvErr, P2sErr, P2sStop
      <4>5. QED BY <1>11, <2>1, <4>1, <4>2, <4>3, <4>4 DEF Peer2Sock
    <3>2. QED BY <1>2, <3>1
  <2>2. CASE P2sWriteSigpipe(t)
    <3>1. PICK n \in 0..Len(udtq[t]) :
            udtq' = [udtq EXCEPT ![t] = Take(udtq[t], n), ![Peer(t)] = <<>>]
      BY <2>2 DEF P2sWriteSigpipe
    <3>2. udtq'[t] = Take(udtq[t], n)
      BY <1>1, <1>4, <3>1
    <3>3. /\ link' = "broken" /\ fds'[r] = fds[r] /\ wrote' = wrote /\ p2sBuf' = p2sBuf
          /\ p2s'[r] = p2s[r] /\ s2pBuf' = s2pBuf /\ read' = read /\ s2p'[t] = "exit"
      BY <1>1, <1>4, <2>2 DEF P2sWriteSigpipe
    <3>4. FlowOK(wrote[r], p2sBuf[r], Take(udtq[t], n), s2pBuf[t], read[t],
                 p2s[r], "exit", "broken", fds[r])
      BY <1>2, <1>4, FlowCut
    <3>5. QED BY <3>2, <3>3, <3>4
  <2>3. QED BY <2>1, <2>2
<1>12. CASE StartChild(r)
  <2>1. /\ wrote' = wrote /\ p2sBuf' = p2sBuf /\ s2pBuf' = s2pBuf /\ read' = read
        /\ s2p'[t] = s2p[t]
    BY <1>1, <1>4, <1>12
       DEF StartChild, RcvCreate, SndCreate, RcvJoin, SndJoin, SndEnded, UdtClose, Lingered, UdtCloseLingers, TcpClose
  <2>2. CASE RcvCreate(r) \/ SndCreate(r) \/ RcvJoin(r) \/ SndJoin(r) \/ TcpClose(r)
    <3>1. /\ udtq' = udtq /\ link' = link /\ fds'[r] \subseteq fds[r]
          /\ p2s'[r] = p2s[r] \/ (p2s[r] = "new" /\ p2s'[r] = "check")
      BY <1>4, <2>2 DEF RcvCreate, SndCreate, RcvJoin, SndJoin, SndEnded, TcpClose, Control, Phases
    <3>2. QED BY <1>2, <2>1, <3>1, FlowMove
  <2>3. CASE UdtClose(r) \/ UdtCloseLingers(r)
    <3>1. p2s'[r] = "exit"
      BY <2>3 DEF UdtClose, Lingered, UdtCloseLingers, Control, Phases
    <3>2. p2sBuf'[r] \in Seq(Nat) /\ udtq'[t] \in Seq(Nat)
      BY <1>5
    <3>3. QED BY <1>2, <2>1, <3>1, <3>2, FlowStopped
  <2>4. QED BY <1>12, <2>2, <2>3 DEF StartChild
<1>13. CASE StartChild(t)
  <2>1. /\ wrote' = wrote /\ p2sBuf' = p2sBuf /\ s2pBuf' = s2pBuf /\ read' = read
        /\ p2s'[r] = p2s[r] /\ fds'[r] = fds[r]
    BY <1>1, <1>4, <1>13
       DEF StartChild, RcvCreate, SndCreate, RcvJoin, SndJoin, SndEnded, UdtClose, Lingered, UdtCloseLingers, TcpClose
  <2>2. CASE ~ UdtCloseLingers(t)
    <3>1. /\ udtq'[t] = udtq[t] /\ link' = link
          /\ s2p'[t] = s2p[t] \/ (s2p[t] = "new" /\ s2p'[t] = "check")
      BY <1>1, <1>4, <1>13, <2>2
         DEF StartChild, RcvCreate, SndCreate, RcvJoin, SndJoin, SndEnded, UdtClose, Lingered, TcpClose, Control, Phases
    <3>2. QED BY <1>2, <2>1, <3>1, FlowMove
  <2>3. CASE UdtCloseLingers(t)
    <3>1. PICK n \in 0..(Len(udtq[t]) - 1) :
            udtq' = [udtq EXCEPT ![t] = Take(udtq[t], n), ![Peer(t)] = <<>>]
      BY <2>3 DEF UdtCloseLingers
    <3>2. udtq'[t] = Take(udtq[t], n)
      BY <1>1, <1>4, <3>1
    <3>3. link' = "broken" /\ s2p' = s2p
      BY <2>3 DEF UdtCloseLingers
    <3>4. n \in 0..Len(udtq[t])
      BY <1>4
    <3>5. FlowOK(wrote[r], p2sBuf[r], Take(udtq[t], n), s2pBuf[t], read[t],
                 p2s[r], s2p[t], "broken", fds[r])
      BY <1>2, <1>4, <3>4, FlowCut
    <3>6. QED BY <2>1, <3>2, <3>3, <3>5
  <2>4. QED BY <2>2, <2>3
<1>14. QED BY <1>1, <1>6, <1>7, <1>8, <1>9, <1>10, <1>11, <1>12, <1>13 DEF Next

\* Both directions stay in order, whatever the buffer sizes and the faults.
THEOREM FlowHolds == Spec => [](\A s \in Side : Flow(s))
<1> DEFINE Flows == \A s \in Side : Flow(s)
<1>1. Init => Flows
  <2>1. Bytes(0, 0) = <<>>
    BY BytesEmpty
  <2>2. QED BY <2>1, EmptyType, PeerFacts DEF Init, Flow, FlowOK
<1>2. TypeOK /\ Control /\ Flows /\ [Next]_vars => Flows'
  BY FlowStep
<1>3. QED BY <1>1, <1>2, TypeCorrect, ControlHolds, PTL DEF Spec

\* What a TCP socket is given is a prefix of what the far endpoint sent, for
\* every number of bytes, buffer size and set of faults.
THEOREM StreamsIntact == Spec => []StreamIntegrity
<1>1. TypeOK /\ (\A s \in Side : Flow(s)) => StreamIntegrity
  <2> SUFFICES ASSUME TypeOK, \A s \in Side : Flow(s), NEW s \in Side
               PROVE  Len(wrote[s]) <= sent[Peer(s)] /\ wrote[s] = Bytes(0, Len(wrote[s]))
    BY DEF StreamIntegrity
  <2>1. PICK t \in Side : t = Peer(s)
    BY PeerFacts
  <2>2. /\ wrote[s] \in Seq(Nat) /\ wrote[s] = Bytes(0, Len(wrote[s])) /\ Len(wrote[s]) <= read[t]
    BY <2>1 DEF Flow, FlowOK
  <2>3. read[t] \in Nat /\ sent[t] \in Nat /\ read[t] <= sent[t]
    BY DEF TypeOK, Capacity
  <2>4. Len(wrote[s]) <= sent[t]
    BY <2>2, <2>3
  <2>5. QED BY <2>1, <2>2, <2>4
<1>2. QED BY <1>1, TypeCorrect, FlowHolds, PTL

-----------------------------------------------------------------------------
(* The bytes of one direction, counted.                                    *)

\* No byte is dropped between the two TCP sockets.
Conserved(s, t) ==
  Len(wrote[t]) + Len(p2sBuf[t]) + Len(udtq[s]) + Len(s2pBuf[s]) = read[s]

\* The buffers of one direction have lengths.
LEMMA Lengths ==
  ASSUME TypeOK, NEW s \in Side, NEW t \in Side
  PROVE  /\ Len(wrote[t]) \in Nat /\ Len(p2sBuf[t]) \in Nat /\ Len(udtq[s]) \in Nat
         /\ Len(s2pBuf[s]) \in Nat /\ read[s] \in Nat
BY DEF TypeOK

\* The arithmetic of n bytes that are read, sent, received or written.
LEMMA ConservedMoves ==
  ASSUME TypeOK, NEW s \in Side, NEW t \in Side, Conserved(s, t), NEW n \in Nat
  PROVE  /\ Len(s2pBuf[s]) = 0 =>
              Len(wrote[t]) + Len(p2sBuf[t]) + Len(udtq[s]) + n = read[s] + n
         /\ Len(wrote[t]) + Len(p2sBuf[t]) + (Len(udtq[s]) + n) + (Len(s2pBuf[s]) - n) = read[s]
         /\ Len(p2sBuf[t]) = 0 =>
              Len(wrote[t]) + n + (Len(udtq[s]) - n) + Len(s2pBuf[s]) = read[s]
         /\ (Len(wrote[t]) + n) + (Len(p2sBuf[t]) - n) + Len(udtq[s]) + Len(s2pBuf[s]) = read[s]
<1>1. PICK a \in Nat, b \in Nat, c \in Nat, d \in Nat, k \in Nat :
        /\ a = Len(wrote[t]) /\ b = Len(p2sBuf[t]) /\ c = Len(udtq[s]) /\ d = Len(s2pBuf[s])
        /\ k = read[s] /\ a + b + c + d = k
  BY Lengths DEF Conserved
<1>2. a + b + c + d = k
  BY <1>1
<1>3. /\ d = 0 => a + b + c + n = k + n
      /\ a + b + (c + n) + (d - n) = k
      /\ b = 0 => a + n + (c - n) + d = k
      /\ (a + n) + (b - n) + c + d = k
  BY <1>2
<1>4. QED BY <1>1, <1>3, Zenon

\* recv of sock2peer_worker puts what it read into an empty data[].
LEMMA ConservedRead ==
  ASSUME TypeOK, NEW s \in Side, NEW t \in Side, Conserved(s, t), S2pRecv(s), s2pBuf[s] = <<>>
  PROVE  Conserved(s, t)'
<1>1. s2pBuf \in [Side -> Seq(Nat)] /\ read \in [Side -> Nat] /\ sent \in [Side -> Nat]
  BY DEF TypeOK
<1>2. PICK n \in Nat : n = Least(RcvBuffer, sent[s] - read[s])
  BY <1>1, RelayAssumption DEF S2pRecv, Least
<1>3. /\ s2pBuf'[s] = Bytes(read[s], n) /\ read'[s] = read[s] + n
      /\ UNCHANGED <<wrote, udtq, p2sBuf>>
  BY <1>1, <1>2 DEF S2pRecv
<1>4. Len(s2pBuf'[s]) = n /\ Len(s2pBuf[s]) = 0
  <2>1. read[s] \in Nat
    BY <1>1
  <2>2. Len(Bytes(read[s], n)) = n
    BY <2>1, BytesType
  <2>3. Len(s2pBuf'[s]) = n
    BY <1>3, <2>2, Zenon
  <2>4. Len(s2pBuf[s]) = 0
    BY EmptyType
  <2>5. QED BY <2>3, <2>4
<1>5. Len(wrote[t]) + Len(p2sBuf[t]) + Len(udtq[s]) + n = read[s] + n
  BY <1>2, <1>4, ConservedMoves
<1>6. QED BY <1>3, <1>4, <1>5 DEF Conserved

\* UDT::send moves bytes from data[] to the connection.
LEMMA ConservedSend ==
  ASSUME TypeOK, NEW s \in Side, NEW t \in Side, Conserved(s, t), S2pSend(s), Connected(s)
  PROVE  Conserved(s, t)'
<1>1. s2pBuf \in [Side -> Seq(Nat)] /\ udtq \in [Side -> Seq(Nat)]
  BY DEF TypeOK
<1>2. PICK n \in 1..Len(s2pBuf[s]) :
        /\ udtq' = [udtq EXCEPT ![s] = udtq[s] \o Take(s2pBuf[s], n)]
        /\ s2pBuf' = [s2pBuf EXCEPT ![s] = Drop(s2pBuf[s], n)]
        /\ UNCHANGED <<read, wrote, p2sBuf>>
  BY DEF S2pSend
<1>3. n \in 0..Len(s2pBuf[s]) /\ n \in Nat
  BY Lengths
<1>4. PICK u \in Seq(Nat) : u = Take(s2pBuf[s], n) /\ Len(u) = n
  BY <1>1, <1>3, TakeDropType
<1>5. Len(s2pBuf'[s]) = Len(s2pBuf[s]) - n
  BY <1>1, <1>2, <1>3, TakeDropType
<1>6. Len(udtq'[s]) = Len(udtq[s]) + n
  <2>1. PICK q \in Seq(Nat) : q = udtq[s]
    BY <1>1
  <2>2. Len(q \o u) = Len(q) + n
    BY <1>4, ConcatType
  <2>3. udtq'[s] = q \o u
    BY <1>1, <1>2, <1>4, <2>1
  <2>4. QED BY <2>1, <2>2, <2>3
<1>7. Len(wrote[t]) + Len(p2sBuf[t]) + (Len(udtq[s]) + n) + (Len(s2pBuf[s]) - n) = read[s]
  BY <1>3, ConservedMoves
<1>8. QED BY <1>2, <1>5, <1>6, <1>7 DEF Conserved

\* UDT::recv moves bytes from the connection to an empty data[].
LEMMA ConservedReceive ==
  ASSUME TypeOK, NEW s \in Side, NEW t \in Side, Peer(t) = s, Conserved(s, t),
         P2sRecv(t), p2sBuf[t] = <<>>
  PROVE  Conserved(s, t)'
<1>1. p2sBuf \in [Side -> Seq(Nat)] /\ udtq \in [Side -> Seq(Nat)]
  BY DEF TypeOK
<1>2. PICK n \in 0..Len(udtq[s]) : n = Least(RcvBuffer, Len(udtq[s])) /\ n \in Nat
  BY Lengths, RelayAssumption DEF Least
<1>3. /\ p2sBuf'[t] = Take(udtq[s], n) /\ udtq'[s] = Drop(udtq[s], n)
      /\ UNCHANGED <<read, wrote, s2pBuf>>
  BY <1>1, <1>2 DEF P2sRecv
<1>4. Len(p2sBuf'[t]) = n /\ Len(udtq'[s]) = Len(udtq[s]) - n /\ Len(p2sBuf[t]) = 0
  <2>1. PICK q \in Seq(Nat) : q = udtq[s]
    BY <1>1
  <2>2. Len(Take(q, n)) = n /\ Len(Drop(q, n)) = Len(q) - n
    BY <1>2, <2>1, TakeDropType
  <2>3. Len(p2sBuf[t]) = 0
    BY EmptyType
  <2>4. QED BY <1>3, <2>1, <2>2, <2>3
<1>5. Len(wrote[t]) + n + (Len(udtq[s]) - n) + Len(s2pBuf[s]) = read[s]
  BY <1>2, <1>4, ConservedMoves
<1>6. QED BY <1>3, <1>4, <1>5 DEF Conserved

\* write moves bytes from data[] to the TCP socket.
LEMMA ConservedWrite ==
  ASSUME TypeOK, NEW s \in Side, NEW t \in Side, Conserved(s, t), P2sWrite(t)
  PROVE  Conserved(s, t)'
<1>1. p2sBuf \in [Side -> Seq(Nat)] /\ wrote \in [Side -> Seq(Nat)]
  BY DEF TypeOK
<1>2. PICK n \in 0..Len(p2sBuf[t]) :
        /\ wrote' = [wrote EXCEPT ![t] = wrote[t] \o Take(p2sBuf[t], n)]
        /\ p2sBuf' = [p2sBuf EXCEPT ![t] = Drop(p2sBuf[t], n)]
        /\ UNCHANGED <<read, udtq, s2pBuf>>
  BY DEF P2sWrite, Rest
<1>3. n \in Nat
  BY Lengths
<1>4. PICK u \in Seq(Nat) : u = Take(p2sBuf[t], n) /\ Len(u) = n
  BY <1>1, TakeDropType
<1>5. Len(p2sBuf'[t]) = Len(p2sBuf[t]) - n
  BY <1>1, <1>2, TakeDropType
<1>6. Len(wrote'[t]) = Len(wrote[t]) + n
  <2>1. PICK q \in Seq(Nat) : q = wrote[t]
    BY <1>1
  <2>2. Len(q \o u) = Len(q) + n
    BY <1>4, ConcatType
  <2>3. wrote'[t] = q \o u
    BY <1>1, <1>2, <1>4, <2>1
  <2>4. QED BY <2>1, <2>2, <2>3
<1>7. (Len(wrote[t]) + n) + (Len(p2sBuf[t]) - n) + Len(udtq[s]) + Len(s2pBuf[s]) = read[s]
  BY <1>3, ConservedMoves
<1>8. QED BY <1>2, <1>5, <1>6, <1>7 DEF Conserved

-----------------------------------------------------------------------------
(* A transfer one way is complete.                                         *)

\* Only side s has sent anything, no endpoint has reset, the connection is up, and
\* no worker gave up.
OneWay(s) ==
  /\ link = "up" /\ eop[s] # "gone" /\ eop[Peer(s)] = "open" /\ sent[Peer(s)] = 0
  /\ ~ Interrupted

\* The sending side stops only when it has read everything and passed it on.
SenderStops(s) ==
  shutdown[s] = 1 \/ s2p[s] \in {"stop", "exit"} \/ p2s[s] \in {"err", "stop", "exit"}
    => eop[s] = "eof" /\ read[s] = sent[s] /\ s2pBuf[s] = <<>>

\* The receiving side t never sends, and stops only when side s has closed and all
\* it sent is written: sock2peer_worker of t is told by peer2sock_worker of t.
ReceiverStops(s, t) ==
  /\ s2p[t] # "send"
  /\ shutdown[t] = 1 \/ s2p[t] \in {"stop", "exit"} => p2s[t] = "exit"
  /\ p2s[t] \in {"err", "stop", "exit"} =>
       "udt" \notin fds[s] /\ udtq[s] = <<>> /\ p2sBuf[t] = <<>>

Draining(s) ==
  OneWay(s) => SenderStops(s) /\ ReceiverStops(s, Peer(s)) /\ Conserved(s, Peer(s))

\* A transfer that is one way now has been one way so far.
LEMMA OneWayBefore ==
  ASSUME TypeOK, Control, [Next]_vars, NEW s \in Side, OneWay(s)'
  PROVE  OneWay(s)
<1>1. PICK t \in Side : t = Peer(s) /\ t # s
  BY PeerFacts
<1>2. link' = "up" /\ eop'[s] # "gone" /\ eop'[t] = "open" /\ sent'[t] = 0
  BY <1>1 DEF OneWay
<1>i. ~ Interrupted
  BY CausesStay DEF OneWay, Interrupted
<1>3. SUFFICES link = "up" /\ eop[s] # "gone" /\ eop[t] = "open" /\ sent[t] = 0
  BY <1>1, <1>i DEF OneWay
<1>4. eop \in [Side -> {"open", "eof", "gone"}] /\ sent \in [Side -> Nat]
  BY DEF TypeOK
<1> USE DEF endVars, workVars
<1>5. CASE LinkBreak
  BY <1>2, <1>5 DEF LinkBreak
<1>6. ASSUME NEW x \in Side, Endpoint(x)
      PROVE  link = "up" /\ eop[s] # "gone" /\ eop[t] = "open" /\ sent[t] = 0
  <2>1. CASE EndSend(x)
    <3>1. link' = link /\ eop' = eop /\ sent'[x] = sent[x] + 1 /\ (x # t => sent'[t] = sent[t])
      BY <1>4, <2>1 DEF EndSend
    <3>2. sent[x] \in Nat
      BY <1>4
    <3>3. QED BY <1>2, <3>1, <3>2
  <2>2. CASE EndTake(x) \/ EndEof(x) \/ EndReset(x)
    BY <1>2, <1>4, <2>2 DEF EndTake, EndEof, EndReset
  <2>3. QED BY <1>6, <2>1, <2>2 DEF Endpoint
<1>7. ASSUME NEW x \in Side, Sock2Peer(x) PROVE UNCHANGED <<link, eop, sent>>
  BY <1>7 DEF Sock2Peer, S2pCheck, S2pPoll, S2pRecv, S2pRecvEnd, S2pSend, S2pSendFails, S2pSendSpins, S2pRecvInterrupted, S2pStop
<1>8. ASSUME NEW x \in Side, Peer2Sock(x) PROVE UNCHANGED <<link, eop, sent>>
  BY <1>2, <1>8 DEF Peer2Sock, P2sCheck, P2sRecv, P2sRecvTimeout, P2sRecvErr, P2sErr, P2sWrite,
                    P2sWriteFails, P2sWriteSigpipe, P2sStop
<1>9. ASSUME NEW x \in Side, StartChild(x) PROVE UNCHANGED <<link, eop, sent>>
  BY <1>2, <1>9 DEF StartChild, RcvCreate, SndCreate, RcvJoin, SndJoin, UdtClose, UdtCloseLingers, TcpClose
<1>10. CASE UNCHANGED vars
  BY <1>2, <1>10 DEF vars
<1>11. QED BY <1>2, <1>5, <1>6, <1>7, <1>8, <1>9, <1>10 DEF Next

\* While the transfer is one way every step keeps it complete.
LEMMA DrainStep ==
  ASSUME TypeOK, Control, \A x \in Side : Flow(x), [Next]_vars, TypeOK',
         NEW s \in Side, Draining(s)
  PROVE  Draining(s)'
<1>1. PICK t \in Side : t = Peer(s) /\ t # s /\ Peer(t) = s /\ \A x \in Side : x = s \/ x = t
  BY PeerFacts
<1> SUFFICES ASSUME OneWay(s)'
             PROVE  (SenderStops(s) /\ ReceiverStops(s, t) /\ Conserved(s, t))'
  BY <1>1 DEF Draining
<1>2. SenderStops(s) /\ ReceiverStops(s, t) /\ Conserved(s, t)
  BY <1>1, OneWayBefore DEF Draining
<1>3. link = "up" /\ eop[s] # "gone" /\ eop[t] = "open" /\ sent[t] = 0
  BY <1>1, OneWayBefore DEF OneWay
<1>3n. link' = "up" /\ eop'[s] # "gone" /\ eop'[t] = "open"
  BY <1>1 DEF OneWay
<1>3i. errno'[s] # "recv" /\ errno'[t] # "recv"
  BY DEF OneWay, Interrupted
<1>4e. errno \in [Side -> {"none", "poll", "recv"}]
  BY DEF TypeOK
<1>4. /\ wrote \in [Side -> Seq(Nat)] /\ udtq \in [Side -> Seq(Nat)]
      /\ s2pBuf \in [Side -> Seq(Nat)] /\ p2sBuf \in [Side -> Seq(Nat)]
      /\ read \in [Side -> Nat] /\ sent \in [Side -> Nat] /\ shutdown \in [Side -> {0, 1}]
      /\ s2p \in [Side -> S2pPC] /\ p2s \in [Side -> P2sPC] /\ main \in [Side -> MainPC]
      /\ fds \in [Side -> SUBSET {"tcp", "udt"}] /\ eop \in [Side -> {"open", "eof", "gone"}]
  BY DEF TypeOK
<1>5. /\ p2s[t] \notin {"write", "exit"} => p2sBuf[t] = <<>>
      /\ s2p[s] \notin {"send", "exit"} => s2pBuf[s] = <<>>
  BY <1>1 DEF Flow, FlowOK
<1>6. \A x \in Side : "udt" \notin fds[x] => p2s[x] = "exit" /\ s2p[x] = "exit"
  <2> TAKE x \in Side
  <2>1. "udt" \notin fds[x] => main[x] \in {"tcpclose", "done", "dead"}
    BY DEF Control, Phases
  <2>2. QED BY <2>1 DEF Control, Phases
<1>7. ~ Connected(s) => s2p[s] = "exit"
  <2>1. ~ Connected(s) => p2s[t] = "exit"
    BY <1>1, <1>3, <1>6 DEF Connected
  <2>2. QED BY <1>2, <1>6, <2>1 DEF ReceiverStops
<1>8. Len(s2pBuf[s]) \in Nat
  BY Lengths
<1> USE DEF endVars, workVars
<1>9. CASE LinkBreak
  BY <1>3n, <1>9 DEF LinkBreak
<1>10. ASSUME NEW x \in Side, Endpoint(x)
       PROVE  (SenderStops(s) /\ ReceiverStops(s, t) /\ Conserved(s, t))'
  <2>1. UNCHANGED <<read, wrote, udtq, fds, shutdown, s2p, s2pBuf, p2s, p2sBuf>>
    BY <1>10 DEF Endpoint, EndSend, EndTake, EndEof, EndReset
  <2>2. eop[s] = "eof" => eop'[s] = "eof" /\ sent'[s] = sent[s]
    BY <1>3n, <1>4, <1>10 DEF Endpoint, EndSend, EndTake, EndEof, EndReset
  <2>3. QED BY <1>2, <2>1, <2>2 DEF SenderStops, ReceiverStops, Conserved
<1>11. CASE Sock2Peer(s)
  <2>1. UNCHANGED <<eop, sent, wrote, fds, p2s, p2sBuf>>
    BY <1>11 DEF Sock2Peer, S2pCheck, S2pPoll, S2pRecv, S2pRecvEnd, S2pSend, S2pSendFails, S2pSendSpins, S2pRecvInterrupted, S2pStop
  <2>2. s2p'[t] = s2p[t] /\ shutdown'[t] = shutdown[t]
    BY <1>1, <1>4, <1>11 DEF Sock2Peer, S2pCheck, S2pPoll, S2pRecv, S2pRecvEnd, ReadEnd, S2pSend,
                             S2pSendFails, S2pSendSpins, S2pRecvInterrupted, S2pStop, Stopped
  <2>0. ~ S2pRecvInterrupted(s)
    BY <1>3i, <1>4e DEF S2pRecvInterrupted
  <2>3. CASE S2pCheck(s) \/ S2pPoll(s) \/ S2pRecvEnd(s) \/ S2pStop(s)
    <3>1. UNCHANGED <<read, udtq, s2pBuf>>
      BY <2>3 DEF S2pCheck, S2pPoll, S2pRecvEnd, ReadEnd, S2pStop
    <3>2. SenderStops(s)'
      BY <1>2, <1>3, <1>4, <1>5, <2>1, <2>3, <3>1
         DEF SenderStops, S2pCheck, S2pPoll, S2pRecvEnd, ReadEnd, S2pStop, Stopped
    <3>3. QED BY <1>2, <2>1, <2>2, <3>1, <3>2 DEF ReceiverStops, Conserved
  <2>4. CASE S2pRecv(s)
    <3>1. /\ s2p[s] = "recv" /\ s2p'[s] = "send" /\ read[s] < sent[s] /\ UNCHANGED <<udtq, shutdown>>
      BY <1>4, <2>4 DEF S2pRecv
    <3>2. Conserved(s, t)'
      BY <1>2, <1>5, <2>4, <3>1, ConservedRead
    <3>3. read[s] # sent[s]
      BY <1>4, <3>1
    <3>4. SenderStops(s)'
      BY <1>2, <1>4, <2>1, <3>1, <3>3 DEF SenderStops
    <3>5. QED BY <1>2, <2>1, <2>2, <3>1, <3>2, <3>4 DEF ReceiverStops
  <2>5. CASE S2pSend(s)
    <3>1. Connected(s)
      BY <1>7, <2>5 DEF S2pSend
    <3>2. s2p'[s] \in {"check", "send"} /\ s2pBuf[s] # <<>> /\ UNCHANGED <<read, shutdown>>
      BY <1>4, <1>8, <2>5, EmptyType DEF S2pSend
    <3>3. Conserved(s, t)'
      BY <1>2, <2>5, <3>1, ConservedSend
    <3>4. SenderStops(s)'
      BY <1>2, <2>1, <3>2 DEF SenderStops
    <3>5. "udt" \in fds[s]
      BY <1>6, <2>5 DEF S2pSend
    <3>6. QED BY <1>2, <2>1, <2>2, <3>3, <3>4, <3>5 DEF ReceiverStops
  <2>6. CASE S2pSendFails(s) \/ S2pSendSpins(s)
    BY <1>7, <2>6 DEF S2pSendFails, S2pSendSpins
  <2>7. QED BY <1>11, <2>0, <2>3, <2>4, <2>5, <2>6 DEF Sock2Peer
<1>12. CASE Sock2Peer(t)
  <2>1. /\ ~ S2pRecv(t) /\ ~ S2pRecvEnd(t) /\ ~ S2pRecvInterrupted(t)
        /\ ~ S2pSend(t) /\ ~ S2pSendFails(t) /\ ~ S2pSendSpins(t)
    <3>1. read[t] \in Nat /\ sent[t] = 0 /\ eop[t] = "open" /\ s2p[t] # "send"
      BY <1>2, <1>3, <1>4 DEF ReceiverStops
    <3>2. ~ (read[t] < sent[t])
      BY <3>1
    <3>3. ~ S2pRecv(t)
      BY <3>2, Zenon DEF S2pRecv
    <3>4. ~ S2pRecvInterrupted(t)
      BY <1>3i, <1>4e DEF S2pRecvInterrupted
    <3>5. QED BY <3>1, <3>3, <3>4 DEF S2pRecvEnd, S2pSend, S2pSendFails, S2pSendSpins
  <2>2. /\ UNCHANGED <<eop, sent, read, wrote, udtq, fds, s2pBuf, p2s, p2sBuf>>
        /\ s2p'[s] = s2p[s] /\ shutdown'[s] = shutdown[s]
    BY <1>1, <1>4, <1>12, <2>1 DEF Sock2Peer, S2pCheck, S2pPoll, S2pStop, Stopped
  <2>3. ReceiverStops(s, t)'
    BY <1>2, <1>4, <1>12, <2>1, <2>2 DEF ReceiverStops, Sock2Peer, S2pCheck, S2pPoll, S2pStop, Stopped
  <2>4. QED BY <1>2, <2>2, <2>3 DEF SenderStops, Conserved
<1>13. CASE Peer2Sock(s)
  <2>1. ~ P2sWriteFails(s) /\ ~ P2sWriteSigpipe(s)
    BY <1>3 DEF P2sWriteFails, P2sWriteSigpipe
  <2>2. /\ UNCHANGED <<eop, sent, read, fds, s2p, s2pBuf>>
        /\ wrote'[t] = wrote[t] /\ udtq'[s] = udtq[s] /\ p2sBuf'[t] = p2sBuf[t]
        /\ p2s'[t] = p2s[t] /\ shutdown'[t] = shutdown[t]
    BY <1>1, <1>4, <1>13, <2>1 DEF Peer2Sock, P2sCheck, P2sRecv, P2sRecvTimeout, P2sRecvErr, P2sErr,
                                   P2sWrite, P2sStop, Stopped
  <2>3. SenderStops(s)'
    <3>1. CASE P2sRecvErr(s)
      <4>1. s2p[s] = "exit"
        BY <1>7, <3>1 DEF P2sRecvErr
      <4>2. QED BY <1>2, <2>2, <4>1 DEF SenderStops
    <3>2. CASE P2sWrite(s)
      <4>1. p2s'[s] \in {"check", "write"} /\ shutdown' = shutdown
        BY <1>4, <3>2 DEF P2sWrite
      <4>2. QED BY <1>2, <2>2, <4>1 DEF SenderStops
    <3>3. CASE P2sCheck(s) \/ P2sRecv(s) \/ P2sRecvTimeout(s) \/ P2sErr(s) \/ P2sStop(s)
      <4>1. /\ shutdown'[s] = 1 => shutdown[s] = 1 \/ p2s[s] = "stop"
            /\ p2s'[s] \in {"err", "stop", "exit"} =>
                 shutdown[s] = 1 \/ p2s[s] \in {"err", "stop"}
        BY <1>4, <3>3 DEF P2sCheck, P2sRecv, P2sRecvTimeout, P2sErr, P2sStop, Stopped
      <4>2. QED BY <1>2, <2>2, <4>1 DEF SenderStops
    <3>4. QED BY <1>13, <2>1, <3>1, <3>2, <3>3 DEF Peer2Sock
  <2>4. QED BY <1>2, <2>2, <2>3 DEF ReceiverStops, Conserved
<1>14. CASE Peer2Sock(t)
  <2>1. ~ P2sWriteFails(t) /\ ~ P2sWriteSigpipe(t)
    BY <1>3 DEF P2sWriteFails, P2sWriteSigpipe
  <2>2. /\ UNCHANGED <<eop, sent, read, fds, s2p, s2pBuf>>
        /\ p2s'[s] = p2s[s] /\ shutdown'[s] = shutdown[s]
    BY <1>1, <1>4, <1>14, <2>1 DEF Peer2Sock, P2sCheck, P2sRecv, P2sRecvTimeout, P2sRecvErr, P2sErr,
                                   P2sWrite, P2sStop, Stopped
  <2>3. SenderStops(s)'
    BY <1>2, <2>2 DEF SenderStops
  <2>4. CASE P2sCheck(t) \/ P2sRecvTimeout(t) \/ P2sRecvErr(t) \/ P2sErr(t) \/ P2sStop(t)
    <3>1. UNCHANGED <<wrote, udtq, p2sBuf>>
      BY <2>4 DEF P2sCheck, P2sRecvTimeout, P2sRecvErr, P2sErr, P2sStop
    <3>2. P2sRecvErr(t) => "udt" \notin fds[s] /\ udtq[s] = <<>> /\ p2sBuf[t] = <<>>
      BY <1>1, <1>3, <1>5 DEF P2sRecvErr, Connected
    <3>3. p2s[t] # "exit" /\ shutdown[t] = 0 /\ s2p[t] \notin {"stop", "exit"}
      BY <1>2, <1>4, <2>4 DEF ReceiverStops, P2sCheck, P2sRecvTimeout, P2sRecvErr, P2sErr, P2sStop
    <3>4. shutdown'[t] = 1 => p2s'[t] = "exit"
      BY <1>4, <2>4, <3>3 DEF P2sCheck, P2sRecvTimeout, P2sRecvErr, P2sErr, P2sStop, Stopped
    <3>5. p2s'[t] \in {"err", "stop", "exit"} => P2sRecvErr(t) \/ p2s[t] \in {"err", "stop"}
      BY <1>4, <2>4, <3>3 DEF P2sCheck, P2sRecvTimeout, P2sErr, P2sStop
    <3>6. ReceiverStops(s, t)'
      BY <1>2, <2>2, <3>1, <3>2, <3>3, <3>4, <3>5 DEF ReceiverStops
    <3>7. QED BY <1>2, <2>2, <2>3, <3>1, <3>6 DEF Conserved
  <2>5. CASE P2sRecv(t)
    <3>1. p2s[t] = "recv" /\ p2s'[t] = "write" /\ UNCHANGED shutdown
      BY <1>4, <2>5 DEF P2sRecv
    <3>2. Conserved(s, t)'
      BY <1>1, <1>2, <1>5, <2>5, <3>1, ConservedReceive
    <3>3. ReceiverStops(s, t)'
      BY <1>2, <2>2, <3>1 DEF ReceiverStops
    <3>4. QED BY <2>3, <3>2, <3>3
  <2>6. CASE P2sWrite(t)
    <3>1. p2s[t] = "write" /\ p2s'[t] \in {"check", "write"} /\ UNCHANGED shutdown
      BY <1>4, <2>6 DEF P2sWrite
    <3>2. Conserved(s, t)'
      BY <1>2, <2>6, ConservedWrite
    <3>3. ReceiverStops(s, t)'
      BY <1>2, <2>2, <3>1 DEF ReceiverStops
    <3>4. QED BY <2>3, <3>2, <3>3
  <2>7. QED BY <1>14, <2>1, <2>4, <2>5, <2>6 DEF Peer2Sock
<1>15. CASE StartChild(s)
  <2>1. ~ UdtCloseLingers(s)
    BY <1>3n DEF UdtCloseLingers
  <2>2. /\ UNCHANGED <<eop, sent, read, wrote, shutdown, s2pBuf, p2sBuf>>
        /\ s2p'[t] = s2p[t] /\ p2s'[t] = p2s[t] /\ udtq'[s] = udtq[s] /\ fds'[s] \subseteq fds[s]
        /\ s2p'[s] \in {s2p[s], "check"} /\ p2s'[s] \in {p2s[s], "check"}
    BY <1>1, <1>4, <1>15, <2>1 DEF StartChild, RcvCreate, SndCreate, RcvJoin, SndJoin, UdtClose, Lingered, TcpClose
  <2>3. QED BY <1>2, <2>2 DEF SenderStops, ReceiverStops, Conserved
<1>16. CASE StartChild(t)
  <2>1. ~ UdtCloseLingers(t)
    BY <1>3n DEF UdtCloseLingers
  <2>2. /\ UNCHANGED <<eop, sent, read, wrote, shutdown, s2pBuf, p2sBuf>>
        /\ s2p'[s] = s2p[s] /\ p2s'[s] = p2s[s] /\ fds'[s] = fds[s]
        /\ s2p'[t] \in {s2p[t], "check"} /\ (p2s'[t] = p2s[t] \/ (p2s[t] = "new" /\ p2s'[t] = "check"))
    <3>1. main[t] = "rcvcreate" => p2s[t] = "new"
      BY DEF Control, Phases
    <3>2. CASE RcvCreate(t) \/ SndCreate(t)
      BY <1>1, <1>4, <3>1, <3>2 DEF RcvCreate, SndCreate
    <3>3. CASE RcvJoin(t) \/ SndJoin(t) \/ UdtClose(t) \/ TcpClose(t)
      BY <1>1, <1>4, <3>3 DEF RcvJoin, SndJoin, UdtClose, TcpClose
    <3>4. QED BY <1>16, <2>1, <3>2, <3>3 DEF StartChild
  <2>3. udtq'[s] = udtq[s]
    <3>1. CASE UdtClose(t)
      <4>1. p2s[t] = "exit"
        BY <3>1 DEF UdtClose, Control, Phases
      <4>2. udtq[s] = <<>>
        BY <1>2, <4>1 DEF ReceiverStops
      <4>3. udtq'[s] = <<>>
        BY <1>1, <1>4, <3>1 DEF UdtClose, Lingered
      <4>4. QED BY <4>2, <4>3
    <3>2. CASE ~ UdtClose(t)
      BY <1>16, <2>1, <3>2 DEF StartChild, RcvCreate, SndCreate, RcvJoin, SndJoin, TcpClose
    <3>3. QED BY <3>1, <3>2
  <2>4. QED BY <1>2, <2>2, <2>3 DEF SenderStops, ReceiverStops, Conserved
<1>17. CASE UNCHANGED vars
  BY <1>2, <1>17 DEF vars, SenderStops, ReceiverStops, Conserved
<1>18. QED BY <1>1, <1>9, <1>10, <1>11, <1>12, <1>13, <1>14, <1>15, <1>16, <1>17 DEF Next

\* In a transfer one way over a connection that stays up, the end of file of the
\* sender closes the tunnel only when the receiver's socket was given every byte,
\* for every number of bytes, buffer size and set of faults.
THEOREM OneWayAlwaysDrains == Spec => []OneWayDrains
<1> DEFINE Flows == \A s \in Side : Flow(s)
           Drains == \A s \in Side : Draining(s)
<1>1. Init => Drains
  <2> SUFFICES ASSUME Init, NEW s \in Side PROVE Draining(s)
    OBVIOUS
  <2>1. PICK t \in Side : t = Peer(s)
    BY PeerFacts
  <2>2. SenderStops(s) /\ ReceiverStops(s, t)
    BY DEF Init, SenderStops, ReceiverStops
  <2>3. Conserved(s, t)
    BY EmptyType DEF Init, Conserved
  <2>4. QED BY <2>1, <2>2, <2>3 DEF Draining
<1>2. TypeOK /\ Control /\ Flows /\ Drains /\ [Next]_vars /\ TypeOK' => Drains'
  BY DrainStep
<1>3. TypeOK /\ Control /\ Drains => OneWayDrains
  <2> SUFFICES ASSUME TypeOK, Control, Drains, NEW s \in Side,
                      link = "up", eop[s] = "eof", ~ Interrupted, eop[Peer(s)] = "open",
                      sent[Peer(s)] = 0, main[Peer(s)] = "done"
               PROVE  Len(wrote[Peer(s)]) = sent[s]
    BY DEF OneWayDrains
  <2>1. PICK t \in Side : t = Peer(s)
    BY PeerFacts
  <2>2. SenderStops(s) /\ ReceiverStops(s, t) /\ Conserved(s, t)
    BY <2>1 DEF Draining, OneWay
  <2>3. "udt" \notin fds[s] /\ udtq[s] = <<>> /\ p2sBuf[t] = <<>>
    BY <2>1, <2>2 DEF Control, Phases, ReceiverStops
  <2>4. s2p[s] = "exit"
    BY <2>3 DEF TypeOK, MainPC, Control, Phases
  <2>5. read[s] = sent[s] /\ s2pBuf[s] = <<>>
    BY <2>2, <2>4 DEF SenderStops
  <2>6. Len(wrote[t]) \in Nat
    BY DEF TypeOK
  <2>7. QED BY <2>1, <2>2, <2>3, <2>5, <2>6, EmptyType DEF Conserved
<1>4. Spec => []Flows
  BY FlowHolds
<1>5. QED BY <1>1, <1>2, <1>3, <1>4, TypeCorrect, ControlHolds, PTL DEF Spec

-----------------------------------------------------------------------------
(* Nothing is dropped before the receiving side's UDT::close.              *)

\* While the other side can be given what side s reads, every byte is in a buffer,
\* and a worker that has ended left nothing in its own.
Kept(s) ==
  Carrying(s) =>
    /\ Conserved(s, Peer(s))
    /\ s2p[s] = "exit" => s2pBuf[s] = <<>>
    /\ p2s[Peer(s)] = "exit" => p2sBuf[Peer(s)] = <<>>

\* A side that can be given bytes now could always be given bytes.
LEMMA CarryingBefore ==
  ASSUME TypeOK, [Next]_vars, NEW s \in Side, Carrying(s)'
  PROVE  Carrying(s)
<1>1. PICK t \in Side : t = Peer(s)
  BY PeerFacts
<1>2. link' = "up" /\ "udt" \in fds'[t] /\ eop'[t] # "gone"
  BY <1>1 DEF Carrying, Connected
<1>3. SUFFICES link = "up" /\ "udt" \in fds[t] /\ eop[t] # "gone"
  BY <1>1 DEF Carrying, Connected
<1>4. eop \in [Side -> {"open", "eof", "gone"}] /\ fds \in [Side -> SUBSET {"tcp", "udt"}]
  BY DEF TypeOK
<1> USE DEF endVars, workVars
<1>5. CASE LinkBreak
  BY <1>2, <1>5 DEF LinkBreak
<1>6. ASSUME NEW x \in Side, Endpoint(x)
      PROVE  UNCHANGED <<link, fds>> /\ (eop'[t] # "gone" => eop[t] # "gone")
  BY <1>4, <1>6 DEF Endpoint, EndSend, EndTake, EndEof, EndReset
<1>7. ASSUME NEW x \in Side, Sock2Peer(x) PROVE UNCHANGED <<link, fds, eop>>
  BY <1>7 DEF Sock2Peer, S2pCheck, S2pPoll, S2pRecv, S2pRecvEnd, S2pSend, S2pSendFails, S2pSendSpins, S2pRecvInterrupted, S2pStop
<1>8. ASSUME NEW x \in Side, Peer2Sock(x) PROVE UNCHANGED <<link, fds, eop>>
  BY <1>2, <1>8 DEF Peer2Sock, P2sCheck, P2sRecv, P2sRecvTimeout, P2sRecvErr, P2sErr, P2sWrite,
                    P2sWriteFails, P2sWriteSigpipe, P2sStop
<1>9. ASSUME NEW x \in Side, StartChild(x)
      PROVE  UNCHANGED <<link, eop>> /\ fds'[t] \subseteq fds[t]
  BY <1>2, <1>4, <1>9 DEF StartChild, RcvCreate, SndCreate, RcvJoin, SndJoin, UdtClose,
                          UdtCloseLingers, TcpClose
<1>10. CASE UNCHANGED vars
  BY <1>2, <1>10 DEF vars
<1>11. QED BY <1>2, <1>5, <1>6, <1>7, <1>8, <1>9, <1>10 DEF Next

\* Every step moves bytes from one buffer to the next, or drops them only when the
\* other side can no longer be given any.
LEMMA KeptStep ==
  ASSUME TypeOK, Control, \A x \in Side : Flow(x), [Next]_vars,
         NEW s \in Side, Kept(s)
  PROVE  Kept(s)'
<1>1. PICK t \in Side : t = Peer(s) /\ t # s /\ Peer(t) = s /\ \A x \in Side : x = s \/ x = t
  BY PeerFacts
<1> DEFINE Emptied == /\ s2p[s] = "exit" => s2pBuf[s] = <<>>
                      /\ p2s[t] = "exit" => p2sBuf[t] = <<>>
<1> SUFFICES ASSUME Carrying(s)'
             PROVE  (Conserved(s, t) /\ Emptied)'
  BY <1>1 DEF Kept
<1>2. Carrying(s) /\ Conserved(s, t) /\ Emptied
  BY <1>1, CarryingBefore DEF Kept
<1>3. Connected(s) /\ link = "up" /\ "udt" \in fds[t] /\ eop[t] # "gone"
  BY <1>1, <1>2 DEF Carrying, Connected
<1>3n. link' = "up" /\ "udt" \in fds'[t]
  BY <1>1 DEF Carrying, Connected
<1>4. /\ wrote \in [Side -> Seq(Nat)] /\ udtq \in [Side -> Seq(Nat)]
      /\ s2pBuf \in [Side -> Seq(Nat)] /\ p2sBuf \in [Side -> Seq(Nat)]
      /\ read \in [Side -> Nat] /\ sent \in [Side -> Nat]
      /\ s2p \in [Side -> S2pPC] /\ p2s \in [Side -> P2sPC]
      /\ fds \in [Side -> SUBSET {"tcp", "udt"}]
  BY DEF TypeOK
<1>5. /\ p2s[t] # "write" => p2sBuf[t] = <<>>
      /\ s2p[s] # "send" => s2pBuf[s] = <<>>
  BY <1>1, <1>2 DEF Flow, FlowOK
<1> USE DEF endVars, workVars
<1>8. CASE LinkBreak
  BY <1>3n, <1>8 DEF LinkBreak
<1>9. ASSUME NEW x \in Side, Endpoint(x) PROVE (Conserved(s, t) /\ Emptied)'
  <2>1. UNCHANGED <<read, wrote, udtq, s2p, s2pBuf, p2s, p2sBuf>>
    BY <1>9 DEF Endpoint, EndSend, EndTake, EndEof, EndReset
  <2>2. QED BY <1>2, <2>1 DEF Conserved
<1>10. CASE Sock2Peer(s)
  <2>1. UNCHANGED <<wrote, p2s, p2sBuf>>
    BY <1>10 DEF Sock2Peer, S2pCheck, S2pPoll, S2pRecv, S2pRecvEnd, S2pSend, S2pSendFails, S2pSendSpins, S2pRecvInterrupted, S2pStop
  <2>2. CASE S2pCheck(s) \/ S2pPoll(s) \/ S2pRecvEnd(s) \/ S2pRecvInterrupted(s) \/ S2pStop(s)
    <3>1. UNCHANGED <<read, udtq, s2pBuf>> /\ s2p[s] # "send"
      BY <2>2 DEF S2pCheck, S2pPoll, S2pRecvEnd, ReadEnd, S2pRecvInterrupted, S2pStop
    <3>2. QED BY <1>2, <1>5, <2>1, <3>1 DEF Conserved
  <2>3. CASE S2pRecv(s)
    <3>1. s2p[s] = "recv" /\ s2p'[s] = "send"
      BY <1>4, <2>3 DEF S2pRecv
    <3>2. QED BY <1>2, <1>5, <2>1, <2>3, <3>1, ConservedRead
  <2>4. CASE S2pSend(s)
    <3>1. s2p'[s] # "exit"
      BY <1>4, <2>4 DEF S2pSend
    <3>2. QED BY <1>2, <1>3, <2>1, <2>4, <3>1, ConservedSend
  <2>5. CASE S2pSendFails(s) \/ S2pSendSpins(s)
    BY <1>3, <2>5 DEF S2pSendFails, S2pSendSpins
  <2>6. QED BY <1>10, <2>2, <2>3, <2>4, <2>5 DEF Sock2Peer
<1>11. CASE Sock2Peer(t)
  <2>1. /\ UNCHANGED <<wrote, p2s, p2sBuf>>
        /\ read'[s] = read[s] /\ udtq'[s] = udtq[s] /\ s2p'[s] = s2p[s] /\ s2pBuf'[s] = s2pBuf[s]
    BY <1>1, <1>4, <1>11 DEF Sock2Peer, S2pCheck, S2pPoll, S2pRecv, S2pRecvEnd, ReadEnd, S2pSend,
                             S2pSendFails, S2pSendSpins, S2pRecvInterrupted, S2pStop
  <2>2. QED BY <1>2, <2>1 DEF Conserved
<1>12. CASE Peer2Sock(s)
  <2>1. ~ P2sWriteSigpipe(s)
    BY <1>3n DEF P2sWriteSigpipe
  <2>2. /\ UNCHANGED <<read, s2p, s2pBuf>>
        /\ wrote'[t] = wrote[t] /\ udtq'[s] = udtq[s] /\ p2sBuf'[t] = p2sBuf[t] /\ p2s'[t] = p2s[t]
    BY <1>1, <1>4, <1>12, <2>1 DEF Peer2Sock, P2sCheck, P2sRecv, P2sRecvTimeout, P2sRecvErr, P2sErr,
                                   P2sWrite, P2sWriteFails, P2sStop
  <2>3. QED BY <1>2, <2>2 DEF Conserved
<1>13. CASE Peer2Sock(t)
  <2>1. ~ P2sWriteFails(t) /\ ~ P2sWriteSigpipe(t)
    BY <1>3 DEF P2sWriteFails, P2sWriteSigpipe
  <2>2. UNCHANGED <<read, s2p, s2pBuf>>
    BY <1>13, <2>1 DEF Peer2Sock, P2sCheck, P2sRecv, P2sRecvTimeout, P2sRecvErr, P2sErr, P2sWrite,
                       P2sStop
  <2>3. CASE P2sCheck(t) \/ P2sRecvTimeout(t) \/ P2sRecvErr(t) \/ P2sErr(t) \/ P2sStop(t)
    <3>1. UNCHANGED <<wrote, udtq, p2sBuf>> /\ p2s[t] # "write"
      BY <2>3 DEF P2sCheck, P2sRecvTimeout, P2sRecvErr, P2sErr, P2sStop
    <3>2. QED BY <1>2, <1>5, <2>2, <3>1 DEF Conserved
  <2>4. CASE P2sRecv(t)
    <3>1. p2s[t] = "recv" /\ p2s'[t] = "write"
      BY <1>4, <2>4 DEF P2sRecv
    <3>2. QED BY <1>1, <1>2, <1>5, <2>2, <2>4, <3>1, ConservedReceive
  <2>5. CASE P2sWrite(t)
    <3>1. p2s'[t] # "exit"
      BY <1>4, <2>5 DEF P2sWrite
    <3>2. QED BY <1>2, <2>2, <2>5, <3>1, ConservedWrite
  <2>6. QED BY <1>13, <2>1, <2>3, <2>4, <2>5 DEF Peer2Sock
<1>14. CASE StartChild(s)
  <2>1. ~ UdtCloseLingers(s)
    BY <1>3n DEF UdtCloseLingers
  <2>2. /\ UNCHANGED <<read, wrote, s2pBuf, p2sBuf>> /\ udtq'[s] = udtq[s] /\ p2s'[t] = p2s[t]
        /\ s2p'[s] \in {s2p[s], "check"}
    BY <1>1, <1>4, <1>14, <2>1 DEF StartChild, RcvCreate, SndCreate, RcvJoin, SndJoin, UdtClose, Lingered, TcpClose
  <2>3. QED BY <1>2, <2>2 DEF Conserved
<1>15. CASE StartChild(t)
  <2>1. ~ UdtClose(t) /\ ~ UdtCloseLingers(t)
    BY <1>3n, <1>4 DEF UdtClose, UdtCloseLingers
  <2>2. /\ UNCHANGED <<read, wrote, udtq, s2pBuf, p2sBuf>> /\ s2p'[s] = s2p[s]
        /\ p2s'[t] \in {p2s[t], "check"}
    BY <1>1, <1>4, <1>15, <2>1 DEF StartChild, RcvCreate, SndCreate, RcvJoin, SndJoin, TcpClose
  <2>3. QED BY <1>2, <2>2 DEF Conserved
<1>16. CASE UNCHANGED vars
  BY <1>2, <1>16 DEF vars, Conserved
<1>17. QED BY <1>1, <1>8, <1>9, <1>10, <1>11, <1>12, <1>13, <1>14, <1>15, <1>16 DEF Next

\* Kept, always.
LEMMA KeptHolds == Spec => [](\A s \in Side : Kept(s))
<1> DEFINE Flows == \A s \in Side : Flow(s)
           Keeps == \A s \in Side : Kept(s)
<1>1. Init => Keeps
  <2> SUFFICES ASSUME Init, NEW s \in Side PROVE Kept(s)
    OBVIOUS
  <2>1. PICK t \in Side : t = Peer(s)
    BY PeerFacts
  <2>2. Conserved(s, t)
    BY EmptyType DEF Init, Conserved
  <2>3. QED BY <2>1, <2>2 DEF Kept, Init
<1>2. TypeOK /\ Control /\ Flows /\ Keeps /\ [Next]_vars => Keeps'
  BY KeptStep
<1>3. Spec => []Flows
  BY FlowHolds
<1>4. QED BY <1>1, <1>2, <1>3, TypeCorrect, ControlHolds, PTL DEF Spec

\* Between recv on one TCP socket and write on the other nothing is lost as long as the
\* receiving side has not called UDT::close, whatever the two stop flags do, for every
\* number of bytes, buffer size and set of faults.
THEOREM NothingEverDropped == Spec => []NothingDropped
<1>1. TypeOK /\ (\A s \in Side : Flow(s)) /\ (\A s \in Side : Kept(s)) => NothingDropped
  <2> SUFFICES ASSUME TypeOK, \A s \in Side : Flow(s), \A s \in Side : Kept(s),
                      NEW s \in Side, Carrying(s)
               PROVE  Len(wrote[Peer(s)]) + UnderWay(s) = read[s]
    BY DEF NothingDropped
  <2>1. PICK t \in Side : t = Peer(s) /\ Peer(t) = s
    BY PeerFacts
  <2>2. Conserved(s, t) /\ (s2p[s] = "exit" => s2pBuf[s] = <<>>) /\ (p2s[t] = "exit" => p2sBuf[t] = <<>>)
    BY <2>1 DEF Kept
  <2>3. /\ p2s[t] # "write" => Len(p2sBuf[t]) = 0
        /\ s2p[s] # "send" => Len(s2pBuf[s]) = 0
    BY <2>1, <2>2, EmptyType DEF Flow, FlowOK
  <2>4. PICK a \in Nat, b \in Nat, c \in Nat, d \in Nat :
          /\ a = Len(wrote[t]) /\ b = Len(p2sBuf[t]) /\ c = Len(udtq[s]) /\ d = Len(s2pBuf[s])
          /\ a + b + c + d = read[s]
    BY <2>2, Lengths DEF Conserved
  <2>5. UnderWay(s) = d + c + b
    BY <2>1, <2>3, <2>4 DEF UnderWay
  <2>6. a + (d + c + b) = a + b + c + d
    OBVIOUS
  <2>7. QED BY <2>1, <2>4, <2>5, <2>6
<1>2. QED BY <1>1, TypeCorrect, FlowHolds, KeptHolds, PTL

\* A reader that is slow holds its writer back: what one endpoint has sent and the other
\* has not read fits the kernel's buffers, the two data[] and the UDT connection.
THEOREM BacklogBounded ==
  Spec => [](\A s \in Side :
    Carrying(s) => sent[s] - taken[Peer(s)] <= 2 * TcpBuf + 2 * RcvBuffer + UdtBuf)
<1> DEFINE Bounded == \A s \in Side :
             Carrying(s) => sent[s] - taken[Peer(s)] <= 2 * TcpBuf + 2 * RcvBuffer + UdtBuf
<1>1. TypeOK /\ (\A s \in Side : Kept(s)) => Bounded
  <2> SUFFICES ASSUME TypeOK, \A s \in Side : Kept(s), NEW s \in Side, Carrying(s)
               PROVE  sent[s] - taken[Peer(s)] <= 2 * TcpBuf + 2 * RcvBuffer + UdtBuf
    OBVIOUS
  <2>1. PICK t \in Side : t = Peer(s)
    BY PeerFacts
  <2>2. PICK a \in Nat, b \in Nat, c \in Nat, d \in Nat :
          /\ a = Len(wrote[t]) /\ b = Len(p2sBuf[t]) /\ c = Len(udtq[s]) /\ d = Len(s2pBuf[s])
          /\ a + b + c + d = read[s]
    <3>1. Conserved(s, t)
      BY <2>1 DEF Kept
    <3>2. QED BY <3>1, Lengths DEF Conserved
  <2>3. /\ sent[s] \in Nat /\ read[s] \in Nat /\ taken[t] \in Nat
        /\ sent[s] - read[s] <= TcpBuf /\ a - taken[t] <= TcpBuf
        /\ b <= RcvBuffer /\ c <= UdtBuf /\ d <= RcvBuffer
    BY <2>2 DEF TypeOK, Capacity
  <2>4. TcpBuf \in Nat /\ RcvBuffer \in Nat /\ UdtBuf \in Nat
    BY RelayAssumption
  <2>5. sent[s] - taken[t] <= 2 * TcpBuf + 2 * RcvBuffer + UdtBuf
    <3>1. PICK k \in Nat, m \in Nat, e \in Nat : k = sent[s] /\ m = taken[t] /\ e = read[s]
      BY <2>3
    <3>2. /\ a + b + c + d = e /\ k - e <= TcpBuf /\ a - m <= TcpBuf
          /\ b <= RcvBuffer /\ c <= UdtBuf /\ d <= RcvBuffer
      BY <2>2, <2>3, <3>1
    <3>3. k - m <= 2 * TcpBuf + 2 * RcvBuffer + UdtBuf
      BY <2>4, <3>2
    <3>4. QED BY <3>1, <3>3
  <2>6. QED BY <2>1, <2>5
<1>2. QED BY <1>1, TypeCorrect, KeptHolds, PTL

-----------------------------------------------------------------------------
(* Relay implements Pipe.                                                  *)

\* A step that changes none of what an endpoint can observe is a stutter.
LEMMA PipeStutter ==
  ASSUME sent' = sent, wrote' = wrote, Over' <=> Over,
         \A x \in Side : "tcp" \in fds'[x] <=> "tcp" \in fds[x]
  PROVE  UNCHANGED Stream!pipeVars
<1>1. [x \in Side |-> "tcp" \in fds'[x]] = [x \in Side |-> "tcp" \in fds[x]]
  OBVIOUS
<1>2. Over' = Over
  BY DEF Over, Ended, Interrupted
<1>3. QED BY <1>1, <1>2 DEF Stream!pipeVars

\* Closing the TCP socket of one side closes that end of the pipe only.
LEMMA PipeCut ==
  ASSUME NEW s \in Side,
         "tcp" \notin fds'[s], \A x \in Side : x # s => fds'[x] = fds[x]
  PROVE  [x \in Side |-> "tcp" \in fds'[x]]
           = [[x \in Side |-> "tcp" \in fds[x]] EXCEPT ![s] = FALSE]
<1> DEFINE F == [x \in Side |-> "tcp" \in fds[x]]
<1>1. [F EXCEPT ![s] = FALSE] = [x \in Side |-> IF x = s THEN FALSE ELSE F[x]]
  BY Zenon
<1>2. \A x \in Side : ("tcp" \in fds'[x]) = (IF x = s THEN FALSE ELSE F[x])
  <2> TAKE x \in Side
  <2>1. CASE x = s
    <3>1. ("tcp" \in fds'[x]) = FALSE
      BY <2>1
    <3>2. QED BY <2>1, <3>1, Zenon
  <2>2. CASE x # s
    <3>1. F[x] = ("tcp" \in fds[x])
      BY Zenon
    <3>2. fds'[x] = fds[x]
      BY <2>2, Zenon
    <3>3. QED BY <2>2, <3>1, <3>2, Zenon
  <2>3. QED BY <2>1, <2>2, Zenon
<1>3. QED BY <1>1, <1>2, Zenon

\* Each step of the relay is a step of the pipe or a stutter.
LEMMA PipeStep ==
  ASSUME TypeOK, Control, \A s \in Side : Flow(s), [Next]_vars,
         TypeOK', Control', (\A s \in Side : Flow(s))'
  PROVE  [Stream!PipeNext]_(Stream!pipeVars)
<1>a. /\ sent \in [Side -> Nat] /\ wrote \in [Side -> Seq(Nat)]
      /\ fds \in [Side -> SUBSET {"tcp", "udt"}] /\ eop \in [Side -> {"open", "eof", "gone"}]
      /\ main \in [Side -> MainPC]
  BY DEF TypeOK
<1>b. Stream!End = Side /\ \A s \in Side : Stream!Far(s) = Peer(s)
  BY DEF Stream!End, Side, Stream!Far, Peer
<1>c. \A x \in Side : p2s[x] = "exit" => Over
  BY DEF Control, Caused
<1> USE DEF endVars, workVars
<1>1. CASE LinkBreak
  <2>1. Over' /\ sent' = sent /\ wrote' = wrote /\ fds' = fds
    BY <1>1 DEF LinkBreak, Over, Ended
  <2>2. Stream!Finish
    BY <2>1 DEF Stream!Finish
  <2>3. QED BY <2>2 DEF Stream!PipeNext
<1>2. ASSUME NEW s \in Side, Endpoint(s) PROVE [Stream!PipeNext]_(Stream!pipeVars)
  <2>1. CASE EndSend(s)
    <3>1. /\ "tcp" \in fds[s] /\ sent' = [sent EXCEPT ![s] = sent[s] + 1]
          /\ wrote' = wrote /\ fds' = fds /\ eop' = eop /\ link' = link /\ errno' = errno
      BY <2>1 DEF EndSend
    <3>2. Over' = Over
      BY <3>1 DEF Over, Ended, Interrupted
    <3>3. Stream!Send(s)
      BY <3>1, <3>2 DEF Stream!Send
    <3>4. QED BY <1>b, <3>3 DEF Stream!PipeNext
  <2>2. CASE EndTake(s)
    BY <2>2, PipeStutter DEF EndTake, Over, Ended, Interrupted
  <2>3. CASE EndEof(s) \/ EndReset(s)
    <3>1. sent' = sent /\ wrote' = wrote /\ fds' = fds
      BY <2>3 DEF EndEof, EndReset
    <3>2. eop'[s] # "open"
      BY <1>a, <2>3 DEF EndEof, EndReset
    <3>3. Over'
      BY <3>2 DEF Over, Ended, Interrupted
    <3>4. Stream!Finish
      BY <3>1, <3>3 DEF Stream!Finish
    <3>5. QED BY <3>4 DEF Stream!PipeNext
  <2>4. QED BY <1>2, <2>1, <2>2, <2>3 DEF Endpoint
<1>3. ASSUME NEW s \in Side, Sock2Peer(s) PROVE [Stream!PipeNext]_(Stream!pipeVars)
  <2>1. sent' = sent /\ wrote' = wrote /\ fds' = fds
    BY <1>3 DEF Sock2Peer, S2pCheck, S2pPoll, S2pRecv, S2pRecvEnd, ReadEnd, S2pSend, S2pSendFails, S2pSendSpins, S2pRecvInterrupted, S2pStop, Stopped
  <2>2. CASE Over
    <3>1. Over'
      BY <2>2, OverStable
    <3>2. QED BY <2>1, <2>2, <3>1, PipeStutter
  <2>3. CASE ~ Over /\ Over'
    <3>1. Stream!Finish
      BY <2>1, <2>3 DEF Stream!Finish
    <3>2. QED BY <3>1 DEF Stream!PipeNext
  <2>4. CASE ~ Over /\ ~ Over'
    BY <2>1, <2>4, PipeStutter
  <2>5. QED BY <2>2, <2>3, <2>4
<1>4. ASSUME NEW s \in Side, Peer2Sock(s) PROVE [Stream!PipeNext]_(Stream!pipeVars)
  <2>1. CASE P2sWriteSigpipe(s)
    <3>1. /\ sent' = sent /\ wrote' = wrote /\ fds' = [fds EXCEPT ![s] = {}]
          /\ eop' = eop /\ eop[s] # "open"
      BY <2>1 DEF P2sWriteSigpipe
    <3>2. Over /\ Over'
      BY <3>1 DEF Over, Ended, Interrupted
    <3>3. [x \in Side |-> "tcp" \in fds'[x]]
            = [[x \in Side |-> "tcp" \in fds[x]] EXCEPT ![s] = FALSE]
      <4>1. "tcp" \notin fds'[s] /\ \A x \in Side : x # s => fds'[x] = fds[x]
        BY <1>a, <3>1
      <4>2. QED BY <4>1, PipeCut
    <3>4. Stream!Cut(s)
      BY <3>1, <3>2, <3>3 DEF Stream!Cut
    <3>5. QED BY <1>b, <3>4 DEF Stream!PipeNext
  <2>2. CASE P2sWrite(s)
    <3>1. PICK n \in 0..Len(p2sBuf[s]) :
            wrote' = [wrote EXCEPT ![s] = wrote[s] \o Take(p2sBuf[s], n)]
      BY <2>2 DEF P2sWrite, Rest
    <3>2. sent' = sent /\ fds' = fds /\ eop' = eop /\ link' = link /\ errno' = errno /\ p2s[s] = "write"
      BY <2>2 DEF P2sWrite, Rest
    <3>3. Over' = Over
      BY <3>2 DEF Over, Ended, Interrupted
    <3>4. PICK j \in Nat, l \in Nat, b \in Seq(Nat) :
            j = Len(wrote[s]) /\ b = p2sBuf[s] /\ l = Len(b)
      BY <1>a DEF TypeOK
    <3>5. n \in Nat /\ n \in 0..l
      BY <3>4
    <3>6. b = Bytes(j, l)
      BY <3>2, <3>4 DEF Flow, FlowOK
    <3>7. Take(b, n) = Bytes(j, n)
      BY <3>5, <3>6, TakeDropBytes
    <3>8. CASE n = 0
      <4>1. wrote[s] \o Take(b, n) = wrote[s]
        BY <1>a, <3>7, <3>8, BytesEmpty
      <4>2. wrote' = wrote
        BY <1>a, <3>1, <3>4, <4>1
      <4>3. QED BY <3>2, <3>3, <4>2, PipeStutter
    <3>9. CASE n # 0
      <4>1. wrote' = [wrote EXCEPT ![s] = wrote[s] \o Bytes(j, n)]
        BY <3>1, <3>4, <3>7
      <4>2. PICK m \in Nat : m = sent[Peer(s)]
        BY <1>a, PeerFacts
      <4>3. j + n <= m
        <5>1. j + l <= read[Peer(s)]
          <6>1. PICK k \in Nat, d \in Nat : k = read[Peer(s)] /\ d = Len(udtq[Peer(s)])
            <7>1. PICK t \in Side : t = Peer(s)
              BY PeerFacts
            <7>2. read[t] \in Nat /\ udtq[t] \in Seq(Nat)
              BY DEF TypeOK
            <7>3. QED BY <7>1, <7>2
          <6>2. j + l + d <= k
            BY <3>2, <3>4, <6>1 DEF Flow, FlowOK
          <6>3. j + l <= k
            BY <6>2
          <6>4. QED BY <6>1, <6>3
        <5>2. read[Peer(s)] \in Nat /\ read[Peer(s)] <= m
          BY <4>2, PeerFacts DEF TypeOK, Capacity
        <5>3. QED BY <3>5, <5>1, <5>2
      <4>4. n \in 1..(m - j)
        BY <3>5, <3>9, <4>3
      <4>5. "tcp" \in fds[s]
        BY <1>a, <3>2 DEF Control, Phases, MainPC
      <4>6. Stream!Deliver(s)
        <5>1. n \in 1..(sent[Stream!Far(s)] - Len(wrote[s]))
          BY <1>b, <3>4, <4>2, <4>4
        <5>2. wrote' = [wrote EXCEPT ![s] = wrote[s] \o [i \in 1..n |-> Len(wrote[s]) + i]]
          BY <3>4, <4>1 DEF Bytes
        <5>3. QED BY <3>2, <3>3, <4>5, <5>1, <5>2 DEF Stream!Deliver
      <4>7. QED BY <1>b, <4>6 DEF Stream!PipeNext
    <3>10. QED BY <3>8, <3>9
  <2>3. CASE ~ P2sWrite(s) /\ ~ P2sWriteSigpipe(s)
    <3>1. sent' = sent /\ wrote' = wrote /\ fds' = fds /\ eop' = eop /\ link' = link /\ errno' = errno
      BY <1>4, <2>3 DEF Peer2Sock, P2sCheck, P2sRecv, P2sRecvTimeout, P2sRecvErr, P2sErr,
                        P2sWriteFails, P2sStop, Stopped
    <3>2. QED BY <3>1, PipeStutter DEF Over, Ended, Interrupted
  <2>4. QED BY <2>1, <2>2, <2>3
<1>5. ASSUME NEW s \in Side, StartChild(s) PROVE [Stream!PipeNext]_(Stream!pipeVars)
  <2>1. sent' = sent /\ wrote' = wrote /\ eop' = eop /\ errno' = errno
    BY <1>5 DEF StartChild, RcvCreate, SndCreate, RcvJoin, SndJoin, SndEnded, UdtClose, Lingered, UdtCloseLingers, TcpClose
  <2>2. CASE TcpClose(s)
    <3>1. fds' = [fds EXCEPT ![s] = fds[s] \ {"tcp"}] /\ link' = link
      BY <2>2 DEF TcpClose
    <3>2. Over /\ Over'
      BY <1>c, <2>1, <2>2, <3>1 DEF TcpClose, Control, Phases, Over, Ended, Interrupted
    <3>3. [x \in Side |-> "tcp" \in fds'[x]]
            = [[x \in Side |-> "tcp" \in fds[x]] EXCEPT ![s] = FALSE]
      <4>1. "tcp" \notin fds'[s] /\ \A x \in Side : x # s => fds'[x] = fds[x]
        BY <1>a, <3>1
      <4>2. QED BY <4>1, PipeCut
    <3>4. Stream!Cut(s)
      BY <2>1, <3>2, <3>3 DEF Stream!Cut
    <3>5. QED BY <1>b, <3>4 DEF Stream!PipeNext
  <2>3. CASE UdtClose(s) \/ UdtCloseLingers(s)
    <3>1. \A x \in Side : "tcp" \in fds'[x] <=> "tcp" \in fds[x]
      <4>1. fds' = [fds EXCEPT ![s] = fds[s] \ {"udt"}]
        BY <2>3 DEF UdtClose, Lingered, UdtCloseLingers
      <4>2. \A x \in Side : fds'[x] = IF x = s THEN fds[x] \ {"udt"} ELSE fds[x]
        BY <1>a, <4>1
      <4>3. QED BY <4>2
    <3>2. Over
      BY <1>c, <2>3 DEF UdtClose, Lingered, UdtCloseLingers, Control, Phases
    <3>3. Over'
      BY <3>2, OverStable
    <3>4. QED BY <2>1, <3>1, <3>2, <3>3, PipeStutter
  <2>4. CASE ~ TcpClose(s) /\ ~ UdtClose(s) /\ ~ UdtCloseLingers(s)
    <3>1. fds' = fds /\ link' = link
      BY <1>5, <2>4 DEF StartChild, RcvCreate, SndCreate, RcvJoin, SndJoin, SndEnded
    <3>2. QED BY <2>1, <3>1, PipeStutter DEF Over, Ended, Interrupted
  <2>5. QED BY <2>2, <2>3, <2>4
<1>6. CASE UNCHANGED vars
  BY <1>6, PipeStutter DEF vars, Over, Ended, Interrupted
<1>7. QED BY <1>1, <1>2, <1>3, <1>4, <1>5, <1>6 DEF Next

\* The relay implements the pair of byte streams, for every number of bytes,
\* buffer size and set of faults.
THEOREM RelayImplementsPipe == Spec => ImplementsPipe
<1> DEFINE Flows == \A s \in Side : Flow(s)
<1>1. Init => Stream!PipeInit
  <2> SUFFICES ASSUME Init PROVE Stream!PipeInit
    OBVIOUS
  <2>1. Stream!End = Side
    BY DEF Stream!End, Side
  <2>2. Over = FALSE
    <3>1. ~ Over
      BY DEF Init, Over, Ended, Interrupted
    <3>2. QED BY <3>1 DEF Over
  <2>3. \A x \in Side : ("tcp" \in fds[x]) = TRUE
    BY DEF Init
  <2>4. [x \in Side |-> "tcp" \in fds[x]] = [x \in Side |-> TRUE]
    BY <2>3, Zenon
  <2>5. QED BY <2>1, <2>2, <2>4 DEF Init, Stream!PipeInit
<1>2. /\ TypeOK /\ Control /\ Flows /\ [Next]_vars /\ TypeOK' /\ Control' /\ Flows'
      => [Stream!PipeNext]_(Stream!pipeVars)
  BY PipeStep
<1>3. Spec => []Flows
  BY FlowHolds
<1>4. QED BY <1>1, <1>2, <1>3, TypeCorrect, ControlHolds, PTL
         DEF Spec, ImplementsPipe, Stream!PipeSpec

=============================================================================
