--------------------------- MODULE AcceptorProofs ---------------------------
(***************************************************************************)
(* The safety of the accept loop, for any number of connections and        *)
(* descriptors, in the client, the server and the rendezvous process: as   *)
(* long as threads start in time each connection is served by its own      *)
(* thread, and only what the server refuses, or what gets no thread, leaks.*)
(***************************************************************************)
EXTENDS Acceptor, WellFoundedInduction, TLAPS

\* Connection c is the last one accepted, and its thread has not copied slot yet.
Waiting(c) == c = accepted /\ (mpc \in {"check", "create"} \/ Starting(c))

\* Numbers of connections, and what each process has no use for.
Numbers ==
  /\ \A c \in Conn : child[c] # "none" => c <= accepted
  /\ mpc \in {"check", "create"} => accepted \in Conn /\ child[accepted] = "none"
  /\ slot = 0 => accepted = 0
  /\ mpc = "connect" => mode = "rendezvous"
  /\ mode = "client" => udt = {}

\* In the server process a descriptor that is open is the one a thread made for
\* its destination, and the thread has not closed it.
Destinations ==
  mode # "client" => \A h \in Handle : holder[h] # 0 =>
    child[holder[h]] \in {"serving", "returned"} /\ peersock[holder[h]] = h

\* The socket s is the one of connection c.
Mine(s, c) ==
  IF mode = "client" THEN s \in Handle /\ holder[s] = c ELSE s = c /\ c \in udt

\* The thread of connection c, from slot to its copy.
Own(c) ==
  /\ Starting(c) => c = accepted /\ mpc \in {"accept", "connect"}
  /\ Waiting(c) => Mine(slot, c)
  /\ child[c] = "serving" => Mine(serves[c], c)
  /\ begun[c] \in {0, c}

\* Who has a descriptor of the client process, or a UDT socket of the server process.
Held ==
  /\ mode = "client" => \A h \in Handle : holder[h] # 0 =>
       \/ child[holder[h]] = "serving" /\ serves[holder[h]] = h
       \/ Waiting(holder[h]) /\ slot = h
       \/ child[holder[h]] = "unborn"
  /\ \A c \in udt : InHand(c) \/ Abandoned(c) \/ c \notin Allowed

AInv ==
  /\ ATypeOK /\ Numbers /\ Destinations
  /\ ~ raced => Held /\ \A c \in Conn : Own(c)

-----------------------------------------------------------------------------
\* A set of descriptors that is not empty has a lowest one, which accept and socket
\* return: Lowest chooses a member of the set.
LEMMA LowestChosen ==
  ASSUME NEW S \in SUBSET Nat, S # {}
  PROVE  Lowest(S) \in S
<1> DEFINE R == {p \in Nat \X Nat : p[1] < p[2]}
<1>1. IsWellFoundedOn(R, Nat)
  BY NatLessThanWellFounded, Zenon DEF OpToRel
<1> HIDE DEF R
<1>2. PICK h \in S : \A g \in S : ~ (<<g, h>> \in R)
  BY <1>1, WFMin
<1>3. \A g \in S : h <= g
  <2> SUFFICES ASSUME NEW g \in S PROVE h <= g
    OBVIOUS
  <2>1. g \in Nat /\ h \in Nat
    OBVIOUS
  <2>2. <<g, h>> \notin R
    BY <1>2
  <2> QED
    BY <2>1, <2>2 DEF R
<1> QED
  BY <1>3 DEF Lowest

\* The descriptor that accept or socket returns was closed.
LEMMA LowestFree ==
  Free # {} => Lowest(Free) \in Handle /\ holder[Lowest(Free)] = 0
<1>1. Free \in SUBSET Nat
  BY AcceptorAssumption DEF Free
<1> QED
  BY <1>1, LowestChosen DEF Free

-----------------------------------------------------------------------------
\* A connection that arrives changes nothing that the invariant is about.
LEMMA ArriveKeeps == AInv /\ Arrive => AInv'
<1> SUFFICES ASSUME AInv, Arrive PROVE AInv'
  OBVIOUS
<1>1. ATypeOK'
  BY AcceptorAssumption DEF AInv, ATypeOK, Arrive, config, sockets, threads
<1>2. UNCHANGED <<mode, accepted, mpc, slot, holder, udt, child, serves, peersock, begun, raced>>
  BY DEF Arrive, config, sockets, threads
<1>3. Numbers' /\ Destinations'
  BY <1>2 DEF AInv, Numbers, Destinations
<1>4. (~ raced => Held /\ \A c \in Conn : Own(c))'
  BY <1>2 DEF AInv, Held, Own, Mine, Waiting, Starting, InHand, Abandoned
<1> QED
  BY <1>1, <1>3, <1>4 DEF AInv

\* accept returns a descriptor that nobody uses, and the last thread has its copy
\* of the one before, or there was a race.
LEMMA AcceptKeeps == AInv /\ Accept => AInv'
<1> SUFFICES ASSUME AInv, Accept PROVE AInv'
  OBVIOUS
<1>a. /\ mode = "client" /\ mpc = "accept" /\ accepted < arrived
      /\ slot' \in Handle /\ holder[slot'] = 0
      /\ holder' = [holder EXCEPT ![slot'] = accepted + 1]
      /\ accepted' = accepted + 1 /\ mpc' = "check"
      /\ raced' = (raced \/ \E c \in Conn : Starting(c))
      /\ UNCHANGED <<mode, lp, rp, arrived, udt, child, serves, peersock, begun>>
  BY LowestFree DEF Accept, Accepted, config, threads
<1>b. ATypeOK /\ Numbers /\ Destinations
  BY DEF AInv
<1>c. /\ MaxConn \in Nat /\ 0 \notin Handle /\ arrived \in 0..MaxConn /\ accepted \in 0..arrived
      /\ holder \in [Handle -> 0..accepted]
  BY <1>b, AcceptorAssumption DEF ATypeOK
<1>1. ATypeOK'
  <2>1. holder' \in [Handle -> 0..accepted'] /\ begun' \in [Conn -> 0..accepted']
    BY <1>a, <1>b, <1>c DEF ATypeOK
  <2> QED
    BY <1>a, <1>b, <1>c, <2>1 DEF ATypeOK
<1>2. Numbers' /\ Destinations'
  BY <1>a, <1>b, <1>c DEF Numbers, Destinations, Conn
<1>3. ASSUME ~ raced' PROVE Held' /\ \A c \in Conn : Own(c)'
  <2>1. ~ raced /\ Held /\ \A c \in Conn : Own(c) /\ ~ Starting(c)
    BY <1>3, <1>a DEF AInv
  <2>2. \A h \in Handle : h # slot' => holder'[h] = holder[h]
    BY <1>a, <1>c
  <2>3. holder'[slot'] = accepted + 1 /\ accepted + 1 \in Conn
    BY <1>a, <1>c DEF Conn
  <2>4. Held'
    <3>1. ASSUME NEW h \in Handle, holder'[h] # 0
          PROVE  (\/ child[holder[h]] = "serving" /\ serves[holder[h]] = h
                  \/ Waiting(holder[h]) /\ slot = h
                  \/ child[holder[h]] = "unborn")'
      <4>1. CASE h = slot'
        BY <4>1, <2>3, <1>a DEF Waiting
      <4>2. CASE h # slot'
        <5>1. holder[h] # 0 /\ holder[h] \in Conn /\ holder'[h] = holder[h]
          BY <4>2, <2>2, <3>1, <1>c DEF Conn
        <5>2. ~ Waiting(holder[h])
          BY <5>1, <2>1, <1>a DEF Waiting
        <5> QED
          BY <5>1, <5>2, <2>1, <1>a DEF Held
      <4> QED
        BY <4>1, <4>2
    <3>2. udt' = {}
      BY <1>a, <1>b DEF Numbers
    <3> QED
      BY <3>1, <3>2 DEF Held
  <2>5. ASSUME NEW c \in Conn PROVE Own(c)'
    <3>1. ~ Starting(c)'
      BY <2>1, <1>a DEF Starting
    <3>2. Waiting(c)' => Mine(slot, c)'
      BY <2>3, <1>a DEF Waiting, Mine
    <3>3. child[c] = "serving" => Mine(serves[c], c)'
      BY <2>1, <2>2, <1>a, <1>c DEF Own, Mine, Conn
    <3> QED
      BY <3>1, <3>2, <3>3, <2>1, <1>a DEF Own
  <2> QED
    BY <2>4, <2>5
<1> QED
  BY <1>1, <1>2, <1>3 DEF AInv

\* The rendezvous loop has a socket to connect, and nothing else has changed.
LEMMA RzvBindKeeps == AInv /\ RzvBind => AInv'
<1> SUFFICES ASSUME AInv, RzvBind PROVE AInv'
  OBVIOUS
<1>a. /\ mode = "rendezvous" /\ mpc = "accept" /\ mpc' = "connect"
      /\ UNCHANGED <<mode, lp, rp, arrived, accepted, slot, holder, udt, child, serves, peersock, begun, raced>>
  BY DEF RzvBind, config, sockets, threads
<1>1. ATypeOK' /\ Numbers' /\ Destinations'
  BY <1>a DEF AInv, ATypeOK, Numbers, Destinations
<1>2. (~ raced => Held /\ \A c \in Conn : Own(c))'
  BY <1>a DEF AInv, Held, Own, Mine, Waiting, Starting, InHand, Abandoned
<1> QED
  BY <1>1, <1>2 DEF AInv

\* UDT::accept and the rendezvous give a number that no connection had.
LEMMA UdtAcceptKeeps == AInv /\ UdtAccept => AInv'
<1> SUFFICES ASSUME AInv, UdtAccept PROVE AInv'
  OBVIOUS
<1>b. ATypeOK /\ Numbers /\ Destinations
  BY DEF AInv
<1>a. /\ mode # "client" /\ mpc \in {"accept", "connect"} /\ accepted < arrived
      /\ slot' = accepted + 1 /\ udt' = udt \cup {accepted + 1}
      /\ accepted' = accepted + 1 /\ mpc' = "check"
      /\ raced' = (raced \/ \E c \in Conn : Starting(c))
      /\ UNCHANGED <<mode, lp, rp, arrived, holder, child, serves, peersock, begun>>
  BY <1>b DEF UdtAccept, Accepted, Numbers, config, threads
<1>c. /\ MaxConn \in Nat /\ arrived \in 0..MaxConn /\ accepted \in 0..arrived
      /\ udt \subseteq 1..accepted
  BY <1>b, AcceptorAssumption DEF ATypeOK
<1>d. accepted + 1 \in Conn /\ accepted + 1 # 0 /\ ~ (accepted + 1 <= accepted)
  BY <1>a, <1>c DEF Conn
<1>1. ATypeOK'
  <2>1. holder' \in [Handle -> 0..accepted'] /\ begun' \in [Conn -> 0..accepted']
    BY <1>a, <1>b, <1>c DEF ATypeOK
  <2>2. udt' \subseteq 1..accepted' /\ accepted' \in 0..arrived'
    BY <1>a, <1>c
  <2> QED
    BY <1>a, <1>b, <1>d, <2>1, <2>2 DEF ATypeOK
<1>2. Numbers'
  BY <1>a, <1>b, <1>c, <1>d DEF Numbers, Conn
<1>3. Destinations'
  BY <1>a, <1>b DEF Destinations
<1>4. ASSUME ~ raced' PROVE Held' /\ \A c \in Conn : Own(c)'
  <2>1. ~ raced /\ Held /\ \A c \in Conn : Own(c) /\ ~ Starting(c)
    BY <1>4, <1>a DEF AInv
  <2>2. Held'
    <3>1. ASSUME NEW c \in udt' PROVE (InHand(c) \/ Abandoned(c) \/ c \notin Allowed)'
      <4>1. CASE c = accepted + 1
        BY <4>1, <1>a DEF InHand
      <4>2. CASE c \in udt
        <5>1. c \in Conn
          BY <4>2, <1>c DEF Conn
        <5>2. InHand(c) => child[c] = "serving"
          BY <5>1, <2>1, <1>a DEF InHand
        <5>3. child[c] = "serving" \/ Abandoned(c) \/ c \notin Allowed
          BY <4>2, <5>2, <2>1 DEF Held
        <5> QED
          BY <5>3, <1>a DEF InHand, Abandoned
      <4> QED
        BY <4>1, <4>2, <1>a
    <3> QED
      BY <3>1, <1>a DEF Held
  <2>3. ASSUME NEW c \in Conn PROVE Own(c)'
    <3>1. ~ Starting(c)'
      BY <2>1, <1>a DEF Starting
    <3>2. Waiting(c)' => Mine(slot, c)'
      BY <1>a DEF Waiting, Mine
    <3>3. child[c] = "serving" => Mine(serves[c], c)'
      BY <2>1, <1>a DEF Own, Mine
    <3> QED
      BY <3>1, <3>2, <3>3, <2>1, <1>a DEF Own
  <2> QED
    BY <2>2, <2>3
<1> QED
  BY <1>1, <1>2, <1>3, <1>4 DEF AInv

\* The end of the process closes everything.
LEMMA AcceptFailsKeeps == AInv /\ AcceptFails => AInv'
<1> SUFFICES ASSUME AInv, AcceptFails PROVE AInv'
  OBVIOUS
<1>a. /\ mpc' = "exited" /\ holder' = [h \in Handle |-> 0] /\ udt' = {}
      /\ child' = [c \in Conn |-> IF child[c] \in {"none", "unborn"} THEN child[c] ELSE "ended"]
      /\ UNCHANGED <<mode, lp, rp, arrived, accepted, slot, serves, peersock, begun, raced>>
  BY DEF AcceptFails, config
<1>b. ATypeOK /\ Numbers
  BY DEF AInv
<1>1. ATypeOK'
  <2>1. holder' \in [Handle -> 0..accepted']
    BY <1>a, <1>b, AcceptorAssumption DEF ATypeOK
  <2>2. child' \in [Conn -> {"none", "unborn", "new", "named", "serving", "returned", "ended"}]
    BY <1>a
  <2> QED
    BY <1>a, <1>b, <2>1, <2>2 DEF ATypeOK
<1>2. Numbers' /\ Destinations'
  BY <1>a, <1>b DEF Numbers, Destinations
<1>3. ASSUME ~ raced' PROVE Held' /\ \A c \in Conn : Own(c)'
  <2>1. Held'
    BY <1>a DEF Held
  <2>2. \A c \in Conn : ~ Starting(c)' /\ child'[c] # "serving" /\ ~ Waiting(c)'
    BY <1>a DEF Starting, Waiting
  <2>3. \A c \in Conn : begun[c] \in {0, c}
    BY <1>3, <1>a DEF AInv, Own
  <2> QED
    BY <2>1, <2>2, <2>3, <1>a DEF Own
<1> QED
  BY <1>1, <1>2, <1>3 DEF AInv

\* A connection that is let in stays as it is; a descriptor that is not is closed,
\* and no thread had it.
LEMMA CheckKeeps == AInv /\ Check => AInv'
<1> SUFFICES ASSUME AInv, Check PROVE AInv'
  OBVIOUS
<1>a. /\ mpc = "check" /\ mpc' = (IF Admitted THEN "create" ELSE "accept")
      /\ holder' = (IF Admitted THEN holder ELSE Reject)
      /\ UNCHANGED <<mode, lp, rp, arrived, accepted, slot, udt, child, serves, peersock, begun, raced>>
  BY DEF Check, AfterCheck, config, threads
<1>b. ATypeOK /\ Numbers /\ Destinations
  BY DEF AInv
<1>c. /\ accepted \in Conn /\ child[accepted] = "none" /\ accepted \in Nat \ {0}
      /\ holder \in [Handle -> 0..accepted]
  BY <1>a, <1>b, AcceptorAssumption DEF Numbers, ATypeOK, Conn
<1>d. holder' = holder \/ (mode = "client" /\ ~ Admitted /\ holder' = [holder EXCEPT ![slot] = 0])
  BY <1>a DEF Reject
<1>1. ATypeOK'
  <2>1. holder' \in [Handle -> 0..accepted]
    <3>1. 0 \in 0..accepted
      BY <1>c
    <3>2. [holder EXCEPT ![slot] = 0] \in [Handle -> 0..accepted]
      BY <3>1, <1>c
    <3> QED
      BY <3>2, <1>c, <1>d
  <2> QED
    BY <1>a, <1>b, <2>1 DEF ATypeOK
<1>2. Numbers'
  BY <1>a, <1>b DEF Numbers
<1>3. Destinations'
  BY <1>a, <1>b, <1>d DEF Destinations
<1>4. ASSUME ~ raced' PROVE Held' /\ \A c \in Conn : Own(c)'
  <2>1. ~ raced /\ Held /\ \A c \in Conn : Own(c)
    BY <1>4, <1>a DEF AInv
  <2>2. Waiting(accepted) /\ Mine(slot, accepted)
    BY <2>1, <1>a, <1>c DEF Own, Waiting
  <2>3. \A c \in Conn : ~ Starting(c)
    BY <2>1, <1>a DEF Own
  <2>4. mode = "client" => slot \in Handle /\ holder[slot] = accepted
    BY <2>2 DEF Mine
  <2>5. \A h \in Handle : holder'[h] # 0 => holder'[h] = holder[h]
    BY <1>c, <1>d
  <2>6. mode = "client" /\ ~ Admitted => holder'[slot] = 0
    BY <1>a, <1>c, <2>4 DEF Reject
  <2>7. Held'
    <3>1. ASSUME mode = "client", NEW h \in Handle, holder'[h] # 0
          PROVE  (\/ child[holder[h]] = "serving" /\ serves[holder[h]] = h
                  \/ Waiting(holder[h]) /\ slot = h
                  \/ child[holder[h]] = "unborn")'
      <4>1. holder'[h] = holder[h]
        BY <3>1, <2>5
      <4>2. \/ child[holder[h]] = "serving" /\ serves[holder[h]] = h
            \/ Waiting(holder[h]) /\ slot = h
            \/ child[holder[h]] = "unborn"
        BY <3>1, <4>1, <2>1 DEF Held
      <4>3. slot = h => Admitted
        BY <3>1, <2>6
      <4> QED
        BY <4>1, <4>2, <4>3, <1>a DEF Waiting, Starting
    <3>2. ASSUME NEW c \in udt PROVE (InHand(c) \/ Abandoned(c) \/ c \notin Allowed)'
      <4>1. InHand(c) \/ Abandoned(c) \/ c \notin Allowed
        BY <2>1 DEF Held
      <4>2. c = accepted => c \notin Allowed \/ mpc' = "create"
        BY <1>a DEF Admitted
      <4> QED
        BY <4>1, <4>2, <1>a DEF InHand, Abandoned, Starting
    <3> QED
      BY <3>1, <3>2, <1>a DEF Held
  <2>8. ASSUME NEW c \in Conn PROVE Own(c)'
    <3>1. ~ Starting(c)'
      BY <2>3, <1>a DEF Starting
    <3>2. Waiting(c)' => c = accepted /\ Admitted
      BY <3>1, <1>a DEF Waiting
    <3>3. Waiting(c)' => Mine(slot, c)'
      BY <3>2, <2>2, <1>a DEF Mine
    <3>4. child[c] = "serving" => Mine(serves[c], c)'
      <4> SUFFICES ASSUME child[c] = "serving" PROVE Mine(serves[c], c)'
        OBVIOUS
      <4>1. Mine(serves[c], c) /\ c # accepted
        BY <2>1, <1>c DEF Own
      <4>2. mode = "client" => serves[c] # slot
        BY <4>1, <2>4 DEF Mine
      <4> QED
        BY <4>1, <4>2, <1>a, <1>c, <1>d DEF Mine
    <3> QED
      BY <3>1, <3>3, <3>4, <2>1, <1>a DEF Own
  <2> QED
    BY <2>7, <2>8
<1> QED
  BY <1>1, <1>2, <1>3, <1>4 DEF AInv

\* The thread of the last connection starts.
LEMMA CreateKeeps == AInv /\ Create => AInv'
<1> SUFFICES ASSUME AInv, Create PROVE AInv'
  OBVIOUS
<1>a. /\ mpc = "create" /\ mpc' = "accept" /\ child' = [child EXCEPT ![accepted] = "new"]
      /\ UNCHANGED <<mode, lp, rp, arrived, accepted, slot, holder, udt, serves, peersock, begun, raced>>
  BY DEF Create, config, sockets
<1>b. ATypeOK /\ Numbers /\ Destinations
  BY DEF AInv
<1>c. /\ accepted \in Conn /\ child[accepted] = "none" /\ child'[accepted] = "new"
      /\ \A c \in Conn : c # accepted => child'[c] = child[c]
  BY <1>a, <1>b DEF Numbers, ATypeOK
<1>1. ATypeOK'
  BY <1>a, <1>b DEF ATypeOK
<1>2. Numbers'
  BY <1>a, <1>b, <1>c, AcceptorAssumption DEF Numbers, ATypeOK, Conn
<1>3. Destinations'
  <2>1. \A h \in Handle : holder[h] # 0 => holder[h] \in Conn
    BY <1>b, AcceptorAssumption DEF ATypeOK, Conn
  <2>2. \A h \in Handle : mode # "client" /\ holder[h] # 0 => holder[h] # accepted
    BY <1>b, <1>c DEF Destinations
  <2> QED
    BY <1>a, <1>b, <1>c, <2>1, <2>2 DEF Destinations
<1>4. ASSUME ~ raced' PROVE Held' /\ \A c \in Conn : Own(c)'
  <2>1. ~ raced /\ Held /\ \A c \in Conn : Own(c)
    BY <1>4, <1>a DEF AInv
  <2>2. (\A h \in Handle : holder[h] # 0 => holder[h] \in Conn) /\ udt \subseteq Conn
    BY <1>b, AcceptorAssumption DEF ATypeOK, Conn
  <2>3. Held'
    BY <1>a, <1>c, <2>1, <2>2 DEF Held, Waiting, Starting, InHand, Abandoned
  <2>4. ASSUME NEW c \in Conn PROVE Own(c)'
    BY <1>a, <1>c, <2>1 DEF Own, Mine, Waiting, Starting
  <2> QED
    BY <2>3, <2>4
<1> QED
  BY <1>1, <1>2, <1>3, <1>4 DEF AInv

\* The last connection gets no thread: its socket stays as it is, in nobody's hands.
LEMMA CreateFailsKeeps == AInv /\ CreateFails => AInv'
<1> SUFFICES ASSUME AInv, CreateFails PROVE AInv'
  OBVIOUS
<1>a. /\ mpc = "create" /\ mpc' = "accept" /\ child' = [child EXCEPT ![accepted] = "unborn"]
      /\ UNCHANGED <<mode, lp, rp, arrived, accepted, slot, holder, udt, serves, peersock, begun, raced>>
  BY DEF CreateFails, config, sockets
<1>b. ATypeOK /\ Numbers /\ Destinations
  BY DEF AInv
<1>c. /\ accepted \in Conn /\ child[accepted] = "none" /\ child'[accepted] = "unborn"
      /\ \A c \in Conn : c # accepted => child'[c] = child[c]
  BY <1>a, <1>b DEF Numbers, ATypeOK
<1>1. ATypeOK'
  BY <1>a, <1>b DEF ATypeOK
<1>2. Numbers'
  BY <1>a, <1>b, <1>c, AcceptorAssumption DEF Numbers, ATypeOK, Conn
<1>3. Destinations'
  <2>1. \A h \in Handle : holder[h] # 0 => holder[h] \in Conn
    BY <1>b, AcceptorAssumption DEF ATypeOK, Conn
  <2>2. \A h \in Handle : mode # "client" /\ holder[h] # 0 => holder[h] # accepted
    BY <1>b, <1>c DEF Destinations
  <2> QED
    BY <1>a, <1>b, <1>c, <2>1, <2>2 DEF Destinations
<1>4. ASSUME ~ raced' PROVE Held' /\ \A c \in Conn : Own(c)'
  <2>1. ~ raced /\ Held /\ \A c \in Conn : Own(c)
    BY <1>4, <1>a DEF AInv
  <2>2. (\A h \in Handle : holder[h] # 0 => holder[h] \in Conn) /\ udt \subseteq Conn
    BY <1>b, AcceptorAssumption DEF ATypeOK, Conn
  <2>3. Held'
    BY <1>a, <1>c, <2>1, <2>2 DEF Held, Waiting, Starting, InHand, Abandoned
  <2>4. ASSUME NEW c \in Conn PROVE Own(c)'
    BY <1>a, <1>c, <2>1 DEF Own, Mine, Waiting, Starting
  <2> QED
    BY <2>3, <2>4
<1> QED
  BY <1>1, <1>2, <1>3, <1>4 DEF AInv

\* A thread looks at its connection's name.
LEMMA ChildNameKeeps == ASSUME NEW c \in Conn PROVE AInv /\ ChildName(c) => AInv'
<1> SUFFICES ASSUME AInv, ChildName(c) PROVE AInv'
  OBVIOUS
<1>a. /\ child[c] = "new" /\ child' = [child EXCEPT ![c] = "named"]
      /\ UNCHANGED <<mode, lp, rp, arrived, accepted, mpc, slot, holder, udt, serves, peersock, begun, raced>>
  BY DEF ChildName, config, sockets
<1>b. ATypeOK /\ Numbers /\ Destinations
  BY DEF AInv
<1>c. child'[c] = "named" /\ \A d \in Conn : d # c => child'[d] = child[d]
  BY <1>a, <1>b DEF ATypeOK
<1>d. (\A h \in Handle : holder[h] # 0 => holder[h] \in Conn) /\ udt \subseteq Conn
  BY <1>b, AcceptorAssumption DEF ATypeOK, Conn
<1>1. ATypeOK'
  BY <1>a, <1>b DEF ATypeOK
<1>2. Numbers'
  BY <1>a, <1>b, <1>c DEF Numbers
<1>3. Destinations'
  BY <1>a, <1>b, <1>c, <1>d DEF Destinations
<1>4. ASSUME ~ raced' PROVE Held' /\ \A d \in Conn : Own(d)'
  <2>1. ~ raced /\ Held /\ \A d \in Conn : Own(d)
    BY <1>4, <1>a DEF AInv
  <2>2. Held'
    BY <1>a, <1>c, <1>d, <2>1 DEF Held, Waiting, Starting, InHand, Abandoned
  <2>3. ASSUME NEW d \in Conn PROVE Own(d)'
    BY <1>a, <1>c, <2>1 DEF Own, Mine, Waiting, Starting
  <2> QED
    BY <2>2, <2>3
<1> QED
  BY <1>1, <1>2, <1>3, <1>4 DEF AInv

\* A thread that finds slot as main left it copies the socket of its connection; in
\* the server process it has a descriptor of its own from now on.
LEMMA ChildCopyKeeps == ASSUME NEW c \in Conn PROVE AInv /\ ChildCopy(c) => AInv'
<1> SUFFICES ASSUME AInv, ChildCopy(c) PROVE AInv'
  OBVIOUS
<1>a. /\ child[c] = "named" /\ child' = [child EXCEPT ![c] = "serving"]
      /\ serves' = [serves EXCEPT ![c] = slot]
      /\ begun' = [begun EXCEPT ![c] = Behind(slot)]
      /\ UNCHANGED <<mode, lp, rp, arrived, accepted, mpc, slot, udt, raced>>
  BY DEF ChildCopy, config
<1>b. ATypeOK /\ Numbers /\ Destinations
  BY DEF AInv
<1>c. /\ child'[c] = "serving" /\ \A d \in Conn : d # c => child'[d] = child[d]
      /\ serves'[c] = slot /\ \A d \in Conn : d # c => serves'[d] = serves[d]
      /\ begun'[c] = Behind(slot) /\ \A d \in Conn : d # c => begun'[d] = begun[d]
  BY <1>a, <1>b DEF ATypeOK
<1>d. (\A h \in Handle : holder[h] # 0 => holder[h] \in Conn) /\ udt \subseteq Conn
  BY <1>b, AcceptorAssumption DEF ATypeOK, Conn
<1>e. accepted \in Nat /\ c \in 1..accepted /\ slot # 0
  BY <1>a, <1>b, AcceptorAssumption DEF ATypeOK, Numbers, Conn
<1>f. \/ UNCHANGED <<holder, peersock>>
      \/ \E g \in Handle : /\ mode # "client" /\ holder[g] = 0
                           /\ peersock' = [peersock EXCEPT ![c] = g]
                           /\ holder' = [holder EXCEPT ![g] = c]
  BY LowestFree DEF ChildCopy
<1>1. ATypeOK'
  <2>1. Behind(slot) \in 0..accepted
    <3>1. CASE mode = "client"
      <4>1. slot \in Handle
        BY <1>b, <1>e, <3>1 DEF ATypeOK
      <4> QED
        BY <1>b, <3>1, <4>1 DEF Behind, ATypeOK
    <3>2. CASE mode # "client"
      <4>1. 0 \in 0..accepted /\ \A i \in udt : i \in 0..accepted
        BY <1>b, <1>e DEF ATypeOK
      <4> QED
        BY <3>2, <4>1 DEF Behind
    <3> QED
      BY <3>1, <3>2
  <2>2. holder' \in [Handle -> 0..accepted] /\ peersock' \in [Conn -> Handle \cup {0}]
    BY <1>b, <1>e, <1>f DEF ATypeOK
  <2>3. /\ child' \in [Conn -> {"none", "unborn", "new", "named", "serving", "returned", "ended"}]
        /\ serves' \in [Conn -> Handle \cup Conn \cup {0}]
    BY <1>a, <1>b DEF ATypeOK
  <2>4. begun' \in [Conn -> 0..accepted]
    BY <1>a, <1>b, <2>1 DEF ATypeOK
  <2> QED
    BY <1>a, <1>b, <2>2, <2>3, <2>4 DEF ATypeOK
<1>2. Numbers'
  BY <1>a, <1>b, <1>c DEF Numbers
<1>3. Destinations'
  <2>1. CASE UNCHANGED <<holder, peersock>>
    BY <1>a, <1>b, <1>c, <1>d, <2>1 DEF Destinations
  <2>2. ASSUME NEW g \in Handle, mode # "client", holder[g] = 0,
               peersock' = [peersock EXCEPT ![c] = g], holder' = [holder EXCEPT ![g] = c]
        PROVE  Destinations'
    <3>1. holder'[g] = c /\ peersock'[c] = g /\ \A d \in Conn : d # c => peersock'[d] = peersock[d]
      BY <1>b, <2>2 DEF ATypeOK
    <3>2. \A h \in Handle : h # g => holder'[h] = holder[h]
      BY <1>b, <2>2 DEF ATypeOK
    <3>3. \A h \in Handle : holder[h] # c
      BY <1>a, <1>b, <1>e, <2>2 DEF Destinations
    <3> QED
      BY <1>a, <1>b, <1>c, <1>d, <3>1, <3>2, <3>3 DEF Destinations
  <2> QED
    BY <1>f, <2>1, <2>2
<1>4. ASSUME ~ raced' PROVE Held' /\ \A d \in Conn : Own(d)'
  <2>1. ~ raced /\ Held /\ \A d \in Conn : Own(d)
    BY <1>4, <1>a DEF AInv
  <2>2. c = accepted /\ mpc \in {"accept", "connect"} /\ Mine(slot, c)
    BY <1>a, <2>1 DEF Own, Waiting, Starting
  <2>3. mode = "client" => holder' = holder
    BY <1>f
  <2>4. Held'
    <3>1. ASSUME mode = "client", NEW h \in Handle, holder'[h] # 0
          PROVE  (\/ child[holder[h]] = "serving" /\ serves[holder[h]] = h
                  \/ child[holder[h]] = "unborn")'
      <4>1. \/ child[holder[h]] = "serving" /\ serves[holder[h]] = h
            \/ holder[h] = c /\ slot = h
            \/ child[holder[h]] = "unborn"
        BY <2>1, <2>2, <2>3, <3>1 DEF Held, Waiting
      <4> QED
        BY <4>1, <1>a, <1>c, <1>d, <2>3, <3>1
    <3>2. ASSUME NEW d \in udt PROVE (InHand(d) \/ Abandoned(d) \/ d \notin Allowed)'
      BY <1>a, <1>c, <1>d, <2>1 DEF Held, InHand, Abandoned, Starting
    <3> QED
      BY <1>a, <3>1, <3>2 DEF Held
  <2>5. ASSUME NEW d \in Conn PROVE Own(d)'
    <3>1. Mine(slot, c)'
      BY <1>a, <2>2, <2>3 DEF Mine
    <3>2. CASE d = c
      <4>1. Behind(slot) = c
        BY <2>2 DEF Mine, Behind
      <4> QED
        BY <1>a, <1>c, <2>2, <3>1, <3>2, <4>1 DEF Own, Waiting, Starting
    <3>3. CASE d # c
      <4>1. Own(d) /\ ~ Waiting(d)' /\ ~ Starting(d)
        BY <1>a, <2>1, <2>2, <3>3 DEF Own, Waiting
      <4>2. Mine(serves[d], d) => Mine(serves[d], d)'
        BY <1>a, <1>c, <2>3, <3>3 DEF Mine
      <4> QED
        BY <1>a, <1>c, <3>3, <4>1, <4>2 DEF Own, Starting
    <3> QED
      BY <3>2, <3>3
  <2> QED
    BY <2>4, <2>5
<1> QED
  BY <1>1, <1>2, <1>3, <1>4 DEF AInv

\* A server child that refuses its packet leaves its socket and its descriptor open.
LEMMA ChildRefusesKeeps == ASSUME NEW c \in Conn PROVE AInv /\ ChildRefuses(c) => AInv'
<1> SUFFICES ASSUME AInv, ChildRefuses(c) PROVE AInv'
  OBVIOUS
<1>a. /\ mode # "client" /\ child[c] = "serving" /\ child' = [child EXCEPT ![c] = "returned"]
      /\ UNCHANGED <<mode, lp, rp, arrived, accepted, mpc, slot, holder, udt, serves, peersock, begun, raced>>
  BY DEF ChildRefuses, config, sockets
<1>b. ATypeOK /\ Numbers /\ Destinations
  BY DEF AInv
<1>c. child'[c] = "returned" /\ \A d \in Conn : d # c => child'[d] = child[d]
  BY <1>a, <1>b DEF ATypeOK
<1>d. (\A h \in Handle : holder[h] # 0 => holder[h] \in Conn) /\ udt \subseteq Conn
  BY <1>b, AcceptorAssumption DEF ATypeOK, Conn
<1>1. ATypeOK'
  BY <1>a, <1>b DEF ATypeOK
<1>2. Numbers'
  BY <1>a, <1>b, <1>c DEF Numbers
<1>3. Destinations'
  BY <1>a, <1>b, <1>c, <1>d DEF Destinations
<1>4. ASSUME ~ raced' PROVE Held' /\ \A d \in Conn : Own(d)'
  <2>1. ~ raced /\ Held /\ \A d \in Conn : Own(d)
    BY <1>4, <1>a DEF AInv
  <2>2. Held'
    BY <1>a, <1>c, <1>d, <2>1 DEF Held, Starting, InHand, Abandoned
  <2>3. ASSUME NEW d \in Conn PROVE Own(d)'
    BY <1>a, <1>c, <2>1 DEF Own, Mine, Waiting, Starting
  <2> QED
    BY <2>2, <2>3
<1> QED
  BY <1>1, <1>2, <1>3, <1>4 DEF AInv

\* A thread ends and closes its own copies: no other connection is behind them.
LEMMA ChildEndKeeps == ASSUME NEW c \in Conn PROVE AInv /\ ChildEnd(c) => AInv'
<1> SUFFICES ASSUME AInv, ChildEnd(c) PROVE AInv'
  OBVIOUS
<1>a. /\ child[c] = "serving" /\ child' = [child EXCEPT ![c] = "ended"]
      /\ holder' = [h \in Handle |-> IF h \in Closed(c) THEN 0 ELSE holder[h]]
      /\ udt' = udt \ {serves[c]}
      /\ UNCHANGED <<mode, lp, rp, arrived, accepted, mpc, slot, serves, peersock, begun, raced>>
  BY DEF ChildEnd, config
<1>b. ATypeOK /\ Numbers /\ Destinations
  BY DEF AInv
<1>c. child'[c] = "ended" /\ \A d \in Conn : d # c => child'[d] = child[d]
  BY <1>a, <1>b DEF ATypeOK
<1>d. (\A h \in Handle : holder[h] # 0 => holder[h] \in Conn) /\ udt \subseteq Conn
  BY <1>b, AcceptorAssumption DEF ATypeOK, Conn
<1>e. \A h \in Handle : /\ h \in Closed(c) => holder'[h] = 0
                        /\ h \notin Closed(c) => holder'[h] = holder[h]
  BY <1>a
<1>1. ATypeOK'
  <2>1. accepted \in Nat /\ holder \in [Handle -> 0..accepted]
    BY <1>b, AcceptorAssumption DEF ATypeOK
  <2>2. holder' \in [Handle -> 0..accepted]
    <3>1. 0 \in 0..accepted
      BY <2>1
    <3> QED
      BY <1>a, <2>1, <3>1
  <2>3. child' \in [Conn -> {"none", "unborn", "new", "named", "serving", "returned", "ended"}]
    BY <1>a, <1>b DEF ATypeOK
  <2> QED
    BY <1>a, <1>b, <2>2, <2>3 DEF ATypeOK
<1>2. Numbers'
  BY <1>a, <1>b, <1>c DEF Numbers
<1>3. Destinations'
  BY <1>a, <1>b, <1>c, <1>d, <1>e DEF Destinations, Closed
<1>4. ASSUME ~ raced' PROVE Held' /\ \A d \in Conn : Own(d)'
  <2>1. ~ raced /\ Held /\ \A d \in Conn : Own(d)
    BY <1>4, <1>a DEF AInv
  <2>2. Mine(serves[c], c) /\ ~ Waiting(c)
    BY <1>a, <1>b, <2>1 DEF Own, Waiting, Starting, Numbers
  <2>3. Held'
    <3>1. ASSUME mode = "client", NEW h \in Handle, holder'[h] # 0
          PROVE  (\/ child[holder[h]] = "serving" /\ serves[holder[h]] = h
                  \/ Waiting(holder[h]) /\ slot = h
                  \/ child[holder[h]] = "unborn")'
      <4>1. holder'[h] = holder[h] /\ h # serves[c] /\ holder[h] \in Conn
        BY <1>d, <1>e, <3>1 DEF Closed
      <4>2. \/ child[holder[h]] = "serving" /\ serves[holder[h]] = h
            \/ Waiting(holder[h]) /\ slot = h
            \/ child[holder[h]] = "unborn"
        BY <2>1, <3>1, <4>1 DEF Held
      <4>3. holder[h] # c
        BY <1>a, <2>2, <4>1, <4>2
      <4> QED
        BY <1>a, <1>c, <4>1, <4>2, <4>3 DEF Waiting, Starting
    <3>2. ASSUME NEW d \in udt' PROVE (InHand(d) \/ Abandoned(d) \/ d \notin Allowed)'
      <4>1. d # c /\ d \in udt /\ d \in Conn
        BY <1>a, <1>b, <1>d, <2>2 DEF Mine, Numbers
      <4> QED
        BY <1>a, <1>c, <2>1, <4>1 DEF Held, InHand, Abandoned, Starting
    <3> QED
      BY <1>a, <3>1, <3>2 DEF Held
  <2>4. ASSUME NEW d \in Conn PROVE Own(d)'
    <3>1. CASE d = c
      <4>1. ~ Starting(d)' /\ ~ Waiting(d)'
        BY <1>a, <1>c, <2>2, <3>1 DEF Starting, Waiting
      <4> QED
        BY <1>a, <1>c, <2>1, <3>1, <4>1 DEF Own
    <3>2. CASE d # c
      <4>1. ASSUME NEW s, Mine(s, d) PROVE Mine(s, d)'
        BY <1>a, <1>e, <2>2, <3>2, <4>1 DEF Mine, Closed
      <4>2. Waiting(d)' => Waiting(d)
        BY <1>a, <1>c, <3>2 DEF Waiting, Starting
      <4> QED
        BY <1>a, <1>c, <2>1, <3>2, <4>1, <4>2 DEF Own, Starting
    <3> QED
      BY <3>1, <3>2
  <2> QED
    BY <2>3, <2>4
<1> QED
  BY <1>1, <1>2, <1>3, <1>4 DEF AInv

-----------------------------------------------------------------------------
\* A process starts with nothing accepted and nothing open.
LEMMA AInvInit == Init => AInv
<1> SUFFICES ASSUME Init PROVE AInv
  OBVIOUS
<1>1. ATypeOK
  <2>1. /\ arrived \in 0..MaxConn /\ accepted \in 0..arrived
        /\ holder \in [Handle -> 0..accepted] /\ begun \in [Conn -> 0..accepted]
    BY AcceptorAssumption DEF Init
  <2>2. /\ child \in [Conn -> {"none", "unborn", "new", "named", "serving", "returned", "ended"}]
        /\ serves \in [Conn -> Handle \cup Conn \cup {0}]
        /\ peersock \in [Conn -> Handle \cup {0}]
    BY DEF Init
  <2> QED
    BY <2>1, <2>2 DEF Init, ATypeOK
<1>2. Numbers /\ Destinations
  BY DEF Init, Numbers, Destinations
<1>3. Held
  BY DEF Init, Held
<1>4. ASSUME NEW c \in Conn PROVE Own(c)
  BY DEF Init, Own, Waiting, Starting
<1> QED
  BY <1>1, <1>2, <1>3, <1>4 DEF AInv

\* Every step of main and of the threads keeps the invariant.
LEMMA AInvStep == AInv /\ [Next]_vars => AInv'
<1> SUFFICES ASSUME AInv, [Next]_vars PROVE AInv'
  OBVIOUS
<1>1. CASE Arrive
  BY <1>1, ArriveKeeps
<1>2. CASE Main
  BY <1>2, AcceptKeeps, RzvBindKeeps, UdtAcceptKeeps, AcceptFailsKeeps, CheckKeeps, CreateKeeps,
     CreateFailsKeeps DEF Main
<1>3. ASSUME NEW c \in Conn, ChildName(c) \/ ChildCopy(c) \/ ChildRefuses(c) \/ ChildEnd(c)
      PROVE  AInv'
  BY <1>3, ChildNameKeeps, ChildCopyKeeps, ChildRefusesKeeps, ChildEndKeeps
<1>4. CASE UNCHANGED vars
  <2>1. UNCHANGED <<mode, lp, rp, arrived, accepted, mpc, slot, holder, udt, child, serves, peersock, begun, raced>>
    BY <1>4 DEF vars, config, sockets, threads
  <2>2. ATypeOK' /\ Numbers' /\ Destinations'
    BY <2>1 DEF AInv, ATypeOK, Numbers, Destinations
  <2>3. (~ raced => Held /\ \A c \in Conn : Own(c))'
    BY <2>1 DEF AInv, Held, Own, Mine, Waiting, Starting, InHand, Abandoned
  <2> QED
    BY <2>2, <2>3 DEF AInv
<1> QED
  BY <1>1, <1>2, <1>3, <1>4 DEF Next

-----------------------------------------------------------------------------
\* The inductive invariant of the accept loop holds in every process.
THEOREM AcceptorInvariant == Spec => []AInv
  BY AInvInit, AInvStep, PTL DEF Spec

\* main's variables and the threads' copies have their types: in particular slot is
\* a descriptor in the client process and a connection's number in the others.
THEOREM AcceptorTypes == Spec => []ATypeOK
<1>1. AInv => ATypeOK
  BY DEF AInv
<1> QED
  BY <1>1, AcceptorInvariant, PTL

\* main hands the address of its own variable to start_child: when no connection is
\* accepted before the thread of the one before has its copy, every connection is
\* served by its own thread, whatever descriptors are closed and used again.
THEOREM ApartAlwaysServed == Spec => []ApartServed
<1>1. AInv => ApartServed
  <2> SUFFICES ASSUME AInv, ~ raced, NEW c \in Conn
               PROVE  /\ begun[c] # 0 => begun[c] = c
                      /\ child[c] = "serving" => Behind(serves[c]) = c
    BY DEF ApartServed, ServedByOwnChild
  <2>1. Own(c)
    BY DEF AInv
  <2> QED
    BY <2>1 DEF Own, Mine, Behind
<1> QED
  BY <1>1, AcceptorInvariant, PTL

\* Without the race a socket that stays open is in somebody's hands, or was left
\* open by the two places of the server process that refuse a connection or by the
\* untested pthread_create.
THEOREM NothingElseLeaks == Spec => []OnlyKnownLeaks
<1>1. AInv => OnlyKnownLeaks
  <2> SUFFICES ASSUME AInv, ~ raced PROVE OnlyKnownLeaks
    BY DEF OnlyKnownLeaks
  <2>1. Held /\ Destinations
    BY DEF AInv
  <2>2. ASSUME NEW h \in Handle, holder[h] # 0
        PROVE  InHand(holder[h]) \/ Abandoned(holder[h])
    BY <2>1, <2>2 DEF Held, Destinations, Waiting, InHand, Abandoned
  <2> QED
    BY <2>1, <2>2 DEF OnlyKnownLeaks, Held
<1> QED
  BY <1>1, AcceptorInvariant, PTL

=============================================================================
