---------------------------- MODULE AccessProofs ----------------------------
(***************************************************************************)
(* check_source answers what the documentation promises, for addresses of  *)
(* any width and any list of interfaces, whoever made the list.            *)
(***************************************************************************)
EXTENDS Access, TLAPS

\* An interface that check_source would stop at.
Hit(e) ==
  /\ e.family = "inet"
  /\ IF subnet THEN addr \cap e.mask = e.addr \cap e.mask ELSE addr = e.addr

\* What has been passed was no hit, what is to come is as getifaddrs listed it,
\* and a positive answer has a reason.
Walk ==
  /\ pc \in {"loop", "done"} /\ net_access < 2 => Len(ifap) = Len(list)
  /\ pc = "loop" =>
       /\ net_access < 2 /\ ~ allowed
       /\ \A i \in 1..Len(list) : i < ifp => ~ Hit(list[i])
       /\ \A i \in 1..Len(list) : i >= ifp => ifap[i] = list[i]
  /\ pc = "done" /\ net_access < 2 =>
       (allowed <=> \E i \in 1..Len(list) : Hit(list[i]))
  /\ pc = "done" /\ net_access >= 2 => allowed
  /\ pc \in {"ask", "list"} => ~ allowed

\* Every address in a list is one of the machine's.
Sound(q) ==
  \A j \in 1..Len(q) : q[j].family = "inet" => \E i \in 1..Len(ifs) : q[j] = ifs[i]

\* Every interface of the machine is in a list.
Whole(q) == \A i \in 1..Len(ifs) : \E j \in 1..Len(q) : q[j] = ifs[i]

\* How the list is made: the fallback goes backwards through the interfaces.
Making ==
  /\ pc = "ask" => ifap = <<>>
  /\ pc = "list" =>
       /\ net_access < 2 /\ Len(ifap) <= ifcount /\ Sound(ifap)
       /\ ~ lost => /\ ifcount = Len(ifs)
                    /\ \A j \in 1..Len(ifap) : ifap[j] = ifs[Len(ifs) + 1 - j]
  /\ pc \in {"loop", "done"} /\ net_access < 2 => Sound(list) /\ (~ lost => Whole(list))

\* Masking in place keeps an entry an entry.
LEMMA MaskedEntry ==
  ASSUME NEW e \in Iface, e.family = "inet", NEW a, a = e.addr \/ a = e.addr \cap e.mask
  PROVE  Entry(a, e.mask) \in Iface
<1>1. e.addr \in Address /\ e.mask \in Address
  BY DEF Iface, Inet
<1>2. a \in Address
  BY <1>1 DEF Address
<1> QED
  BY <1>1, <1>2 DEF Iface, Inet, Entry

\* Types are kept by every step.
LEMMA AccessTypeStep == XTypeOK /\ [Next]_vars => XTypeOK'
<1> SUFFICES ASSUME XTypeOK, [Next]_vars PROVE XTypeOK'
  OBVIOUS
<1>1. CASE Ask
  <2>1. allowed' \in BOOLEAN
    BY <1>1, Zenon DEF Ask, XTypeOK
  <2>5. lost' \in BOOLEAN
    <3>1. (Len(ifs) > room) \in BOOLEAN
      OBVIOUS
    <3> QED
      BY <1>1, <3>1, Zenon DEF Ask, XTypeOK
  <2>2. pc' \in {"list", "loop", "done"}
    BY <1>1 DEF Ask
  <2>3. /\ list' \in Seq(Iface) /\ ifap' \in Seq(Iface)
        /\ ifp' \in 1..(Len(ifap') + 1)
    BY <1>1 DEF Ask, First, XTypeOK
  <2>4. UNCHANGED given
    BY <1>1 DEF Ask
  <2> QED
    BY <2>1, <2>2, <2>3, <2>4, <2>5 DEF XTypeOK, given
<1>2. CASE AskFails
  BY <1>2 DEF AskFails, XTypeOK, given
<1>7. CASE List
  <2>1. Null \in Iface
    BY DEF Null, Iface
  <2>2. Len(ifs) \in Nat /\ room \in Nat /\ ifcount \in 0..Len(ifs)
    BY AccessAssumption DEF XTypeOK, ifcount
  <2>3. ifs[ifcount - Len(ifap)] \in Iface
    BY <1>7, <2>2 DEF List, XTypeOK
  <2>4. PICK e \in Iface : ifap' = Append(ifap, e)
    BY <1>7, <2>1, <2>3 DEF List
  <2>5. ifap' \in Seq(Iface) /\ Len(ifap') = Len(ifap) + 1
    BY <2>4 DEF XTypeOK
  <2>6. lost' \in BOOLEAN
    BY <1>7, Zenon DEF List, XTypeOK
  <2> QED
    BY <1>7, <2>5, <2>6 DEF List, XTypeOK, given
<1>8. CASE Listed
  BY <1>8 DEF Listed, First, XTypeOK, given
<1>3. CASE Skip
  BY <1>3 DEF Skip, XTypeOK, given
<1>4. CASE Compare
  <2> DEFINE e == ifap[ifp]
             a == ifa_addr(e)
  <2>1. ifp \in 1..Len(ifap) /\ e \in Iface /\ e.family = "inet"
    BY <1>4 DEF Compare, XTypeOK
  <2>2. a = e.addr \/ a = e.addr \cap e.mask
    BY DEF ifa_addr, sockaddr_mask, memand
  <2>3. Entry(a, e.mask) \in Iface
    BY <2>1, <2>2, MaskedEntry
  <2>4. ifap' = [ifap EXCEPT ![ifp] = Entry(a, e.mask)]
    BY <1>4 DEF Compare
  <2>5. ifap' \in Seq(Iface) /\ Len(ifap') = Len(ifap)
    <3> HIDE DEF a
    <3> QED
      BY <2>1, <2>3, <2>4 DEF XTypeOK
  <2>6. ifp' \in 1..(Len(ifap) + 1) /\ pc' \in {"loop", "done"} /\ allowed' \in BOOLEAN
    <3>1. allowed' \in BOOLEAN
      BY <1>4, Zenon DEF Compare, XTypeOK
    <3>2. ifp' \in 1..(Len(ifap) + 1) /\ pc' \in {"loop", "done"}
      BY <1>4, <2>1 DEF Compare, XTypeOK
    <3> QED
      BY <3>1, <3>2
  <2>7. UNCHANGED <<given, list, lost>>
    BY <1>4 DEF Compare
  <2> QED
    BY <2>5, <2>6, <2>7 DEF XTypeOK, given
<1>5. CASE NoMatch
  BY <1>5 DEF NoMatch, XTypeOK, given
<1>6. CASE UNCHANGED vars
  BY <1>6 DEF vars, XTypeOK, given
<1> QED
  BY <1>1, <1>2, <1>3, <1>4, <1>5, <1>6, <1>7, <1>8 DEF Next

\* How the list is made is kept by every step.
LEMMA MakingStep == XTypeOK /\ Making /\ [Next]_vars => Making'
<1> SUFFICES ASSUME XTypeOK, Making, [Next]_vars PROVE Making'
  OBVIOUS
<1>0. /\ net_access \in Int /\ Len(ifs) \in Nat /\ Len(ifap) \in Nat /\ room \in Nat
      /\ ifcount \in 0..Len(ifs) /\ lost \in BOOLEAN
  BY AccessAssumption DEF XTypeOK, ifcount
<1>a. ifs' = ifs /\ net_access' = net_access /\ room' = room /\ ifcount' = ifcount
  BY DEF Next, Ask, AskFails, List, Listed, Skip, Compare, NoMatch, vars, given, ifcount
<1>1. CASE Ask
  <2>1. CASE net_access < 2 /\ ~ fallback
    <3>1. pc' = "loop" /\ list' = ifs
      BY <1>0, <1>1, <2>1 DEF Ask
    <3>2. Sound(list)' /\ Whole(list)'
      BY <1>a, <3>1 DEF Sound, Whole
    <3> QED
      BY <3>1, <3>2 DEF Making
  <2>2. CASE net_access < 2 /\ fallback
    <3>1. pc' = "list" /\ lost' = (Len(ifs) > room) /\ ifap' = <<>>
      BY <1>0, <1>1, <2>2 DEF Ask, Making
    <3>2. ~ lost' => ifcount = Len(ifs)
      BY <1>0, <3>1 DEF ifcount
    <3> QED
      BY <1>0, <1>a, <2>2, <3>1, <3>2 DEF Making, Sound
  <2>3. CASE net_access >= 2
    BY <1>0, <1>1, <1>a, <2>3 DEF Ask, Making
  <2> QED
    BY <1>0, <1>1, <2>1, <2>2, <2>3 DEF Ask
<1>2. CASE AskFails
  BY <1>2 DEF AskFails, Making
<1>3. CASE List
  <2> DEFINE k == Len(ifap)
  <2>0. pc = "list" /\ pc' = "list" /\ k < ifcount /\ net_access < 2
    BY <1>3 DEF List, Making
  <2>1. CASE ifap' = Append(ifap, ifs[ifcount - k]) /\ lost' = lost
    <3>1. Len(ifap') = k + 1 /\ ifap'[k + 1] = ifs[ifcount - k]
          /\ \A j \in 1..k : ifap'[j] = ifap[j]
      BY <2>1 DEF XTypeOK
    <3>2. ifcount - k \in 1..Len(ifs)
      BY <1>0, <2>0
    <3>3. Sound(ifap)'
      <4> SUFFICES ASSUME NEW j \in 1..(k + 1), ifap'[j].family = "inet"
                   PROVE  \E i \in 1..Len(ifs) : ifap'[j] = ifs[i]
        BY <1>a, <3>1 DEF Sound
      <4>1. CASE j = k + 1
        BY <3>1, <3>2, <4>1
      <4>2. CASE j \in 1..k
        BY <2>0, <3>1, <4>2 DEF Making, Sound
      <4> QED
        BY <1>0, <4>1, <4>2
    <3>4. ~ lost' => \A j \in 1..Len(ifap') : ifap'[j] = ifs[Len(ifs) + 1 - j]
      <4> SUFFICES ASSUME ~ lost, NEW j \in 1..(k + 1)
                   PROVE  ifap'[j] = ifs[Len(ifs) + 1 - j]
        BY <2>1, <3>1
      <4>1. ifcount = Len(ifs)
        BY <2>0 DEF Making
      <4>2. CASE j = k + 1
        <5>1. ifcount - k = Len(ifs) + 1 - j
          BY <1>0, <4>1, <4>2
        <5> QED
          BY <3>1, <4>2, <5>1
      <4>3. CASE j \in 1..k
        BY <2>0, <3>1, <4>3 DEF Making
      <4> QED
        BY <1>0, <4>2, <4>3
    <3> QED
      BY <1>0, <1>a, <2>0, <2>1, <3>1, <3>3, <3>4 DEF Making
  <2>2. CASE ifap' = Append(ifap, Null) /\ lost'
    <3>1. Len(ifap') = k + 1 /\ ifap'[k + 1] = Null /\ \A j \in 1..k : ifap'[j] = ifap[j]
      BY <2>2 DEF XTypeOK
    <3>2. Null.family # "inet"
      BY DEF Null
    <3>3. Sound(ifap)'
      <4> SUFFICES ASSUME NEW j \in 1..(k + 1), ifap'[j].family = "inet"
                   PROVE  \E i \in 1..Len(ifs) : ifap'[j] = ifs[i]
        BY <1>a, <3>1 DEF Sound
      <4>1. j \in 1..k
        BY <1>0, <3>1, <3>2
      <4> QED
        BY <2>0, <3>1, <4>1 DEF Making, Sound
    <3> QED
      BY <1>0, <1>a, <2>0, <2>2, <3>1, <3>3 DEF Making
  <2> QED
    BY <1>3, <2>1, <2>2 DEF List
<1>4. CASE Listed
  <2>1. /\ pc = "list" /\ Len(ifap) = ifcount /\ pc' = "loop"
        /\ list' = ifap /\ lost' = lost
    BY <1>4 DEF Listed
  <2>2. Sound(list)'
    BY <1>a, <2>1 DEF Making, Sound
  <2>3. ~ lost' => Whole(list)'
    <3> SUFFICES ASSUME ~ lost, NEW i \in 1..Len(ifs)
                 PROVE  \E j \in 1..Len(ifap) : ifap[j] = ifs[i]
      BY <1>a, <2>1 DEF Whole
    <3>1. Len(ifap) = Len(ifs) /\ Len(ifs) + 1 - i \in 1..Len(ifap)
      BY <1>0, <2>1 DEF Making
    <3>2. ifap[Len(ifs) + 1 - i] = ifs[Len(ifs) + 1 - (Len(ifs) + 1 - i)]
      BY <2>1, <3>1 DEF Making
    <3>3. Len(ifs) + 1 - (Len(ifs) + 1 - i) = i
      BY <1>0
    <3> QED
      BY <3>1, <3>2, <3>3
  <2> QED
    BY <2>1, <2>2, <2>3 DEF Making
<1>5. CASE Skip \/ Compare \/ NoMatch
  <2>1. list' = list /\ lost' = lost /\ pc = "loop" /\ pc' \in {"loop", "done"}
    BY <1>5 DEF Skip, Compare, NoMatch
  <2> QED
    BY <1>a, <2>1 DEF Making, Sound, Whole
<1>6. CASE UNCHANGED vars
  BY <1>6, <1>a DEF vars, given, Making, Sound, Whole
<1> QED
  BY <1>1, <1>2, <1>3, <1>4, <1>5, <1>6 DEF Next

\* The walk's invariant is kept by every step.
LEMMA WalkStep == XTypeOK /\ Making /\ Walk /\ [Next]_vars => Walk'
<1> SUFFICES ASSUME XTypeOK, Making, Walk, [Next]_vars PROVE Walk'
  OBVIOUS
<1>0. net_access \in Int /\ ifp \in Int /\ Len(list) \in Nat /\ Len(ifap) \in Nat
  BY AccessAssumption DEF XTypeOK
<1>1. CASE Ask
  BY <1>0, <1>1 DEF Ask, First, XTypeOK, Walk, Hit, subnet, given
<1>2. CASE AskFails
  BY <1>2 DEF AskFails, Walk, given
<1>7. CASE List
  BY <1>7 DEF List, Walk, given
<1>8. CASE Listed
  <2>1. list' = ifap /\ ifap' = ifap /\ ifp' = 1 /\ pc' = "loop" /\ allowed' = allowed
    BY <1>8 DEF Listed, First
  <2>2. net_access' < 2 /\ ~ allowed'
    BY <1>8 DEF Listed, Making, Walk, given
  <2> QED
    BY <2>1, <2>2 DEF Walk
<1>3. CASE Skip
  <2>1. ifp \in 1..Len(list) /\ ifap[ifp] = list[ifp] /\ ~ Hit(list[ifp])
    BY <1>0, <1>3 DEF Skip, XTypeOK, Walk, Hit
  <2>2. UNCHANGED <<net_access, ifs, addr, list, ifap, pc, allowed>> /\ ifp' = ifp + 1
    BY <1>3 DEF Skip, given
  <2>3. \A i \in 1..Len(list) : Hit(list[i])' <=> Hit(list[i])
    BY <2>2 DEF Hit, subnet
  <2>4. \A i \in 1..Len(list) : i < ifp + 1 => ~ Hit(list[i])
    BY <1>0, <1>3, <2>1 DEF Skip, Walk
  <2>5. \A i \in 1..Len(list) : i >= ifp + 1 => ifap[i] = list[i]
    BY <1>0, <1>3 DEF Skip, Walk
  <2> HIDE DEF Hit
  <2> QED
    BY <1>0, <1>3, <2>2, <2>3, <2>4, <2>5 DEF Skip, Walk
<1>4. CASE Compare
  <2> DEFINE e == ifap[ifp]
  <2>1. ifp \in 1..Len(list) /\ e = list[ifp] /\ net_access < 2 /\ e.family = "inet" /\ pc = "loop"
    BY <1>0, <1>4 DEF Compare, XTypeOK, Walk
  <2>2. UNCHANGED <<net_access, ifs, addr, list>>
    BY <1>4 DEF Compare, given
  <2>3. \A i \in 1..Len(list) : Hit(list[i])' <=> Hit(list[i])
    BY <2>2 DEF Hit, subnet
  <2>4. Len(ifap') = Len(ifap) /\ \A i \in 1..Len(list) : i # ifp => ifap'[i] = ifap[i]
    BY <1>0, <1>4, <2>1 DEF Compare, XTypeOK, Walk
  <2>5. CASE Hit(list[ifp])
    <3>1. pc' = "done" /\ allowed'
      BY <1>4, <2>1, <2>5 DEF Compare, Hit, ifa_addr, sockaddr_match, sockaddr_mask, memand
    <3> QED
      BY <1>0, <2>1, <2>2, <2>3, <2>4, <2>5, <3>1 DEF Walk
  <2>6. CASE ~ Hit(list[ifp])
    <3>1. UNCHANGED <<pc, allowed>> /\ ifp' = ifp + 1
      BY <1>4, <2>1, <2>6 DEF Compare, Hit, ifa_addr, sockaddr_match, sockaddr_mask, memand
    <3>2. \A i \in 1..Len(list) : i < ifp + 1 => ~ Hit(list[i])
      BY <1>0, <2>1, <2>6 DEF Walk
    <3>3. \A i \in 1..Len(list) : i >= ifp + 1 => ifap'[i] = list[i]
      BY <1>0, <2>1, <2>4 DEF Walk
    <3> HIDE DEF Hit
    <3> QED
      BY <1>0, <2>1, <2>2, <2>3, <2>4, <3>1, <3>2, <3>3 DEF Walk
  <2> QED
    BY <2>5, <2>6
<1>5. CASE NoMatch
  <2>1. UNCHANGED <<net_access, ifs, addr, list, ifap, ifp, allowed>> /\ pc' = "done"
    BY <1>5 DEF NoMatch, given
  <2>2. ~ allowed /\ net_access < 2 /\ \A i \in 1..Len(list) : ~ Hit(list[i])
    BY <1>0, <1>5 DEF NoMatch, Walk
  <2>3. \A i \in 1..Len(list) : Hit(list[i])' <=> Hit(list[i])
    BY <2>1 DEF Hit, subnet
  <2> HIDE DEF Hit
  <2> QED
    BY <1>0, <1>5, <2>1, <2>2, <2>3 DEF NoMatch, Walk
<1>6. CASE UNCHANGED vars
  BY <1>6 DEF vars, given, Walk, Hit, subnet
<1> QED
  BY <1>1, <1>2, <1>3, <1>4, <1>5, <1>6, <1>7, <1>8 DEF Next

\* A list with nothing but the machine's interfaces has no other hits, and one with
\* all of them misses none.
LEMMA ListedHits ==
  /\ Sound(list) => ((\E j \in 1..Len(list) : Hit(list[j]))
                         => \E i \in 1..Len(ifs) : Hit(ifs[i]))
  /\ Whole(list) => ((\E i \in 1..Len(ifs) : Hit(ifs[i]))
                         => \E j \in 1..Len(list) : Hit(list[j]))
<1>1. \A j \in 1..Len(list) : Hit(list[j]) => list[j].family = "inet"
  BY DEF Hit
<1> HIDE DEF Hit
<1> QED
  BY <1>1 DEF Sound, Whole

\* A hit is what the documentation permits below level 2.
LEMMA HitIsPermitted ==
  ASSUME net_access \in Nat, net_access < 2
  PROVE  (\E i \in 1..Len(ifs) : Hit(ifs[i])) <=> Permitted
<1>1. CASE net_access = 0
  BY <1>1 DEF Hit, subnet, Permitted, Local
<1>2. CASE net_access = 1
  <2>1. \A i \in 1..Len(ifs) :
          addr \cap ifs[i].mask = ifs[i].addr \cap ifs[i].mask
            <=> \A b \in ifs[i].mask : b \in addr <=> b \in ifs[i].addr
    OBVIOUS
  <2>2. subnet
    BY <1>2 DEF subnet
  <2>3. \A i \in 1..Len(ifs) :
          Hit(ifs[i]) <=> /\ ifs[i].family = "inet"
                          /\ \A b \in ifs[i].mask : b \in addr <=> b \in ifs[i].addr
    BY <2>1, <2>2 DEF Hit
  <2>4. Permitted <=> Attached
    BY <1>2 DEF Permitted
  <2> QED
    BY <2>3, <2>4 DEF Attached
<1> QED
  BY <1>1, <1>2

\* The walk of check_source, which masks the list it walks in place and stops at
\* the first match, allows exactly the addresses that the documentation permits;
\* with a list that lost something on the way it allows no others.
THEOREM AccessCorrect == Spec => [](XTypeOK /\ AnswerIsPermitted)
<1>1. Init => XTypeOK /\ Making /\ Walk
  <2> SUFFICES ASSUME Init PROVE XTypeOK /\ Making /\ Walk
    OBVIOUS
  <2>1. ifs \in Seq(Iface)
    BY DEF Init
  <2>2. allowed \in BOOLEAN /\ ~ allowed /\ lost \in BOOLEAN /\ fallback \in BOOLEAN
    BY Zenon DEF Init
  <2>3. ifap = <<>> /\ ifap \in Seq(Iface) /\ list \in Seq(Iface) /\ ifp \in 1..(Len(ifap) + 1)
    BY DEF Init
  <2> QED
    BY <2>1, <2>2, <2>3 DEF Init, XTypeOK, Making, Walk
<1>2. XTypeOK /\ Making /\ Walk /\ [Next]_vars => XTypeOK' /\ Making' /\ Walk'
  BY AccessTypeStep, MakingStep, WalkStep
<1>3. XTypeOK /\ Making /\ Walk => AnswerIsPermitted
  <2> SUFFICES ASSUME XTypeOK, Making, Walk, pc = "done"
               PROVE  (allowed => Permitted) /\ (Permitted /\ ~ lost => allowed)
    BY DEF AnswerIsPermitted
  <2>0. net_access \in Nat /\ allowed \in BOOLEAN
    BY AccessAssumption DEF XTypeOK
  <2>1. CASE net_access < 2
    <3>1. Sound(list) /\ (~ lost => Whole(list))
      BY <2>1 DEF Making
    <3>2. allowed <=> \E j \in 1..Len(list) : Hit(list[j])
      BY <2>1 DEF Walk
    <3>3. (\E i \in 1..Len(ifs) : Hit(ifs[i])) <=> Permitted
      BY <2>0, <2>1, HitIsPermitted
    <3> QED
      BY <3>1, <3>2, <3>3, ListedHits
  <2>2. CASE net_access >= 2
    BY <2>2 DEF Walk, Permitted
  <2> QED
    BY <2>0, <2>1, <2>2
<1> QED
  BY <1>1, <1>2, <1>3, PTL DEF Spec

\* The lists of interfaces that getifaddrs and its fallback make, and the place of
\* the walk in them, have their types: the walk never runs past the end of the list.
THEOREM AccessTypes == Spec => []XTypeOK
  BY AccessCorrect, PTL

=============================================================================
