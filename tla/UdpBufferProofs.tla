-------------------------- MODULE UdpBufferProofs --------------------------
(***************************************************************************)
(* What the unlocked statics of check_udp_buffer still guarantee, for any  *)
(* number of threads and any sizes, and what the probe by halving yields   *)
(* for a thread that is alone.                                             *)
(***************************************************************************)
EXTENDS UdpBuffer, WellFoundedInduction, TLAPS

\* A thread that has bound a probe did so with a size the system accepts, and
\* only such sizes are recorded.
BoundAccepted ==
  /\ chk_size <= limit
  /\ \A t \in Thread : pc[t] \in {"bound", "compare", "store"} => sz[t] \in 0..limit

\* Half of a size is a smaller size.
LEMMA Half == ASSUME NEW n \in Nat PROVE n \div 2 \in 0..n
  OBVIOUS

\* The size asked for, also when it is taken as an int.
LEMMA SizeNat == UTypeOK => size \in Nat /\ limit \in Nat /\ Signed(size) \in Int /\ Signed(size) <= size
<1> SUFFICES ASSUME UTypeOK
             PROVE  size \in Nat /\ limit \in Nat /\ Signed(size) \in Int /\ Signed(size) <= size
  OBVIOUS
<1>1. size \in Nat /\ limit \in Nat
  BY UdpBufferAssumption DEF UTypeOK, size
<1> QED
  BY <1>1, UdpBufferAssumption DEF Signed

\* Opening and closing descriptors keeps their types.
LEMMA CloseTypes ==
  ASSUME UTypeOK, NEW h, Close(h)
  PROVE  /\ open' \subseteq Handle /\ conns' \subseteq open'
         /\ {harmed', starved'} \subseteq BOOLEAN
  BY Zenon DEF UTypeOK, Close

\* Types and the recorded sizes are kept by a step of one thread.
LEMMA ThreadStep ==
  ASSUME UTypeOK, BoundAccepted, NEW t \in Thread, Step(t)
  PROVE  UTypeOK' /\ BoundAccepted'
<1>0. size \in Nat /\ limit \in Nat /\ Signed(size) \in Int /\ Signed(size) <= size
  BY SizeNat
<1>u. UNCHANGED given
  BY DEF Step, Call, Checked, Known, Probe, Bound, Compare, Store,
            First, CloseProbe, Apply, Reduce
<1>s. UNCHANGED <<limit, asked, is_custom, custom>> /\ size' = size
  BY <1>u DEF given, size
<1>b. \A f \in [Thread -> BOOLEAN], r \in BOOLEAN : [f EXCEPT ![t] = r] \in [Thread -> BOOLEAN]
  BY Zenon
<1>g. /\ limit' \in 1..MaxLimit /\ asked' \in Int /\ is_custom' \in BOOLEAN
      /\ custom' \in 0..(Word - 1)
  BY <1>s, Zenon DEF UTypeOK
<1>1. CASE Call(t)
  <2>1. calls' \in [Thread -> 0..MaxCalls] /\ opt' \in [Thread -> 0..size]
    BY <1>0, <1>1, UdpBufferAssumption DEF Call, UTypeOK
  <2>2. UNCHANGED <<statics, fds, sz, sd, ret>> /\ Goto(t, "checked")
    BY <1>1 DEF Call
  <2> QED
    BY <1>0, <1>s, <1>g, <2>1, <2>2 DEF Goto, statics, fds, UTypeOK, BoundAccepted
<1>2. CASE Checked(t)
  <2>a. ret' = ret \/ ret' = [ret EXCEPT ![t] = TRUE]
    BY <1>2 DEF Checked, Return
  <2>1. ret' \in [Thread -> BOOLEAN]
    BY <1>b, <2>a, Zenon DEF UTypeOK
  <2>2. Goto(t, "idle") \/ Goto(t, "known")
    BY <1>2 DEF Checked, Return
  <2>3. UNCHANGED <<statics, fds, sz, sd, opt, calls>>
    BY <1>2 DEF Checked
  <2> QED
    BY <1>0, <1>s, <1>g, <2>1, <2>2, <2>3 DEF Goto, statics, fds, UTypeOK, BoundAccepted
<1>3. CASE Known(t)
  <2>1. UNCHANGED <<max_size, chk_size, warned, conns, harmed, opt, ret, calls>>
    BY <1>3 DEF Known, statics
  <2>2. Goto(t, "apply") \/ Goto(t, "probe")
    BY <1>3 DEF Known
  <2>3. sz' = [sz EXCEPT ![t] = Signed(size)]
    BY <1>3 DEF Known
  <2>4. open' \subseteq Handle /\ conns' \subseteq open' /\ sd' \in [Thread -> Handle \cup {0}]
    BY <1>3, <2>1 DEF Known, UTypeOK, Grab
  <2>5. starved' \in BOOLEAN
    BY <1>3, Zenon DEF Known, UTypeOK
  <2> QED
    BY <1>0, <1>s, <1>g, <2>1, <2>2, <2>3, <2>4, <2>5 DEF Goto, UTypeOK, BoundAccepted
<1>4. CASE Probe(t)
  <2>0. sz[t] \in Int /\ sz[t] <= size
    BY DEF UTypeOK
  <2>1. UNCHANGED <<chk_size, warned, fds, sd, opt, ret, calls>>
    BY <1>4 DEF Probe
  <2>2. CASE UNCHANGED <<max_size, sz>>
    <3>1. Goto(t, "close") \/ (Goto(t, "bound") /\ sz[t] \in 0..limit) \/ UNCHANGED pc
      BY <1>0, <1>4, <2>0, UdpBufferAssumption DEF Probe, Accepts
    <3> QED
      BY <1>0, <1>s, <1>g, <2>1, <2>2, <3>1 DEF Goto, fds, UTypeOK, BoundAccepted
  <2>3. CASE /\ sz[t] > Floor /\ UNCHANGED pc
             /\ sz' = [sz EXCEPT ![t] = Smaller(@)] /\ max_size' = Smaller(sz[t])
    <3>1. sz[t] \in Nat /\ Smaller(sz[t]) \in 0..sz[t]
      BY <2>0, <2>3, Half, UdpBufferAssumption DEF Smaller
    <3>2. pc[t] = "probe"
      BY <1>4 DEF Probe
    <3> QED
      BY <1>0, <1>s, <1>g, <2>0, <2>1, <2>3, <3>1, <3>2 DEF fds, UTypeOK, BoundAccepted
  <2> QED
    BY <1>4, <2>2, <2>3 DEF Probe
<1>5. CASE Bound(t)
  <2>1. Close(sd[t])
    BY <1>5 DEF Bound
  <2>2. UNCHANGED <<statics, sz, sd, opt, ret, calls>> /\ Goto(t, "compare") /\ pc[t] = "bound"
    BY <1>5 DEF Bound
  <2> QED
    BY <1>0, <1>s, <1>g, <2>1, <2>2, CloseTypes DEF Goto, statics, UTypeOK, BoundAccepted
<1>9. CASE Compare(t)
  <2>1. UNCHANGED <<statics, fds, sz, sd, opt, ret, calls>> /\ pc[t] = "compare"
    BY <1>9 DEF Compare
  <2>2. Goto(t, "store") \/ Goto(t, "first")
    BY <1>9 DEF Compare
  <2> QED
    BY <1>0, <1>s, <1>g, <2>1, <2>2 DEF Goto, statics, fds, UTypeOK, BoundAccepted
<1>10. CASE Store(t)
  <2>1. sz[t] \in Int /\ sz[t] <= size /\ sz[t] \in 0..limit
    BY <1>10 DEF Store, UTypeOK, BoundAccepted
  <2>2. chk_size' \in 0..size /\ chk_size' <= limit
    BY <1>0, <1>10, <2>1 DEF Store, Record
  <2>3. UNCHANGED <<max_size, warned, fds, sz, sd, opt, ret, calls>> /\ Goto(t, "first")
    BY <1>10 DEF Store
  <2> QED
    BY <1>0, <1>s, <1>g, <2>2, <2>3 DEF Goto, fds, UTypeOK, BoundAccepted
<1>6. CASE First(t)
  <2>a. ret' = ret \/ ret' = [ret EXCEPT ![t] = TRUE]
    BY <1>6 DEF First, Return
  <2>1. ret' \in [Thread -> BOOLEAN]
    BY <1>b, <2>a, Zenon DEF UTypeOK
  <2>2. Goto(t, "idle") \/ Goto(t, "close")
    BY <1>6 DEF First, Return
  <2>3. UNCHANGED <<statics, fds, sz, sd, opt, calls>>
    BY <1>6 DEF First
  <2> QED
    BY <1>0, <1>s, <1>g, <2>1, <2>2, <2>3 DEF Goto, statics, fds, UTypeOK, BoundAccepted
<1>7. CASE CloseProbe(t)
  <2>1. Close(sd[t])
    BY <1>7 DEF CloseProbe
  <2>2. UNCHANGED <<statics, sz, sd, opt, ret, calls>> /\ Goto(t, "apply")
    BY <1>7 DEF CloseProbe
  <2> QED
    BY <1>0, <1>s, <1>g, <2>1, <2>2, CloseTypes DEF Goto, statics, UTypeOK, BoundAccepted
<1>8. CASE Apply(t)
  <2>b. ret' = ret \/ ret' = [ret EXCEPT ![t] = TRUE]
    BY <1>8, Zenon DEF Apply, Return
  <2>c. warned' = TRUE \/ warned' = warned
    BY <1>8, Zenon DEF Apply
  <2>1. ret' \in [Thread -> BOOLEAN] /\ warned' \in BOOLEAN
    BY <1>b, <2>b, <2>c, Zenon DEF UTypeOK
  <2>2. pc' \in [Thread -> {"idle", "checked", "known", "probe", "bound", "compare", "store",
                            "first", "close", "apply", "reduce", "died"}]
    BY <1>8 DEF Apply, Return, Goto, UTypeOK
  <2>a. opt' = opt \/ opt' = [opt EXCEPT ![t] = size]
    BY <1>8, Zenon DEF Apply
  <2>3. opt' \in [Thread -> 0..size]
    BY <1>0, <2>a DEF UTypeOK
  <2>4. UNCHANGED <<max_size, chk_size, fds, sz, sd, calls>>
    BY <1>8 DEF Apply
  <2>5. \A u \in Thread : pc'[u] \in {"bound", "compare", "store"} => pc'[u] = pc[u]
    BY <1>8 DEF Apply, Return, Goto, UTypeOK
  <2> QED
    BY <1>0, <1>s, <1>g, <2>1, <2>2, <2>3, <2>4, <2>5 DEF fds, UTypeOK, BoundAccepted
<1>11. CASE Reduce(t)
  <2>1. ret' = [ret EXCEPT ![t] = FALSE] /\ Goto(t, "idle")
    BY <1>11 DEF Reduce, Return
  <2>2. ret' \in [Thread -> BOOLEAN]
    BY <1>b, <2>1, Zenon DEF UTypeOK
  <2>3. opt' \in [Thread -> 0..size]
    BY <1>0, <1>11 DEF Reduce, UTypeOK
  <2>4. UNCHANGED <<statics, fds, sz, sd, calls>>
    BY <1>11 DEF Reduce
  <2> QED
    BY <1>0, <1>s, <1>g, <2>1, <2>2, <2>3, <2>4 DEF Goto, statics, fds, UTypeOK, BoundAccepted
<1> QED
  BY <1>1, <1>2, <1>3, <1>4, <1>5, <1>6, <1>7, <1>8, <1>9, <1>10, <1>11 DEF Step

\* Other code that opens and closes connections touches no size.
LEMMA ConnStep ==
  ASSUME UTypeOK, BoundAccepted, ConnOpen \/ ConnClose
  PROVE  UTypeOK' /\ BoundAccepted'
<1>1. UNCHANGED <<limit, asked, is_custom, custom, max_size, chk_size, warned, harmed, starved,
                  pc, sz, sd, opt, ret, calls>> /\ size' = size
  BY DEF ConnOpen, ConnClose, given, statics, size
<1>2. open' \subseteq Handle /\ conns' \subseteq open'
  BY DEF ConnOpen, ConnClose, UTypeOK
<1> QED
  BY <1>1, <1>2 DEF UTypeOK, BoundAccepted

\* What the command line can make of the size fits a word.
LEMMA InitNumbers ==
  ASSUME Init
  PROVE  /\ limit \in 1..MaxLimit /\ asked \in Int
         /\ custom \in 0..(Word - 1) /\ size \in Nat
<1>0. limit \in 1..MaxLimit /\ Default \in Nat /\ Word \in Nat \ {0} /\ 0 \in 0..(Word - 1)
  BY UdpBufferAssumption DEF Init
<1>1. CASE is_custom = FALSE /\ asked = Default /\ custom = 0
  BY <1>0, <1>1 DEF size
<1>2. CASE \E n \in Written, q \in {1, Kilo, Kilo * Kilo} :
             asked = n * q /\ custom = parse_udt_option(n, q)
  <2>1. PICK n \in Written, q \in {1, Kilo, Kilo * Kilo} :
          asked = n * q /\ custom = parse_udt_option(n, q)
    BY <1>2
  <2>2. n \in Nat /\ q \in Nat
    BY <2>1, UdpBufferAssumption
  <2>3. n * q \in Nat
    BY <2>2
  <2>4. \A p \in Nat : p % Word \in 0..(Word - 1)
    BY <1>0
  <2>5. asked \in Nat /\ custom \in 0..(Word - 1)
    BY <2>1, <2>3, <2>4 DEF parse_udt_option
  <2> QED
    BY <1>0, <2>5 DEF size
<1>3. CASE asked = -1 /\ custom \in 0..(Word - 1)
  BY <1>0, <1>3 DEF size
<1> QED
  BY <1>1, <1>2, <1>3 DEF Init

\* Whatever threads probe at once, the size recorded in chk_size, up to which later
\* sockets skip the probe, was accepted by the system; the statics, and the option
\* left on a socket, never exceed the size asked for.
THEOREM CheckedAlwaysGranted == Spec => [](UTypeOK /\ CheckedIsGranted)
<1>1. Init => UTypeOK /\ BoundAccepted
  <2> SUFFICES ASSUME Init PROVE UTypeOK /\ BoundAccepted
    OBVIOUS
  <2>1. /\ warned \in BOOLEAN /\ ret \in [Thread -> BOOLEAN]
        /\ is_custom \in BOOLEAN /\ {harmed, starved} \subseteq BOOLEAN
    BY Zenon DEF Init
  <2>2. /\ limit \in 1..MaxLimit /\ asked \in Int
        /\ custom \in 0..(Word - 1) /\ size \in Nat
    BY <2>1, InitNumbers
  <2>3. /\ max_size = 0 /\ chk_size = 0
        /\ pc \in [Thread -> {"idle"}] /\ sz \in [Thread -> {0}] /\ opt \in [Thread -> {0}]
        /\ sd \in [Thread -> {0}] /\ calls \in [Thread -> {0}]
        /\ open = {} /\ conns = {}
    BY DEF Init
  <2>4. UTypeOK
    BY <2>1, <2>2, <2>3, UdpBufferAssumption DEF UTypeOK
  <2> QED
    BY <2>2, <2>3, <2>4, UdpBufferAssumption DEF BoundAccepted
<1>2. UTypeOK /\ BoundAccepted /\ [Next]_vars => UTypeOK' /\ BoundAccepted'
  <2> SUFFICES ASSUME UTypeOK, BoundAccepted, [Next]_vars
               PROVE  UTypeOK' /\ BoundAccepted'
    OBVIOUS
  <2>1. CASE Next
    BY <2>1, ThreadStep, ConnStep DEF Next
  <2>2. CASE UNCHANGED vars
    BY <2>2 DEF vars, given, statics, fds, UTypeOK, BoundAccepted, size
  <2> QED
    BY <2>1, <2>2
<1>3. BoundAccepted => CheckedIsGranted
  BY DEF BoundAccepted, CheckedIsGranted
<1> QED
  BY <1>1, <1>2, <1>3, PTL DEF Spec

\* The statics, the descriptors and every thread's variables have their types; no
\* size kept or left on a socket exceeds the one asked for.
THEOREM BufferTypes == Spec => []UTypeOK
  BY CheckedAlwaysGranted, PTL

-----------------------------------------------------------------------------
\* The thread has opened the descriptor of its probe and not closed it yet.
Probing(t) == pc[t] \in {"probe", "bound", "close"}

\* The system grants the size and every probe got a descriptor: then no size is
\* refused, so no probe closes its descriptor twice, and each descriptor of a probe
\* is open, no connection's, and one thread's only.
Unrefused == size <= limit /\ starved = FALSE

Owned ==
  Unrefused =>
    /\ max_size = 0 /\ harmed = FALSE
    /\ \A t \in Thread : Probing(t) => sd[t] \in open /\ sd[t] \notin conns
    /\ \A t, u \in Thread : t # u /\ Probing(t) /\ Probing(u) => sd[t] # sd[u]

\* A thread that closes its own descriptor, and so stops probing, harms nobody.
LEMMA CloseOwn ==
  ASSUME UTypeOK, Owned, Unrefused, NEW t \in Thread, Probing(t), Close(sd[t]),
         UNCHANGED <<max_size, sd>>, NEW l, Goto(t, l), l \notin {"probe", "bound", "close"}
  PROVE  /\ max_size' = 0 /\ harmed' = FALSE
         /\ \A u \in Thread : Probing(u)' => sd'[u] \in open' /\ sd'[u] \notin conns'
         /\ \A u, v \in Thread : u # v /\ Probing(u)' /\ Probing(v)' => sd'[u] # sd'[v]
<1>1. sd[t] \in open /\ sd[t] \notin conns /\ max_size = 0 /\ harmed = FALSE
  BY DEF Owned
<1>2. open' = open \ {sd[t]} /\ conns' = conns \ {sd[t]} /\ harmed' = FALSE
  BY <1>1, Zenon DEF Close
<1>3. \A u \in Thread : Probing(u)' => u # t /\ Probing(u)
  BY DEF Probing, Goto, UTypeOK
<1> QED
  BY <1>1, <1>2, <1>3 DEF Owned

\* A step that leaves the descriptors alone keeps their owners.
LEMMA SameOwners ==
  ASSUME Owned, Unrefused, UNCHANGED <<max_size, fds, sd>>,
         \A u \in Thread : Probing(u)' => Probing(u)
  PROVE  /\ max_size' = 0 /\ harmed' = FALSE
         /\ \A u \in Thread : Probing(u)' => sd'[u] \in open' /\ sd'[u] \notin conns'
         /\ \A u, v \in Thread : u # v /\ Probing(u)' /\ Probing(v)' => sd'[u] # sd'[v]
  BY DEF Owned, fds

\* Once a probe has found no descriptor this is remembered.
LEMMA UnrefusedBefore == UTypeOK /\ Next /\ Unrefused' => Unrefused /\ size' = size
<1> SUFFICES ASSUME UTypeOK, Next, Unrefused' PROVE Unrefused /\ size' = size
  OBVIOUS
<1>1. UNCHANGED given
  BY Zenon DEF Next, ConnOpen, ConnClose, Step, Call, Checked, Known, Probe, Bound, Compare, Store,
            First, CloseProbe, Apply, Reduce
<1>2. size' = size /\ limit' = limit
  BY <1>1 DEF given, size
<1>3. starved' = starved \/ starved' = TRUE
  BY Zenon DEF Next, ConnOpen, ConnClose, Step, Call, Checked, Known, Probe, Bound, Compare, Store,
            First, CloseProbe, Apply, Reduce, Close, fds
<1> QED
  BY <1>2, <1>3 DEF Unrefused

\* No step of a thread takes a descriptor away from its owner.
LEMMA OwnedStep ==
  ASSUME UTypeOK, Owned, NEW t \in Thread, Step(t), Next
  PROVE  Owned'
<1> SUFFICES ASSUME Unrefused'
             PROVE  /\ max_size' = 0 /\ harmed' = FALSE
                    /\ \A u \in Thread : Probing(u)' => sd'[u] \in open' /\ sd'[u] \notin conns'
                    /\ \A u, v \in Thread : u # v /\ Probing(u)' /\ Probing(v)' => sd'[u] # sd'[v]
  BY DEF Owned
<1>0. Unrefused /\ size' = size
  BY UnrefusedBefore
<1>m. max_size = 0 /\ harmed = FALSE
  BY <1>0 DEF Owned
<1>1. CASE Call(t) \/ Checked(t) \/ Compare(t) \/ Store(t) \/ First(t)
  <2>1. UNCHANGED <<max_size, fds, sd>>
    BY <1>1 DEF Call, Checked, Compare, Store, First, statics
  <2>2. \E l \in {"idle", "checked", "known", "store", "first"} : Goto(t, l)
    BY <1>1, <1>m DEF Call, Checked, Compare, Store, First, Return
  <2>3. \A u \in Thread : Probing(u)' => Probing(u)
    BY <2>2 DEF Probing, Goto, UTypeOK
  <2> QED
    BY <1>0, <2>1, <2>3, SameOwners
<1>2. CASE Known(t)
  <2>1. starved' = FALSE /\ UNCHANGED <<max_size, conns, harmed>> /\ Goto(t, "probe")
    BY <1>2, <1>m DEF Known, statics, Unrefused
  <2>2. PICK h \in Handle : h \notin open /\ open' = open \cup {h} /\ sd' = [sd EXCEPT ![t] = h]
    BY <1>2, <1>m, <2>1 DEF Known, Grab
  <2>3. \A u \in Thread : Probing(u)' => u = t \/ Probing(u)
    BY <2>1 DEF Probing, Goto, UTypeOK
  <2>4. sd'[t] = h /\ \A u \in Thread \ {t} : sd'[u] = sd[u]
    BY <2>2 DEF UTypeOK
  <2>5. h \notin conns
    BY <2>2 DEF UTypeOK
  <2> QED
    BY <1>0, <1>m, <2>1, <2>2, <2>3, <2>4, <2>5 DEF Owned
<1>3. CASE Probe(t)
  <2>1. sz[t] <= limit
    <3>1. sz[t] \in Int /\ sz[t] <= size /\ size \in Nat /\ limit \in Nat
      BY SizeNat DEF UTypeOK
    <3> QED
      BY <1>0, <3>1 DEF Unrefused
  <2>2. Probing(t)
    BY <1>3 DEF Probe, Probing
  <2>3. Accepts(t)
    BY <1>0, <2>1, <2>2 DEF Accepts, Owned, Probing
  <2>4. UNCHANGED <<max_size, fds, sd>> /\ (Goto(t, "close") \/ Goto(t, "bound"))
    BY <1>3, <2>3 DEF Probe
  <2>5. \A u \in Thread : Probing(u)' => Probing(u)
    BY <2>2, <2>4 DEF Probing, Goto, UTypeOK
  <2> QED
    BY <1>0, <2>4, <2>5, SameOwners
<1>4. CASE Bound(t)
  <2>1. Probing(t) /\ Close(sd[t]) /\ UNCHANGED <<max_size, sd>> /\ Goto(t, "compare")
    BY <1>4 DEF Bound, Probing, statics
  <2> QED
    BY <1>0, <2>1, CloseOwn
<1>5. CASE CloseProbe(t)
  <2>1. Probing(t) /\ Close(sd[t]) /\ UNCHANGED <<max_size, sd>> /\ Goto(t, "apply")
    BY <1>5 DEF CloseProbe, Probing, statics
  <2> QED
    BY <1>0, <2>1, CloseOwn
<1>6. CASE Apply(t) \/ Reduce(t)
  <2>1. UNCHANGED <<max_size, fds, sd>>
    BY <1>6 DEF Apply, Reduce, statics
  <2>2. \A u \in Thread : Probing(u)' => Probing(u)
    BY <1>6 DEF Apply, Reduce, Return, Goto, Probing, UTypeOK
  <2> QED
    BY <1>0, <2>1, <2>2, SameOwners
<1> QED
  BY <1>1, <1>2, <1>3, <1>4, <1>5, <1>6 DEF Step

\* Nor does other code that opens and closes connections.
LEMMA OwnedConn ==
  ASSUME UTypeOK, Owned, ConnOpen \/ ConnClose, Next
  PROVE  Owned'
<1> SUFFICES ASSUME Unrefused'
             PROVE  /\ max_size' = 0 /\ harmed' = FALSE
                    /\ \A u \in Thread : Probing(u)' => sd'[u] \in open' /\ sd'[u] \notin conns'
                    /\ \A u, v \in Thread : u # v /\ Probing(u)' /\ Probing(v)' => sd'[u] # sd'[v]
  BY DEF Owned
<1>1. Unrefused
  BY UnrefusedBefore
<1>2. UNCHANGED <<max_size, harmed, pc, sd>>
  BY DEF ConnOpen, ConnClose, statics
<1>3. \A h \in open \ conns : h \in open' /\ h \notin conns'
  BY DEF ConnOpen, ConnClose, Grab
<1> QED
  BY <1>1, <1>2, <1>3 DEF Owned, Probing

\* However many threads probe at once and whatever else the process opens and closes,
\* a probe whose size the system grants closes no descriptor but its own.
THEOREM GrantedAlwaysSpared == Spec => []GrantedSpared
<1>1. Init => Owned
  BY Zenon DEF Init, Owned, Probing
<1>2. UTypeOK /\ Owned /\ [Next]_vars => Owned'
  <2> SUFFICES ASSUME UTypeOK, Owned, [Next]_vars PROVE Owned'
    OBVIOUS
  <2>1. CASE Next
    BY <2>1, OwnedStep, OwnedConn DEF Next
  <2>2. CASE UNCHANGED vars
    BY <2>2 DEF vars, given, statics, fds, Owned, Unrefused, Probing, size
  <2> QED
    BY <2>1, <2>2
<1>3. UTypeOK /\ Owned => GrantedSpared
  BY Zenon DEF UTypeOK, Owned, Unrefused, GrantedSpared
<1> QED
  BY <1>1, <1>2, <1>3, BufferTypes, PTL DEF Spec

-----------------------------------------------------------------------------
(* The powers of two, from the well-ordering of the naturals.              *)

\* A set of naturals that is not empty has a least member.
LEMMA LeastNat ==
  ASSUME NEW S \in SUBSET Nat, S # {}
  PROVE  \E m \in S : \A k \in S : m <= k
<1> DEFINE R == {p \in Nat \X Nat : p[1] < p[2]}
<1>1. IsWellFoundedOn(R, Nat)
  BY NatLessThanWellFounded, Zenon DEF OpToRel
<1> HIDE DEF R
<1>2. PICK m \in S : \A k \in S : ~ (<<k, m>> \in R)
  BY <1>1, WFMin
<1>3. \A k \in S : m <= k
  <2> SUFFICES ASSUME NEW k \in S, ~ (m <= k) PROVE FALSE
    OBVIOUS
  <2>1. k \in Nat /\ m \in Nat /\ k < m
    OBVIOUS
  <2>2. <<k, m>> \in R
    BY <2>1 DEF R
  <2> QED
    BY <1>2, <2>2
<1> QED
  BY <1>3

\* The first n doublings of 1.
Doubling(f, n) == f \in [0..n -> Nat] /\ f[0] = 1 /\ \A i \in 1..n : f[i] = 2 * f[i - 1]

\* They exist for every n.
LEMMA DoublingExists == \A n \in Nat : \E f : Doubling(f, n)
<1> DEFINE S == {n \in Nat : ~ \E f : Doubling(f, n)}
<1> SUFFICES ASSUME S # {} PROVE FALSE
  OBVIOUS
<1>1. PICK m \in S : \A k \in S : m <= k
  BY LeastNat
<1>2. CASE m = 0
  <2>1. Doubling([i \in 0..0 |-> 1], 0)
    BY DEF Doubling
  <2> QED
    BY <1>2, <2>1
<1>3. CASE m # 0
  <2>1. m - 1 \in Nat /\ m - 1 \notin S
    BY <1>1, <1>3
  <2>2. PICK f : Doubling(f, m - 1)
    BY <2>1
  <2> DEFINE g == [i \in 0..m |-> IF i = m THEN 2 * f[m - 1] ELSE f[i]]
  <2>3. g \in [0..m -> Nat]
    BY <2>1, <2>2 DEF Doubling
  <2>4. g[0] = 1
    BY <1>3, <2>2 DEF Doubling
  <2>5. ASSUME NEW i \in 1..m PROVE g[i] = 2 * g[i - 1]
    <3>1. i - 1 \in 0..m /\ i - 1 # m /\ g[i - 1] = f[i - 1]
      OBVIOUS
    <3>2. CASE i = m
      BY <3>1, <3>2
    <3>3. CASE i # m
      <4>1. i \in 1..(m - 1) /\ g[i] = f[i]
        BY <3>3
      <4> QED
        BY <2>2, <3>1, <4>1 DEF Doubling
    <3> QED
      BY <3>2, <3>3
  <2>6. Doubling(g, m)
    BY <2>3, <2>4, <2>5 DEF Doubling
  <2> QED
    BY <2>6
<1> QED
  BY <1>2, <1>3

\* Two of them agree as far as both go.
LEMMA DoublingUnique ==
  ASSUME NEW f, NEW g, NEW m \in Nat, NEW n \in Nat, Doubling(f, m), Doubling(g, n)
  PROVE  \A i \in Nat : i <= m /\ i <= n => f[i] = g[i]
<1> DEFINE S == {i \in Nat : i <= m /\ i <= n /\ f[i] # g[i]}
<1> SUFFICES ASSUME S # {} PROVE FALSE
  OBVIOUS
<1>1. PICK j \in S : \A k \in S : j <= k
  BY LeastNat
<1>2. j # 0
  BY DEF Doubling
<1>3. j - 1 \in Nat /\ j - 1 \notin S
  BY <1>1, <1>2
<1>4. f[j - 1] = g[j - 1]
  BY <1>3
<1>5. f[j] = 2 * f[j - 1] /\ g[j] = 2 * g[j - 1]
  BY <1>2 DEF Doubling
<1> QED
  BY <1>4, <1>5

\* TwoTo is the function its definition describes.
LEMMA TwoToDef == TwoTo = [k \in Nat |-> IF k = 0 THEN 1 ELSE 2 * TwoTo[k - 1]]
<1> DEFINE F(n) == CHOOSE f : Doubling(f, n)
           G == [n \in Nat |-> F(n)[n]]
<1>1. \A n \in Nat : Doubling(F(n), n)
  BY DoublingExists, Zenon
<1> HIDE DEF F
<1>2. ASSUME NEW n \in Nat PROVE G[n] = IF n = 0 THEN 1 ELSE 2 * G[n - 1]
  <2>1. CASE n = 0
    BY <1>1, <2>1 DEF Doubling
  <2>2. CASE n # 0
    <3>1. n - 1 \in Nat /\ n \in 1..n
      BY <2>2
    <3>2. F(n)[n] = 2 * F(n)[n - 1]
      BY <1>1, <3>1 DEF Doubling
    <3>3. F(n)[n - 1] = F(n - 1)[n - 1]
      BY <1>1, <3>1, DoublingUnique
    <3> QED
      BY <2>2, <3>1, <3>2, <3>3
  <2> QED
    BY <2>1, <2>2
<1>3. G = [k \in Nat |-> IF k = 0 THEN 1 ELSE 2 * G[k - 1]]
  BY <1>2, Zenon
<1> HIDE DEF G
<1>4. \E g : g = [k \in Nat |-> IF k = 0 THEN 1 ELSE 2 * g[k - 1]]
  BY <1>3, Zenon
<1> QED
  BY <1>4, Zenon DEF TwoTo

\* Each power is twice the one before.
LEMMA TwoToStep == TwoTo[0] = 1 /\ \A k \in Nat : TwoTo[k + 1] = 2 * TwoTo[k]
<1>1. \A k \in Nat : TwoTo[k] = IF k = 0 THEN 1 ELSE 2 * TwoTo[k - 1]
  BY TwoToDef, Zenon
<1> QED
  BY <1>1

\* A power of two is larger than its exponent.
LEMMA TwoToLarge == \A k \in Nat : TwoTo[k] \in Nat /\ TwoTo[k] > k
<1> DEFINE S == {k \in Nat : ~ (TwoTo[k] \in Nat /\ TwoTo[k] > k)}
<1> SUFFICES ASSUME S # {} PROVE FALSE
  OBVIOUS
<1>1. PICK m \in S : \A k \in S : m <= k
  BY LeastNat
<1>2. m # 0
  BY TwoToStep
<1>3. m - 1 \in Nat /\ m - 1 \notin S
  BY <1>1, <1>2
<1>4. TwoTo[m - 1] \in Nat /\ TwoTo[m - 1] > m - 1 /\ TwoTo[m] = 2 * TwoTo[m - 1]
  BY <1>3, TwoToStep
<1> QED
  BY <1>2, <1>4

\* Powers of two grow with their exponents.
LEMMA TwoToGrows ==
  ASSUME NEW j \in Nat, NEW k \in Nat, j <= k
  PROVE  TwoTo[j] <= TwoTo[k]
<1> DEFINE S == {i \in Nat : j <= i /\ ~ (TwoTo[j] <= TwoTo[i])}
<1> SUFFICES ASSUME S # {} PROVE FALSE
  OBVIOUS
<1>1. PICK m \in S : \A i \in S : m <= i
  BY LeastNat
<1>2. m # j
  BY TwoToLarge
<1>3. m - 1 \in Nat /\ j <= m - 1 /\ m - 1 \notin S
  BY <1>1, <1>2
<1>4. TwoTo[j] <= TwoTo[m - 1] /\ TwoTo[m] = 2 * TwoTo[m - 1] /\ TwoTo[m - 1] \in Nat
  BY <1>3, TwoToStep, TwoToLarge
<1> QED
  BY <1>4, TwoToLarge

-----------------------------------------------------------------------------
(* The loop of the probe, as long as one thread alone runs it.             *)

\* Each size of the loop is half of the one before, and sizes do not grow.
LEMMA Rungs ==
  ASSUME asked \in Nat
  PROVE  /\ Rung(0) = asked
         /\ \A k \in Nat : Rung(k) \in 0..asked /\ Rung(k) \div 2 = Rung(k + 1)
         /\ \A j, k \in Nat : j <= k => Rung(k) <= Rung(j)
<1>h. ASSUME NEW a \in Nat, NEW p \in Nat \ {0} PROVE (a \div p) \div 2 = a \div (2 * p)
  OBVIOUS
<1>m. ASSUME NEW a \in Nat, NEW p \in Nat \ {0}, NEW q \in Nat, p <= q
      PROVE  a \div q <= a \div p
  BY <1>m
<1>n. ASSUME NEW a \in Nat, NEW p \in Nat \ {0} PROVE a \div p \in 0..a
  OBVIOUS
<1>t. \A k \in Nat : TwoTo[k] \in Nat \ {0}
  BY TwoToLarge
<1>1. Rung(0) = asked
  BY TwoToStep DEF Rung
<1>2. ASSUME NEW k \in Nat PROVE Rung(k) \in 0..asked /\ Rung(k) \div 2 = Rung(k + 1)
  <2>1. Rung(k) \in 0..asked
    BY <1>n, <1>t, Zenon DEF Rung
  <2>2. (asked \div TwoTo[k]) \div 2 = asked \div (2 * TwoTo[k])
    BY <1>h, <1>t, Zenon
  <2>3. TwoTo[k + 1] = 2 * TwoTo[k]
    BY TwoToStep, Zenon
  <2>4. Rung(k) \div 2 = Rung(k + 1)
    BY <2>2, <2>3, Zenon DEF Rung
  <2> QED
    BY <2>1, <2>4
<1>3. ASSUME NEW j \in Nat, NEW k \in Nat, j <= k PROVE Rung(k) <= Rung(j)
  <2>1. TwoTo[j] \in Nat \ {0} /\ TwoTo[k] \in Nat /\ TwoTo[j] <= TwoTo[k]
    BY <1>3, <1>t, TwoToGrows
  <2> QED
    BY <1>m, <2>1, Zenon DEF Rung
<1> QED
  BY <1>1, <1>2, <1>3

\* A size the loop came to by refusals is at least 1.
LEMMA RungPositive ==
  ASSUME asked \in Nat, limit \in Nat \ {0}, NEW k \in Nat \ {0}, Rung(k - 1) > limit
  PROVE  Rung(k) > 0 /\ asked > limit
<1>1. k - 1 \in Nat /\ Rung(k - 1) \in 0..asked /\ Rung(k - 1) \div 2 = Rung(k)
  BY Rungs
<1> QED
  BY <1>1

\* The first size that is accepted is the one Granted chooses.
LEMMA GrantedIs ==
  ASSUME asked \in Nat, limit \in Nat \ {0}, NEW k \in Nat, Rung(k) <= limit,
         k = 0 \/ Rung(k - 1) > limit
  PROVE  Granted = Rung(k)
<1> DEFINE Reached(s, j) == s = Rung(j) /\ (j = 0 \/ Rung(j - 1) > limit)
<1>0. \A i \in Nat : Rung(i) \in Nat
  <2> SUFFICES ASSUME NEW i \in Nat PROVE Rung(i) \in Nat
    OBVIOUS
  <2>1. Rung(i) \in 0..asked
    BY Rungs
  <2> QED
    BY <2>1
<1>1. k \in 0..asked
  <2>1. CASE k = 0
    BY <2>1
  <2>2. CASE k # 0
    <3>1. k - 1 \in Nat /\ Rung(k - 1) > 0
      BY <2>2, Rungs
    <3>2. TwoTo[k - 1] \in Nat /\ TwoTo[k - 1] > k - 1
      BY <3>1, TwoToLarge
    <3>3. ASSUME NEW p \in Nat, p > 0, asked < p PROVE asked \div p = 0
      BY <3>3
    <3>4. TwoTo[k - 1] <= asked
      BY <3>1, <3>2, <3>3 DEF Rung
    <3> QED
      BY <3>1, <3>2, <3>4
  <2> QED
    BY <2>1, <2>2
<1>2. Rung(k) \in 0..asked
  BY Rungs
<1>3. ASSUME NEW j \in 0..asked, Rung(j) <= limit, j = 0 \/ Rung(j - 1) > limit
      PROVE  j = k
  <2>1. j \in Nat /\ Rung(j) \in Nat /\ Rung(k) \in Nat
    BY <1>0
  <2>2. ~ (j < k)
    <3> SUFFICES ASSUME j < k PROVE FALSE
      OBVIOUS
    <3>1. k - 1 \in Nat /\ j <= k - 1 /\ Rung(k - 1) > limit /\ Rung(k - 1) \in Nat
      BY <2>1, Rungs
    <3>2. Rung(k - 1) <= Rung(j)
      BY <2>1, <3>1, Rungs
    <3> QED
      BY <1>3, <2>1, <3>1, <3>2
  <2>3. ~ (k < j)
    <3> SUFFICES ASSUME k < j PROVE FALSE
      OBVIOUS
    <3>1. j - 1 \in Nat /\ k <= j - 1 /\ Rung(j - 1) > limit /\ Rung(j - 1) \in Nat
      BY <1>3, <2>1, Rungs
    <3>2. Rung(j - 1) <= Rung(k)
      BY <3>1, Rungs
    <3> QED
      BY <2>1, <3>1, <3>2
  <2> QED
    BY <2>1, <2>2, <2>3
<1>4. \A s \in 0..asked : (s <= limit /\ \E j \in 0..asked : Reached(s, j)) => s = Rung(k)
  BY <1>3
<1>5. Rung(k) <= limit /\ \E j \in 0..asked : Reached(Rung(k), j)
  BY <1>1
<1>6. \E s \in 0..asked : s <= limit /\ \E j \in 0..asked : Reached(s, j)
  BY <1>2, <1>5
<1>7. /\ Granted \in 0..asked /\ Granted <= limit
      /\ \E j \in 0..asked : Reached(Granted, j)
  BY <1>6, Zenon DEF Granted
<1> HIDE DEF Reached
<1> QED
  BY <1>4, <1>7

\* The probe of thread t has come to its size by refusals only, and max_size is 0
\* before the first refusal and the size of the loop after it.
Tried(t) ==
  \E k \in Nat :
    /\ sz[t] = Rung(k)
    /\ k = 0 => max_size = 0
    /\ k > 0 => Rung(k - 1) > limit /\ max_size = sz[t]

\* max_size is final: the size asked for was refused.
Settled == asked > limit /\ max_size = Granted /\ max_size \in 1..limit

\* A thread alone, by the place it is at.
Lone(t) ==
  /\ size = asked
  /\ \A u \in Thread \ {t} : pc[u] \in {"idle", "died"}
  /\ pc[t] \in {"probe", "bound"} => sd[t] \in open /\ sd[t] \notin conns
  /\ pc[t] \in {"probe", "bound", "compare", "store", "first"} => Tried(t)
  /\ pc[t] \in {"bound", "compare", "store", "first"} => sz[t] <= limit
  /\ pc[t] \in {"close", "apply", "reduce"} => Settled
  /\ pc[t] \in {"idle", "checked", "known"} => max_size = 0 \/ Settled
  /\ pc[t] \in {"checked", "known", "probe", "bound", "compare", "store", "first"} => opt[t] = asked
  /\ Returned(t) => opt[t] = Granted
  /\ pc[t] = "died" /\ calls[t] > 0 => asked > limit

\* As long as the hypotheses of AloneExact hold.
Exact == \A t \in Thread : Probed /\ starved = FALSE /\ Alone(t) => Lone(t)

\* What is asked for and what the system grants are fixed; a probe without a
\* descriptor, and a second thread, are remembered.
LEMMA AloneBefore ==
  ASSUME UTypeOK, Next, NEW t \in Thread, (Probed /\ starved = FALSE /\ Alone(t))'
  PROVE  /\ Probed /\ starved = FALSE /\ Alone(t)
         /\ UNCHANGED <<limit, asked, is_custom, custom>> /\ size' = size
         /\ Granted' = Granted /\ \A k : Rung(k)' = Rung(k)
<1>1. UNCHANGED given
  BY Zenon DEF Next, ConnOpen, ConnClose, Step, Call, Checked, Known, Probe, Bound, Compare, Store,
            First, CloseProbe, Apply, Reduce
<1>2. UNCHANGED <<limit, asked, is_custom, custom>>
  BY <1>1 DEF given
<1>3. starved' = starved \/ starved' = TRUE
  BY Zenon DEF Next, ConnOpen, ConnClose, Step, Call, Checked, Known, Probe, Bound, Compare, Store,
            First, CloseProbe, Apply, Reduce, Close, fds
<1>4. calls' = calls \/ \E u \in Thread : calls' = [calls EXCEPT ![u] = @ + 1]
  BY Zenon DEF Next, ConnOpen, ConnClose, Step, Call, Checked, Known, Probe, Bound, Compare, Store,
            First, CloseProbe, Apply, Reduce
<1>5. \A u \in Thread : calls'[u] = 0 => calls[u] = 0
  BY <1>4, UdpBufferAssumption DEF UTypeOK
<1>6. starved = FALSE
  BY <1>3
<1>7. Alone(t)
  BY <1>5 DEF Alone
<1>8. Probed /\ size' = size
  BY <1>2 DEF Probed, size
<1>9. Granted' = Granted /\ \A k : Rung(k)' = Rung(k)
  BY <1>2 DEF Granted, Rung
<1> QED
  BY <1>2, <1>6, <1>7, <1>8, <1>9

\* A step of another thread is its first call, or none.
LEMMA OthersStill ==
  ASSUME UTypeOK, NEW t \in Thread, Lone(t), NEW u \in Thread \ {t}, Step(u), Alone(t)'
  PROVE  FALSE
<1>1. pc[u] \in {"idle", "died"}
  BY DEF Lone
<1>2. Call(u)
  BY <1>1 DEF Step, Checked, Known, Probe, Bound, Compare, Store,
            First, CloseProbe, Apply, Reduce
<1>3. calls'[u] = calls[u] + 1 /\ calls[u] \in Nat
  BY <1>2, UdpBufferAssumption DEF Call, UTypeOK
<1> QED
  BY <1>3 DEF Alone

\* Every step of the thread that is alone, and of the code around it, keeps its place.
LEMMA LoneStep ==
  ASSUME UTypeOK, CheckedIsGranted, Next, NEW t \in Thread, Lone(t),
         Probed /\ starved = FALSE /\ Alone(t),
         (Probed /\ starved = FALSE /\ Alone(t))'
  PROVE  Lone(t)'
<1>0. /\ UNCHANGED <<limit, asked, is_custom, custom>> /\ size' = size
      /\ Granted' = Granted /\ \A k : Rung(k)' = Rung(k)
  BY AloneBefore
<1>n. /\ asked \in Nat /\ limit \in Nat \ {0} /\ Floor \in Nat
      /\ asked > Floor /\ limit > Floor /\ size = asked /\ Signed(size) = asked
      /\ max_size \in Nat /\ chk_size \in Nat /\ sz[t] \in Int
  BY UdpBufferAssumption, SizeNat DEF UTypeOK, Probed, Lone, Signed
<1>p. pc \in [Thread -> {"idle", "checked", "known", "probe", "bound", "compare", "store",
                         "first", "close", "apply", "reduce", "died"}]
      /\ sz \in [Thread -> Int] /\ opt \in [Thread -> 0..size]
      /\ sd \in [Thread -> Handle \cup {0}] /\ calls \in [Thread -> 0..MaxCalls]
  BY DEF UTypeOK
<1>g. asked <= limit => Granted = asked
  <2>1. Rung(0) = asked
    BY <1>n, Rungs
  <2> QED
    BY <1>n, <2>1, GrantedIs
<1>1. CASE ConnOpen \/ ConnClose
  <2>1. UNCHANGED <<max_size, pc, sz, sd, opt, calls>>
    BY <1>1 DEF ConnOpen, ConnClose, statics
  <2>2. \A h \in open \ conns : h \in open' /\ h \notin conns'
    BY <1>1 DEF ConnOpen, ConnClose, Grab
  <2> QED
    BY <1>0, <2>1, <2>2 DEF Lone, Tried, Settled, Returned
<1>2. CASE Call(t)
  <2>1. /\ UNCHANGED <<max_size, sz, sd>> /\ pc[t] = "idle"
        /\ pc' = [pc EXCEPT ![t] = "checked"] /\ opt' = [opt EXCEPT ![t] = size]
    BY <1>2 DEF Call, Goto, statics
  <2>2. pc'[t] = "checked" /\ opt'[t] = asked /\ \A u \in Thread \ {t} : pc'[u] = pc[u]
    BY <1>n, <1>p, <2>1
  <2> QED
    BY <1>0, <2>1, <2>2 DEF Lone, Settled, Returned
<1>3. CASE Checked(t)
  <2>1. UNCHANGED <<max_size, sz, sd, opt, calls>> /\ pc[t] = "checked"
    BY <1>3 DEF Checked, statics
  <2>2. \/ pc' = [pc EXCEPT ![t] = "idle"] /\ size <= chk_size
        \/ pc' = [pc EXCEPT ![t] = "known"]
    BY <1>3 DEF Checked, Return, Goto
  <2>3. \A u \in Thread \ {t} : pc'[u] = pc[u]
    BY <1>p, <2>2
  <2>4. CASE pc'[t] = "idle" /\ size <= chk_size
    <3>1. Granted = asked
      BY <1>n, <1>g, <2>4 DEF CheckedIsGranted
    <3> QED
      BY <1>0, <2>1, <2>3, <2>4, <3>1 DEF Lone, Settled, Returned
  <2>5. CASE pc'[t] = "known"
    BY <1>0, <2>1, <2>3, <2>5 DEF Lone, Settled, Returned
  <2> QED
    BY <1>p, <2>2, <2>4, <2>5
<1>4. CASE Known(t)
  <2>1. UNCHANGED <<max_size, conns, opt, calls>> /\ pc[t] = "known"
    BY <1>4 DEF Known, statics
  <2>2. sz'[t] = asked
    BY <1>4, <1>n, <1>p DEF Known
  <2>3. CASE max_size # 0 /\ Goto(t, "apply")
    <3>1. pc'[t] = "apply" /\ \A u \in Thread \ {t} : pc'[u] = pc[u]
      BY <1>p, <2>3 DEF Goto
    <3> QED
      BY <1>0, <2>1, <2>3, <3>1 DEF Lone, Settled, Returned
  <2>4. CASE max_size = 0 /\ Goto(t, "probe")
    <3>1. pc'[t] = "probe" /\ \A u \in Thread \ {t} : pc'[u] = pc[u]
      BY <1>p, <2>4 DEF Goto
    <3>2. PICK h \in Handle : h \notin open /\ open' = open \cup {h} /\ sd' = [sd EXCEPT ![t] = h]
      BY <1>4, <2>4 DEF Known, Grab
    <3>3. sd'[t] = h /\ h \in open' /\ h \notin conns'
      BY <1>p, <2>1, <3>2 DEF UTypeOK
    <3>4. Tried(t)'
      <4>1. Rung(0)' = asked
        BY <1>0, <1>n, Rungs
      <4>2. sz'[t] = Rung(0)' /\ max_size' = 0
        BY <2>1, <2>2, <2>4, <4>1
      <4> QED
        BY <4>2 DEF Tried
    <3> QED
      BY <1>0, <2>1, <3>1, <3>3, <3>4 DEF Lone, Settled, Returned
  <2> QED
    BY <1>4, <2>3, <2>4 DEF Known
<1>5. CASE Probe(t)
  <2>1. UNCHANGED <<open, conns, sd, opt, calls>> /\ pc[t] = "probe"
    BY <1>5 DEF Probe, fds
  <2>2. PICK k \in Nat : /\ sz[t] = Rung(k)
                         /\ k = 0 => max_size = 0
                         /\ k > 0 => Rung(k - 1) > limit /\ max_size = sz[t]
    BY <2>1 DEF Lone, Tried
  <2>3. CASE sz[t] <= Floor /\ Goto(t, "close") /\ UNCHANGED <<max_size, sz>>
    <3>1. pc'[t] = "close" /\ \A u \in Thread \ {t} : pc'[u] = pc[u]
      BY <1>p, <2>3 DEF Goto
    <3>2. k # 0
      BY <1>n, <2>2, <2>3, Rungs
    <3>3. k \in Nat \ {0} /\ Rung(k - 1) > limit /\ Rung(k) <= limit /\ max_size = Rung(k)
      BY <1>n, <2>2, <2>3, <3>2
    <3>4. Settled
      BY <1>n, <3>3, RungPositive, GrantedIs DEF Settled
    <3> QED
      BY <1>0, <2>1, <2>3, <3>1, <3>4 DEF Lone, Settled, Returned
  <2>4. CASE Accepts(t) /\ Goto(t, "bound") /\ UNCHANGED <<max_size, sz>>
    <3>1. pc'[t] = "bound" /\ \A u \in Thread \ {t} : pc'[u] = pc[u]
      BY <1>p, <2>4 DEF Goto
    <3>2. sz[t] <= limit
      BY <2>4 DEF Accepts
    <3>3. Tried(t)'
      BY <1>0, <2>1, <2>4 DEF Lone, Tried
    <3> QED
      BY <1>0, <2>1, <2>4, <3>1, <3>2, <3>3 DEF Lone, Settled, Returned
  <2>5. CASE /\ sz[t] > Floor /\ ~ Accepts(t) /\ UNCHANGED pc
             /\ sz' = [sz EXCEPT ![t] = Smaller(@)] /\ max_size' = Smaller(sz[t])
    <3>1. sz[t] > limit
      BY <1>n, <2>1, <2>5 DEF Accepts, Lone
    <3>a. (k + 1) - 1 = k /\ k + 1 \in Nat /\ k + 1 # 0
      OBVIOUS
    <3>b. Rung(k) \div 2 = Rung(k + 1)
      BY <1>n, Rungs, Zenon
    <3>2. Rung(k) \div 2 = Rung(k + 1) /\ (k + 1) - 1 = k /\ k + 1 \in Nat /\ k + 1 # 0
      BY <3>a, <3>b
    <3>3. sz'[t] = Rung(k + 1)' /\ max_size' = sz'[t] /\ Rung((k + 1) - 1)' > limit'
      BY <1>0, <1>p, <2>2, <2>5, <3>1, <3>2 DEF Smaller
    <3>4. Tried(t)'
      BY <3>2, <3>3 DEF Tried
    <3> QED
      BY <1>0, <2>1, <2>5, <3>4 DEF Lone, Settled, Returned
  <2> QED
    BY <1>5, <2>3, <2>4, <2>5 DEF Probe
<1>6. CASE Bound(t) \/ Compare(t) \/ Store(t)
  <2>1. /\ UNCHANGED <<max_size, sz, sd, opt, calls>> /\ pc[t] \in {"bound", "compare", "store"}
        /\ \E l \in {"compare", "store", "first"} : Goto(t, l)
    BY <1>6 DEF Bound, Compare, Store, statics
  <2>2. pc'[t] \in {"compare", "store", "first"} /\ \A u \in Thread \ {t} : pc'[u] = pc[u]
    BY <1>p, <2>1 DEF Goto
  <2>3. Tried(t)'
    BY <1>0, <2>1 DEF Lone, Tried
  <2> QED
    BY <1>0, <2>1, <2>2, <2>3 DEF Lone, Settled, Returned
<1>7. CASE First(t)
  <2>1. UNCHANGED <<max_size, sz, sd, opt, calls>> /\ pc[t] = "first"
    BY <1>7 DEF First, statics
  <2>2. PICK k \in Nat : /\ sz[t] = Rung(k)
                         /\ k = 0 => max_size = 0
                         /\ k > 0 => Rung(k - 1) > limit /\ max_size = sz[t]
    BY <2>1 DEF Lone, Tried
  <2>3. Rung(k) <= limit
    BY <2>1, <2>2 DEF Lone
  <2>4. CASE max_size = 0 /\ Goto(t, "idle")
    <3>1. pc'[t] = "idle" /\ \A u \in Thread \ {t} : pc'[u] = pc[u]
      BY <1>p, <2>4 DEF Goto
    <3>2. k = 0
      <4> SUFFICES ASSUME k \in Nat \ {0} PROVE FALSE
        OBVIOUS
      <4>1. Rung(k) > 0
        BY <1>n, <2>2, RungPositive
      <4> QED
        BY <2>2, <2>4, <4>1
    <3>3. Granted = asked
      BY <1>n, <1>g, <2>3, <3>2, Rungs
    <3> QED
      BY <1>0, <2>1, <2>4, <3>1, <3>3 DEF Lone, Settled, Returned
  <2>5. CASE max_size # 0 /\ Goto(t, "close")
    <3>1. pc'[t] = "close" /\ \A u \in Thread \ {t} : pc'[u] = pc[u]
      BY <1>p, <2>5 DEF Goto
    <3>2. k \in Nat \ {0} /\ Rung(k - 1) > limit /\ max_size = Rung(k)
      BY <2>2, <2>5
    <3>3. Settled
      BY <1>n, <2>3, <3>2, RungPositive, GrantedIs DEF Settled
    <3> QED
      BY <1>0, <2>1, <3>1, <3>3 DEF Lone, Settled, Returned
  <2> QED
    BY <1>7, <2>4, <2>5 DEF First, Return
<1>8. CASE CloseProbe(t)
  <2>1. UNCHANGED <<max_size, sz, sd, opt, calls>> /\ pc[t] = "close" /\ Goto(t, "apply")
    BY <1>8 DEF CloseProbe, statics
  <2>2. pc'[t] = "apply" /\ \A u \in Thread \ {t} : pc'[u] = pc[u]
    BY <1>p, <2>1 DEF Goto
  <2> QED
    BY <1>0, <2>1, <2>2 DEF Lone, Settled, Returned
<1>9. CASE Apply(t)
  <2>1. UNCHANGED <<max_size, sz, sd, calls>> /\ pc[t] = "apply" /\ Settled
    BY <1>9 DEF Apply, Lone
  <2>2. CASE pc' = [u \in Thread |-> "died"]
    <3>1. \A u \in Thread : pc'[u] = "died"
      BY <2>2
    <3> QED
      BY <1>0, <2>1, <3>1 DEF Lone, Settled, Returned
  <2>3. CASE Goto(t, "reduce") /\ UNCHANGED opt
    <3>1. pc'[t] = "reduce" /\ \A u \in Thread \ {t} : pc'[u] = pc[u]
      BY <1>p, <2>3 DEF Goto
    <3> QED
      BY <1>0, <2>1, <2>3, <3>1 DEF Lone, Settled, Returned
  <2>4. CASE size <= max_size
    BY <1>n, <2>1, <2>4 DEF Settled
  <2> QED
    BY <1>9, <2>2, <2>3, <2>4 DEF Apply, Return
<1>10. CASE Reduce(t)
  <2>1. /\ UNCHANGED <<max_size, sz, sd, calls>> /\ pc[t] = "reduce" /\ Settled
        /\ Goto(t, "idle") /\ opt' = [opt EXCEPT ![t] = max_size]
    BY <1>10 DEF Reduce, Return, Lone, statics
  <2>2. pc'[t] = "idle" /\ \A u \in Thread \ {t} : pc'[u] = pc[u]
    BY <1>p, <2>1 DEF Goto
  <2>3. opt'[t] = Granted
    BY <1>p, <2>1 DEF Settled
  <2> QED
    BY <1>0, <2>1, <2>2, <2>3 DEF Lone, Settled, Returned
<1> QED
  BY <1>1, <1>2, <1>3, <1>4, <1>5, <1>6, <1>7, <1>8, <1>9, <1>10, OthersStill DEF Next, Step

\* Nothing has been asked of the system yet, and the size asked for fits an int.
LEMMA ExactInit == Init => Exact
<1> SUFFICES ASSUME Init, NEW t \in Thread, Probed PROVE Lone(t)
  BY DEF Exact
<1>1. size = asked
  <2>1. CASE is_custom = FALSE /\ asked = Default /\ custom = 0
    BY <2>1 DEF size
  <2>2. CASE is_custom = TRUE /\ \E n \in Written, q \in {1, Kilo, Kilo * Kilo} :
               asked = n * q /\ custom = parse_udt_option(n, q)
    <3>1. PICK n \in Written, q \in {1, Kilo, Kilo * Kilo} :
            asked = n * q /\ custom = parse_udt_option(n, q)
      BY <2>2
    <3>2. n \in Nat /\ q \in Nat
      BY <3>1, UdpBufferAssumption
    <3>3. asked \in Nat /\ asked < Word
      BY <3>1, <3>2, UdpBufferAssumption DEF Probed
    <3>4. custom = asked % Word
      BY <3>1 DEF parse_udt_option
    <3>5. ASSUME NEW a \in Nat, NEW w \in Nat, a < w PROVE a % w = a
      BY <3>5
    <3>6. custom = asked
      BY <3>3, <3>4, <3>5, UdpBufferAssumption
    <3> QED
      BY <2>2, <3>6 DEF size
  <2>3. CASE asked = -1
    BY <2>3, UdpBufferAssumption DEF Probed
  <2> QED
    BY <2>1, <2>2, <2>3 DEF Init
<1>2. max_size = 0 /\ \A u \in Thread : pc[u] = "idle" /\ calls[u] = 0
  BY DEF Init
<1> QED
  BY <1>1, <1>2 DEF Lone, Returned

\* check_udp_buffer in a process with one thread at work: for every size asked for and
\* every limit of the system, each socket gets the largest size of the loop that the
\* system accepts, and only a custom size that is refused ends the process.
THEOREM AloneAlwaysExact == Spec => []AloneExact
<1>1. UTypeOK /\ CheckedIsGranted /\ Exact /\ [Next]_vars => Exact'
  <2> SUFFICES ASSUME UTypeOK, CheckedIsGranted, Exact, [Next]_vars PROVE Exact'
    OBVIOUS
  <2>1. CASE Next
    <3> SUFFICES ASSUME NEW t \in Thread, (Probed /\ starved = FALSE /\ Alone(t))'
                 PROVE  Lone(t)'
      BY DEF Exact
    <3>1. Probed /\ starved = FALSE /\ Alone(t)
      BY <2>1, AloneBefore
    <3>2. Lone(t)
      BY <3>1 DEF Exact
    <3> QED
      BY <2>1, <3>1, <3>2, LoneStep
  <2>2. CASE UNCHANGED vars
    BY <2>2 DEF vars, given, statics, fds, Exact, Probed, Alone, Lone, Tried, Settled, Returned,
                Granted, Rung, size
  <2> QED
    BY <2>1, <2>2
<1>2. UTypeOK /\ Exact => AloneExact
  <2> SUFFICES ASSUME UTypeOK, Exact, Probed, ~ starved, NEW t \in Thread, Alone(t)
               PROVE  /\ Returned(t) => opt[t] = Granted
                      /\ pc[t] = "died" /\ calls[t] > 0 => asked > limit
    BY Zenon DEF AloneExact
  <2>1. starved = FALSE
    BY Zenon DEF UTypeOK
  <2> QED
    BY <2>1 DEF Exact, Lone
<1> QED
  BY <1>1, <1>2, ExactInit, CheckedAlwaysGranted, PTL DEF Spec

=============================================================================
