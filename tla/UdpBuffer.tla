----------------------------- MODULE UdpBuffer -----------------------------
(***************************************************************************)
(* The size of the UDP buffers: parse_udt_option takes it from -U, and     *)
(* check_udp_buffer, before a UDT socket is bound, finds out how large a   *)
(* buffer the system grants and reduces the socket's option to it.  What   *)
(* was found is kept in static variables, which every connection's thread  *)
(* of the client process reads and writes without a lock.  The receive and *)
(* the send buffer have statics of their own and the same code: this is    *)
(* one of the two.                                                         *)
(***************************************************************************)
EXTENDS Integers

CONSTANTS
  Thread,    \* the threads that open UDT sockets
  MaxCalls,  \* bound on the sockets each opens
  Handle,    \* the descriptors of the process
  Written,   \* the numbers -U may give
  Kilo,      \* 1024
  Word,      \* 2^32: one more than the largest unsigned int
  MaxLimit,  \* bound on the size the system accepts
  Default,   \* UDT's default buffer size
  Floor      \* 8096: sizes up to this are never probed

ASSUME UdpBufferAssumption ==
  /\ MaxCalls \in Nat /\ Floor \in Nat /\ MaxLimit \in Nat
  /\ Kilo \in Nat \ {0} /\ Word \in Nat \ {0}
  /\ Default \in 1..(Word - 1)
  /\ Handle \subseteq Nat \ {0} /\ Written \subseteq Nat

VARIABLES
  limit,     \* the largest size the system accepts
  asked,     \* the size -U asks for, -1 if it gives no number
  is_custom, \* is_custom_value: -U was given
  custom,    \* udt_options: what parse_udt_option made of it
  max_size,  \* statics: maximal system size, 0 until known
  chk_size,  \*          maximal size successfully bound
  warned,    \*          already warned
  open,      \* descriptors that are open
  conns,     \* of them, the ones of connections that other code opened
  harmed,    \* check_udp_buffer has closed one of those
  starved,   \* a probe found no free descriptor
  pc,        \* each thread: program counter
  sz,        \*              loop variable
  sd,        \*              descriptor of the probe, 0 for -1
  opt,       \*              option of its last socket
  ret,       \*              last result
  calls      \*              sockets so far

given == <<limit, asked, is_custom, custom>>
statics == <<max_size, chk_size, warned>>
fds == <<open, conns, harmed, starved>>
vars == <<given, statics, fds, pc, sz, sd, opt, ret, calls>>

\* Variant: the suffix is not looked at.
parse_udt_optionPlain(n, q) == n % Word

\* optval *= 1024 or 1024*1024, in a word.
parse_udt_option(n, q) == (n * q) % Word

\* An unsigned number taken as an int.
Signed(n) == IF 2 * n < Word THEN n ELSE n - Word

\* The size requested.
size == IF is_custom THEN custom ELSE Default

Init ==
  /\ limit \in 1..MaxLimit
  /\ \/ is_custom = FALSE /\ asked = Default /\ custom = 0
     \/ /\ is_custom = TRUE
        /\ \E n \in Written, q \in {1, Kilo, Kilo * Kilo} :
             asked = n * q /\ custom = parse_udt_option(n, q)
     \/ is_custom = TRUE /\ asked = -1 /\ custom \in 0..(Word - 1)
  /\ max_size = 0 /\ chk_size = 0 /\ warned = FALSE
  /\ open = {} /\ conns = {} /\ harmed = FALSE /\ starved = FALSE
  /\ pc = [t \in Thread |-> "idle"]
  /\ sz = [t \in Thread |-> 0]
  /\ sd = [t \in Thread |-> 0]
  /\ opt = [t \in Thread |-> 0]
  /\ ret = [t \in Thread |-> FALSE]
  /\ calls = [t \in Thread |-> 0]

Goto(t, l) == pc' = [pc EXCEPT ![t] = l]
Return(t, r) == Goto(t, "idle") /\ ret' = [ret EXCEPT ![t] = r]

-----------------------------------------------------------------------------
(* The descriptors of the process: the lowest free number is handed out.   *)

Grab(h) == h \in Handle \ open /\ \A g \in Handle \ open : h <= g

\* Other code opens a connection (accept in main), and closes it.
ConnOpen ==
  /\ \E h \in Handle : Grab(h) /\ open' = open \cup {h} /\ conns' = conns \cup {h}
  /\ UNCHANGED <<given, statics, harmed, starved, pc, sz, sd, opt, ret, calls>>

ConnClose ==
  /\ \E h \in conns : open' = open \ {h} /\ conns' = conns \ {h}
  /\ UNCHANGED <<given, statics, harmed, starved, pc, sz, sd, opt, ret, calls>>

\* close(h), whoever has opened h.
Close(h) ==
  /\ open' = open \ {h} /\ conns' = conns \ {h}
  /\ harmed' = (harmed \/ h \in conns)
  /\ UNCHANGED starved

-----------------------------------------------------------------------------
\* setsockopt(sock) has set the custom options; now check_udp_buffer starts.
Call(t) ==
  /\ pc[t] = "idle" /\ calls[t] < MaxCalls
  /\ calls' = [calls EXCEPT ![t] = @ + 1]
  /\ opt' = [opt EXCEPT ![t] = size]
  /\ Goto(t, "checked")
  /\ UNCHANGED <<given, statics, fds, sz, sd, ret>>

\* if (*chk_size > 0 and size <= *chk_size) return true;
Checked(t) ==
  /\ pc[t] = "checked"
  /\ IF chk_size > 0 /\ size <= chk_size
     THEN Return(t, TRUE)
     ELSE Goto(t, "known") /\ UNCHANGED ret
  /\ UNCHANGED <<given, statics, fds, sz, sd, opt, calls>>

\* if (0 == *max_size) { ... int sd = socket(...); the result is not tested.
Known(t) ==
  /\ pc[t] = "known"
  /\ \/ max_size # 0 /\ Goto(t, "apply") /\ UNCHANGED <<open, starved, sd>>
     \/ /\ max_size = 0 /\ Goto(t, "probe")
        /\ IF Handle \subseteq open
           THEN starved' = TRUE /\ sd' = [sd EXCEPT ![t] = 0] /\ UNCHANGED open
           ELSE /\ \E h \in Handle : Grab(h) /\ open' = open \cup {h} /\ sd' = [sd EXCEPT ![t] = h]
                /\ UNCHANGED starved
  /\ sz' = [sz EXCEPT ![t] = Signed(size)]
  /\ UNCHANGED <<given, statics, conns, harmed, opt, ret, calls>>

\* Variant: a refused size is doubled.
SmallerUp(n) == n * 2
Smaller(n) == n \div 2

\* setsockopt and bind of the probe: sd must be an open UDP socket that is not bound.
\* It is, unless another thread closed it and somebody was given its number.
Accepts(t) ==
  /\ sz[t] <= limit /\ sd[t] \in open \ conns
  /\ \A u \in Thread \ {t} : sd[u] = sd[t] => pc[u] # "bound"

\* sz > 8096; probe; *max_size = sz = sz / 2
Probe(t) ==
  /\ pc[t] = "probe"
  /\ \/ sz[t] <= Floor /\ Goto(t, "close") /\ UNCHANGED <<max_size, sz>>
     \/ sz[t] > Floor /\ Accepts(t) /\ Goto(t, "bound") /\ UNCHANGED <<max_size, sz>>
     \/ /\ sz[t] > Floor /\ ~ Accepts(t)
        /\ sz' = [sz EXCEPT ![t] = Smaller(@)]
        /\ max_size' = Smaller(sz[t])
        /\ UNCHANGED pc
  /\ UNCHANGED <<given, chk_size, warned, fds, sd, opt, ret, calls>>

\* Variant: the size asked for is recorded, not the size bound.
RecordAsked(t) == size
Record(t) == sz[t]

\* close(sd);
Bound(t) ==
  /\ pc[t] = "bound"
  /\ Close(sd[t])
  /\ Goto(t, "compare")
  /\ UNCHANGED <<given, statics, sz, sd, opt, ret, calls>>

\* if (*chk_size < sz) ... The assignment is another access: by then a second thread
\* may have recorded a larger size, which is overwritten.
Compare(t) ==
  /\ pc[t] = "compare"
  /\ Goto(t, IF chk_size < Record(t) THEN "store" ELSE "first")
  /\ UNCHANGED <<given, statics, fds, sz, sd, opt, ret, calls>>

\* *chk_size = sz;
Store(t) ==
  /\ pc[t] = "store"
  /\ chk_size' = Record(t)
  /\ Goto(t, "first")
  /\ UNCHANGED <<given, max_size, warned, fds, sz, sd, opt, ret, calls>>

\* Variant: the descriptor is closed before this return, too.
FirstCloses(t) ==
  /\ pc[t] = "first" /\ Close(sd[t])
  /\ IF max_size = 0 THEN Return(t, TRUE) ELSE Goto(t, "apply") /\ UNCHANGED ret
  /\ UNCHANGED <<given, statics, sz, sd, opt, calls>>

\* if (*max_size == 0) return true; break;
First(t) ==
  /\ pc[t] = "first"
  /\ IF max_size = 0 THEN Return(t, TRUE) ELSE Goto(t, "close") /\ UNCHANGED ret
  /\ UNCHANGED <<given, statics, fds, sz, sd, opt, calls>>

\* close(sd) after the loop: for a probe that was bound, the second time.
CloseProbe(t) ==
  /\ pc[t] = "close"
  /\ Close(sd[t])
  /\ Goto(t, "apply")
  /\ UNCHANGED <<given, statics, sz, sd, opt, ret, calls>>

\* if (size > *max_size): a custom size ends the process, a default one is to be
\* reduced, with a warning the first time; else the socket gets the size.
Apply(t) ==
  /\ pc[t] = "apply"
  /\ \/ /\ size > max_size /\ is_custom
        /\ pc' = [u \in Thread |-> "died"]
        /\ UNCHANGED <<warned, opt, ret>>
     \/ /\ size > max_size /\ ~ is_custom
        /\ Goto(t, "reduce") /\ warned' = TRUE
        /\ UNCHANGED <<opt, ret>>
     \/ /\ size <= max_size
        /\ Return(t, TRUE)
        /\ opt' = [opt EXCEPT ![t] = size]
        /\ UNCHANGED warned
  /\ UNCHANGED <<given, max_size, chk_size, fds, sz, sd, calls>>

\* UDT::setsockopt(sock, 0, optcode, max_size, ...): the static is read once more.
Reduce(t) ==
  /\ pc[t] = "reduce"
  /\ opt' = [opt EXCEPT ![t] = max_size]
  /\ Return(t, FALSE)
  /\ UNCHANGED <<given, statics, fds, sz, sd, calls>>

Step(t) ==
  \/ Call(t) \/ Checked(t) \/ Known(t) \/ Probe(t) \/ Bound(t) \/ Compare(t) \/ Store(t)
  \/ First(t) \/ CloseProbe(t) \/ Apply(t) \/ Reduce(t)

Next == ConnOpen \/ ConnClose \/ \E t \in Thread : Step(t)

Spec == Init /\ [][Next]_vars

-----------------------------------------------------------------------------
Returned(t) == pc[t] = "idle" /\ calls[t] > 0

UTypeOK ==
  /\ limit \in 1..MaxLimit /\ asked \in Int /\ is_custom \in BOOLEAN /\ custom \in 0..(Word - 1)
  /\ max_size \in 0..size /\ chk_size \in 0..size /\ warned \in BOOLEAN
  /\ open \subseteq Handle /\ conns \subseteq open /\ {harmed, starved} \subseteq BOOLEAN
  /\ pc \in [Thread -> {"idle", "checked", "known", "probe", "bound", "compare", "store",
                        "first", "close", "apply", "reduce", "died"}]
  /\ sz \in [Thread -> Int] /\ (\A t \in Thread : sz[t] <= size)
  /\ sd \in [Thread -> Handle \cup {0}] /\ opt \in [Thread -> 0..size]
  /\ ret \in [Thread -> BOOLEAN] /\ calls \in [Thread -> 0..MaxCalls]

\* The system grants some size above the floor, and a size above the floor that
\* fits an int is asked for.
Probed == limit > Floor /\ asked > Floor /\ 2 * asked < Word

\* The powers of two.
TwoTo[k \in Nat] == IF k = 0 THEN 1 ELSE 2 * TwoTo[k - 1]

\* The sizes of the loop: asked, asked / 2, asked / 4, ...
Rung(k) == asked \div TwoTo[k]

\* The largest of them that the system accepts.
Granted ==
  CHOOSE s \in 0..asked :
    /\ s <= limit
    /\ \E k \in 0..asked : s = Rung(k) /\ (k = 0 \/ Rung(k - 1) > limit)

\* The size that chk_size lets a later socket skip the probe for was accepted by
\* the system, also when several threads probe at once.
CheckedIsGranted == chk_size <= limit

\* No other thread has opened a socket yet.
Alone(t) == \A u \in Thread \ {t} : calls[u] = 0

\* A thread alone, with a descriptor for its probe, leaves each of its sockets the
\* largest size of the loop that the system accepts of what the command line asks
\* for, suffix included, from the first socket on and when the statics are reused;
\* and the process ends only on a custom size the system refuses.
AloneExact ==
  Probed /\ ~ starved => \A t \in Thread : Alone(t) =>
    /\ Returned(t) => opt[t] = Granted
    /\ pc[t] = "died" /\ calls[t] > 0 => asked > limit

\* The probe closes its descriptor twice when the system refused the first size, and
\* another thread may have been given the number in between.  As long as the system
\* grants the size, and no probe ran out of descriptors, it never closes a
\* connection of somebody else, whatever the interleaving.
GrantedSpared == size <= limit /\ ~ starved => ~ harmed

=============================================================================
