------------------------------- MODULE Access -------------------------------
(***************************************************************************)
(* Access control: check_source, which walks the list of the machine's     *)
(* network interfaces to decide whether an address is local or in an       *)
(* attached subnet, and the two places that ask it: the client process for *)
(* the source of a socks connection, the server child for its destination. *)
(* The list comes from the system's getifaddrs or, where there is none,    *)
(* from the one in src/lib/getifaddrs.cpp.                                 *)
(*                                                                         *)
(* An IPv4 address, or a netmask, is the set of its bits that are 1.       *)
(***************************************************************************)
EXTENDS Integers, Sequences

CONSTANTS
  Bit,    \* the bits of an address
  MaxIf,  \* bound on the interfaces of the machine
  Room,   \* how many of them may fit into buff[], what SIOCGIFCONF fills
  Level   \* values of net_access: how many -N options were given

ASSUME AccessAssumption == Level \subseteq Nat /\ MaxIf \in Nat /\ Room \subseteq Nat

Address == SUBSET Bit

\* What getifaddrs lists: entries with no address or no netmask, entries of other
\* address families, and IPv4 addresses with their netmasks.
Inet == [family : {"inet"}, addr : Address, mask : Address]
Entry(a, m) == [family |-> "inet", addr |-> a, mask |-> m]
Null == [family |-> "null", addr |-> {}, mask |-> {}]
Iface == Inet \cup [family : {"null", "other"}, addr : {{}}, mask : {{}}]

VARIABLES
  net_access,  \* globals::net_access
  ifs,         \* the machine's interfaces
  fallback,    \* built without HAVE_GETIFADDRS
  room,        \* the interfaces that fit into buff[]
  addr,        \* the address asked about
  list,        \* the list as getifaddrs returned it
  ifap,        \* the list being made, then as check_source masks it in place
  ifp,         \* check_source: position in the list
  lost,        \* getifaddrs left out an interface, its address or its netmask
  pc,
  allowed      \* the answer: the connection goes on

given == <<net_access, ifs, fallback, room, addr>>
vars == <<given, list, ifap, ifp, lost, pc, allowed>>

Init ==
  /\ net_access \in Level
  /\ ifs \in UNION {[1..n -> Iface] : n \in 0..MaxIf}
  /\ fallback \in BOOLEAN /\ room \in Room
  /\ addr \in Address
  /\ list = <<>> /\ ifap = <<>> /\ ifp = 1 /\ lost = FALSE
  /\ pc = "ask" /\ allowed = FALSE

\* bool subnet = globals::net_access > 0 ? true: false;
subnet == net_access > 0

\* *dst1 &= *src1 for every byte.
memand(dst, src) == dst \cap src

sockaddr_mask(a, netmask) == memand(a, netmask)

\* memcmp of the two addresses; no caller asks for the ports to be compared.
sockaddr_match(a, b) == a = b

-----------------------------------------------------------------------------
(* getifaddrs.                                                             *)

\* Variant: the walk starts in front of the list.
FirstZero == 0
First == 1

\* if (globals::net_access < 2): check_source gets the interfaces from the system,
\* or begins to list them itself; -N -N skips it.
Ask ==
  /\ pc = "ask"
  /\ \/ /\ net_access < 2 /\ ~ fallback
        /\ pc' = "loop" /\ list' = ifs /\ ifap' = ifs /\ ifp' = First
        /\ UNCHANGED <<lost, allowed>>
     \/ /\ net_access < 2 /\ fallback
        /\ pc' = "list" /\ lost' = (Len(ifs) > room)
        /\ UNCHANGED <<list, ifap, ifp, allowed>>
     \/ /\ net_access >= 2
        /\ pc' = "done" /\ allowed' = TRUE
        /\ UNCHANGED <<list, ifap, ifp, lost>>
  /\ UNCHANGED given

\* getifaddrs fails, in the fallback also half way through the list: log_die.
AskFails ==
  /\ pc = "list" \/ (pc = "ask" /\ net_access < 2)
  /\ pc' = "died"
  /\ UNCHANGED <<given, list, ifap, ifp, lost, allowed>>

\* n: what SIOCGIFCONF found room for.
ifcount == IF Len(ifs) > room THEN room ELSE Len(ifs)

\* One turn of the loop over ifr, from the last one down: SIOCGIFADDR and
\* SIOCGIFNETMASK succeed, or one of them leaves NULL.
List ==
  /\ pc = "list" /\ Len(ifap) < ifcount
  /\ \/ ifap' = Append(ifap, ifs[ifcount - Len(ifap)]) /\ UNCHANGED lost
     \/ ifap' = Append(ifap, Null) /\ lost' = TRUE
  /\ UNCHANGED <<given, list, ifp, pc, allowed>>

\* close(fd); return 0;
Listed ==
  /\ pc = "list" /\ Len(ifap) = ifcount
  /\ pc' = "loop" /\ list' = ifap /\ ifp' = First
  /\ UNCHANGED <<given, ifap, lost, allowed>>

-----------------------------------------------------------------------------
(* check_source.                                                           *)

\* continue: no address or netmask, or another address family.
Skip ==
  /\ pc = "loop" /\ ifp <= Len(ifap)
  /\ ifap[ifp].family # "inet"
  /\ ifp' = ifp + 1
  /\ UNCHANGED <<given, list, ifap, lost, pc, allowed>>

\* Variant: only the address asked about is masked.
ifa_addrWhole(e) == e.addr

\* sockaddr_mask(ifp->ifa_addr, ifp->ifa_netmask)
ifa_addr(e) == IF subnet THEN sockaddr_mask(e.addr, e.mask) ELSE e.addr

\* One interface: mask a copy of the address and the entry itself, then compare.
Compare ==
  /\ pc = "loop" /\ ifp <= Len(ifap)
  /\ LET e == ifap[ifp]
         addr1 == IF subnet THEN sockaddr_mask(addr, e.mask) ELSE addr
     IN /\ e.family = "inet"
        /\ ifap' = [ifap EXCEPT ![ifp] = Entry(ifa_addr(e), e.mask)]
        /\ IF sockaddr_match(addr1, ifa_addr(e))
           THEN pc' = "done" /\ allowed' = TRUE /\ UNCHANGED ifp
           ELSE ifp' = ifp + 1 /\ UNCHANGED <<pc, allowed>>
  /\ UNCHANGED <<given, list, lost>>

\* The end of the list: freeifaddrs, return false; the caller closes or refuses.
NoMatch ==
  /\ pc = "loop" /\ ifp > Len(ifap)
  /\ pc' = "done"
  /\ UNCHANGED <<given, list, ifap, ifp, lost, allowed>>

Next == Ask \/ AskFails \/ List \/ Listed \/ Skip \/ Compare \/ NoMatch

Spec == Init /\ [][Next]_vars

-----------------------------------------------------------------------------
XTypeOK ==
  /\ net_access \in Level
  /\ ifs \in Seq(Iface) /\ list \in Seq(Iface) /\ ifap \in Seq(Iface)
  /\ fallback \in BOOLEAN /\ lost \in BOOLEAN /\ room \in Room
  /\ addr \in Address
  /\ ifp \in 1..(Len(ifap) + 1)
  /\ pc \in {"ask", "list", "loop", "done", "died"}
  /\ allowed \in BOOLEAN

\* The address is one of the machine's own.
Local == \E i \in 1..Len(ifs) : ifs[i].family = "inet" /\ ifs[i].addr = addr

\* The address agrees with an interface on every bit of that interface's mask.
Attached ==
  \E i \in 1..Len(ifs) :
    /\ ifs[i].family = "inet"
    /\ \A b \in ifs[i].mask : b \in addr <=> b \in ifs[i].addr

\* README.udtrelay, "Access control": only local addresses by default, attached
\* subnets with -N, everything with -N -N.
Permitted ==
  \/ net_access >= 2
  \/ net_access = 1 /\ Attached
  \/ net_access = 0 /\ Local

\* The walk over the interfaces, which masks the list it walks and leaves it at
\* the first match, answers exactly what the documentation promises.  Where the
\* fallback loses an interface or its address, it only refuses more, never less.
AnswerIsPermitted ==
  pc = "done" => (allowed => Permitted) /\ (Permitted /\ ~ lost => allowed)

=============================================================================
