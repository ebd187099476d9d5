------------------------------- MODULE Worker -------------------------------
(***************************************************************************)
(* utl::worker, the multiplexed loop meant to replace the two threads of   *)
(* module Relay: one thread moves data from fd_in to sd and from sd to     *)
(* fd_out through two ring buffers (Loopbuffer), driven by                 *)
(* SOCK_API::select.  It was suspended in 1.3-fix5; its call in            *)
(* start_child is commented out.  A Loopbuffer is modelled by its two      *)
(* pointers and its size; the bytes in it are not told apart.              *)
(***************************************************************************)
EXTENDS Integers

CONSTANTS
  Fd,           \* descriptor numbers: TCP below UDT_FD_BASE, UDT from it on
  UDT_FD_BASE,
  BufLen,       \* bfsize, the length of a Loopbuffer
  BlSize,       \* blsize, the atom asked for
  MaxData       \* bound on the bytes that arrive at a descriptor

ASSUME WorkerAssumption ==
  /\ Fd \subseteq Nat /\ UDT_FD_BASE \in Nat
  /\ BufLen \in Nat \ {0} /\ BlSize \in Nat /\ MaxData \in Nat

Dir == {"fwd", "rev"}

VARIABLES
  fd_in, fd_out, sd,
  timeout,  \* none given (NULL), running or passed
  came,     \* each descriptor: bytes that have arrived and were not read
  peer,     \* each descriptor: its other end is "open", "eof" or "gone"
  pc,
  rset, wset,
  shut,     \* the SHUT bits of status, as <<"R" or "W", direction>>
  buf       \* fwd_buf and rev_buf

fds == <<fd_in, fd_out, sd, timeout>>
ends == <<came, peer>>
vars == <<fds, ends, pc, rset, wset, shut, buf>>

IsTcp(d) == d < UDT_FD_BASE
Least(a, b) == IF a <= b THEN a ELSE b

\* worker(fd_in, fd_out, sd, timeout), or worker(sd1, sd2, to), which passes sd1
\* twice and does not pass its time limit on.
Init ==
  /\ fd_in \in Fd /\ fd_out \in Fd /\ sd \in Fd \ {fd_in, fd_out}
  /\ timeout \in IF fd_in = fd_out THEN {"none"} ELSE {"none", "running"}
  /\ came = [d \in Fd |-> 0] /\ peer = [d \in Fd |-> "open"]
  /\ pc = "start" /\ rset = {} /\ wset = {} /\ shut = {}
  /\ buf = [r \in Dir |-> [read_p |-> 0, writ_p |-> 0, size |-> 0]]

-----------------------------------------------------------------------------
(* Loopbuffer.                                                             *)

\* if (atom = 0) atom = len: the assignment leaves 0, whatever was asked for.
Atom == 0

isful(b) == b.size = BufLen
isempty(b) == b.size = 0

getReadSpace(b) ==
  Least(Atom, IF b.read_p + b.size <= BufLen THEN b.size ELSE BufLen - b.read_p)

getWriteSpace(b) ==
  IF isful(b) THEN 0
  ELSE Least(Atom, IF b.writ_p > b.read_p THEN BufLen - b.writ_p ELSE b.read_p - b.writ_p)

writen(b, n) == [b EXCEPT !.writ_p = (@ + n) % BufLen, !.size = @ + n]
readn(b, n) == [b EXCEPT !.read_p = (@ + n) % BufLen, !.size = @ - n]

-----------------------------------------------------------------------------
(* SOCK_API.                                                               *)

\* maxfdn(fd_out, sd): 1 if fd_out is a UDT socket, even when sd is not.
maxfdn == IF IsTcp(sd) /\ sd > fd_out THEN sd + 1 ELSE IF IsTcp(fd_out) THEN fd_out + 1 ELSE 1

\* ::select looks at TCP descriptors below nfds, UDT::select at UDT sockets.
Watched(d) == IsTcp(d) => d < maxfdn

Readable(d) == came[d] > 0 \/ peer[d] # "open"

\* What select finds of fd_in and sd, and the TCP descriptors that it leaves in the
\* set it was given: those from nfds on, and all when ::select was interrupted and
\* UDT::select found something.
Ready == {d \in {fd_in, sd} : Watched(d) /\ Readable(d)}
Kept == {d \in {fd_in, sd} : IsTcp(d) /\ (Watched(d) => \E u \in Ready : ~ IsTcp(u))}

\* read: what it may return for a buffer of n bytes.  A read of nothing from a TCP
\* socket returns 0; UDT::recv looks for a lost connection first.  A TCP socket
\* does not block here; a UDT socket does, and there is no result while it does.
readResult(d, n) ==
  IF IsTcp(d)
  THEN IF n = 0 THEN {0}
       ELSE IF came[d] > 0 /\ peer[d] # "gone" THEN 1..Least(n, came[d])
       ELSE IF peer[d] = "eof" THEN {0} ELSE {-1}
  ELSE IF came[d] = 0 /\ peer[d] # "open" THEN {-1}
       ELSE IF n = 0 THEN {0} ELSE 1..Least(n, came[d])

\* write: some of the n bytes, 0 of nothing, or an error, which includes a full
\* TCP buffer.
writeResult(n) == {-1} \cup (IF n = 0 THEN {0} ELSE 1..n)

-----------------------------------------------------------------------------
(* utl::worker.                                                            *)

\* setsockopt(..., UDT_SNDSYN, ...) of the three descriptors; log_die if one fails.
Start ==
  /\ pc = "start"
  /\ pc' \in {"loop", "died"}
  /\ UNCHANGED <<fds, ends, rset, wset, shut, buf>>

\* The condition of the while, which compares with the time of the start.
Goes == ~ ({<<"W", "fwd">>, <<"W", "rev">>} \subseteq shut) /\ timeout # "passed"

\* The first select: which of fd_in and sd can be read; none after an error.
ReadSelect ==
  /\ pc = "loop" /\ Goes
  /\ rset' \in {{}} \cup (IF Ready = {} THEN {} ELSE {Ready \cup X : X \in SUBSET Kept})
  /\ pc' = "wselect"
  /\ UNCHANGED <<fds, ends, wset, shut, buf>>

\* The second select: which of the sockets those lead to can be written.
WriteSelect ==
  /\ pc = "wselect"
  /\ LET asked == (IF fd_in \in rset THEN {sd} ELSE {}) \cup (IF sd \in rset THEN {fd_out} ELSE {})
     IN wset' \in SUBSET asked
  /\ pc' = "fwdread"
  /\ UNCHANGED <<fds, ends, rset, shut, buf>>

\* sz == 0: forward, the statement is commented out.
AfterEof(r) == IF r = "fwd" THEN {} ELSE {<<"R", r>>}

\* Variant: an error is logged, and no more.
AfterErrorLogged(r) == {}

\* An error shuts reading and writing.
AfterError(r) == {<<"R", r>>, <<"W", r>>}

\* Variant: every result but 0 is a number of bytes.
GotAny(sz) == sz # 0
Got(sz) == sz > 0

\* The read of direction r when d is set in rset: both directions read fd_in.
ReadPart(r, d) ==
  IF d \in rset /\ ~ isful(buf[r]) /\ <<"R", r>> \notin shut
  THEN \E sz \in readResult(fd_in, getWriteSpace(buf[r])) :
         /\ came' = [came EXCEPT ![fd_in] = IF sz > 0 THEN @ - sz ELSE @]
         /\ buf' = IF Got(sz) THEN [buf EXCEPT ![r] = writen(@, sz)] ELSE buf
         /\ shut' = shut \cup (IF Got(sz) THEN {} ELSE IF sz = 0 THEN AfterEof(r) ELSE AfterError(r))
  ELSE UNCHANGED <<came, buf, shut>>

\* The write of direction r when d is set in wset: both directions write to sd.
\* Reading that has ended, with nothing left in the buffer, ends writing.
WritePart(r, d) ==
  LET Ended(b, s) == IF isempty(b) /\ <<"R", r>> \in s THEN s \cup {<<"W", r>>} ELSE s IN
  IF d \in wset /\ ~ isempty(buf[r]) /\ <<"W", r>> \notin shut
  THEN \E sz \in writeResult(getReadSpace(buf[r])) :
         /\ buf' = IF sz > 0 THEN [buf EXCEPT ![r] = readn(@, sz)] ELSE buf
         /\ shut' = Ended(buf'[r], IF sz > 0 THEN shut ELSE shut \cup AfterError(r))
  ELSE shut' = Ended(buf[r], shut) /\ UNCHANGED buf

FwdRead ==
  /\ pc = "fwdread" /\ ReadPart("fwd", fd_in)
  /\ pc' = "fwdwrite" /\ UNCHANGED <<fds, peer, rset, wset>>

FwdWrite ==
  /\ pc = "fwdwrite" /\ WritePart("fwd", sd)
  /\ pc' = "revread" /\ UNCHANGED <<fds, ends, rset, wset>>

RevRead ==
  /\ pc = "revread" /\ ReadPart("rev", sd)
  /\ pc' = "revwrite" /\ UNCHANGED <<fds, peer, rset, wset>>

RevWrite ==
  /\ pc = "revwrite" /\ WritePart("rev", fd_out)
  /\ pc' = "loop" /\ UNCHANGED <<fds, ends, rset, wset>>

\* close(fd_in), close(fd_out) if it is another, close(sd).
Close ==
  /\ pc = "loop" /\ ~ Goes
  /\ pc' = "closed"
  /\ UNCHANGED <<fds, ends, rset, wset, shut, buf>>

Loop == Start \/ ReadSelect \/ WriteSelect \/ FwdRead \/ FwdWrite \/ RevRead \/ RevWrite \/ Close

-----------------------------------------------------------------------------
(* The other ends of the descriptors, and time.                            *)

Arrive(d) ==
  /\ peer[d] = "open" /\ came[d] < MaxData
  /\ came' = [came EXCEPT ![d] = @ + 1]
  /\ UNCHANGED <<fds, peer, pc, rset, wset, shut, buf>>

PeerEnds(d) ==
  /\ peer[d] = "open"
  /\ \E e \in {"eof", "gone"} : peer' = [peer EXCEPT ![d] = e]
  /\ UNCHANGED <<fds, came, pc, rset, wset, shut, buf>>

TimePasses ==
  /\ timeout = "running" /\ timeout' = "passed"
  /\ UNCHANGED <<fd_in, fd_out, sd, ends, pc, rset, wset, shut, buf>>

Next == Loop \/ TimePasses \/ \E d \in {fd_in, sd} : pc # "closed" /\ (Arrive(d) \/ PeerEnds(d))

Spec == Init /\ [][Next]_vars

\* The loop runs.  A select may fail, but not every time.
FairSpec ==
  /\ Spec /\ WF_vars(Loop)
  /\ SF_vars(ReadSelect /\ Ready \subseteq rset')

-----------------------------------------------------------------------------
WTypeOK ==
  /\ {fd_in, fd_out, sd} \subseteq Fd /\ timeout \in {"none", "running", "passed"}
  /\ came \in [Fd -> 0..MaxData] /\ peer \in [Fd -> {"open", "eof", "gone"}]
  /\ pc \in {"start", "died", "loop", "wselect", "fwdread", "fwdwrite", "revread", "revwrite", "closed"}
  /\ rset \subseteq Fd /\ wset \subseteq Fd /\ shut \subseteq {"R", "W"} \X Dir
  /\ buf \in [Dir -> [read_p : 0..(BufLen - 1), writ_p : 0..(BufLen - 1), size : 0..BufLen]]

\* The loop ends after its time limit, and when the UDT connection it reads from is
\* lost while sd has something to say and is watched.
Closes ==
  (pc # "start" /\ pc # "died"
     /\ \/ timeout = "passed"
        \/ /\ ~ IsTcp(fd_in) /\ peer[fd_in] # "open" /\ came[fd_in] = 0
           /\ sd \in Ready)
    ~> pc = "closed"

=============================================================================
