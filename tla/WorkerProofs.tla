---------------------------- MODULE WorkerProofs ----------------------------
(***************************************************************************)
(* The types of the suspended multiplexed loop, for every choice of        *)
(* descriptors, buffer sizes and amounts of data.  They rest on a fact     *)
(* about the loop as it stands: its buffers stay empty.                    *)
(***************************************************************************)
EXTENDS Worker, TLAPS

\* Nothing has been read: both buffers are as the constructor left them.
Idle == \A r \in Dir : buf[r] = [read_p |-> 0, writ_p |-> 0, size |-> 0]

\* Into an empty buffer a read asks for nothing, and gets nothing.
LEMMA ReadsNothing ==
  ASSUME NEW r \in Dir, buf[r] = [read_p |-> 0, writ_p |-> 0, size |-> 0],
         NEW sz \in readResult(fd_in, getWriteSpace(buf[r]))
  PROVE  sz \in {0, -1}
<1>1. getWriteSpace(buf[r]) = 0
  BY WorkerAssumption DEF getWriteSpace, isful, Least, Atom
<1>2. sz \in readResult(fd_in, 0)
  BY <1>1
<1> QED
  BY <1>2 DEF readResult

\* The read of one direction leaves the buffers and closes at most that direction.
LEMMA ReadKeeps ==
  ASSUME Idle, NEW r \in Dir, NEW d, ReadPart(r, d)
  PROVE  /\ buf' = buf
         /\ \A x : x \in shut' => x \in shut \/ x \in {<<"R", r>>, <<"W", r>>}
<1>0. buf[r] = [read_p |-> 0, writ_p |-> 0, size |-> 0]
  BY DEF Idle
<1>1. CASE d \in rset /\ ~ isful(buf[r]) /\ <<"R", r>> \notin shut
  <2>1. PICK sz \in readResult(fd_in, getWriteSpace(buf[r])) :
          /\ buf' = IF Got(sz) THEN [buf EXCEPT ![r] = writen(@, sz)] ELSE buf
          /\ shut' = shut \cup (IF Got(sz) THEN {} ELSE IF sz = 0 THEN AfterEof(r) ELSE AfterError(r))
    BY <1>1, Zenon DEF ReadPart
  <2>2. sz \in {0, -1}
    BY <1>0, <2>1, ReadsNothing
  <2>3. ~ Got(sz)
    BY <2>2 DEF Got
  <2>4. buf' = buf /\ shut' = shut \cup (IF sz = 0 THEN AfterEof(r) ELSE AfterError(r))
    BY <2>1, <2>3, Zenon
  <2> QED
    BY <2>4 DEF AfterEof, AfterError
<1>2. CASE ~ (d \in rset /\ ~ isful(buf[r]) /\ <<"R", r>> \notin shut)
  BY <1>2, Zenon DEF ReadPart
<1> QED
  BY <1>1, <1>2

\* The write of one direction finds an empty buffer and at most ends writing.
LEMMA WriteKeeps ==
  ASSUME Idle, NEW r \in Dir, NEW d, WritePart(r, d)
  PROVE  /\ buf' = buf
         /\ \A x : x \in shut' => x \in shut \/ x = <<"W", r>>
<1>0. isempty(buf[r])
  BY DEF Idle, isempty
<1>1. /\ UNCHANGED buf
      /\ shut' = IF isempty(buf[r]) /\ <<"R", r>> \in shut THEN shut \cup {<<"W", r>>} ELSE shut
  BY <1>0, Zenon DEF WritePart
<1> QED
  BY <1>1, Zenon

\* Every step keeps the buffers empty.
LEMMA StepKeeps ==
  ASSUME Idle, [Next]_vars
  PROVE  Idle'
<1>d. "fwd" \in Dir /\ "rev" \in Dir
  BY DEF Dir
<1>1. buf' = buf
  <2>1. CASE FwdRead \/ RevRead
    BY <1>d, <2>1, ReadKeeps, Zenon DEF FwdRead, RevRead
  <2>2. CASE FwdWrite \/ RevWrite
    BY <1>d, <2>2, WriteKeeps, Zenon DEF FwdWrite, RevWrite
  <2>3. CASE Start \/ ReadSelect \/ WriteSelect \/ Close
    BY <2>3 DEF Start, ReadSelect, WriteSelect, Close
  <2>4. CASE TimePasses \/ \E d \in {fd_in, sd} : Arrive(d) \/ PeerEnds(d)
    BY <2>4 DEF TimePasses, Arrive, PeerEnds
  <2>5. CASE UNCHANGED vars
    BY <2>5 DEF vars
  <2> QED
    BY <2>1, <2>2, <2>3, <2>4, <2>5, Zenon DEF Next, Loop
<1> QED
  BY <1>1 DEF Idle

\* The buffers are empty in the initial states, and so always.
LEMMA AlwaysIdle == Spec => []Idle
<1>1. Init => Idle
  BY DEF Init, Idle
<1>2. Idle /\ [Next]_vars => Idle'
  BY StepKeeps
<1> QED
  BY <1>1, <1>2, PTL DEF Spec

-----------------------------------------------------------------------------
\* A read asks an empty buffer for nothing and takes nothing from the descriptor.
LEMMA ReadTakesNothing ==
  ASSUME Idle, NEW r \in Dir, NEW d, ReadPart(r, d), came \in [Fd -> 0..MaxData]
  PROVE  came' = came
<1>0. buf[r] = [read_p |-> 0, writ_p |-> 0, size |-> 0]
  BY DEF Idle
<1>1. CASE d \in rset /\ ~ isful(buf[r]) /\ <<"R", r>> \notin shut
  <2>1. PICK sz \in readResult(fd_in, getWriteSpace(buf[r])) :
          came' = [came EXCEPT ![fd_in] = IF sz > 0 THEN @ - sz ELSE @]
    BY <1>1, Zenon DEF ReadPart
  <2>2. ~ (sz > 0)
    BY <1>0, ReadsNothing
  <2>3. came' = [came EXCEPT ![fd_in] = came[fd_in]]
    BY <2>1, <2>2, Zenon
  <2> QED
    BY <2>3
<1>2. CASE ~ (d \in rset /\ ~ isful(buf[r]) /\ <<"R", r>> \notin shut)
  BY <1>2, Zenon DEF ReadPart
<1> QED
  BY <1>1, <1>2

\* Every step of the loop, of the other ends and of time keeps the types.
LEMMA WTypeStep ==
  ASSUME WTypeOK, Idle, [Next]_vars
  PROVE  WTypeOK'
<1>a. /\ {fd_in, fd_out, sd} \subseteq Fd /\ came \in [Fd -> 0..MaxData]
      /\ rset \subseteq Fd /\ shut \subseteq {"R", "W"} \X Dir
  BY DEF WTypeOK
<1>d. "fwd" \in Dir /\ "rev" \in Dir
  BY DEF Dir
<1>1. ASSUME NEW r \in Dir, NEW d, ReadPart(r, d),
             UNCHANGED <<fds, peer, rset, wset>>, pc' \in {"fwdwrite", "revwrite"}
      PROVE  WTypeOK'
  <2>1. /\ buf' = buf
        /\ \A x : x \in shut' => x \in shut \/ x \in {<<"R", r>>, <<"W", r>>}
    BY <1>1, ReadKeeps, Zenon
  <2>2. came' = came
    BY <1>1, <1>a, ReadTakesNothing
  <2>3. shut' \subseteq {"R", "W"} \X Dir
    BY <1>a, <2>1
  <2> QED
    BY <1>1, <2>1, <2>2, <2>3 DEF WTypeOK, fds
<1>2. ASSUME NEW r \in Dir, NEW d, WritePart(r, d),
             UNCHANGED <<fds, ends, rset, wset>>, pc' \in {"revread", "loop"}
      PROVE  WTypeOK'
  <2>1. /\ buf' = buf
        /\ \A x : x \in shut' => x \in shut \/ x = <<"W", r>>
    BY <1>2, WriteKeeps, Zenon
  <2>2. shut' \subseteq {"R", "W"} \X Dir
    BY <1>a, <2>1
  <2> QED
    BY <1>2, <2>1, <2>2 DEF WTypeOK, fds, ends
<1>3. CASE FwdRead
  BY <1>1, <1>3, <1>d, Zenon DEF FwdRead
<1>4. CASE FwdWrite
  BY <1>2, <1>4, <1>d, Zenon DEF FwdWrite
<1>5. CASE RevRead
  BY <1>1, <1>5, <1>d, Zenon DEF RevRead
<1>6. CASE RevWrite
  BY <1>2, <1>6, <1>d, Zenon DEF RevWrite
<1>7. CASE ReadSelect
  <2>1. Ready \subseteq Fd /\ Kept \subseteq Fd
    BY <1>a DEF Ready, Kept
  <2>2. rset' \subseteq Fd
    BY <1>7, <2>1 DEF ReadSelect
  <2> QED
    BY <1>7, <2>2 DEF ReadSelect, WTypeOK, fds, ends
<1>8. CASE WriteSelect
  <2>1. wset' \subseteq {sd, fd_out}
    BY <1>8 DEF WriteSelect
  <2> QED
    BY <1>8, <1>a, <2>1 DEF WriteSelect, WTypeOK, fds, ends
<1>9. CASE Start \/ Close
  BY <1>9 DEF Start, Close, WTypeOK, fds, ends
<1>10. CASE TimePasses
  BY <1>10 DEF TimePasses, WTypeOK, ends
<1>11. ASSUME NEW d \in {fd_in, sd}, Arrive(d) PROVE WTypeOK'
  <2>1. d \in Fd /\ came[d] \in 0..MaxData /\ came[d] < MaxData
    BY <1>11, <1>a DEF Arrive
  <2>2. came[d] + 1 \in 0..MaxData
    BY <2>1, WorkerAssumption
  <2>3. came' \in [Fd -> 0..MaxData]
    BY <1>11, <1>a, <2>2 DEF Arrive
  <2> QED
    BY <1>11, <2>3 DEF Arrive, WTypeOK, fds
<1>12. ASSUME NEW d \in {fd_in, sd}, PeerEnds(d) PROVE WTypeOK'
  BY <1>12, <1>a DEF PeerEnds, WTypeOK, fds
<1>13. CASE UNCHANGED vars
  BY <1>13 DEF vars, WTypeOK, fds, ends
<1> QED
  BY <1>3, <1>4, <1>5, <1>6, <1>7, <1>8, <1>9, <1>10, <1>11, <1>12, <1>13, Zenon DEF Next, Loop

\* The two ring buffers, the select sets and the SHUT bits stay within their types:
\* the pointers never leave the buffer, whatever the sizes.
THEOREM WorkerTypes == Spec => []WTypeOK
<1>1. Init => WTypeOK
  <2> SUFFICES ASSUME Init PROVE WTypeOK
    OBVIOUS
  <2>1. came \in [Fd -> 0..MaxData] /\ peer \in [Fd -> {"open", "eof", "gone"}]
    BY WorkerAssumption DEF Init
  <2>2. 0 \in 0..(BufLen - 1) /\ 0 \in 0..BufLen
    BY WorkerAssumption
  <2>3. buf \in [Dir -> [read_p : 0..(BufLen - 1), writ_p : 0..(BufLen - 1), size : 0..BufLen]]
    BY <2>2 DEF Init
  <2> QED
    BY <2>1, <2>3 DEF Init, WTypeOK
<1>2. WTypeOK /\ Idle /\ [Next]_vars => WTypeOK'
  BY WTypeStep
<1> QED
  BY <1>1, <1>2, AlwaysIdle, PTL DEF Spec

=============================================================================
