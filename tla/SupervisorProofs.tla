-------------------------- MODULE SupervisorProofs --------------------------
(***************************************************************************)
(* The safety of the parent process and its children, for command lines of *)
(* any length and signals at any time: no child is orphaned once the       *)
(* handlers are installed, exit_handler reaches every child and nobody     *)
(* else, and only the children asked for are forked.                       *)
(***************************************************************************)
EXTENDS Supervisor, TLAPS

\* Before the forks, and before the options are all read.
Early == {"getopt", "group", "operands", "demonize"}

\* The parent left its starter's group before it forked anybody.
Grouped ==
  /\ grp = "starter" => ppc \in {"getopt", "group", "gone"}
  /\ ppc \in Early => \A c \in Child : child[c] = "none"
  /\ \A c \in Child : child[c] # "none" => cgrp[c] = grp

\* The handlers are installed in order after the forks, and none is skipped.
Installing ==
  /\ ppc \in Early \cup {"fork"} => handled = 0
  /\ ppc = "signal" => handled < 3
  /\ ppc \in {"regroup", "wait"} => handled = 3

\* What the options read so far have made of mode.
Narrowed ==
  /\ argv \in Seq(Option)
  /\ ppc \notin {"getopt", "gone"} => optind = Len(argv)
  /\ ppc # "gone" => \A i \in 1..optind :
       (argv[i] = "C" => mode = {"client"}) /\ (argv[i] = "S" => mode = {"server"})

SInv ==
  /\ STypeOK /\ Grouped /\ Installing /\ Narrowed
  /\ NoOrphan /\ OnlyAsAsked /\ KillReachesRelay

-----------------------------------------------------------------------------
\* Every step of the parent and of the children, and every signal, keeps the invariant.
LEMMA SInvStep == SInv /\ [Next]_vars => SInv'
<1> SUFFICES ASSUME SInv, [Next]_vars PROVE SInv'
  OBVIOUS
<1> USE SupervisorAssumption DEF SInv, STypeOK, Grouped, Installing, Narrowed, NoOrphan,
        OnlyAsAsked, KillReachesRelay, Early, Child, Given, Alive, Forked,
        cmdline, opts, sigs, kids
<1>1. CASE Getopt
  <2> DEFINE o == argv[optind + 1]
  <2>1. /\ ppc = "getopt" /\ optind < Len(argv) /\ optind' = optind + 1
        /\ ppc' = (IF Dies(o) THEN "gone" ELSE ppc)
        /\ mode' = (CASE Dies(o) -> mode
                      [] o = "C" -> {"client"}
                      [] o = "S" -> {"server"}
                      [] OTHER -> mode)
        /\ demonize' = (demonize \/ o = "D") /\ rzv' = (rzv \/ o = "R")
        /\ UNCHANGED <<start, argv, operands, handled, mask, grp, child, cgrp, term, stray>>
    BY <1>1 DEF Getopt
  <2>2. optind \in Nat /\ Len(argv) \in Nat /\ optind + 1 \in 1..Len(argv)
    BY <2>1
  <2>3. STypeOK'
    BY <2>1, <2>2
  <2>4. Narrowed'
    <3>1. ASSUME ppc' # "gone", NEW i \in 1..optind'
          PROVE  (argv[i] = "C" => mode' = {"client"}) /\ (argv[i] = "S" => mode' = {"server"})
      <4>1. ~ Dies(o)
        BY <2>1, <3>1
      <4>2. CASE i = optind + 1
        BY <2>1, <4>1, <4>2
      <4>3. CASE i \in 1..optind
        <5>1. o \in {"C", "S"} => mode = Child
          BY <4>1 DEF Dies
        <5>2. (argv[i] = "C" => mode = {"client"}) /\ (argv[i] = "S" => mode = {"server"})
          BY <2>1, <4>3
        <5>3. argv[i] \in {"C", "S"} => mode # Child
          <6>1. "server" \notin {"client"} /\ "client" \notin {"server"}
                /\ "server" \in Child /\ "client" \in Child
            OBVIOUS
          <6> HIDE DEF SInv, Child
          <6> QED
            BY <5>2, <6>1
        <5>4. o \notin {"C", "S"} => mode' = mode
          BY <2>1
        <5> QED
          BY <5>1, <5>2, <5>3, <5>4
      <4> QED
        BY <2>1, <2>2, <3>1, <4>2, <4>3
    <3> QED
      BY <2>1, <2>2, <3>1
  <2>5. Grouped' /\ Installing' /\ NoOrphan' /\ OnlyAsAsked' /\ KillReachesRelay'
    BY <2>1
  <2> QED
    BY <2>3, <2>4, <2>5
<1>2. CASE GetoptEnds
  BY <1>2 DEF GetoptEnds
<1>3. CASE Setpgid
  BY <1>3 DEF Setpgid, OwnGroup
<1>4. CASE Operands
  BY <1>4 DEF Operands
<1>5. CASE Demonize
  BY <1>5 DEF Demonize
<1>6. CASE Fork
  BY <1>6 DEF Fork, ToFork
<1>7. CASE ForkFails
  BY <1>7 DEF ForkFails
<1>8. CASE Install
  BY <1>8 DEF Install, Signals
<1>9. CASE Regroup
  BY <1>9 DEF Regroup
<1>10. CASE Wait
  BY <1>10 DEF Wait, Reap
<1>11. CASE Kill
  <2>1. /\ ppc = "kill" /\ ppc' \in {"drain", "kill"} /\ mask' = mask \cup {"TERM"}
        /\ term' = [c \in Child |-> term[c] \/ Reached(c)]
        /\ stray' = (stray \/ grp = "starter")
        /\ UNCHANGED <<start, argv, operands, optind, mode, demonize, rzv, handled, grp, child, cgrp>>
    BY <1>11 DEF Kill
  <2>2. \A c \in Child : term'[c] \in BOOLEAN /\ (c \in Alive => term'[c])
    BY <2>1 DEF Reached
  <2>3. STypeOK'
    BY <2>1, <2>2
  <2>4. Grouped' /\ Installing' /\ Narrowed' /\ NoOrphan' /\ OnlyAsAsked'
    BY <2>1
  <2>5. KillReachesRelay'
    BY <2>1, <2>2
  <2> QED
    BY <2>3, <2>4, <2>5
<1>12. CASE Drain
  BY <1>12 DEF Drain, Reap
<1>13. CASE Exit
  BY <1>13 DEF Exit, NoChildLeft
<1>14. ASSUME NEW g \in Sig, Signal(g) PROVE SInv'
  <2>1. /\ ppc # "gone" /\ ppc' \in {"kill", "gone"} /\ mask' \subseteq mask \cup {g}
        /\ ppc' = "kill" => Handled(g)
        /\ ppc' = "gone" => ~ Handled(g)
        /\ UNCHANGED <<start, argv, operands, optind, mode, demonize, rzv, handled, grp, child, cgrp,
                       term, stray>>
    BY <1>14 DEF Signal
  <2>2. handled = 3 => Handled(g)
    BY DEF Handled, Signals
  <2>3. handled = 0 => ~ Handled(g)
    BY DEF Handled
  <2> QED
    BY <2>1, <2>2, <2>3
<1>15. ASSUME NEW c \in Child, Resolve(c) PROVE SInv'
  BY <1>15 DEF Resolve
<1>16. ASSUME NEW c \in Child, Listen(c) PROVE SInv'
  BY <1>16 DEF Listen
<1>17. ASSUME NEW c \in Child, Crash(c) PROVE SInv'
  BY <1>17 DEF Crash
<1>18. ASSUME NEW c \in Child, Terminate(c) PROVE SInv'
  BY <1>18 DEF Terminate
<1>19. CASE UNCHANGED vars
  BY <1>19 DEF vars
<1> QED
  BY <1>1, <1>2, <1>3, <1>4, <1>5, <1>6, <1>7, <1>8, <1>9, <1>10, <1>11, <1>12, <1>13, <1>14,
     <1>15, <1>16, <1>17, <1>18, <1>19 DEF Next, Parent

\* The invariant holds when main starts, and so always.
THEOREM SupervisorInvariant == Spec => []SInv
<1>1. Init => SInv
  <2> SUFFICES ASSUME Init PROVE SInv
    OBVIOUS
  <2>1. argv \in Seq(Option) /\ Len(argv) \in Nat
    <3>1. PICK n \in 0..MaxArgs : argv \in [1..n -> Option]
      BY DEF Init
    <3> QED
      BY <3>1, SupervisorAssumption
  <2>2. STypeOK
    <3>1. optind \in 0..Len(argv) /\ handled \in 0..3
      BY <2>1 DEF Init
    <3>2. /\ child \in [Child -> {"none", "starting", "resolved", "running", "zombie", "reaped"}]
          /\ cgrp \in [Child -> {"starter", "main", "session"}] /\ term \in [Child -> BOOLEAN]
      BY DEF Init
    <3>3. /\ start \in Started /\ operands \in BOOLEAN /\ stray \in BOOLEAN
          /\ demonize \in BOOLEAN /\ rzv \in BOOLEAN
      BY DEF Init
    <3>4. Forked = {}
      BY DEF Init, Forked
    <3> QED
      BY <3>1, <3>2, <3>3, <3>4 DEF Init, STypeOK
  <2>3. Grouped /\ Installing /\ Narrowed
    BY <2>1 DEF Init, Grouped, Installing, Narrowed, Early
  <2>4. NoOrphan /\ OnlyAsAsked /\ KillReachesRelay
    BY DEF Init, NoOrphan, OnlyAsAsked, KillReachesRelay, Child
  <2> QED
    BY <2>2, <2>3, <2>4 DEF SInv
<1>2. SInv /\ [Next]_vars => SInv'
  BY SInvStep
<1> QED
  BY <1>1, <1>2, PTL DEF Spec

\* Types of the state of main and its children.
THEOREM SupervisorTypes == Spec => []STypeOK
<1>1. SInv => STypeOK
  BY DEF SInv
<1> QED
  BY <1>1, SupervisorInvariant, PTL

\* A parent whose three handlers are installed ends only when no child is alive: by
\* exit_handler, after wait has returned -1, and never by a signal.
THEOREM NobodyOrphaned == Spec => []NoOrphan
<1>1. SInv => NoOrphan
  BY DEF SInv
<1> QED
  BY <1>1, SupervisorInvariant, PTL

\* -C and -S: the process that would accept what they forbid is never forked.
THEOREM ForkedAsAsked == Spec => []OnlyAsAsked
<1>1. SInv => OnlyAsAsked
  BY DEF SInv
<1> QED
  BY <1>1, SupervisorInvariant, PTL

\* kill(0, SIGTERM) reaches every child, since their groups are the parent's, and is
\* never sent while main is still in its starter's group.
THEOREM KillReachesAll == Spec => []KillReachesRelay
<1>1. SInv => KillReachesRelay
  BY DEF SInv
<1> QED
  BY <1>1, SupervisorInvariant, PTL

=============================================================================
