----------------------------- MODULE Supervisor -----------------------------
(***************************************************************************)
(* main up to the accept loop: it reads its options, makes itself leader   *)
(* of a process group, goes to the background with -D, forks the server    *)
(* process (udt -> tcp) and the client process (tcp -> udt), installs      *)
(* exit_handler, and waits for a child to die or a signal to come; then it *)
(* ends the group.  The children meanwhile set up their listening sockets. *)
(***************************************************************************)
EXTENDS Integers, Sequences

CONSTANTS
  Started,  \* how main may be started: "job" (by a shell), "session" (already
            \* leader of a session, as the first process of a container)
  Option,   \* the options considered: "other" stands for those that change no
            \* process (-N -d -L -X -U), "bad" for an unknown one or a bad value
  MaxArgs,  \* bound on the options of a command line
  Sig       \* the signals somebody may send to the parent

ASSUME SupervisorAssumption ==
  /\ Started \subseteq {"job", "session"}
  /\ Option \subseteq {"h", "C", "S", "D", "R", "other", "bad"}
  /\ MaxArgs \in Nat
  /\ Sig \subseteq {"TERM", "INT", "QUIT"}

Signals == <<"TERM", "INT", "QUIT">>
Child == {"server", "client"}

VARIABLES
  start,     \* how main was started
  argv,      \* the options of the command line
  operands,  \* the three operands are there
  optind,    \* options read so far
  mode,      \* the children to fork: both (DUAL), or one (SERVER, CLIENT)
  demonize,  \* is_demonize
  rzv,       \* is_rendezvous
  ppc,       \* parent: program counter
  handled,   \* signals that exit_handler is installed for, in order
  mask,      \* signals whose handler is running, and which are blocked
  grp,       \* the parent's process group: its starter's, or one of its own
  child,     \* each child: how far it is
  cgrp,      \* each child's process group, inherited
  term,      \* each child: a SIGTERM is pending
  stray      \* a SIGTERM went to the group of the process that started main

cmdline == <<start, argv, operands>>
opts == <<optind, mode, demonize, rzv>>
sigs == <<handled, mask>>
kids == <<child, cgrp, term>>
vars == <<cmdline, opts, ppc, sigs, grp, kids, stray>>

Forked == {c \in Child : child[c] # "none"}
Alive == {c \in Child : child[c] \in {"starting", "resolved", "running"}}
Handled(g) == \E i \in 1..handled : Signals[i] = g
Given(o) == \E i \in 1..Len(argv) : argv[i] = o

Init ==
  /\ start \in Started /\ operands \in BOOLEAN
  /\ \E n \in 0..MaxArgs : argv \in [1..n -> Option]
  /\ optind = 0 /\ mode = Child /\ demonize = FALSE /\ rzv = FALSE
  /\ ppc = "getopt" /\ handled = 0 /\ mask = {} /\ grp = "starter"
  /\ child = [c \in Child |-> "none"]
  /\ cgrp = [c \in Child |-> "starter"]
  /\ term = [c \in Child |-> FALSE]
  /\ stray = FALSE

-----------------------------------------------------------------------------
\* Variant: -C and -S do not test the mode.
DiesUntested(o) == o \in {"h", "bad"}

\* The options that end the process.
Dies(o) == o \in {"h", "bad"} \/ (o \in {"C", "S"} /\ mode # Child)

\* One turn of the getopt loop: -h, an option that is refused, and -C or -S
\* after either of them end the process.
Getopt ==
  /\ ppc = "getopt" /\ optind < Len(argv)
  /\ optind' = optind + 1
  /\ LET o == argv[optind'] IN
       /\ ppc' = IF Dies(o) THEN "gone" ELSE ppc
       /\ mode' = CASE Dies(o) -> mode
                    [] o = "C" -> {"client"}
                    [] o = "S" -> {"server"}
                    [] OTHER -> mode
       /\ demonize' = (demonize \/ o = "D")
       /\ rzv' = (rzv \/ o = "R")
  /\ UNCHANGED <<cmdline, sigs, grp, kids, stray>>

\* getopt returns -1.
GetoptEnds ==
  /\ ppc = "getopt" /\ optind = Len(argv)
  /\ ppc' = "group"
  /\ UNCHANGED <<cmdline, opts, sigs, grp, kids, stray>>

\* Variant: main stays in the group of its starter.
OwnGroupNone == "starter"
OwnGroup == "main"

\* if (setpgid(getpid(),getpid()) < 0) exit(1): a session leader may not move.
Setpgid ==
  /\ ppc = "group"
  /\ IF start = "session"
     THEN ppc' = "gone" /\ UNCHANGED grp
     ELSE ppc' = "operands" /\ grp' = OwnGroup
  /\ UNCHANGED <<cmdline, opts, sigs, kids, stray>>

\* Fewer than three operands: log_die.  Otherwise stdin is closed and the ports
\* and the peer's address are copied.
Operands ==
  /\ ppc = "operands"
  /\ ppc' = IF operands THEN "demonize" ELSE "gone"
  /\ UNCHANGED <<cmdline, opts, sigs, grp, kids, stray>>

\* -D: fork, the parent exits, and the child, in the same group and not its
\* leader, moves into a new session.
Demonize ==
  /\ ppc = "demonize"
  /\ \/ ~ demonize /\ ppc' = "fork" /\ UNCHANGED grp
     \/ demonize /\ ppc' = "fork" /\ grp' = "session"
     \/ demonize /\ ppc' = "gone" /\ UNCHANGED grp
  /\ UNCHANGED <<cmdline, opts, sigs, kids, stray>>

\* Variant: both processes are forked whatever the mode.
ToForkBoth == Child
ToFork == mode

\* server_pid = fork(), then client_pid = fork().
Fork ==
  /\ ppc = "fork"
  /\ \E c \in ToFork :
       /\ child[c] = "none"
       /\ c = "client" => "server" \notin ToFork \ Forked
       /\ child' = [child EXCEPT ![c] = "starting"]
       /\ cgrp' = [cgrp EXCEPT ![c] = grp]
       /\ ppc' = IF Forked \cup {c} = ToFork THEN "signal" ELSE "fork"
  /\ UNCHANGED <<cmdline, opts, sigs, grp, term, stray>>

\* fork fails: log_die ends the parent, and nobody ends a child forked before.
ForkFails ==
  /\ ppc = "fork"
  /\ ppc' = "gone"
  /\ UNCHANGED <<cmdline, opts, sigs, grp, kids, stray>>

\* signal(SIGTERM, exit_handler); then SIGINT; then SIGQUIT.
Install ==
  /\ ppc = "signal"
  /\ handled' = handled + 1
  /\ ppc' = IF handled' = Len(Signals) THEN "regroup" ELSE "signal"
  /\ UNCHANGED <<cmdline, opts, mask, grp, kids, stray>>

\* setpgid(getpid(),getpid()) once more changes nothing for the leader of a group.
Regroup ==
  /\ ppc = "regroup"
  /\ grp' = IF grp = "starter" THEN "main" ELSE grp
  /\ ppc' = "wait"
  /\ UNCHANGED <<cmdline, opts, sigs, kids, stray>>

Reap(c) == child[c] = "zombie" /\ child' = [child EXCEPT ![c] = "reaped"]

\* wait(NULL) > 0: some child has died; exit_handler is called.
Wait ==
  /\ ppc = "wait"
  /\ \E c \in mode : Reap(c)
  /\ ppc' = "kill"
  /\ UNCHANGED <<cmdline, opts, sigs, grp, cgrp, term, stray>>

\* Variant: the signal goes to the parent alone.
ReachedSelf(c) == FALSE
Reached(c) == c \in Alive /\ cgrp[c] = grp

\* exit_handler: kill(0, SIGTERM) reaches the group.  The parent is in it: its
\* handler runs nested, kills once more, and finds SIGTERM blocked.
Kill ==
  /\ ppc = "kill"
  /\ term' = [c \in Child |-> term[c] \/ Reached(c)]
  /\ stray' = (stray \/ grp = "starter")
  /\ mask' = mask \cup {"TERM"}
  /\ ppc' = IF "TERM" \in mask THEN "drain" ELSE "kill"
  /\ UNCHANGED <<cmdline, opts, handled, grp, child, cgrp>>

\* while (wait(NULL) != -1);
Drain ==
  /\ ppc = "drain"
  /\ \E c \in mode : Reap(c)
  /\ UNCHANGED <<cmdline, opts, ppc, sigs, grp, cgrp, term, stray>>

\* Variant: the parent does not wait for its children.
NoChildLeftAtOnce == TRUE
NoChildLeft == \A c \in Forked : child[c] = "reaped"

\* No child is left: log_die ends the process.
Exit ==
  /\ ppc = "drain" /\ NoChildLeft
  /\ ppc' = "gone"
  /\ UNCHANGED <<cmdline, opts, sigs, grp, kids, stray>>

\* Somebody sends a signal to the parent: exit_handler runs, also in the middle
\* of an earlier one for another signal; before it is installed the parent ends.
Signal(g) ==
  /\ ppc # "gone" /\ g \notin mask
  /\ IF Handled(g) THEN ppc' = "kill" /\ mask' = mask \cup {g}
                   ELSE ppc' = "gone" /\ UNCHANGED mask
  /\ UNCHANGED <<cmdline, opts, handled, grp, kids, stray>>

\* getaddrinfo for the port to listen on, for the peer and, with -R, for the two
\* rendezvous ports; log_die if one of them fails.
Resolve(c) ==
  /\ child[c] = "starting"
  /\ \E s \in {"resolved", "zombie"} : child' = [child EXCEPT ![c] = s]
  /\ UNCHANGED <<cmdline, opts, ppc, sigs, grp, cgrp, term, stray>>

\* socket, bind and listen; main returns if bind or listen fails.  A rendezvous
\* server has no socket yet.
Listen(c) ==
  /\ child[c] = "resolved"
  /\ \E s \in {"running", "zombie"} :
       /\ s = "zombie" => ~ (c = "server" /\ rzv)
       /\ child' = [child EXCEPT ![c] = s]
  /\ UNCHANGED <<cmdline, opts, ppc, sigs, grp, cgrp, term, stray>>

\* A child ends by itself: accept failed, log_die, SIGPIPE.
Crash(c) ==
  /\ child[c] = "running"
  /\ child' = [child EXCEPT ![c] = "zombie"]
  /\ UNCHANGED <<cmdline, opts, ppc, sigs, grp, cgrp, term, stray>>

\* SIGTERM has its default effect in a child, which has no handler.
Terminate(c) ==
  /\ c \in Alive /\ term[c]
  /\ child' = [child EXCEPT ![c] = "zombie"]
  /\ UNCHANGED <<cmdline, opts, ppc, sigs, grp, cgrp, term, stray>>

Parent ==
  \/ Getopt \/ GetoptEnds \/ Setpgid \/ Operands \/ Demonize \/ Fork
  \/ Install \/ Regroup \/ Wait \/ Kill \/ Drain \/ Exit

Next ==
  \/ Parent \/ ForkFails
  \/ \E g \in Sig : Signal(g)
  \/ \E c \in Child : Resolve(c) \/ Listen(c) \/ Crash(c) \/ Terminate(c)

Spec == Init /\ [][Next]_vars

\* The parent runs and a pending SIGTERM is delivered; no child need get anywhere and no
\* signal need come.
FairSpec ==
  /\ Spec /\ WF_vars(Parent)
  /\ \A c \in Child : WF_vars(Terminate(c))

-----------------------------------------------------------------------------
STypeOK ==
  /\ start \in Started /\ operands \in BOOLEAN /\ optind \in 0..Len(argv)
  /\ mode \in {Child, {"server"}, {"client"}} /\ demonize \in BOOLEAN /\ rzv \in BOOLEAN
  /\ ppc \in {"getopt", "group", "operands", "demonize", "fork", "signal", "regroup",
             "wait", "kill", "drain", "gone"}
  /\ handled \in 0..3 /\ mask \subseteq {"TERM", "INT", "QUIT"}
  /\ grp \in {"starter", "main", "session"}
  /\ Forked \subseteq mode
  /\ child \in [Child -> {"none", "starting", "resolved", "running", "zombie", "reaped"}]
  /\ cgrp \in [Child -> {"starter", "main", "session"}]
  /\ term \in [Child -> BOOLEAN] /\ stray \in BOOLEAN

\* A parent that got as far as installing its handlers ends only after every
\* child, whatever signals come and whenever they come: no child is left behind
\* holding the ports.
NoOrphan == handled = 3 /\ ppc = "gone" => Alive = {}

\* "-C: don't accept incoming peer/UDT connections", "-S: don't accept outgoing
\* socks connections": whatever else the command line says and in whatever order,
\* a process that would accept them is never forked.
OnlyAsAsked ==
  /\ Given("C") => child["server"] = "none"
  /\ Given("S") => child["client"] = "none"

\* One kill(0, SIGTERM) reaches every child, although the parent has called setpgid
\* again after the forks and -D has moved it to a session in between, so that the
\* parent waits in exit_handler only for children that have been told to end; and it
\* never reaches the process that started the relay.
KillReachesRelay == ~ stray /\ (ppc = "drain" => \A c \in Alive : term[c])

\* "server died. exiting.": once a child has died under a parent that is about
\* to wait, every process of the relay ends.
AllExit ==
  (ppc \in {"regroup", "wait"} /\ \E c \in mode : child[c] = "zombie")
    ~> (ppc = "gone" /\ Alive = {})

\* A signal that comes when the three handlers are installed ends every process
\* of the relay, however many more follow.
SignalEndsAll == (ppc = "kill" /\ handled = 3) ~> (ppc = "gone" /\ Alive = {})

=============================================================================
