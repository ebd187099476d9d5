-------------------------------- MODULE Pipe --------------------------------
(***************************************************************************)
(* What a relayed connection promises its two endpoints: a byte stream in  *)
(* each direction, delivered in order and without gaps, that the relay     *)
(* cuts only after something ended the connection (an endpoint ended its   *)
(* output or reset, the network failed, a call was interrupted), and for   *)
(* ever.                                                                   *)
(***************************************************************************)
EXTENDS Integers, Sequences

VARIABLES
  sent,   \* how many bytes each endpoint has sent
  out,    \* the bytes delivered to each endpoint
  open,   \* whether each endpoint's connection is open
  ended   \* whether something has ended the connection

pipeVars == <<sent, out, open, ended>>

End == {"client", "server"}

Far(e) == IF e = "client" THEN "server" ELSE "client"

PipeInit ==
  /\ sent = [e \in End |-> 0]
  /\ out = [e \in End |-> <<>>]
  /\ open = [e \in End |-> TRUE]
  /\ ended = FALSE

\* An endpoint sends its next byte.
Send(e) ==
  /\ open[e]
  /\ sent' = [sent EXCEPT ![e] = @ + 1]
  /\ UNCHANGED <<out, open, ended>>

\* The next bytes that the far endpoint sent are delivered.
Deliver(e) ==
  /\ open[e]
  /\ \E n \in 1..(sent[Far(e)] - Len(out[e])) :
       out' = [out EXCEPT ![e] = @ \o [i \in 1..n |-> Len(out[e]) + i]]
  /\ UNCHANGED <<sent, open, ended>>

\* Something ends the connection.
Finish ==
  /\ ended' = TRUE
  /\ UNCHANGED <<sent, out, open>>

\* The relay cuts an endpoint off.
Cut(e) ==
  /\ ended
  /\ open' = [open EXCEPT ![e] = FALSE]
  /\ UNCHANGED <<sent, out, ended>>

PipeNext ==
  \/ Finish
  \/ \E e \in End : Send(e) \/ Deliver(e) \/ Cut(e)

PipeSpec == PipeInit /\ [][PipeNext]_pipeVars

=============================================================================
