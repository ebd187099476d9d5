------------------------------ MODULE MCRelay ------------------------------
(***************************************************************************)
(* Relay on small instances: a few bytes, buffers of one or two bytes.     *)
(***************************************************************************)
EXTENDS Relay

CONSTANTS
  ClientBytes,   \* bound on the bytes the client's endpoint sends
  ServerBytes,   \* bound on the bytes the server's endpoint sends
  ClientFaults,  \* the failures the client side may meet
  ServerFaults   \* the failures the server side may meet

MCMaxSent == [s \in Side |-> IF s = "client" THEN ClientBytes ELSE ServerBytes]
MCFaults == [s \in Side |-> IF s = "client" THEN ClientFaults ELSE ServerFaults]

=============================================================================
