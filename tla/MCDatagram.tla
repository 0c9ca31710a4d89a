----------------------------- MODULE MCDatagram -----------------------------
(* Instances of Datagram for TLC: bounds for each end.                      *)
EXTENDS Datagram

CONSTANTS ClientMessages, ServerMessages, ClientParts, ServerParts,
          ClientUnreliable, ServerUnreliable

PerEnd(c, s) == [e \in Ends |-> IF e = Client THEN c ELSE s]
MCMaxMessages == PerEnd(ClientMessages, ServerMessages)
MCMaxParts == PerEnd(ClientParts, ServerParts)
MCMaxUnreliable == PerEnd(ClientUnreliable, ServerUnreliable)
=============================================================================
