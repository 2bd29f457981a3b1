-------------------------- MODULE MCAgentDelivery --------------------------
(* Instances of AgentDelivery for TLC. *)
EXTENDS AgentDelivery

CONSTANTS c1, c2, c3, w1, w2

TwoCommands == {c1, c2}
ThreeCommands == {c1, c2, c3}
OneConsumer == {w1}
TwoConsumers == {w1, w2}
=============================================================================
