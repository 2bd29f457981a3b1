-------------------------- MODULE MCOutboxPipeline --------------------------
(* Instances of OutboxPipeline: one message, one send request and one      *)
(* retrieval event.                                                        *)
EXTENDS OutboxPipeline

CONSTANTS m, s, r

KindOfThree == [e \in Events |-> CASE e = m -> "message"
                                   [] e = s -> "send"
                                   [] OTHER -> "retrieval"]
=============================================================================
