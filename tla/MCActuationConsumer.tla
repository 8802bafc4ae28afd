------------------------- MODULE MCActuationConsumer -------------------------
(* Instances of ActuationConsumer.                                           *)
EXTENDS ActuationConsumer

MCReads == [i \in Intents |-> Paths]
=============================================================================
