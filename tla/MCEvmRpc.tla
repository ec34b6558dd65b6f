------------------------------ MODULE MCEvmRpc ------------------------------
(* Instances of EvmRpc: all the clients spell one address, each in its way. *)
EXTENDS EvmRpc

OneKey == [s \in Spellings |-> "a"]
============================================================================
