------------------------------ MODULE MCJsonRpc ------------------------------
(* The codec with calls of both sides, those of the client being more.      *)
EXTENDS JsonRpc

CONSTANTS ClientCalls, ServerCalls

MCMaxCalls == [s \in Sides |-> IF s = "client" THEN ClientCalls ELSE ServerCalls]
==============================================================================
