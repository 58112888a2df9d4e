-------------------------------- MODULE MCSsl --------------------------------
(* An instance of Ssl for TLC: the server writes twice, the client once.   *)
EXTENDS Ssl

MCWrites == [e \in {Client, Server} |-> IF e = Client THEN 1 ELSE 2]
=============================================================================
