---------------------------- MODULE MCSerialPort ----------------------------
(* Instances of SerialPort: the ports of the processes. *)
EXTENDS SerialPort, TLC

CONSTANTS a, b, c

MCPorts == (a :> 1) @@ (b :> 2) @@ (c :> 0)
=============================================================================
