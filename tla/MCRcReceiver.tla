---------------------------- MODULE MCRcReceiver ----------------------------
(* Instances of RcReceiver: 64, 26 and 14 bytes in the same proportion. *)
EXTENDS RcReceiver, TLC

MCLength == ("channels" :> 4) @@ ("statistics" :> 2)
=============================================================================
