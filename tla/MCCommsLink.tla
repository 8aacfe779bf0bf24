---------------------------- MODULE MCCommsLink ----------------------------
(* Instances of CommsLink: two requests, one of which a handler refuses. *)
EXTENDS CommsLink, TLC

CONSTANTS get, bad

MCFrames == (get :> 3) @@ (bad :> 2)
MCAnswer == (get :> 3) @@ (bad :> 0)
=============================================================================
