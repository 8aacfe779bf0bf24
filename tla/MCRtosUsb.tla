----------------------------- MODULE MCRtosUsb -----------------------------
(* Model values for the USB process: packets of two bytes, so that a buffer *)
(* of one byte is part of a packet, one of two fills it and one of three    *)
(* takes two.                                                               *)
EXTENDS RtosUsb

FullAndMore == {2, 3}
PartAndFull == {1, 2}
=============================================================================
