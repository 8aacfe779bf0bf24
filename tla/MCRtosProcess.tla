--------------------------- MODULE MCRtosProcess ---------------------------
(* Instances of RtosProcess for TLC. *)
EXTENDS RtosProcess

CONSTANTS main, usbproc, spiproc, null, usb_interrupt, busy

(* wait_until_true of an interrupt's flag, as usb_proc_loop does *)
OnInterrupt == [variable |-> usb_interrupt, value |-> 0, condition |-> "NotEqual"]
(* join_process *)
Join(p) == [variable |-> p, value |-> Done, condition |-> "Equal"]

OrderWait == {OnInterrupt}
QueueWait == {Join(usbproc)}
=============================================================================
