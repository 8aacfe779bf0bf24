----------------------------- MODULE UsbStream -----------------------------
(***************************************************************************)
(* What rtos_usb.h promises of a send operation: the bytes of the buffers  *)
(* handed over reach the host in order, each at most once, and an          *)
(* operation is complete when none of its bytes is still to come.  A bus   *)
(* reset may cost the packet under way, and nothing else loses a byte.     *)
(***************************************************************************)
EXTENDS Naturals, Sequences

CONSTANTS
  PacketSize,  \* the bytes a bus reset may cost
  MaxTx        \* bound: bytes handed over in all

VARIABLES
  handed,      \* bytes handed over so far; byte i of the stream is the number i
  place,       \* how far the stream has come: the next byte is place + 1
  received,    \* the bytes the host has, in the order they came
  resets,      \* bus resets so far
  busy         \* a send operation is in progress

vars == <<handed, place, received, resets, busy>>

Init ==
  /\ handed = 0 /\ place = 0
  /\ received = << >>
  /\ resets = 0
  /\ busy = FALSE

(* rtos_usb_start_send_buffer *)
Hand ==
  /\ ~busy
  /\ handed' \in handed + 1 .. MaxTx
  /\ busy' = TRUE
  /\ UNCHANGED <<place, received, resets>>

(* The host takes the next bytes. *)
Deliver ==
  /\ place' \in place + 1 .. handed
  /\ received' = received \o [i \in 1 .. place' - place |-> place + i]
  /\ UNCHANGED <<handed, resets, busy>>

(* Bytes are passed over: over all, one packet for each bus reset. *)
Lose ==
  /\ place' \in place + 1 .. handed
  /\ place' <= Len(received) + PacketSize * resets'
  /\ UNCHANGED <<handed, received, busy>>

Reset == resets' = resets + 1 /\ (Lose \/ UNCHANGED <<handed, place, received, busy>>)

(* rtos_usb_wait_until_send_complete ends *)
Complete ==
  /\ busy
  /\ place = handed
  /\ busy' = FALSE
  /\ UNCHANGED <<handed, place, received, resets>>

Next == Hand \/ Deliver \/ (Lose /\ UNCHANGED resets) \/ Reset \/ Complete

Spec == Init /\ [][Next]_vars
=============================================================================
