------------------------------ MODULE RtosUsb ------------------------------
(***************************************************************************)
(* The USB process and the serial endpoints it serves: rtos_usb.c,         *)
(* usb_serial.c, and the parts of usb_samd.c and usb.c they run through.   *)
(*                                                                         *)
(* Four things run: the interrupt handler, which masks itself and sets a   *)
(* flag; the USB process, which only gives up the processor where it waits *)
(* for the flag; the client processes, which run while it waits; and the   *)
(* endpoint hardware with the host behind it, which acts at any moment.    *)
(* Byte i of a direction is the number i.  Control requests other than     *)
(* SetConfiguration leave this state alone; UsbControl models them.        *)
(***************************************************************************)
EXTENDS Integers, Sequences

CONSTANTS
  PacketSize,  \* USB_SERIAL_BUFFER_SIZE
  SendCounts,  \* the sizes of the buffers a client sends
  ReadCounts,  \* the sizes of the buffers a client reads
  MaxTx,       \* bound: bytes handed over by clients
  MaxRx,       \* bound: bytes the host sends
  MaxReset,    \* bound: bus resets after the device is configured
  MayQuit      \* whether a client calls rtos_usb_quit

ASSUME UsbAssumption ==
  /\ PacketSize \in Nat \ {0}
  /\ SendCounts \subseteq Nat \ {0}
  /\ ReadCounts \subseteq Nat \ {0}
  /\ MaxTx \in Nat /\ MaxRx \in Nat /\ MaxReset \in Nat
  /\ MayQuit \in BOOLEAN

VARIABLES
  start,        \* how far rtos_usb_init has come
  pc,           \* where the USB process is
  nvic,         \* USB_IRQn is enabled
  usb_interrupt, usb_quit,
  eorst,        \* INTFLAG.EORST
  setup,        \* EPINTFLAG.RXSTP of endpoint 0, with a SetConfiguration
  seen,         \* status and EPINTSMRY as usb_handle_function read them
  attached,     \* not CTRLB.DETACH
  bus,          \* idle, reset (default state) or configured
  resets,       \* bus resets after the first (for MaxReset)
  ep_out,       \* bank 0 of endpoint 2: can receive, TRCPT0, its enable, BYTE_COUNT
  ep_in,        \* bank 1 of endpoint 2: has data, TRCPT1, its enable, BYTE_COUNT
  usb_serial_buffer_out, usb_serial_buffer_in,
  usb_tx_busy, usb_rx_buffer_length,
  send,         \* usb_send_status, usb_send_buffer_count, usb_send_bytes_sent
  read,         \* usb_read_status, usb_read_buffer_count, usb_read_bytes_read
  handed,       \* bytes handed to rtos_usb_start_send_buffer
  host_in,      \* the bytes the host has received
  host_out,     \* number of bytes the host has sent
  read_bytes    \* the bytes rtos_usb has put into read buffers

control == <<start, pc, usb_quit, seen>>
irq == <<nvic, usb_interrupt>>
device == <<eorst, setup, attached, bus, resets>>
banks == <<ep_out, ep_in>>
out_side == <<usb_serial_buffer_out, usb_rx_buffer_length, read, read_bytes, host_out>>
in_side == <<usb_serial_buffer_in, usb_tx_busy, send, handed, host_in>>
vars == <<control, irq, device, banks, out_side, in_side>>

Bank == [ready : BOOLEAN, flag : BOOLEAN, enable : BOOLEAN, length : 0 .. PacketSize]
Off == [ready |-> FALSE, flag |-> FALSE, enable |-> FALSE, length |-> 0]

(* usb_ep_start_in and usb_ep_start_out: the old completion is cleared, its *)
(* interrupt enabled, the transfer started.                                 *)
Started(length) == [ready |-> TRUE, flag |-> FALSE, enable |-> TRUE, length |-> length]

(* No packet is longer than the endpoint's buffers, and bytes are those     *)
(* that were handed over or sent.                                          *)
TypeOK ==
  /\ start \in {"off", "attached", "started", "done"}
  /\ pc \in {"unborn", "wait", "handle", "reset", "control", "mask", "out", "in",
             "enable", "send", "read", "stopped"}
  /\ {nvic, usb_interrupt, usb_quit, eorst, setup, attached, usb_tx_busy}
       \subseteq BOOLEAN
  /\ bus \in {"idle", "reset", "configured"}
  /\ resets \in 0 .. MaxReset
  /\ seen \in [ep0 : BOOLEAN, ep2 : BOOLEAN]
  /\ ep_out \in Bank /\ ep_in \in Bank
  /\ usb_serial_buffer_out \in [1 .. PacketSize -> 0 .. MaxRx]
  /\ usb_serial_buffer_in \in Seq(1 .. MaxTx)
  /\ usb_rx_buffer_length \in 0 .. PacketSize
  /\ send \in [status : BOOLEAN, count : Nat, done : Nat]
  /\ read \in [status : BOOLEAN, count : Nat, done : Nat]
  /\ handed \in 0 .. MaxTx /\ host_out \in 0 .. MaxRx
  /\ host_in \in Seq(1 .. MaxTx) /\ read_bytes \in Seq(0 .. MaxRx)

Idle == [status |-> FALSE, count |-> 0, done |-> 0]

NotSeen == [ep0 |-> FALSE, ep2 |-> FALSE]

(* Before rtos_usb_init. *)
Init ==
  /\ start = "off" /\ pc = "unborn"
  /\ nvic = FALSE /\ usb_interrupt = FALSE /\ usb_quit = FALSE
  /\ eorst = FALSE /\ setup = FALSE
  /\ seen = NotSeen
  /\ attached = FALSE /\ bus = "idle" /\ resets = 0
  /\ ep_out = Off /\ ep_in = Off
  /\ usb_serial_buffer_out = [i \in 1 .. PacketSize |-> 0] /\ usb_serial_buffer_in = << >>
  /\ usb_tx_busy = FALSE /\ usb_rx_buffer_length = 0
  /\ send = Idle /\ read = Idle
  /\ handed = 0 /\ host_in = << >> /\ host_out = 0 /\ read_bytes = << >>

(* The interrupt line: a flag of the device is set and enabled. *)
Line ==
  \/ eorst
  \/ setup
  \/ ep_out.flag /\ ep_out.enable
  \/ ep_in.flag /\ ep_in.enable

-----------------------------------------------------------------------------
(* rtos_usb_init *)

(* usb_attach: the interrupt is enabled before the process exists. *)
Attach ==
  /\ start = "off"
  /\ start' = "attached"
  /\ attached' = TRUE
  /\ nvic' = TRUE
  /\ UNCHANGED <<pc, usb_quit, seen, usb_interrupt, eorst, setup, bus, resets,
                 banks, out_side, in_side>>

(* The process starts: usb_proc_loop up to its first wait. *)
ProcStart ==
  /\ start = "attached"
  /\ start' = "started"
  /\ pc' = "wait"
  /\ usb_interrupt' = FALSE
  /\ usb_quit' = FALSE
  /\ UNCHANGED <<seen, nvic, device, banks, out_side, in_side>>

(* Mutant: rtos_usb_init leaves the interrupt as usb_attach left it. *)
InitEndWithoutEnable ==
  /\ start = "started" /\ pc = "wait"
  /\ start' = "done"
  /\ UNCHANGED <<pc, usb_quit, seen, irq, device, banks, out_side, in_side>>

(* The process has started and rtos_usb_init enables the interrupt again:   *)
(* one that came before ProcStart has masked itself and lost its flag.      *)
InitEnd ==
  /\ start = "started" /\ pc = "wait"
  /\ start' = "done"
  /\ nvic' = TRUE
  /\ UNCHANGED <<pc, usb_quit, seen, usb_interrupt, device, banks, out_side, in_side>>

-----------------------------------------------------------------------------
(* USB_Handler *)
USB_Handler ==
  /\ nvic /\ Line
  /\ nvic' = FALSE
  /\ usb_interrupt' = TRUE
  /\ UNCHANGED <<control, device, banks, out_side, in_side>>

-----------------------------------------------------------------------------
(* usb_proc_loop *)

(* The wait ends; the flag is cleared. *)
Wake ==
  /\ pc = "wait" /\ usb_interrupt
  /\ usb_interrupt' = FALSE
  /\ pc' = IF usb_quit THEN "stopped" ELSE "handle"
  /\ UNCHANGED <<start, usb_quit, seen, nvic, device, banks, out_side, in_side>>

(* usb_handle_function reads the summary and the status. *)
ReadStatus ==
  /\ pc = "handle"
  /\ seen' = [ep0 |-> setup,
              ep2 |-> (ep_out.flag /\ ep_out.enable) \/ (ep_in.flag /\ ep_in.enable)]
  /\ pc' = IF eorst THEN "reset" ELSE "control"
  /\ UNCHANGED <<start, usb_quit, irq, device, banks, out_side, in_side>>

(* Mutant: a bus reset returns without enabling the interrupt again. *)
AfterResetReturn == "send"

(* A bus reset skips to usb_handle_function_end. *)
AfterReset == "enable"

(* End of reset: EORST is cleared and endpoint 0 set up; what was seen of    *)
(* the endpoints goes unhandled.                                             *)
HandleReset ==
  /\ pc = "reset"
  /\ eorst' = FALSE
  /\ seen' = NotSeen
  /\ pc' = AfterReset
  /\ UNCHANGED <<start, usb_quit, irq, setup, attached, bus, resets, banks,
                 out_side, in_side>>

(* usb_enable_ep of the IN endpoint clears BK1RDY. *)
EnabledIn == [ep_in EXCEPT !.ready = FALSE]

(* Mutant: usb_serial_init leaves usb_tx_busy alone. *)
BusyAfterInitKept == usb_tx_busy

BusyAfterInit == FALSE

(* Endpoint 0: SetConfiguration runs usb_serial_init, which enables the     *)
(* endpoints, starts an OUT transfer and forgets a transmission under way.  *)
HandleControl ==
  /\ pc = "control"
  /\ pc' = "mask"
  /\ IF seen.ep0 /\ setup
     THEN /\ setup' = FALSE
          /\ bus' = "configured"
          /\ ep_out' = Started(0)
          /\ ep_in' = EnabledIn
          /\ usb_tx_busy' = BusyAfterInit
     ELSE UNCHANGED <<setup, bus, banks, usb_tx_busy>>
  /\ UNCHANGED <<start, usb_quit, seen, irq, eorst, attached, resets, out_side,
                 usb_serial_buffer_in, send, handed, host_in>>

(* Endpoint 2: the enables of the flags that are set are cleared. The local  *)
(* copy of the summary is dead from here.                                    *)
MaskFlags ==
  /\ pc = "mask"
  /\ pc' = "out"
  /\ seen' = NotSeen
  /\ ep_out' = [ep_out EXCEPT !.enable = @ /\ ~(seen.ep2 /\ ep_out.flag)]
  /\ ep_in' = [ep_in EXCEPT !.enable = @ /\ ~(seen.ep2 /\ ep_in.flag)]
  /\ UNCHANGED <<start, usb_quit, irq, device, out_side, in_side>>

(* usb_cb_completion, the OUT endpoint: usb_ep_handled and the length. *)
CompleteOut ==
  /\ pc = "out"
  /\ pc' = "in"
  /\ ep_out' = [ep_out EXCEPT !.flag = FALSE]
  /\ usb_rx_buffer_length' =
       IF ep_out.flag THEN ep_out.length ELSE usb_rx_buffer_length
  /\ UNCHANGED <<start, usb_quit, seen, irq, device, ep_in, usb_serial_buffer_out, read,
                 read_bytes, host_out, in_side>>

(* usb_cb_completion, the IN endpoint. *)
CompleteIn ==
  /\ pc = "in"
  /\ pc' = "enable"
  /\ ep_in' = [ep_in EXCEPT !.flag = FALSE]
  /\ usb_tx_busy' = (usb_tx_busy /\ ~ep_in.flag)
  /\ UNCHANGED <<start, usb_quit, seen, irq, device, ep_out, out_side,
                 usb_serial_buffer_in, send, handed, host_in>>

(* usb_handle_function_end *)
HandleEnd ==
  /\ pc = "enable"
  /\ pc' = "send"
  /\ nvic' = TRUE
  /\ UNCHANGED <<start, usb_quit, seen, usb_interrupt, device, banks, out_side, in_side>>

(* usb_serial_send_buffer: at most one packet of the count bytes that follow *)
(* byte base goes into the buffer the endpoint sends from.                   *)
InCount(count) == IF count > PacketSize THEN PacketSize ELSE count

StartIn(base, count) ==
  /\ usb_serial_buffer_in' = [i \in 1 .. InCount(count) |-> base + i]
  /\ ep_in' = Started(InCount(count))
  /\ usb_tx_busy' = TRUE

(* Mutant: a send goes on without waiting for the packet under way. *)
SendTurnWhileBusy == send.status

(* The send operation is in progress and its last packet has gone. *)
SendTurn == send.status /\ ~usb_tx_busy

(* The next packet of the send operation, or its end. *)
SendMore ==
  /\ pc = "send"
  /\ pc' = "read"
  /\ LET left == send.count - send.done
     IN \/ /\ SendTurn /\ left = 0
           /\ send' = [send EXCEPT !.status = FALSE]
           /\ UNCHANGED <<ep_in, usb_serial_buffer_in, usb_tx_busy>>
        \/ /\ SendTurn /\ left > 0
           /\ StartIn(handed - left, left)
           /\ send' = [send EXCEPT !.done = @ + InCount(left)]
        \/ /\ ~SendTurn
           /\ UNCHANGED <<ep_in, usb_serial_buffer_in, usb_tx_busy, send>>
  /\ UNCHANGED <<start, usb_quit, seen, irq, device, ep_out, out_side, handed, host_in>>

(* Mutant: the length of the packet is kept after it has been read out. *)
LengthAfterReadKept == usb_rx_buffer_length

(* usb_serial_read_buffer forgets the packet it has copied. *)
LengthAfterRead == 0

(* Mutant: usb_serial_read_buffer does not start the next OUT transfer. *)
OutAfterReadStopped == ep_out

OutAfterRead == Started(0)

(* The read operation: the packet that has come is copied out, all of it,   *)
(* and the next OUT transfer is started, which drops one that came since.   *)
ReadMore ==
  /\ pc = "read"
  /\ pc' = "wait"
  /\ IF read.status /\ usb_rx_buffer_length # 0
     THEN LET done == read.done + usb_rx_buffer_length
          IN /\ read_bytes' = read_bytes
                   \o SubSeq(usb_serial_buffer_out, 1, usb_rx_buffer_length)
             /\ ep_out' = OutAfterRead
             /\ usb_rx_buffer_length' = LengthAfterRead
             /\ read' = [read EXCEPT !.done = done, !.status = read.count # done]
     ELSE UNCHANGED <<read_bytes, ep_out, usb_rx_buffer_length, read>>
  /\ UNCHANGED <<start, usb_quit, seen, irq, device, ep_in, usb_serial_buffer_out,
                 host_out, in_side>>

UsbProcess ==
  \/ Wake \/ ReadStatus \/ HandleReset \/ HandleControl \/ MaskFlags
  \/ CompleteOut \/ CompleteIn \/ HandleEnd \/ SendMore \/ ReadMore

-----------------------------------------------------------------------------
(* The client processes, which run while the USB process waits. *)

Running == start = "done" /\ pc = "wait" /\ ~usb_quit

(* rtos_usb_start_send_buffer, past its wait for the send in progress.  The *)
(* clients send once the host has configured the device: they answer it.    *)
StartSend ==
  /\ Running /\ bus = "configured" /\ ~send.status
  /\ \E count \in SendCounts :
       /\ handed + count <= MaxTx
       /\ handed' = handed + count
       /\ send' = [status |-> TRUE, count |-> count, done |-> InCount(count)]
       /\ StartIn(handed, count)
  /\ UNCHANGED <<control, irq, device, ep_out, out_side, host_in>>

(* rtos_usb_start_read_buffer, past its wait for the read in progress.  The *)
(* bound leaves room for the packets that bus resets may have cost or may.  *)
StartRead ==
  /\ Running /\ ~read.status
  /\ \E count \in ReadCounts :
       /\ host_out + count + PacketSize * MaxReset <= MaxRx
       /\ read' = [status |-> TRUE, count |-> count, done |-> 0]
  /\ UNCHANGED <<control, irq, device, banks, usb_serial_buffer_out, usb_rx_buffer_length,
                 read_bytes, host_out, in_side>>

(* Mutant: rtos_usb_quit does not wake the process. *)
QuitWithoutWake ==
  /\ MayQuit /\ Running
  /\ attached' = FALSE
  /\ nvic' = FALSE
  /\ usb_quit' = TRUE
  /\ UNCHANGED <<start, pc, seen, usb_interrupt, eorst, setup, bus, resets, banks, out_side,
                 in_side>>

(* rtos_usb_quit up to its join *)
Quit ==
  /\ MayQuit /\ Running
  /\ attached' = FALSE
  /\ nvic' = FALSE
  /\ usb_interrupt' = TRUE
  /\ usb_quit' = TRUE
  /\ UNCHANGED <<start, pc, seen, eorst, setup, bus, resets, banks, out_side, in_side>>

-----------------------------------------------------------------------------
(* The host and the endpoint hardware (external). *)

(* A bus reset takes the endpoints down.  The first one starts enumeration. *)
BusReset ==
  /\ attached
  /\ IF bus = "idle" THEN UNCHANGED resets
                     ELSE resets < MaxReset /\ resets' = resets + 1
  /\ bus' = "reset"
  /\ eorst' = TRUE
  /\ setup' = FALSE
  /\ ep_out' = Off /\ ep_in' = Off
  /\ UNCHANGED <<control, irq, attached, out_side, in_side>>

(* The host sends SetConfiguration once the reset has been handled. *)
HostConfigures ==
  /\ attached /\ bus = "reset" /\ ~eorst /\ ~setup
  /\ setup' = TRUE
  /\ UNCHANGED <<control, irq, eorst, attached, bus, resets, banks, out_side, in_side>>

(* The host takes the packet of the IN endpoint, as its buffer is now. *)
HostTakes ==
  /\ attached /\ bus = "configured" /\ ep_in.ready
  /\ host_in' = host_in \o usb_serial_buffer_in
  /\ ep_in' = [ep_in EXCEPT !.ready = FALSE, !.flag = TRUE]
  /\ UNCHANGED <<control, irq, device, ep_out, out_side, usb_serial_buffer_in, usb_tx_busy,
                 send, handed>>

(* The host sends a packet, of up to PacketSize bytes or of none, whatever  *)
(* the clients ask for, and the OUT endpoint takes it.                      *)
HostPacket(n) ==
  /\ attached /\ bus = "configured" /\ ep_out.ready
  /\ host_out + n <= MaxRx
  /\ usb_serial_buffer_out' =
       [i \in 1 .. PacketSize |-> IF i <= n THEN host_out + i ELSE usb_serial_buffer_out[i]]
  /\ host_out' = host_out + n
  /\ ep_out' = [ep_out EXCEPT !.ready = FALSE, !.flag = TRUE, !.length = n]
  /\ UNCHANGED <<control, irq, device, ep_in, usb_rx_buffer_length, read, read_bytes, in_side>>

HostSends == \E n \in 0 .. PacketSize : HostPacket(n)


Next ==
  \/ Attach \/ ProcStart \/ InitEnd
  \/ USB_Handler
  \/ UsbProcess
  \/ StartSend \/ StartRead \/ Quit
  \/ BusReset \/ HostConfigures \/ HostTakes \/ HostSends

(* The processor and the interrupt controller go on; a host that is attached *)
(* enumerates the device, polls the IN endpoint and has data to send.        *)
Fairness ==
  /\ WF_vars(Attach \/ ProcStart \/ InitEnd)
  /\ WF_vars(UsbProcess)
  /\ WF_vars(USB_Handler)
  /\ WF_vars(bus = "idle" /\ BusReset)
  /\ WF_vars(HostConfigures)
  /\ WF_vars(HostTakes)
  /\ WF_vars(\E n \in 1 .. PacketSize : HostPacket(n))

Spec == Init /\ [][Next]_vars /\ Fairness

-----------------------------------------------------------------------------
(* Nothing the endpoints or the bus report is overlooked: while the process *)
(* waits, whatever is not handled yet has set the flag or still will.  The  *)
(* handler masks the interrupt, so one path of usb_handle_function that     *)
(* forgets to enable it again, or one flag lost in rtos_usb_init, stops USB *)
(* for good.                                                                *)
NothingOverlooked ==
  start = "done" /\ pc = "wait" /\ ~usb_quit
    /\ (eorst \/ setup \/ ep_out.flag \/ ep_in.flag)
      => usb_interrupt \/ (nvic /\ Line)

(* No byte the host has sent comes twice in read buffers, whether its packet *)
(* came before or during the read, fitted it or not, and whatever bus resets *)
(* left of lengths and of the buffer (rtos_usb.c:74-79); while the bus is not *)
(* reset the bytes are all of the stream in its order.                       *)
ReadInOrder ==
  /\ \A i, j \in 1 .. Len(read_bytes) : i # j => read_bytes[i] # read_bytes[j]
  /\ resets = 0 => \A i \in 1 .. Len(read_bytes) : read_bytes[i] = i

Waits == start = "done" /\ pc = "wait" /\ ~usb_quit /\ bus = "configured"

(* While the process waits, a send in progress is on its way: the host has a *)
(* packet to take or the process will be woken, whatever bus resets have     *)
(* taken away.                                                               *)
SendOnItsWay ==
  Waits /\ send.status => ep_in.ready \/ usb_interrupt \/ (nvic /\ Line)

(* The OUT endpoint takes no packet, for one was handled before the read     *)
(* began (rtos_usb.c:75 looks for it after an interrupt only) or was empty   *)
(* (usb_serial.c:24 then starts no transfer).                                *)
OutStopped ==
  ~ep_out.ready /\ ~ep_out.flag /\ (usb_rx_buffer_length # 0 \/ ep_out.length = 0)

(* While the process waits, a read in progress is on its way: the host may   *)
(* send or the process will be woken. Nothing but a packet before the read,  *)
(* or an empty one, stops the endpoint: no packet taken by the read, no bus  *)
(* reset and no send beside it.                                              *)
ReadOnItsWay ==
  Waits /\ read.status => ep_out.ready \/ usb_interrupt \/ (nvic /\ Line) \/ OutStopped

(* rtos_usb.h:13, a send operation that was started completes, also when bus *)
(* resets take its packet away; unless USB is shut down.                     *)
SendEnds == send.status ~> (~send.status \/ usb_quit)

(* rtos_usb.h:18, a read operation completes while the host has data, again  *)
(* after a bus reset; unless the endpoint is stopped by a packet that came   *)
(* before the read or was empty, a packet was longer than what was left of   *)
(* the read (rtos_usb.c:76-78 then misses its end) or USB is shut down.      *)
ReadEnds ==
  read.status ~> (~read.status \/ usb_quit \/ (Waits /\ OutStopped) \/ read.done > read.count)

(* rtos_usb_quit returns: the process it joins stops.                        *)
QuitStops == usb_quit ~> pc = "stopped"

(* The stream has come to what was handed over, less the rest of the send    *)
(* operation and the packet that waits in the IN endpoint.                   *)
Place == handed - (send.count - send.done) - (IF ep_in.ready THEN ep_in.length ELSE 0)

Stream == INSTANCE UsbStream WITH
  place <- Place, received <- host_in, busy <- send.status

(* A send implements the stream of UsbStream: the host has the bytes of each *)
(* buffer in order and once before rtos_usb_wait_until_send_complete ends,   *)
(* but for the one packet a bus reset may cost.                              *)
StreamSpec == Stream!Spec
=============================================================================
