----------------------------- MODULE SerialPort -----------------------------
(***************************************************************************)
(* The serial ports: global_ports.c over rtos_uart.c, rtos_dma.c and dma.c. *)
(*                                                                         *)
(* Every access to a DMA channel goes through one register of the          *)
(* controller that selects it, DMAC_CHID, which all processes share.  A    *)
(* process runs until it waits; next_process polls the ones that wait; the *)
(* controller moves beats between any two steps of either.  The transfers  *)
(* of PORT0 are those of module RtosUsb and are kept as a busy flag.       *)
(***************************************************************************)
EXTENDS Integers, FiniteSets

CONSTANTS
  Proc,          \* the processes that use a port
  Port,          \* the port of each process (Serial_Port_IDs)
  Infinite,      \* the processes that read with serial_read_start_infinite
  Timed,         \* the processes whose reads may have a time-out
  Count          \* the sizes of the buffers they send and read

UartPort == 1 .. 4
Side == {"tx", "rx"}

ASSUME SerialPortAssumption ==
  /\ Port \in [Proc -> {0} \cup UartPort]
  /\ \A p, q \in Proc : p # q /\ Port[p] # 0 => Port[p] # Port[q]
  /\ Infinite \subseteq Proc /\ Timed \subseteq Proc
  /\ Count \subseteq Nat \ {0} /\ \E n \in Count : \A k \in Count : k <= n

-----------------------------------------------------------------------------
(* GNC0200A.h: the channels of a port's descriptor.  0 and 1 are the bus's. *)
Descriptor(n) == [tx |-> 2 * n, rx |-> 2 * n + 1]

Channel == 0 .. 9
SpiChannel == 1

-----------------------------------------------------------------------------
VARIABLES
  pc,        \* where each process is
  op,        \* the transfer it started last: the side, the size, the kind of wait
  expired,   \* the return_deadline of its wait has passed
  chid,      \* DMAC_CHID
  channel,   \* the descriptor, the enable bit, TCMPL and the beats left, by channel
  moved,     \* beats moved since the transfer was started, by channel
  again,     \* the channel was enabled again behind a wait with a time-out
  usb        \* a transfer of PORT0 is under way, by side

vars == <<pc, op, expired, chid, channel, moved, again, usb>>
processes == <<pc, op, expired>>
dma == <<chid, channel, moved, again>>

None == [side |-> "none", count |-> 0, timed |-> FALSE]
Transfer == [side : Side, count : Count, timed : BOOLEAN]
MaxCount == CHOOSE n \in Count : \A k \in Count : k <= n

NoDescriptor == [count |-> 0, loop |-> FALSE]

(* Only channels of the controller are selected, and one that is enabled    *)
(* has beats left to move.                                                 *)
TypeOK ==
  /\ pc \in [Proc -> {"ready", "described", "disabled", "waiting", "timed"}]
  /\ op \in [Proc -> Transfer \cup {None}]
  /\ expired \in [Proc -> BOOLEAN]
  /\ chid \in Channel
  /\ channel \in [Channel -> [descriptor : [count : Nat, loop : BOOLEAN], enabled : BOOLEAN,
                              tcmpl : BOOLEAN, left : Nat]]
  /\ moved \in [Channel -> Nat] /\ again \in [Channel -> BOOLEAN]
  /\ \A c \in Channel : channel[c].enabled => channel[c].left > 0
  /\ usb \in [Side -> BOOLEAN]

Init ==
  /\ pc = [p \in Proc |-> "ready"]
  /\ op = [p \in Proc |-> None]
  /\ expired = [p \in Proc |-> FALSE]
  /\ chid = 0
  /\ channel = [c \in Channel |-> [descriptor |-> NoDescriptor, enabled |-> FALSE,
                                   tcmpl |-> FALSE, left |-> 0]]
  /\ moved = [c \in Channel |-> 0] /\ again = [c \in Channel |-> FALSE]
  /\ usb = [s \in Side |-> FALSE]

ChannelOf(p) == Descriptor(Port[p])[op[p].side]

(* A process that runs is not interrupted by another one. *)
Runs(p) == \A q \in Proc \ {p} : pc[q] \notin {"described", "disabled"}

-----------------------------------------------------------------------------
(* dma.c *)

(* Mutant: the descriptor is linked to itself, as for an infinite read. *)
CreateLinkedDescriptor(c, n, loop) ==
  /\ channel' = [channel EXCEPT ![c].descriptor = [count |-> n, loop |-> TRUE]]
  /\ UNCHANGED <<chid, moved, again>>

(* dma_create_descriptor, while the channel may still be running. *)
CreateDescriptor(c, n, loop) ==
  /\ channel' = [channel EXCEPT ![c].descriptor = [count |-> n, loop |-> loop]]
  /\ UNCHANGED <<chid, moved, again>>

(* dma_disable_channel and dma_init_channel: both select the channel. *)
DisableAndInit(c) ==
  /\ chid' = c
  /\ channel' = [channel EXCEPT ![c].enabled = FALSE]
  /\ UNCHANGED <<moved, again>>

(* Mutant: dma_enable_channel leaves TCMPL as it was. *)
EnabledStale(ch) ==
  IF ch.enabled THEN ch ELSE [ch EXCEPT !.enabled = TRUE, !.left = ch.descriptor.count]

(* dma_enable_channel: a channel that is enabled goes on, another one       *)
(* fetches its descriptor.                                                 *)
Enabled(ch) ==
  LET cleared == [ch EXCEPT !.tcmpl = FALSE]
  IN IF ch.enabled THEN cleared
     ELSE [cleared EXCEPT !.enabled = TRUE, !.left = ch.descriptor.count]

EnableChannel(c) ==
  /\ chid' = c
  /\ channel' = [channel EXCEPT ![c] = Enabled(@)]
  /\ moved' = [moved EXCEPT ![c] = 0] /\ again' = [again EXCEPT ![c] = FALSE]

-----------------------------------------------------------------------------
(* Starting a transfer *)

LoopsOn(p, side) == side = "rx" /\ p \in Infinite

(* serial_write_start, serial_read_start, serial_read_start_infinite: the  *)
(* port selects the device; rtos_uart.c writes the descriptor first.  An   *)
(* infinite read is started once (init_comms, rc_init).  A read may be     *)
(* waited for with a time-out.                                             *)
Start(p, side, n, timed) ==
  /\ pc[p] = "ready" /\ Runs(p)
  /\ timed => side = "rx" /\ p \in Timed /\ Port[p] # 0
  /\ op' = [op EXCEPT ![p] = [side |-> side, count |-> n, timed |-> timed]]
  /\ IF Port[p] = 0
     THEN /\ ~LoopsOn(p, side)   \* there is no infinite read of PORT0
          /\ usb' = [usb EXCEPT ![side] = TRUE]
          /\ pc' = [pc EXCEPT ![p] = "waiting"]
          /\ UNCHANGED <<expired, dma>>
     ELSE /\ LoopsOn(p, side) => ~channel[Descriptor(Port[p]).rx].descriptor.loop
          /\ CreateDescriptor(Descriptor(Port[p])[side], n, LoopsOn(p, side))
          /\ pc' = [pc EXCEPT ![p] = "described"]
          /\ UNCHANGED <<expired, usb>>

StartDisable(p) ==
  /\ pc[p] = "described"
  /\ DisableAndInit(ChannelOf(p))
  /\ pc' = [pc EXCEPT ![p] = "disabled"]
  /\ UNCHANGED <<op, expired, usb>>

(* The transfer runs; the process waits for it, the reader of an infinite  *)
(* buffer never does.  rtos_dma_wait_until_end_or_timeout sets a deadline.  *)
StartEnable(p) ==
  /\ pc[p] = "disabled"
  /\ EnableChannel(ChannelOf(p))
  /\ pc' = [pc EXCEPT ![p] = IF LoopsOn(p, op[p].side) THEN "ready"
                             ELSE IF op[p].timed THEN "timed"
                             ELSE "waiting"]
  /\ UNCHANGED <<op, expired, usb>>

-----------------------------------------------------------------------------
(* Waiting: next_process calls the callback, then tests CHINTFLAG *)

(* Mutant: rtos_dma_wait_until_end_callback does not select the channel. *)
CallbackNone(c) == chid

(* rtos_dma_wait_until_end_callback, rtos_dma_wait_until_end_or_timeout_callback *)
Callback(c) == c

(* rtos_uart_wait_until_send_complete, rtos_uart_wait_until_read_complete *)
Poll(p) ==
  /\ pc[p] = "waiting" /\ Port[p] # 0 /\ Runs(p)
  /\ chid' = Callback(ChannelOf(p))
  /\ pc' = [pc EXCEPT ![p] = IF channel[chid'].tcmpl THEN "ready" ELSE @]
  /\ UNCHANGED <<op, expired, channel, moved, again, usb>>

(* rtos_dma_wait_until_end_or_timeout_callback: t <= 0 *)
TimedOut(p) == expired[p]

(* rtos_uart_wait_until_read_complete_or_timeout enables the channel again. *)
PollTimed(p) ==
  /\ pc[p] = "timed" /\ Runs(p)
  /\ LET own == Callback(ChannelOf(p))
         over == TimedOut(p) \/ channel[own].tcmpl
     IN /\ chid' = own
        /\ pc' = [pc EXCEPT ![p] = IF over THEN "ready" ELSE @]
        /\ channel' = IF over THEN [channel EXCEPT ![own] = Enabled(@)] ELSE channel
        /\ again' = [again EXCEPT ![own] = @ \/ over]
        /\ expired' = [expired EXCEPT ![p] = @ /\ ~over]
  /\ UNCHANGED <<op, moved, usb>>

(* serial_write_wait_until_complete, serial_read_wait_until_complete and the *)
(* wait with a time-out, of PORT0: "USB doesn't time out".                  *)
PollUsb(p) ==
  /\ pc[p] = "waiting" /\ Port[p] = 0 /\ Runs(p)
  /\ ~usb[op[p].side]
  /\ pc' = [pc EXCEPT ![p] = "ready"]
  /\ UNCHANGED <<op, expired, dma, usb>>

-----------------------------------------------------------------------------
(* The controller, the bus process, the USB process and time *)

(* One beat: the last one of a block sets TCMPL and ends the transfer or,   *)
(* when the descriptor is linked to itself, starts it again.                *)
Moved(ch) ==
  IF ch.left > 1 THEN [ch EXCEPT !.left = @ - 1]
  ELSE IF ch.descriptor.loop
       THEN [ch EXCEPT !.left = ch.descriptor.count, !.tcmpl = TRUE]
       ELSE [ch EXCEPT !.left = 0, !.enabled = FALSE, !.tcmpl = TRUE]

Beat(c) ==
  /\ channel[c].enabled
  /\ channel' = [channel EXCEPT ![c] = Moved(@)]
  /\ moved' = [moved EXCEPT ![c] = IF @ <= 2 * MaxCount THEN @ + 1 ELSE @]
  /\ UNCHANGED <<processes, chid, again, usb>>

(* dma_spi.c starts a transfer on the bus's channel and waits for it. *)
SpiStart ==
  /\ \A p \in Proc : Runs(p)
  /\ ~channel[SpiChannel].enabled
  /\ chid' = SpiChannel
  /\ channel' = [channel EXCEPT ![SpiChannel] =
                   Enabled([@ EXCEPT !.descriptor = [count |-> 1, loop |-> FALSE]])]
  /\ moved' = [moved EXCEPT ![SpiChannel] = 0]
  /\ UNCHANGED <<processes, again, usb>>

SpiPoll ==
  /\ \A p \in Proc : Runs(p)
  /\ chid' = Callback(SpiChannel)
  /\ UNCHANGED <<processes, channel, moved, again, usb>>

UsbDone(side) ==
  /\ usb[side]
  /\ usb' = [usb EXCEPT ![side] = FALSE]
  /\ UNCHANGED <<processes, dma>>

Expire(p) ==
  /\ pc[p] = "timed" /\ ~expired[p]
  /\ expired' = [expired EXCEPT ![p] = TRUE]
  /\ UNCHANGED <<pc, op, dma, usb>>

Step(p) ==
  \/ StartDisable(p)
  \/ StartEnable(p)
  \/ Poll(p)
  \/ PollTimed(p)
  \/ PollUsb(p)

Next ==
  \/ \E p \in Proc :
       \/ \E side \in Side, n \in Count, timed \in BOOLEAN : Start(p, side, n, timed)
       \/ Step(p)
       \/ Expire(p)
  \/ \E c \in Channel : Beat(c)
  \/ SpiStart \/ SpiPoll
  \/ \E side \in Side : UsbDone(side)

(* next_process polls every process that waits, whatever ran in between;    *)
(* time goes on, and a buffer that is being sent is sent.  Nothing says     *)
(* that a byte ever arrives.                                                *)
Fairness ==
  /\ \A p \in Proc : SF_vars(Step(p)) /\ WF_vars(Expire(p))
  /\ \A c \in {Descriptor(n).tx : n \in UartPort} : WF_vars(Beat(c))
  /\ WF_vars(UsbDone("tx"))

Spec == Init /\ [][Next]_vars /\ Fairness

-----------------------------------------------------------------------------
(* Properties *)

Returns(p) == pc[p] = "waiting" /\ pc'[p] = "ready" /\ Port[p] # 0

(* A wait without a time-out ends when the process's own transfer has moved *)
(* all its beats: it does not take the flag of another channel, nor the one *)
(* the channel's last transfer left (rtos_dma.c:5-12, dma.c:68-76).         *)
WaitEndsTransfer ==
  [][\A p \in Proc : Returns(p) =>
       moved[ChannelOf(p)] = op[p].count /\ ~channel[ChannelOf(p)].enabled]_vars

(* A transfer of the process on this side is being started, or waited for. *)
Transfers(p, side) == pc[p] # "ready" /\ op[p].side = side

(* Outside its transfers the controller leaves a process's buffers alone,    *)
(* but for the one of a read that was waited for with a time-out: the        *)
(* channel has been enabled again (rtos_uart.c:49), and the rest of the read *)
(* or the bytes of one more go into the buffer, whatever the process does    *)
(* meanwhile, until the next read begins.                                   *)
BufferQuiet ==
  [][\A p \in Proc, side \in Side :
       LET own == Descriptor(Port[p])[side]
       IN Port[p] # 0 /\ ~(side = "rx" /\ p \in Infinite) /\ ~Transfers(p, side)
            /\ moved'[own] > moved[own]
          => again[own] /\ moved'[own] <= 2 * channel[own].descriptor.count]_vars

(* What a process waits for is under way or has its flag set: no process    *)
(* that polls or starts another channel stops it or takes the flag away.   *)
TransferGoesOn ==
  \A p \in Proc : pc[p] = "waiting" /\ Port[p] # 0 =>
    channel[ChannelOf(p)].enabled \/ channel[ChannelOf(p)].tcmpl

(* What is sent is sent, whatever the other processes poll. *)
SendEnds == \A p \in Proc : (pc[p] = "waiting" /\ op[p].side = "tx") ~> (pc[p] = "ready")
=============================================================================
