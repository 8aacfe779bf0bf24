----------------------------- MODULE RtosUsbProofs -----------------------------
(***************************************************************************)
(* The types of the USB process, that no interrupt is lost between the      *)
(* handler, the process and rtos_usb_init, and that what is sent and read   *)
(* is in order, for packets and buffers of any size and any number of bus   *)
(* resets.                                                                 *)
(***************************************************************************)
EXTENDS RtosUsb, SequenceTheorems, TLAPS

(* A send operation has handed over what it has not sent yet. *)
SendInv == send.done <= send.count /\ send.count <= handed

TypeInv == TypeOK /\ SendInv

(* A transfer that is started has its interrupt enabled and no completion. *)
ReadyInv ==
  /\ ep_out.ready => ep_out.enable /\ ~ep_out.flag
  /\ ep_in.ready => ep_in.enable /\ ~ep_in.flag

(* A completion is masked only until the process has handled it. *)
FlagInv ==
  /\ pc # "out" => (ep_out.flag => ep_out.enable)
  /\ pc \notin {"out", "in"} => (ep_in.flag => ep_in.enable)

(* A process that is going to wait, or does, will be told of interrupts. *)
EnabledInv ==
  start = "done" /\ ~usb_quit /\ pc \in {"wait", "send", "read"} => usb_interrupt \/ nvic

(* The process does not run before rtos_usb_init has created it. *)
BornInv == start \in {"off", "attached"} => pc = "unborn"

Inv == ReadyInv /\ FlagInv /\ EnabledInv /\ BornInv

-----------------------------------------------------------------------------
LEMMA StartedIs ==
  ASSUME NEW n \in 0 .. PacketSize
  PROVE  Started(n) \in Bank
BY DEF Started, Bank

LEMMA OffIs == Off \in Bank
BY UsbAssumption DEF Off, Bank

(* At most one packet is filled from a buffer. *)
LEMMA InCountIs ==
  ASSUME NEW count \in Nat
  PROVE  InCount(count) \in 0 .. PacketSize /\ InCount(count) <= count
BY UsbAssumption DEF InCount

(* A function on 1 .. n is a sequence. *)
LEMMA ListOf ==
  ASSUME NEW n \in Nat, NEW S, NEW f \in [1 .. n -> S]
  PROVE  f \in Seq(S) /\ Len(f) = n
<1>1. f \in Seq(S) BY SeqDef
<1> QED BY <1>1, LenProperties

(* What the steps below use of the types. *)
LEMMA SendFacts ==
  ASSUME TypeInv
  PROVE  /\ send.count \in Nat /\ send.done \in Nat
         /\ handed \in Nat /\ handed <= MaxTx /\ MaxTx \in Nat
         /\ send.done <= send.count /\ send.count <= handed
         /\ DOMAIN send = {"status", "count", "done"} /\ send.status \in BOOLEAN
         /\ send = [status |-> send.status, count |-> send.count, done |-> send.done]
BY UsbAssumption DEF TypeInv, TypeOK, SendInv

LEMMA StartInIs ==
  ASSUME NEW base \in Nat, NEW count \in Nat, base + count <= MaxTx, StartIn(base, count)
  PROVE  /\ usb_serial_buffer_in' \in Seq(1 .. MaxTx)
         /\ ep_in' \in Bank
         /\ usb_tx_busy' \in BOOLEAN
<1>1. InCount(count) \in 0 .. PacketSize /\ InCount(count) <= count /\ InCount(count) \in Nat
  BY InCountIs, UsbAssumption
<1>2. usb_serial_buffer_in' = [i \in 1 .. InCount(count) |-> base + i] BY DEF StartIn
<1>3. \A i \in 1 .. InCount(count) : base + i \in 1 .. MaxTx BY <1>1, UsbAssumption
<1>4. usb_serial_buffer_in' \in [1 .. InCount(count) -> 1 .. MaxTx] BY <1>2, <1>3
<1>5. usb_serial_buffer_in' \in Seq(1 .. MaxTx) BY <1>1, <1>4, ListOf
<1> QED BY <1>1, <1>5, StartedIs DEF StartIn

LEMMA InitType == Init => TypeInv
<1> SUFFICES ASSUME Init PROVE TypeInv OBVIOUS
<1>1. 0 \in 0 .. MaxReset /\ 0 \in 0 .. PacketSize /\ 0 \in 0 .. MaxTx /\ 0 \in 0 .. MaxRx
  BY UsbAssumption
<1>2. usb_serial_buffer_out \in [1 .. PacketSize -> 0 .. MaxRx] BY <1>1 DEF Init
<1>3. << >> \in Seq(1 .. MaxTx) /\ << >> \in Seq(0 .. MaxRx) BY EmptySeq
<1>4. Idle \in [status : BOOLEAN, count : Nat, done : Nat] /\ Idle.done <= Idle.count
      /\ Idle.count <= 0
  BY DEF Idle
<1>5. seen \in [ep0 : BOOLEAN, ep2 : BOOLEAN] BY DEF Init, NotSeen
<1>6. TypeOK BY <1>1, <1>2, <1>3, <1>4, <1>5, OffIs DEF Init, TypeOK
<1> QED BY <1>4, <1>6 DEF Init, TypeInv, SendInv

LEMMA SendMoreType == TypeInv /\ SendMore => TypeInv'
<1> SUFFICES ASSUME TypeInv, SendMore PROVE TypeInv' OBVIOUS
<1> DEFINE left == send.count - send.done
<1>1. /\ left \in Nat /\ handed - left \in Nat
      /\ (handed - left) + left <= MaxTx
      /\ send.done + left = send.count
  BY SendFacts
<1>2. UNCHANGED <<start, usb_quit, seen, irq, device, ep_out, out_side, handed, host_in>>
      /\ pc' = "read"
  BY DEF SendMore
<1>3. /\ usb_serial_buffer_in' \in Seq(1 .. MaxTx) /\ ep_in' \in Bank
      /\ usb_tx_busy' \in BOOLEAN
      /\ send' \in [status : BOOLEAN, count : Nat, done : Nat]
      /\ send'.done <= send'.count /\ send'.count <= handed
  <2>1. CASE UNCHANGED <<ep_in, usb_serial_buffer_in, usb_tx_busy>>
             /\ (send' = [send EXCEPT !.status = FALSE] \/ UNCHANGED send)
    BY <2>1 DEF TypeInv, TypeOK, SendInv
  <2>2. CASE StartIn(handed - left, left) /\ send' = [send EXCEPT !.done = @ + InCount(left)]
    <3> HIDE DEF left
    <3>1. /\ usb_serial_buffer_in' \in Seq(1 .. MaxTx) /\ ep_in' \in Bank
          /\ usb_tx_busy' \in BOOLEAN
      BY <1>1, <2>2, StartInIs
    <3>2. InCount(left) \in Nat /\ InCount(left) <= left BY <1>1, InCountIs, UsbAssumption
    <3>3. send' = [status |-> send.status, count |-> send.count, done |-> send.done + InCount(left)]
      BY <2>2, SendFacts
    <3>4. send.done + InCount(left) \in Nat /\ send.done + InCount(left) <= send.count
      BY <1>1, <3>2, SendFacts
    <3> QED BY <3>1, <3>3, <3>4, SendFacts
  <2> QED BY <2>1, <2>2 DEF SendMore
<1> QED BY <1>2, <1>3 DEF TypeInv, TypeOK, SendInv, irq, device, out_side

LEMMA ReadMoreType == TypeInv /\ ReadMore => TypeInv'
<1> SUFFICES ASSUME TypeInv, ReadMore PROVE TypeInv' OBVIOUS
<1>1. 0 \in 0 .. PacketSize /\ Started(0) \in Bank BY UsbAssumption, StartedIs
<1>2. /\ UNCHANGED <<start, usb_quit, seen, irq, device, ep_in, usb_serial_buffer_out,
                     host_out, in_side>>
      /\ pc' = "wait"
  BY DEF ReadMore
<1>3. usb_rx_buffer_length \in Nat /\ usb_rx_buffer_length <= PacketSize /\ PacketSize \in Nat
  BY UsbAssumption DEF TypeInv, TypeOK
<1>4. usb_serial_buffer_out \in Seq(0 .. MaxRx) /\ Len(usb_serial_buffer_out) = PacketSize
  BY <1>3, ListOf DEF TypeInv, TypeOK
<1>5. SubSeq(usb_serial_buffer_out, 1, usb_rx_buffer_length) \in Seq(0 .. MaxRx)
  <2>1. \A i \in 1 .. usb_rx_buffer_length : usb_serial_buffer_out[i] \in 0 .. MaxRx
    BY <1>3 DEF TypeInv, TypeOK
  <2> QED BY <1>3, <2>1, SubSeqProperties
<1>6. read_bytes \o SubSeq(usb_serial_buffer_out, 1, usb_rx_buffer_length) \in Seq(0 .. MaxRx)
  BY <1>5, ConcatProperties DEF TypeInv, TypeOK
<1>7. /\ read_bytes' \in Seq(0 .. MaxRx) /\ ep_out' \in Bank
      /\ usb_rx_buffer_length' \in 0 .. PacketSize
      /\ read' \in [status : BOOLEAN, count : Nat, done : Nat]
  <2>1. CASE UNCHANGED <<read_bytes, ep_out, usb_rx_buffer_length, read>>
    BY <2>1 DEF TypeInv, TypeOK
  <2>2. CASE read.status /\ usb_rx_buffer_length # 0
    <3> DEFINE done == read.done + usb_rx_buffer_length
    <3>1. done \in Nat BY <1>3 DEF TypeInv, TypeOK
    <3>2. read' = [read EXCEPT !.done = done, !.status = read.count # done]
      BY <2>2 DEF ReadMore
    <3>3. read \in [status : BOOLEAN, count : Nat, done : Nat] BY DEF TypeInv, TypeOK
    <3> HIDE DEF done
    <3>4. read' \in [status : BOOLEAN, count : Nat, done : Nat] BY <3>1, <3>2, <3>3
    <3> QED BY <1>1, <1>6, <2>2, <3>4 DEF ReadMore, LengthAfterRead, OutAfterRead
  <2> QED BY <2>1, <2>2 DEF ReadMore
<1> QED BY <1>2, <1>7 DEF TypeInv, TypeOK, SendInv, irq, device, in_side

LEMMA HostSendsType == TypeInv /\ HostSends => TypeInv'
<1> SUFFICES ASSUME TypeInv, HostSends PROVE TypeInv' OBVIOUS
<1>1. PICK n \in 0 .. PacketSize :
        /\ host_out + n <= MaxRx
        /\ usb_serial_buffer_out' =
             [i \in 1 .. PacketSize |-> IF i <= n THEN host_out + i ELSE usb_serial_buffer_out[i]]
        /\ host_out' = host_out + n
        /\ ep_out' = [ep_out EXCEPT !.ready = FALSE, !.flag = TRUE, !.length = n]
  BY DEF HostSends, HostPacket
<1>2. n \in Nat /\ n \in 0 .. PacketSize BY UsbAssumption
<1>3. host_out \in Nat /\ host_out <= MaxRx /\ MaxRx \in Nat /\ PacketSize \in Nat
  BY UsbAssumption DEF TypeInv, TypeOK
<1>4. \A i \in 1 .. PacketSize : usb_serial_buffer_out[i] \in 0 .. MaxRx BY DEF TypeInv, TypeOK
<1>5. \A i \in 1 .. PacketSize : i <= n => host_out + i \in 0 .. MaxRx BY <1>1, <1>2, <1>3
<1>6. usb_serial_buffer_out' \in [1 .. PacketSize -> 0 .. MaxRx] BY <1>1, <1>4, <1>5
<1>7. ep_out' \in Bank BY <1>1, <1>2 DEF Bank, TypeInv, TypeOK
<1>8. host_out' \in 0 .. MaxRx BY <1>1, <1>2, <1>3
<1>9. UNCHANGED <<control, irq, device, ep_in, usb_rx_buffer_length, read, read_bytes, in_side>>
  BY DEF HostSends, HostPacket
<1> QED BY <1>6, <1>7, <1>8, <1>9 DEF TypeInv, TypeOK, SendInv, control, irq, device, in_side

(* The types of what steers the process, and of the data it moves. *)
FlowType ==
  /\ start \in {"off", "attached", "started", "done"}
  /\ pc \in {"unborn", "wait", "handle", "reset", "control", "mask", "out", "in",
             "enable", "send", "read", "stopped"}
  /\ {nvic, usb_interrupt, usb_quit, eorst, setup, attached} \subseteq BOOLEAN
  /\ bus \in {"idle", "reset", "configured"}
  /\ resets \in 0 .. MaxReset
  /\ seen \in [ep0 : BOOLEAN, ep2 : BOOLEAN]

DataType ==
  /\ usb_tx_busy \in BOOLEAN
  /\ ep_out \in Bank /\ ep_in \in Bank
  /\ usb_serial_buffer_out \in [1 .. PacketSize -> 0 .. MaxRx]
  /\ usb_serial_buffer_in \in Seq(1 .. MaxTx)
  /\ usb_rx_buffer_length \in 0 .. PacketSize
  /\ send \in [status : BOOLEAN, count : Nat, done : Nat]
  /\ read \in [status : BOOLEAN, count : Nat, done : Nat]
  /\ handed \in 0 .. MaxTx /\ host_out \in 0 .. MaxRx
  /\ host_in \in Seq(1 .. MaxTx) /\ read_bytes \in Seq(0 .. MaxRx)
  /\ SendInv

LEMMA TypeParts == TypeInv <=> FlowType /\ DataType
BY DEF TypeInv, TypeOK, FlowType, DataType

LEMMA DataKept ==
  ASSUME DataType, UNCHANGED <<banks, out_side, in_side>>
  PROVE  DataType'
BY DEF DataType, SendInv, banks, out_side, in_side

(* A step that moves no data keeps the types if it keeps those of the flow. *)
LEMMA FlowStep ==
  ASSUME TypeInv, UNCHANGED <<banks, out_side, in_side>>, FlowType => FlowType'
  PROVE  TypeInv'
<1>1. FlowType /\ DataType BY TypeParts
<1>2. FlowType' /\ DataType' BY <1>1, DataKept
<1>3. (TypeInv <=> FlowType /\ DataType)' BY TypeParts, PTL
<1> QED BY <1>2, <1>3

LEMMA TypeStep == TypeInv /\ [Next]_vars => TypeInv'
<1> SUFFICES ASSUME TypeInv, [Next]_vars
             PROVE  TypeInv'
  OBVIOUS
<1>1. CASE Attach
  <2>1. FlowType => FlowType' BY <1>1 DEF FlowType, Attach
  <2>2. UNCHANGED <<banks, out_side, in_side>> BY <1>1 DEF Attach
  <2> QED BY <2>1, <2>2, FlowStep
<1>2. CASE ProcStart
  <2>1. FlowType => FlowType' BY <1>2 DEF FlowType, ProcStart, device
  <2>2. UNCHANGED <<banks, out_side, in_side>> BY <1>2 DEF ProcStart
  <2> QED BY <2>1, <2>2, FlowStep
<1>3. CASE InitEnd
  <2>1. FlowType => FlowType' BY <1>3 DEF FlowType, InitEnd, device
  <2>2. UNCHANGED <<banks, out_side, in_side>> BY <1>3 DEF InitEnd
  <2> QED BY <2>1, <2>2, FlowStep
<1>4. CASE USB_Handler
  <2>1. FlowType => FlowType' BY <1>4 DEF FlowType, USB_Handler, control, device
  <2>2. UNCHANGED <<banks, out_side, in_side>> BY <1>4 DEF USB_Handler
  <2> QED BY <2>1, <2>2, FlowStep
<1>5. CASE Wake
  <2>1. FlowType => FlowType' BY <1>5 DEF FlowType, Wake, device
  <2>2. UNCHANGED <<banks, out_side, in_side>> BY <1>5 DEF Wake
  <2> QED BY <2>1, <2>2, FlowStep
<1>6. CASE ReadStatus
  <2>1. FlowType => FlowType' BY <1>6 DEF FlowType, ReadStatus, irq, device
  <2>2. UNCHANGED <<banks, out_side, in_side>> BY <1>6 DEF ReadStatus
  <2> QED BY <2>1, <2>2, FlowStep
<1>7. CASE HandleReset
  <2>1. FlowType => FlowType' BY <1>7 DEF FlowType, HandleReset, AfterReset, NotSeen, irq
  <2>2. UNCHANGED <<banks, out_side, in_side>> BY <1>7 DEF HandleReset
  <2> QED BY <2>1, <2>2, FlowStep
<1>12. CASE HandleEnd
  <2>1. FlowType => FlowType' BY <1>12 DEF FlowType, HandleEnd, device
  <2>2. UNCHANGED <<banks, out_side, in_side>> BY <1>12 DEF HandleEnd
  <2> QED BY <2>1, <2>2, FlowStep
<1>17. CASE Quit
  <2>1. FlowType => FlowType' BY <1>17 DEF FlowType, Quit
  <2>2. UNCHANGED <<banks, out_side, in_side>> BY <1>17 DEF Quit
  <2> QED BY <2>1, <2>2, FlowStep
<1>19. CASE HostConfigures
  <2>1. FlowType => FlowType' BY <1>19 DEF FlowType, HostConfigures, control, irq
  <2>2. UNCHANGED <<banks, out_side, in_side>> BY <1>19 DEF HostConfigures
  <2> QED BY <2>1, <2>2, FlowStep
<1>18a. ASSUME BusReset PROVE resets' \in 0 .. MaxReset
  <2>1. resets \in 0 .. MaxReset /\ MaxReset \in Nat BY UsbAssumption, Zenon DEF TypeInv, TypeOK
  <2>2. resets' = resets \/ (resets < MaxReset /\ resets' = resets + 1)
    BY <1>18a DEF BusReset
  <2> QED BY <2>1, <2>2
<1> USE DEF TypeInv, TypeOK, SendInv, control, irq, device, banks, out_side, in_side
<1>8. CASE HandleControl
  <2>1. 0 \in 0 .. PacketSize BY UsbAssumption
  <2>2. Started(0) \in Bank /\ EnabledIn \in Bank BY <2>1, StartedIs DEF EnabledIn, Bank
  <2> QED BY <1>8, <2>2 DEF HandleControl, BusyAfterInit
<1>9. CASE MaskFlags
  <2>1. ep_out' \in Bank /\ ep_in' \in Bank BY <1>9 DEF MaskFlags, Bank
  <2>2. seen' \in [ep0 : BOOLEAN, ep2 : BOOLEAN] BY <1>9 DEF MaskFlags, NotSeen
  <2> QED BY <1>9, <2>1, <2>2 DEF MaskFlags
<1>10. CASE CompleteOut
  <2>1. ep_out' \in Bank /\ usb_rx_buffer_length' \in 0 .. PacketSize
    BY <1>10 DEF CompleteOut, Bank
  <2> QED BY <1>10, <2>1 DEF CompleteOut
<1>11. CASE CompleteIn
  <2>1. ep_in' \in Bank /\ usb_tx_busy' \in BOOLEAN BY <1>11 DEF CompleteIn, Bank
  <2> QED BY <1>11, <2>1 DEF CompleteIn
<1>13. CASE SendMore BY <1>13, SendMoreType
<1>14. CASE ReadMore BY <1>14, ReadMoreType
<1>15. CASE StartSend
  <2>1. PICK count \in SendCounts :
          /\ handed + count <= MaxTx
          /\ handed' = handed + count
          /\ send' = [status |-> TRUE, count |-> count, done |-> InCount(count)]
          /\ StartIn(handed, count)
    BY <1>15 DEF StartSend
  <2>2. count \in Nat /\ handed \in Nat /\ handed' \in 0 .. MaxTx BY <2>1, UsbAssumption
  <2>3. /\ usb_serial_buffer_in' \in Seq(1 .. MaxTx) /\ ep_in' \in Bank
        /\ usb_tx_busy' \in BOOLEAN
    BY <2>1, <2>2, StartInIs
  <2>4. InCount(count) \in Nat /\ InCount(count) <= count BY <2>2, InCountIs, UsbAssumption
  <2>5. send' \in [status : BOOLEAN, count : Nat, done : Nat]
        /\ send'.done <= send'.count /\ send'.count <= handed'
    BY <2>1, <2>2, <2>4
  <2> QED BY <1>15, <2>2, <2>3, <2>5 DEF StartSend
<1>16. CASE StartRead
  <2>1. read' \in [status : BOOLEAN, count : Nat, done : Nat] BY <1>16, UsbAssumption DEF StartRead
  <2> QED BY <1>16, <2>1 DEF StartRead
<1>18. CASE BusReset
  <2> QED BY <1>18, <1>18a, OffIs, ZenonT(40) DEF BusReset
<1>20. CASE HostTakes
  <2>1. ep_in' \in Bank BY <1>20 DEF HostTakes, Bank
  <2>2. host_in' \in Seq(1 .. MaxTx) BY <1>20, ConcatProperties DEF HostTakes
  <2> QED BY <1>20, <2>1, <2>2 DEF HostTakes
<1>21. CASE HostSends BY <1>21, HostSendsType
<1>22. CASE UNCHANGED vars BY <1>22 DEF vars
<1> QED
  BY <1>1, <1>2, <1>3, <1>4, <1>5, <1>6, <1>7, <1>8, <1>9, <1>10, <1>11, <1>12, <1>13, <1>14,
     <1>15, <1>16, <1>17, <1>18, <1>19, <1>20, <1>21, <1>22
  DEF Next, UsbProcess

(* No packet is longer than a buffer, and only bytes that were handed over   *)
(* or sent are on their way.                                               *)
THEOREM TypeCorrect == Spec => []TypeOK
<1>1. Spec => []TypeInv BY InitType, TypeStep, PTL DEF Spec
<1> QED BY <1>1, PTL DEF TypeInv
-----------------------------------------------------------------------------
LEMMA InitInv == Init => Inv
BY DEF Init, Inv, ReadyInv, FlagInv, EnabledInv, BornInv, Off

(* What the steps below use of the types. *)
LEMMA BankFacts ==
  ASSUME TypeInv
  PROVE  /\ DOMAIN ep_out = {"ready", "flag", "enable", "length"}
         /\ DOMAIN ep_in = {"ready", "flag", "enable", "length"}
         /\ {ep_out.ready, ep_out.flag, ep_out.enable} \subseteq BOOLEAN
         /\ {ep_in.ready, ep_in.flag, ep_in.enable} \subseteq BOOLEAN
         /\ nvic \in BOOLEAN /\ usb_interrupt \in BOOLEAN /\ usb_quit \in BOOLEAN
BY DEF TypeInv, TypeOK, Bank

LEMMA InvStep == TypeInv /\ Inv /\ [Next]_vars => Inv'
<1> SUFFICES ASSUME TypeInv, Inv, [Next]_vars
             PROVE  Inv'
  OBVIOUS
<1>0. /\ DOMAIN ep_out = {"ready", "flag", "enable", "length"}
      /\ DOMAIN ep_in = {"ready", "flag", "enable", "length"}
      /\ {ep_out.ready, ep_out.flag, ep_out.enable} \subseteq BOOLEAN
      /\ {ep_in.ready, ep_in.flag, ep_in.enable} \subseteq BOOLEAN
      /\ nvic \in BOOLEAN /\ usb_interrupt \in BOOLEAN /\ usb_quit \in BOOLEAN
  BY BankFacts
<1> USE DEF Inv, ReadyInv, FlagInv, EnabledInv, BornInv, control, irq, device, banks, out_side,
           in_side
<1>1. CASE Attach BY <1>1 DEF Attach
<1>2. CASE ProcStart BY <1>2 DEF ProcStart
<1>3. CASE InitEnd BY <1>3 DEF InitEnd
<1>4. CASE USB_Handler BY <1>4 DEF USB_Handler
<1>5. CASE Wake BY <1>5 DEF Wake
<1>6. CASE ReadStatus BY <1>6 DEF ReadStatus
<1>7. CASE HandleReset BY <1>7 DEF HandleReset, AfterReset
<1>8. CASE HandleControl BY <1>0, <1>8 DEF HandleControl, Started, EnabledIn
<1>9. CASE MaskFlags BY <1>0, <1>9 DEF MaskFlags
<1>10. CASE CompleteOut BY <1>0, <1>10 DEF CompleteOut
<1>11. CASE CompleteIn BY <1>0, <1>11 DEF CompleteIn
<1>12. CASE HandleEnd BY <1>12 DEF HandleEnd
<1>13. CASE SendMore
  <2>1. UNCHANGED ep_in \/ \E n : ep_in' = Started(n) BY <1>13 DEF SendMore, StartIn
  <2>2. UNCHANGED <<start, usb_quit, irq, ep_out>> /\ pc = "send" /\ pc' = "read"
    BY <1>13 DEF SendMore
  <2> QED BY <2>1, <2>2 DEF Started
<1>14. CASE ReadMore
  <2>1. UNCHANGED ep_out \/ ep_out' = Started(0) BY <1>14 DEF ReadMore, OutAfterRead
  <2>2. UNCHANGED <<start, usb_quit, irq, ep_in>> /\ pc = "read" /\ pc' = "wait"
    BY <1>14 DEF ReadMore
  <2> QED BY <2>1, <2>2 DEF Started
<1>15. CASE StartSend
  <2>1. \E n : ep_in' = Started(n) BY <1>15 DEF StartSend, StartIn
  <2>2. UNCHANGED <<start, pc, usb_quit, irq, ep_out>> BY <1>15 DEF StartSend
  <2> QED BY <2>1, <2>2 DEF Started
<1>16. CASE StartRead BY <1>16 DEF StartRead
<1>17. CASE Quit BY <1>17 DEF Quit
<1>18. CASE BusReset BY <1>18 DEF BusReset, Off
<1>19. CASE HostConfigures BY <1>19 DEF HostConfigures
<1>20. CASE HostTakes BY <1>0, <1>20 DEF HostTakes
<1>21. CASE HostSends
  <2>1. \E n : ep_out' = [ep_out EXCEPT !.ready = FALSE, !.flag = TRUE, !.length = n]
    BY <1>21 DEF HostSends, HostPacket
  <2>2. UNCHANGED <<start, pc, usb_quit, irq, ep_in>> /\ ep_out.ready BY <1>21 DEF HostSends, HostPacket
  <2> QED BY <1>0, <2>1, <2>2
<1>22. CASE UNCHANGED vars BY <1>22 DEF vars
<1> QED
  BY <1>1, <1>2, <1>3, <1>4, <1>5, <1>6, <1>7, <1>8, <1>9, <1>10, <1>11, <1>12, <1>13, <1>14,
     <1>15, <1>16, <1>17, <1>18, <1>19, <1>20, <1>21, <1>22
  DEF Next, UsbProcess

(* While the USB process waits (rtos_usb.c:57), every bus reset, request or   *)
(* completion that is not handled yet wakes it or still can.                 *)
THEOREM Overlooked == Spec => []NothingOverlooked
<1>1. Inv => NothingOverlooked
  BY DEF Inv, FlagInv, EnabledInv, NothingOverlooked, Line
<1>2. Spec => [](TypeInv /\ Inv)
  BY InitType, TypeStep, InitInv, InvStep, PTL DEF Spec
<1> QED BY <1>1, <1>2, PTL
-----------------------------------------------------------------------------
(* Sending. The buffer the endpoint sends from holds the bytes that come    *)
(* next while the host can take it, and a send ends with no packet under    *)
(* way.                                                                     *)
InBuffer ==
  ep_in.ready => /\ usb_tx_busy /\ ep_in.length >= 1
                 /\ usb_serial_buffer_in = [i \in 1 .. ep_in.length |-> Place + i]

SendIdle == ~send.status => send.done = send.count /\ ~usb_tx_busy

(* Nothing is sent before the first bus reset, and completions come of a    *)
(* configured device.                                                       *)
BusInv ==
  /\ bus = "idle" => ~send.status
  /\ setup => bus = "reset"
  /\ bus # "configured" => ~ep_in.flag

(* A bus reset takes the packet in the endpoint, or lets the process start  *)
(* one that SetConfiguration takes; never both: a packet that is taken      *)
(* leaves usb_tx_busy set until SetConfiguration.                           *)
LossInv ==
  /\ Place <= Len(host_in) + PacketSize * resets
  /\ bus = "reset" /\ send.status /\ (ep_in.ready \/ ~usb_tx_busy)
       => Place <= Len(host_in) + PacketSize * resets - PacketSize

StreamInv == InBuffer /\ SendIdle /\ BusInv /\ LossInv

LEMMA PlaceIs ==
  ASSUME TypeInv
  PROVE  /\ Place \in Int /\ ep_in.length \in Nat /\ ep_in.length <= PacketSize /\ PacketSize \in Nat
         /\ Place + (IF ep_in.ready THEN ep_in.length ELSE 0) <= handed
         /\ host_in \in Seq(1 .. MaxTx) /\ Len(host_in) \in Nat /\ resets \in Nat
         /\ PacketSize * resets \in Nat
<1>1. /\ ep_in.length \in Nat /\ ep_in.length <= PacketSize /\ PacketSize \in Nat
      /\ host_in \in Seq(1 .. MaxTx) /\ resets \in Nat
  BY UsbAssumption DEF TypeInv, TypeOK, Bank
<1>2. Place \in Int /\ Place + (IF ep_in.ready THEN ep_in.length ELSE 0) <= handed
  BY <1>1, SendFacts DEF Place
<1> QED BY <1>1, <1>2, LenProperties

LEMMA InitStream == Init => StreamInv /\ Stream!Init
<1> SUFFICES ASSUME Init PROVE StreamInv /\ Stream!Init OBVIOUS
<1>1. /\ Place = 0 /\ host_in = << >> /\ Len(host_in) = 0 /\ resets = 0 /\ PacketSize * 0 = 0
      /\ ep_in = Off /\ send = Idle /\ bus = "idle" /\ ~setup /\ ~usb_tx_busy
  BY UsbAssumption, EmptySeq DEF Init, Place, Idle, Off
<1>2. StreamInv
  BY <1>1 DEF StreamInv, InBuffer, SendIdle, BusInv, LossInv, Off, Idle
<1> QED BY <1>1, <1>2 DEF Init, Stream!Init, Idle

SendSide == <<handed, send, ep_in, host_in, resets, usb_serial_buffer_in, usb_tx_busy, bus, setup>>

(* Steps that leave the transmission alone. *)
LEMMA StreamSame ==
  ASSUME StreamInv, UNCHANGED SendSide
  PROVE  StreamInv' /\ UNCHANGED Stream!vars
BY DEF StreamInv, InBuffer, SendIdle, BusInv, LossInv, Place, SendSide, Stream!vars

(* Steps that only change the interrupt's side of the bank, or the bus.     *)
LEMMA StreamBank ==
  ASSUME StreamInv, UNCHANGED <<handed, send, host_in, resets, usb_serial_buffer_in, usb_tx_busy, bus>>,
         ep_in'.ready = ep_in.ready, ep_in'.length = ep_in.length, BusInv'
  PROVE  StreamInv' /\ UNCHANGED Stream!vars
BY DEF StreamInv, InBuffer, SendIdle, LossInv, Place, Stream!vars

LEMMA StartInStream ==
  ASSUME NEW base \in Nat, NEW count \in Nat, count > 0, StartIn(base, count)
  PROVE  /\ ep_in'.ready /\ ~ep_in'.flag /\ ep_in'.length = InCount(count)
         /\ InCount(count) \in 1 .. count
         /\ usb_serial_buffer_in' = [i \in 1 .. InCount(count) |-> base + i]
         /\ usb_tx_busy'
BY UsbAssumption DEF StartIn, Started, InCount

LEMMA StreamStartSend ==
  ASSUME TypeInv, Inv, StreamInv, StartSend
  PROVE  StreamInv' /\ [Stream!Next]_(Stream!vars)
<1>1. PICK count \in SendCounts :
        /\ handed + count <= MaxTx
        /\ handed' = handed + count
        /\ send' = [status |-> TRUE, count |-> count, done |-> InCount(count)]
        /\ StartIn(handed, count)
  BY DEF StartSend
<1>2. /\ bus = "configured" /\ ~send.status /\ bus' = bus /\ setup' = setup /\ resets' = resets
      /\ host_in' = host_in
  BY DEF StartSend, device
<1>3. count \in Nat /\ count > 0 /\ handed \in Nat /\ MaxTx \in Nat BY UsbAssumption, SendFacts
<1>4. /\ ep_in'.ready /\ ~ep_in'.flag /\ ep_in'.length = InCount(count)
      /\ InCount(count) \in 1 .. count
      /\ usb_serial_buffer_in' = [i \in 1 .. InCount(count) |-> handed + i]
      /\ usb_tx_busy'
  BY <1>1, <1>3, StartInStream
<1>5. Place = handed
  <2>1. ~ep_in.ready /\ send.done = send.count BY <1>2 DEF StreamInv, InBuffer, SendIdle
  <2> QED BY <2>1, SendFacts DEF Place
<1>6. Place' = handed
  <2>1. Place' = handed' - (send'.count - send'.done) - ep_in'.length
    BY <1>4 DEF Place
  <2>2. handed' = handed + count /\ send'.count = count /\ send'.done = InCount(count)
        /\ ep_in'.length = InCount(count)
    BY <1>1, <1>4
  <2> QED BY <1>3, <1>4, <2>1, <2>2
<1>7. InBuffer' BY <1>4, <1>6 DEF InBuffer
<1>8. SendIdle' /\ send'.status BY <1>1 DEF SendIdle
<1>9. BusInv' BY <1>2, <1>4 DEF BusInv, StreamInv
<1>10. LossInv' BY <1>2, <1>5, <1>6 DEF StreamInv, LossInv
<1>11. Stream!Hand
  <2>1. handed' \in handed + 1 .. MaxTx BY <1>1, <1>3
  <2> QED BY <1>2, <1>5, <1>6, <1>8, <2>1 DEF Stream!Hand
<1> QED BY <1>7, <1>8, <1>9, <1>10, <1>11 DEF StreamInv, Stream!Next

LEMMA StreamSendMore ==
  ASSUME TypeInv, Inv, StreamInv, SendMore
  PROVE  StreamInv' /\ [Stream!Next]_(Stream!vars)
<1> DEFINE left == send.count - send.done
<1>1. UNCHANGED <<handed, host_in, resets, bus, setup>> BY DEF SendMore, device
<1>2. CASE SendTurn /\ left = 0 /\ send' = [send EXCEPT !.status = FALSE]
           /\ UNCHANGED <<ep_in, usb_serial_buffer_in, usb_tx_busy>>
  <2>1. /\ send.status /\ ~usb_tx_busy /\ ~ep_in.ready
    BY <1>2 DEF SendTurn, StreamInv, InBuffer
  <2>2. send' = [status |-> FALSE, count |-> send.count, done |-> send.done]
    BY <1>2, SendFacts
  <2>3. Place = handed /\ Place' = handed
    BY <1>1, <1>2, <2>1, <2>2, SendFacts DEF Place
  <2>4. send.done = send.count BY <1>2, SendFacts
  <2>5. StreamInv'
    BY <1>1, <1>2, <2>1, <2>2, <2>3, <2>4 DEF StreamInv, InBuffer, SendIdle, BusInv, LossInv
  <2>6. Stream!Complete BY <1>1, <2>1, <2>2, <2>3 DEF Stream!Complete
  <2> QED BY <2>5, <2>6 DEF Stream!Next
<1>3. CASE SendTurn /\ left > 0 /\ StartIn(handed - left, left)
           /\ send' = [send EXCEPT !.done = @ + InCount(left)]
  <2>1. /\ send.status /\ ~usb_tx_busy /\ ~ep_in.ready
    BY <1>3 DEF SendTurn, StreamInv, InBuffer
  <2>2. left \in Nat /\ handed - left \in Nat /\ handed \in Nat BY SendFacts
  <2>3. send' = [status |-> TRUE, count |-> send.count, done |-> send.done + InCount(left)]
    BY <1>3, <2>1, SendFacts
  <2>4. Place = handed - left BY <2>1, <2>2 DEF Place
  <2>5. /\ ep_in'.ready /\ ~ep_in'.flag /\ ep_in'.length = InCount(left)
        /\ InCount(left) \in 1 .. left
        /\ usb_serial_buffer_in' = [i \in 1 .. InCount(left) |-> handed - left + i]
        /\ usb_tx_busy'
    <3> HIDE DEF left
    <3> QED BY <1>3, <2>2, StartInStream
  <2>6. Place' = handed - left
    <3>1. Place' = handed - (send.count - (send.done + InCount(left))) - InCount(left)
      BY <1>1, <2>3, <2>5 DEF Place
    <3>2. InCount(left) \in Int BY <2>5
    <3> QED BY <3>1, <3>2, SendFacts
  <2>7. InBuffer'
    <3> HIDE DEF left
    <3>1. ep_in'.length >= 1 BY <2>5
    <3> QED BY <2>5, <2>6, <3>1 DEF InBuffer
  <2>8. SendIdle' /\ BusInv' BY <1>1, <2>1, <2>3, <2>5 DEF StreamInv, SendIdle, BusInv
  <2>9. LossInv' BY <1>1, <2>1, <2>4, <2>6 DEF StreamInv, LossInv
  <2>10. UNCHANGED Stream!vars BY <1>1, <2>1, <2>3, <2>4, <2>6 DEF Stream!vars
  <2> QED BY <2>7, <2>8, <2>9, <2>10 DEF StreamInv
<1>4. CASE UNCHANGED <<ep_in, usb_serial_buffer_in, usb_tx_busy, send>>
  BY <1>1, <1>4, StreamSame DEF SendSide
<1> QED BY <1>2, <1>3, <1>4 DEF SendMore

(* Where packets are lost. *)
LEMMA PacketLost ==
  ASSUME TypeInv, StreamInv, UNCHANGED <<handed, host_in, send>>, ~ep_in'.ready
  PROVE  /\ ~ep_in.ready => Place' = Place
         /\ ep_in.ready => /\ Place' = Place + ep_in.length /\ Place' \in Place + 1 .. handed
                           /\ Place' <= Place + PacketSize /\ usb_tx_busy /\ send.status
         /\ Place' \in Int
<1>1. Place' = handed - (send.count - send.done)
  <2>1. Place' = handed - (send.count - send.done) - 0 BY DEF Place
  <2> QED BY <2>1, SendFacts
<1>2. Place = handed - (send.count - send.done) - (IF ep_in.ready THEN ep_in.length ELSE 0)
  BY DEF Place
<1>3. ep_in.ready => ep_in.length >= 1 /\ usb_tx_busy /\ send.status
  BY DEF StreamInv, InBuffer, SendIdle
<1> QED BY <1>1, <1>2, <1>3, PlaceIs, SendFacts, SMTT(40)

LEMMA StreamBusReset ==
  ASSUME TypeInv, Inv, StreamInv, BusReset
  PROVE  StreamInv' /\ [Stream!Next]_(Stream!vars)
<1>1. /\ UNCHANGED <<handed, host_in, send, usb_serial_buffer_in, usb_tx_busy>>
      /\ bus' = "reset" /\ setup' = FALSE /\ ep_in' = Off
  BY DEF BusReset, in_side
<1>2. ~ep_in'.ready /\ ~ep_in'.flag BY <1>1 DEF Off
<1>3. InBuffer' /\ SendIdle' /\ BusInv'
  BY <1>1, <1>2 DEF StreamInv, InBuffer, SendIdle, BusInv
<1>4. CASE bus = "idle"
  <2>1. resets' = resets /\ ~send.status /\ ~ep_in.ready
    BY <1>4 DEF BusReset, StreamInv, BusInv, InBuffer, SendIdle
  <2>2. Place' = Place BY <1>1, <1>2, <2>1, PacketLost
  <2>3. LossInv' BY <1>1, <1>2, <2>1, <2>2 DEF StreamInv, LossInv
  <2> QED BY <1>1, <1>3, <2>1, <2>2, <2>3 DEF StreamInv, Stream!vars
<1>5. CASE bus # "idle"
  <2>1. resets' = resets + 1 BY <1>5 DEF BusReset
  <2>2. PacketSize * resets' = PacketSize * resets + PacketSize
    BY <2>1, PlaceIs
  <2>3. Place <= Len(host_in) + PacketSize * resets BY DEF StreamInv, LossInv
  <2> DEFINE X == PacketSize * resets
             Y == PacketSize * resets'
  <2>4. X \in Nat /\ Y = X + PacketSize /\ PacketSize \in Nat /\ Len(host_in) \in Nat
    BY <2>2, PlaceIs
  <2> HIDE DEF X, Y
  <2>5. CASE ~ep_in.ready
    <3>1. Place' = Place /\ Place \in Int BY <1>1, <1>2, <2>5, PacketLost, PlaceIs
    <3>2. Place <= Len(host_in) + X BY <2>3 DEF X
    <3>3. Place' <= Len(host_in) + Y /\ Place' <= Len(host_in) + Y - PacketSize
      BY <2>4, <3>1, <3>2
    <3>4. LossInv' BY <1>1, <3>3 DEF LossInv, Y
    <3>5. Stream!Reset BY <1>1, <2>1, <3>1 DEF Stream!Reset
    <3> QED BY <1>3, <3>4, <3>5 DEF StreamInv, Stream!Next
  <2>6. CASE ep_in.ready
    <3>1. /\ Place' \in Place + 1 .. handed /\ Place' <= Place + PacketSize /\ usb_tx_busy
          /\ Place' \in Int /\ Place \in Int
      BY <1>1, <1>2, <2>6, PacketLost, PlaceIs
    <3>2. Place <= Len(host_in) + X BY <2>3 DEF X
    <3>3. Place' <= Len(host_in) + Y BY <2>4, <3>1, <3>2
    <3>4. LossInv' BY <1>1, <1>2, <3>1, <3>3 DEF LossInv, Y
    <3>5. Stream!Reset BY <1>1, <2>1, <3>1, <3>3 DEF Stream!Reset, Stream!Lose, Y
    <3> QED BY <1>3, <3>4, <3>5 DEF StreamInv, Stream!Next
  <2> QED BY <2>5, <2>6
<1> QED BY <1>4, <1>5

LEMMA StreamControl ==
  ASSUME TypeInv, Inv, StreamInv, HandleControl
  PROVE  StreamInv' /\ [Stream!Next]_(Stream!vars)
<1>1. UNCHANGED <<handed, host_in, send, usb_serial_buffer_in, resets>> BY DEF HandleControl
<1>2. CASE ~(seen.ep0 /\ setup)
  BY <1>1, <1>2, StreamSame DEF HandleControl, banks, SendSide
<1>3. CASE seen.ep0 /\ setup
  <2>1. /\ setup' = FALSE /\ bus = "reset" /\ bus' = "configured" /\ ~ep_in'.ready
        /\ usb_tx_busy' = FALSE
    BY <1>3, BankFacts DEF HandleControl, EnabledIn, BusyAfterInit, StreamInv, BusInv
  <2>2. InBuffer' /\ SendIdle' /\ BusInv'
    BY <1>1, <2>1 DEF StreamInv, InBuffer, SendIdle, BusInv
  <2>3. CASE ~ep_in.ready
    <3>1. Place' = Place BY <1>1, <2>1, <2>3, PacketLost
    <3>2. LossInv' BY <1>1, <2>1, <3>1 DEF StreamInv, LossInv
    <3> QED BY <1>1, <2>2, <3>1, <3>2 DEF StreamInv, Stream!vars
  <2>4. CASE ep_in.ready
    <3>1. /\ Place' \in Place + 1 .. handed /\ Place' <= Place + PacketSize /\ send.status
          /\ Place' \in Int /\ Place \in Int
      BY <1>1, <2>1, <2>4, PacketLost, PlaceIs
    <3>2. Place <= Len(host_in) + PacketSize * resets - PacketSize
      BY <2>1, <2>4, <3>1 DEF StreamInv, LossInv
    <3>3. Place' <= Len(host_in) + PacketSize * resets
      <4> DEFINE X == PacketSize * resets
      <4>1. X \in Nat /\ PacketSize \in Nat /\ Len(host_in) \in Nat BY PlaceIs
      <4>2. Place <= Len(host_in) + X - PacketSize BY <3>2
      <4> HIDE DEF X
      <4>3. Place' <= Len(host_in) + X BY <3>1, <4>1, <4>2
      <4> QED BY <4>3 DEF X
    <3>4. LossInv' BY <1>1, <2>1, <3>3 DEF LossInv
    <3>5. Stream!Lose /\ UNCHANGED resets BY <1>1, <3>1, <3>3 DEF Stream!Lose
    <3> QED BY <2>2, <3>4, <3>5 DEF StreamInv, Stream!Next
  <2> QED BY <2>3, <2>4
<1> QED BY <1>2, <1>3

LEMMA StreamTakes ==
  ASSUME TypeInv, Inv, StreamInv, HostTakes
  PROVE  StreamInv' /\ [Stream!Next]_(Stream!vars)
<1>1. /\ UNCHANGED <<handed, send, resets, bus, setup, usb_serial_buffer_in, usb_tx_busy>>
      /\ bus = "configured" /\ ep_in.ready
      /\ host_in' = host_in \o usb_serial_buffer_in
      /\ ep_in' = [ep_in EXCEPT !.ready = FALSE, !.flag = TRUE]
  BY DEF HostTakes, device
<1>2. ~ep_in'.ready BY <1>1, BankFacts
<1>3. /\ ep_in.length >= 1
      /\ usb_serial_buffer_in = [i \in 1 .. ep_in.length |-> Place + i]
  BY <1>1 DEF StreamInv, InBuffer
<1>4. Place' = Place + ep_in.length /\ Place \in Int /\ ep_in.length \in Nat
      /\ Place' \in Place + 1 .. handed
  <2>1. Place' = handed - (send.count - send.done) - 0 BY <1>1, <1>2 DEF Place
  <2>2. Place = handed - (send.count - send.done) - ep_in.length BY <1>1 DEF Place
  <2>3. /\ handed \in Nat /\ send.count \in Nat /\ send.done \in Nat /\ send.done <= send.count
        /\ ep_in.length \in Nat /\ ep_in.length >= 1
    BY <1>3, PlaceIs, SendFacts
  <2> DEFINE p == handed - (send.count - send.done)
  <2>4. p \in Int /\ p <= handed BY <2>3
  <2>5. Place' = p /\ Place = p - ep_in.length BY <2>1, <2>2, <2>4
  <2> HIDE DEF p, Place
  <2>6. Place \in Int /\ Place' = Place + ep_in.length BY <2>3, <2>4, <2>5
  <2>7. Place' \in Place + 1 .. handed BY <2>3, <2>4, <2>5
  <2> QED BY <2>3, <2>6, <2>7
<1>5. Len(host_in') = Len(host_in) + ep_in.length
  <2>1. usb_serial_buffer_in \in Seq(1 .. MaxTx) BY DEF TypeInv, TypeOK
  <2>2. Len(usb_serial_buffer_in) = ep_in.length
    <3>1. DOMAIN usb_serial_buffer_in = 1 .. ep_in.length BY <1>3
    <3> QED BY <1>4, <2>1, <3>1, LenProperties
  <2> QED BY <1>1, <2>1, <2>2, PlaceIs, ConcatProperties
<1>6. InBuffer' /\ SendIdle' /\ BusInv'
  BY <1>1, <1>2 DEF StreamInv, InBuffer, SendIdle, BusInv
<1>7. LossInv'
  <2> DEFINE X == PacketSize * resets
  <2>1. Place <= Len(host_in) + X BY DEF StreamInv, LossInv
  <2>2. X \in Nat /\ Len(host_in) \in Nat BY PlaceIs
  <2>3. X' = X BY <1>1
  <2> HIDE DEF X
  <2>4. Place' <= Len(host_in') + X BY <1>4, <1>5, <2>1, <2>2
  <2> QED BY <1>1, <2>3, <2>4 DEF LossInv, X
<1>8. Stream!Deliver
  <2>1. Place' - Place = ep_in.length BY <1>4
  <2> QED BY <1>1, <1>3, <1>4, <2>1 DEF Stream!Deliver
<1> QED BY <1>6, <1>7, <1>8 DEF StreamInv, Stream!Next

LEMMA StreamStep ==
  ASSUME TypeInv, Inv, StreamInv, [Next]_vars
  PROVE  StreamInv' /\ [Stream!Next]_(Stream!vars)
<1> USE DEF control, irq, device, banks, out_side, in_side, SendSide
<1>1. CASE Attach BY <1>1, StreamSame DEF Attach
<1>2. CASE ProcStart BY <1>2, StreamSame DEF ProcStart
<1>3. CASE InitEnd BY <1>3, StreamSame DEF InitEnd
<1>4. CASE USB_Handler BY <1>4, StreamSame DEF USB_Handler
<1>5. CASE Wake BY <1>5, StreamSame DEF Wake
<1>6. CASE ReadStatus BY <1>6, StreamSame DEF ReadStatus
<1>7. CASE HandleReset BY <1>7, StreamSame DEF HandleReset
<1>8. CASE HandleControl BY <1>8, StreamControl
<1>9. CASE MaskFlags
  <2>1. /\ UNCHANGED <<handed, send, host_in, resets, usb_serial_buffer_in, usb_tx_busy, bus, setup>>
        /\ ep_in'.ready = ep_in.ready /\ ep_in'.length = ep_in.length /\ ep_in'.flag = ep_in.flag
    BY <1>9, BankFacts DEF MaskFlags
  <2>2. BusInv' BY <2>1 DEF StreamInv, BusInv
  <2> QED BY <2>1, <2>2, StreamBank
<1>10. CASE CompleteOut BY <1>10, StreamSame DEF CompleteOut
<1>11. CASE CompleteIn
  <2>1. /\ UNCHANGED <<handed, send, host_in, resets, usb_serial_buffer_in, bus, setup>>
        /\ ep_in'.ready = ep_in.ready /\ ep_in'.length = ep_in.length /\ ep_in'.flag = FALSE
        /\ usb_tx_busy' = (usb_tx_busy /\ ~ep_in.flag)
    BY <1>11, BankFacts DEF CompleteIn
  <2>2. ep_in.ready => ~ep_in.flag BY DEF Inv, ReadyInv
  <2>3. Place' = Place BY <2>1 DEF Place
  <2>4. InBuffer' /\ SendIdle' /\ BusInv'
    BY <2>1, <2>2, <2>3 DEF StreamInv, InBuffer, SendIdle, BusInv
  <2>5. LossInv' BY <2>1, <2>3 DEF StreamInv, LossInv, BusInv
  <2> QED BY <2>1, <2>3, <2>4, <2>5 DEF StreamInv, Stream!vars
<1>12. CASE HandleEnd BY <1>12, StreamSame DEF HandleEnd
<1>13. CASE SendMore BY <1>13, StreamSendMore
<1>14. CASE ReadMore BY <1>14, StreamSame DEF ReadMore
<1>15. CASE StartSend BY <1>15, StreamStartSend
<1>16. CASE StartRead BY <1>16, StreamSame DEF StartRead
<1>17. CASE Quit BY <1>17, StreamSame DEF Quit
<1>18. CASE BusReset BY <1>18, StreamBusReset
<1>19. CASE HostConfigures
  <2>1. /\ UNCHANGED <<handed, send, ep_in, host_in, resets, usb_serial_buffer_in, usb_tx_busy, bus>>
        /\ bus = "reset"
    BY <1>19 DEF HostConfigures
  <2>2. BusInv' BY <2>1 DEF StreamInv, BusInv
  <2> QED BY <2>1, <2>2, StreamBank
<1>20. CASE HostTakes BY <1>20, StreamTakes
<1>21. CASE HostSends BY <1>21, StreamSame DEF HostSends, HostPacket
<1>22. CASE UNCHANGED vars BY <1>22, StreamSame DEF vars
<1> QED
  BY <1>1, <1>2, <1>3, <1>4, <1>5, <1>6, <1>7, <1>8, <1>9, <1>10, <1>11, <1>12, <1>13, <1>14,
     <1>15, <1>16, <1>17, <1>18, <1>19, <1>20, <1>21, <1>22
  DEF Next, UsbProcess

(* A send is the stream of UsbStream: for buffers and packets of any size,   *)
(* however the host's polls, bus resets and SetConfiguration fall between    *)
(* the steps of the process, the host has every byte once and in order but   *)
(* for at most one packet for each bus reset.                                *)
THEOREM SendsInOrder == Spec => StreamSpec
<1>1. Init => TypeInv /\ Inv /\ StreamInv /\ Stream!Init BY InitType, InitInv, InitStream
<1>2. TypeInv /\ Inv /\ StreamInv /\ [Next]_vars
        => TypeInv' /\ Inv' /\ StreamInv' /\ [Stream!Next]_(Stream!vars)
  BY TypeStep, InvStep, StreamStep
<1> QED BY <1>1, <1>2, PTL DEF Spec, StreamSpec, Stream!Spec
-----------------------------------------------------------------------------
(* Reading. The first n bytes of the buffer are bytes the host has sent, each *)
(* once and none of them read out.                                          *)
Unread(n) ==
  \A i \in 1 .. n :
    /\ usb_serial_buffer_out[i] \in 1 .. host_out
    /\ \A j \in 1 .. n : i # j => usb_serial_buffer_out[i] # usb_serial_buffer_out[j]
    /\ \A k \in 1 .. Len(read_bytes) : read_bytes[k] # usb_serial_buffer_out[i]

(* Either length the process may go by, that of the packet in the endpoint  *)
(* or the one kept from an earlier packet, covers unread bytes only, also   *)
(* when a packet after a bus reset has overwritten part of the kept one.    *)
FreshInv == Unread(usb_rx_buffer_length) /\ (ep_out.flag => Unread(ep_out.length))

OnceInv ==
  /\ \A i, j \in 1 .. Len(read_bytes) : i # j => read_bytes[i] # read_bytes[j]
  /\ \A i \in 1 .. Len(read_bytes) : read_bytes[i] \in 1 .. host_out

(* The length of a packet that has come and has not been read out: the      *)
(* endpoint's, or the one usb_cb_completion has kept.                       *)
Pending == IF ep_out.flag THEN ep_out.length ELSE usb_rx_buffer_length

(* Until the bus is reset only one packet is on its way, the buffer holds   *)
(* the last bytes sent, and those before them are read.                     *)
OrderInv ==
  resets = 0 =>
    /\ ep_out.flag => usb_rx_buffer_length = 0
    /\ ep_out.flag \/ usb_rx_buffer_length # 0 => ~ep_out.ready /\ bus = "configured"
    /\ \A i \in 1 .. Pending : usb_serial_buffer_out[i] = host_out - Pending + i
    /\ Len(read_bytes) = host_out - Pending
    /\ \A i \in 1 .. Len(read_bytes) : read_bytes[i] = i

ReadInv == FreshInv /\ OnceInv /\ OrderInv /\ (setup => bus = "reset")

LEMMA ReadFacts ==
  ASSUME TypeInv
  PROVE  /\ Pending \in 0 .. PacketSize /\ PacketSize \in Nat
         /\ ep_out.length \in 0 .. PacketSize /\ usb_rx_buffer_length \in 0 .. PacketSize
         /\ host_out \in Nat /\ resets \in Nat
         /\ read_bytes \in Seq(0 .. MaxRx) /\ Len(read_bytes) \in Nat
         /\ \A i \in 1 .. Len(read_bytes) : read_bytes[i] \in Nat
<1>1. /\ ep_out.length \in 0 .. PacketSize /\ usb_rx_buffer_length \in 0 .. PacketSize
      /\ PacketSize \in Nat /\ MaxRx \in Nat /\ read_bytes \in Seq(0 .. MaxRx)
      /\ host_out \in Nat /\ resets \in Nat
  BY UsbAssumption DEF TypeInv, TypeOK, Bank
<1>2. Len(read_bytes) \in Nat /\ \A i \in 1 .. Len(read_bytes) : read_bytes[i] \in 0 .. MaxRx
  BY <1>1, LenProperties, ElementOfSeq
<1> QED BY <1>1, <1>2 DEF Pending

LEMMA InitRead == Init => ReadInv
<1> SUFFICES ASSUME Init PROVE ReadInv OBVIOUS
<1>1. /\ Pending = 0 /\ ep_out = Off /\ read_bytes = << >> /\ Len(read_bytes) = 0
      /\ usb_rx_buffer_length = 0 /\ host_out = 0 /\ ~setup
  BY EmptySeq DEF Init, Pending, Off
<1> QED BY <1>1 DEF ReadInv, FreshInv, Unread, OnceInv, OrderInv, Off

(* Steps that change nothing of the packet and the bytes read.              *)
LEMMA ReadSame ==
  ASSUME ReadInv, UNCHANGED <<usb_serial_buffer_out, usb_rx_buffer_length, read_bytes, host_out,
                              bus, resets, setup>>,
         ep_out'.flag = ep_out.flag, ep_out'.ready = ep_out.ready, ep_out'.length = ep_out.length
  PROVE  ReadInv'
<1>1. Pending' = Pending BY DEF Pending
<1> QED BY <1>1 DEF ReadInv, FreshInv, Unread, OnceInv, OrderInv

LEMMA ReadControl ==
  ASSUME TypeInv, Inv, ReadInv, HandleControl
  PROVE  ReadInv'
<1>1. UNCHANGED <<usb_serial_buffer_out, usb_rx_buffer_length, read_bytes, host_out, resets>>
  BY DEF HandleControl, out_side
<1>2. CASE ~(seen.ep0 /\ setup)
  BY <1>1, <1>2, ReadSame DEF HandleControl, banks
<1>3. CASE seen.ep0 /\ setup
  <2>1. bus = "reset" /\ setup' = FALSE /\ ep_out' = Started(0)
    BY <1>3 DEF HandleControl, ReadInv
  <2>2. ~ep_out'.flag BY <2>1 DEF Started
  <2>3. resets = 0 => ~ep_out.flag /\ usb_rx_buffer_length = 0 BY <2>1 DEF ReadInv, OrderInv
  <2>4. resets = 0 => Pending' = 0 /\ Pending = 0
    BY <1>1, <2>2, <2>3 DEF Pending
  <2>5. OrderInv' BY <1>1, <2>2, <2>3, <2>4 DEF ReadInv, OrderInv
  <2> QED BY <1>1, <2>1, <2>2, <2>5 DEF ReadInv, FreshInv, Unread, OnceInv
<1> QED BY <1>2, <1>3

LEMMA ReadComplete ==
  ASSUME TypeInv, Inv, ReadInv, CompleteOut
  PROVE  ReadInv'
<1>1. /\ UNCHANGED <<usb_serial_buffer_out, read_bytes, host_out, bus, resets, setup>>
      /\ usb_rx_buffer_length' = IF ep_out.flag THEN ep_out.length ELSE usb_rx_buffer_length
      /\ ep_out' = [ep_out EXCEPT !.flag = FALSE]
  BY DEF CompleteOut, device
<1>2. ~ep_out'.flag /\ ep_out'.ready = ep_out.ready BY <1>1, BankFacts
<1>3. Pending' = Pending BY <1>1, <1>2 DEF Pending
<1>4. FreshInv' BY <1>1, <1>2 DEF ReadInv, FreshInv, Unread
<1>5. OrderInv' BY <1>1, <1>2, <1>3 DEF ReadInv, OrderInv
<1> QED BY <1>1, <1>4, <1>5 DEF ReadInv, OnceInv

LEMMA ReadReset ==
  ASSUME TypeInv, Inv, ReadInv, BusReset
  PROVE  ReadInv'
<1>1. /\ UNCHANGED <<usb_serial_buffer_out, usb_rx_buffer_length, read_bytes, host_out>>
      /\ bus' = "reset" /\ setup' = FALSE /\ ep_out' = Off
  BY DEF BusReset, out_side
<1>2. ~ep_out'.flag /\ ~ep_out'.ready BY <1>1 DEF Off
<1>3. FreshInv' /\ OnceInv' BY <1>1, <1>2 DEF ReadInv, FreshInv, Unread, OnceInv
<1>4. CASE bus = "idle"
  <2>1. resets' = resets BY <1>4 DEF BusReset
  <2>2. resets = 0 => ~ep_out.flag /\ usb_rx_buffer_length = 0 BY <1>4 DEF ReadInv, OrderInv
  <2>3. resets = 0 => Pending' = 0 /\ Pending = 0 BY <1>1, <1>2, <2>2 DEF Pending
  <2>4. OrderInv' BY <1>1, <1>2, <2>1, <2>2, <2>3 DEF ReadInv, OrderInv
  <2> QED BY <1>1, <1>3, <2>4 DEF ReadInv
<1>5. CASE bus # "idle"
  <2>1. resets' # 0 BY <1>5, ReadFacts DEF BusReset
  <2> QED BY <1>1, <1>3, <2>1 DEF ReadInv, OrderInv
<1> QED BY <1>4, <1>5

LEMMA ReadSends ==
  ASSUME TypeInv, Inv, ReadInv, HostSends
  PROVE  ReadInv'
<1>1. PICK n \in 0 .. PacketSize :
        /\ usb_serial_buffer_out' =
             [i \in 1 .. PacketSize |-> IF i <= n THEN host_out + i ELSE usb_serial_buffer_out[i]]
        /\ host_out' = host_out + n
        /\ ep_out' = [ep_out EXCEPT !.ready = FALSE, !.flag = TRUE, !.length = n]
  BY DEF HostSends, HostPacket
<1>2. /\ UNCHANGED <<usb_rx_buffer_length, read_bytes, bus, resets, setup>>
      /\ bus = "configured" /\ ep_out.ready
  BY DEF HostSends, HostPacket, device
<1>3. ep_out'.flag /\ ~ep_out'.ready /\ ep_out'.length = n BY <1>1, BankFacts
<1>4. /\ n \in Nat /\ host_out \in Nat /\ PacketSize \in Nat /\ n <= PacketSize
      /\ usb_rx_buffer_length \in 0 .. PacketSize
  BY <1>1, ReadFacts, UsbAssumption
<1>5. \A m \in 0 .. PacketSize :
        (Unread(usb_rx_buffer_length) /\ m <= usb_rx_buffer_length) \/ m <= n
        => Unread(m)'
  <2> SUFFICES ASSUME NEW m \in 0 .. PacketSize,
                      (Unread(usb_rx_buffer_length) /\ m <= usb_rx_buffer_length) \/ m <= n,
                      NEW i \in 1 .. m
               PROVE  /\ usb_serial_buffer_out'[i] \in 1 .. host_out'
                      /\ \A j \in 1 .. m : i # j => usb_serial_buffer_out'[i] # usb_serial_buffer_out'[j]
                      /\ \A k \in 1 .. Len(read_bytes') : read_bytes'[k] # usb_serial_buffer_out'[i]
    BY DEF Unread
  <2>1. \A j \in 1 .. m : /\ j \in 1 .. PacketSize /\ j \in Nat
                          /\ j <= n => usb_serial_buffer_out'[j] = host_out + j
                          /\ j > n => usb_serial_buffer_out'[j] = usb_serial_buffer_out[j]
    BY <1>1, <1>4
  <2>2. \A j \in 1 .. m : j > n => /\ usb_serial_buffer_out[j] \in 1 .. host_out
                                   /\ j \in 1 .. usb_rx_buffer_length /\ Unread(usb_rx_buffer_length)
    BY <1>4 DEF Unread
  <2>3. \A k \in 1 .. Len(read_bytes) : read_bytes[k] \in 1 .. host_out BY DEF ReadInv, OnceInv
  <2>4. CASE i <= n
    <3>1. usb_serial_buffer_out'[i] = host_out + i BY <2>1, <2>4
    <3>2. \A j \in 1 .. m : i # j => host_out + i # usb_serial_buffer_out'[j]
      BY <1>4, <2>1, <2>2
    <3>3. host_out + i \in 1 .. host_out' BY <1>1, <1>4, <2>4
    <3>4. \A k \in 1 .. Len(read_bytes) : read_bytes[k] # host_out + i
      BY <1>4, <2>3
    <3> QED BY <1>2, <3>1, <3>2, <3>3, <3>4
  <2>5. CASE i > n
    <3>1. usb_serial_buffer_out'[i] = usb_serial_buffer_out[i] BY <2>1, <2>5
    <3>2. \A j \in 1 .. m : i # j => usb_serial_buffer_out[i] # usb_serial_buffer_out'[j]
      <4> SUFFICES ASSUME NEW j \in 1 .. m, i # j
                   PROVE  usb_serial_buffer_out[i] # usb_serial_buffer_out'[j]
        OBVIOUS
      <4>1. CASE j <= n BY <1>4, <2>1, <2>2, <2>5, <4>1
      <4>2. CASE j > n
        <5>1. usb_serial_buffer_out'[j] = usb_serial_buffer_out[j] BY <2>1, <4>2
        <5>2. i \in 1 .. usb_rx_buffer_length /\ j \in 1 .. usb_rx_buffer_length
              /\ Unread(usb_rx_buffer_length)
          BY <2>2, <2>5, <4>2
        <5> QED BY <5>1, <5>2 DEF Unread
      <4>3. j \in Nat BY <2>1
      <4> QED BY <1>4, <4>1, <4>2, <4>3
    <3>3. /\ usb_serial_buffer_out[i] \in 1 .. host_out
          /\ \A k \in 1 .. Len(read_bytes) : read_bytes[k] # usb_serial_buffer_out[i]
      BY <2>2, <2>5 DEF Unread
    <3>4. usb_serial_buffer_out[i] \in 1 .. host_out' BY <1>1, <1>4, <3>3
    <3> QED BY <1>2, <3>1, <3>2, <3>3, <3>4
  <2>6. i \in Nat BY <2>1
  <2> QED BY <1>4, <2>4, <2>5, <2>6
<1>6. Unread(usb_rx_buffer_length)' /\ Unread(n)'
  <2>1. \A m \in 0 .. PacketSize : m <= usb_rx_buffer_length \/ m <= n => Unread(m)'
    BY <1>5 DEF ReadInv, FreshInv
  <2>2. Unread(usb_rx_buffer_length') BY <1>2 DEF ReadInv, FreshInv
  <2> QED BY <1>2, <1>4, <2>1 DEF Unread
<1>7. FreshInv' BY <1>3, <1>6 DEF FreshInv, Unread
<1>8. OnceInv'
  <2>1. \A k \in 1 .. host_out : k \in 1 .. host_out' BY <1>1, <1>4
  <2> QED BY <1>2, <2>1 DEF ReadInv, OnceInv
<1>9. OrderInv'
  <2> SUFFICES ASSUME resets = 0 PROVE OrderInv'
    BY <1>2 DEF OrderInv
  <2>1. ~ep_out.flag /\ usb_rx_buffer_length = 0 /\ Pending = 0
    BY <1>2 DEF ReadInv, OrderInv, Pending
  <2>2. Pending' = n BY <1>3 DEF Pending
  <2>3. \A i \in 1 .. n : i \in 1 .. PacketSize /\ i <= n BY <1>4
  <2>4. \A i \in 1 .. n : usb_serial_buffer_out'[i] = host_out + i BY <1>1, <2>3
  <2>5. host_out' - Pending' = host_out /\ host_out - Pending = host_out BY <1>1, <1>4, <2>1, <2>2
  <2>6. \A i \in 1 .. Pending' : usb_serial_buffer_out'[i] = host_out' - Pending' + i
    BY <2>2, <2>4, <2>5
  <2> QED BY <1>2, <1>3, <2>1, <2>5, <2>6 DEF ReadInv, OrderInv
<1> QED BY <1>2, <1>7, <1>8, <1>9 DEF ReadInv

LEMMA ReadOut ==
  ASSUME TypeInv, Inv, ReadInv, ReadMore
  PROVE  ReadInv'
<1>1. UNCHANGED <<usb_serial_buffer_out, host_out, bus, resets, setup>>
  BY DEF ReadMore, device
<1>2. CASE read.status /\ usb_rx_buffer_length # 0
  <2> DEFINE n == usb_rx_buffer_length
             more == SubSeq(usb_serial_buffer_out, 1, n)
             m == Len(read_bytes)
  <2>1. /\ read_bytes' = read_bytes \o more
        /\ ep_out' = Started(0)
        /\ usb_rx_buffer_length' = 0
    BY <1>2 DEF ReadMore, LengthAfterRead, OutAfterRead
  <2>2. ~ep_out'.flag /\ Pending' = 0 BY <2>1 DEF Started, Pending
  <2>3. n \in 1 .. PacketSize /\ host_out \in Nat /\ PacketSize \in Nat BY <1>2, ReadFacts
  <2>4. usb_serial_buffer_out \in Seq(0 .. MaxRx) /\ Len(usb_serial_buffer_out) = PacketSize
    BY <2>3, ListOf DEF TypeInv, TypeOK
  <2>5. /\ more \in Seq(0 .. MaxRx) /\ Len(more) = n
        /\ \A i \in 1 .. n : more[i] = usb_serial_buffer_out[i]
    <3>1. \A i \in 1 .. n : usb_serial_buffer_out[i] \in 0 .. MaxRx
      BY <2>3 DEF TypeInv, TypeOK
    <3> QED BY <2>3, <2>4, <3>1, SubSeqProperties
  <2>6. Unread(n) BY DEF ReadInv, FreshInv
  <2>7. read_bytes \in Seq(0 .. MaxRx) /\ m \in Nat BY ReadFacts
  <2>8. resets = 0 => /\ m = host_out - n
                      /\ \A i \in 1 .. n : usb_serial_buffer_out[i] = host_out - n + i
    <3>1. resets = 0 => Pending = n BY <1>2 DEF ReadInv, OrderInv, Pending
    <3> QED BY <3>1 DEF ReadInv, OrderInv
  <2> HIDE DEF more, n, m
  <2>9. /\ Len(read_bytes') = m + n
        /\ \A i \in 1 .. m + n : read_bytes'[i] = IF i <= m THEN read_bytes[i]
                                                  ELSE usb_serial_buffer_out[i - m]
    <3>1. /\ Len(read_bytes') = Len(read_bytes) + Len(more)
          /\ \A i \in 1 .. Len(read_bytes) + Len(more) :
               read_bytes'[i] = IF i <= Len(read_bytes) THEN read_bytes[i] ELSE more[i - Len(read_bytes)]
      BY <2>1, <2>5, <2>7, ConcatProperties
    <3>2. \A i \in 1 .. m + n : i > m => i - m \in 1 .. n BY <2>3, <2>7
    <3> QED BY <2>3, <2>5, <2>7, <3>1, <3>2 DEF m
  <2>10. /\ \A i \in 1 .. m : read_bytes[i] \in 1 .. host_out
         /\ \A i, j \in 1 .. m : i # j => read_bytes[i] # read_bytes[j]
         /\ resets = 0 => \A i \in 1 .. m : read_bytes[i] = i
    BY DEF ReadInv, OnceInv, OrderInv, m
  <2>11. \A i \in 1 .. n :
           /\ usb_serial_buffer_out[i] \in 1 .. host_out
           /\ \A j \in 1 .. n : i # j => usb_serial_buffer_out[i] # usb_serial_buffer_out[j]
           /\ \A k \in 1 .. m : read_bytes[k] # usb_serial_buffer_out[i]
    BY <2>6 DEF Unread, m
  <2>12. \A i \in 1 .. m + n : \/ i \in 1 .. m /\ read_bytes'[i] = read_bytes[i]
                               \/ i \notin 1 .. m /\ i - m \in 1 .. n
                                    /\ read_bytes'[i] = usb_serial_buffer_out[i - m]
    BY <2>3, <2>7, <2>9
  <2>13. \A i \in 1 .. m + n : read_bytes'[i] \in 1 .. host_out
    BY <2>10, <2>11, <2>12
  <2>14. \A i, j \in 1 .. m + n : i # j => read_bytes'[i] # read_bytes'[j]
    <3> SUFFICES ASSUME NEW i \in 1 .. m + n, NEW j \in 1 .. m + n, i # j
                 PROVE  read_bytes'[i] # read_bytes'[j]
      OBVIOUS
    <3>1. i - m # j - m BY <2>3, <2>7
    <3>2. CASE i \in 1 .. m /\ read_bytes'[i] = read_bytes[i]
      BY <2>10, <2>11, <2>12, <3>2
    <3>3. CASE i - m \in 1 .. n /\ read_bytes'[i] = usb_serial_buffer_out[i - m]
      BY <2>11, <2>12, <3>1, <3>3
    <3> QED BY <2>12, <3>2, <3>3
  <2>15. OnceInv' BY <1>1, <2>9, <2>13, <2>14 DEF OnceInv
  <2>16. FreshInv' BY <2>1, <2>2 DEF FreshInv, Unread
  <2>17. resets = 0 => m + n = host_out /\ \A i \in 1 .. m + n : read_bytes'[i] = i
    <3> SUFFICES ASSUME resets = 0 PROVE m + n = host_out /\ \A i \in 1 .. m + n : read_bytes'[i] = i
      OBVIOUS
    <3>1. m + n = host_out BY <2>3, <2>7, <2>8
    <3>2. \A i \in 1 .. m + n : i - m \in 1 .. n => usb_serial_buffer_out[i - m] = i
      <4> SUFFICES ASSUME NEW i \in 1 .. m + n, i - m \in 1 .. n
                   PROVE  usb_serial_buffer_out[i - m] = i
        OBVIOUS
      <4>1. usb_serial_buffer_out[i - m] = host_out - n + (i - m) BY <2>8
      <4> QED BY <2>3, <2>7, <3>1, <4>1
    <3> QED BY <2>10, <2>12, <3>1, <3>2
  <2>18. OrderInv' BY <1>1, <2>1, <2>2, <2>3, <2>9, <2>17 DEF OrderInv
  <2> QED BY <1>1, <2>15, <2>16, <2>18 DEF ReadInv
<1>3. CASE ~(read.status /\ usb_rx_buffer_length # 0)
  <2>1. UNCHANGED <<read_bytes, ep_out, usb_rx_buffer_length>> BY <1>3 DEF ReadMore
  <2> QED BY <1>1, <2>1, ReadSame
<1> QED BY <1>2, <1>3

LEMMA ReadStep ==
  ASSUME TypeInv, Inv, ReadInv, [Next]_vars
  PROVE  ReadInv'
<1> USE DEF control, irq, device, banks, out_side, in_side
<1>1. CASE Attach BY <1>1, ReadSame DEF Attach
<1>2. CASE ProcStart BY <1>2, ReadSame DEF ProcStart
<1>3. CASE InitEnd BY <1>3, ReadSame DEF InitEnd
<1>4. CASE USB_Handler BY <1>4, ReadSame DEF USB_Handler
<1>5. CASE Wake BY <1>5, ReadSame DEF Wake
<1>6. CASE ReadStatus BY <1>6, ReadSame DEF ReadStatus
<1>7. CASE HandleReset BY <1>7, ReadSame DEF HandleReset
<1>8. CASE HandleControl BY <1>8, ReadControl
<1>9. CASE MaskFlags
  <2>1. ep_out'.flag = ep_out.flag /\ ep_out'.ready = ep_out.ready /\ ep_out'.length = ep_out.length
    BY <1>9, BankFacts DEF MaskFlags
  <2> QED BY <1>9, <2>1, ReadSame DEF MaskFlags
<1>10. CASE CompleteOut BY <1>10, ReadComplete
<1>11. CASE CompleteIn BY <1>11, ReadSame DEF CompleteIn
<1>12. CASE HandleEnd BY <1>12, ReadSame DEF HandleEnd
<1>13. CASE SendMore BY <1>13, ReadSame DEF SendMore
<1>14. CASE ReadMore BY <1>14, ReadOut
<1>15. CASE StartSend BY <1>15, ReadSame DEF StartSend
<1>16. CASE StartRead BY <1>16, ReadSame DEF StartRead
<1>17. CASE Quit BY <1>17, ReadSame DEF Quit
<1>18. CASE BusReset BY <1>18, ReadReset
<1>19. CASE HostConfigures
  <2>1. /\ UNCHANGED <<usb_serial_buffer_out, usb_rx_buffer_length, read_bytes, host_out,
                       bus, resets, ep_out>>
        /\ bus = "reset"
    BY <1>19 DEF HostConfigures
  <2>2. Pending' = Pending BY <2>1 DEF Pending
  <2> QED BY <2>1, <2>2 DEF ReadInv, FreshInv, Unread, OnceInv, OrderInv
<1>20. CASE HostTakes BY <1>20, ReadSame DEF HostTakes
<1>21. CASE HostSends BY <1>21, ReadSends
<1>22. CASE UNCHANGED vars BY <1>22, ReadSame DEF vars
<1> QED
  BY <1>1, <1>2, <1>3, <1>4, <1>5, <1>6, <1>7, <1>8, <1>9, <1>10, <1>11, <1>12, <1>13, <1>14,
     <1>15, <1>16, <1>17, <1>18, <1>19, <1>20, <1>21, <1>22
  DEF Next, UsbProcess

(* No byte the host has sent is read twice, for reads and packets of any size, *)
(* before, during or after a read and of more than it asks for, and bus      *)
(* resets at any moment; without a reset the bytes read are all of the stream *)
(* in its order.                                                             *)
THEOREM ReadsInOrder == Spec => []ReadInOrder
<1>1. ReadInv => ReadInOrder BY DEF ReadInv, OnceInv, OrderInv, ReadInOrder
<1>2. Init => TypeInv /\ Inv /\ ReadInv BY InitType, InitInv, InitRead
<1>3. TypeInv /\ Inv /\ ReadInv /\ [Next]_vars => TypeInv' /\ Inv' /\ ReadInv'
  BY TypeStep, InvStep, ReadStep
<1> QED BY <1>1, <1>2, <1>3, PTL DEF Spec
-----------------------------------------------------------------------------
(* What goes on. A transmission under way has its packet or its completion   *)
(* in the endpoint, and a send without one is in a turn of the process that  *)
(* comes to SendMore; the OUT endpoint can receive unless something has come,*)
(* a packet without bytes included.                                         *)
AliveInv ==
  /\ bus = "configured" /\ usb_tx_busy => ep_in.ready \/ ep_in.flag
  /\ send.status /\ ~usb_tx_busy => pc \in {"mask", "out", "in", "enable", "send"}
  /\ bus = "configured" =>
       ep_out.ready \/ ep_out.flag \/ usb_rx_buffer_length # 0 \/ ep_out.length = 0

LEMMA InitAlive == Init => AliveInv
BY DEF Init, AliveInv, Off, Idle

LEMMA AliveStep ==
  ASSUME TypeInv, Inv, AliveInv, [Next]_vars
  PROVE  AliveInv'
<1> USE DEF control, irq, device, banks, out_side, in_side
<1>1. CASE \/ Attach \/ ProcStart \/ InitEnd \/ USB_Handler \/ Wake \/ ReadStatus \/ HandleReset
           \/ HandleEnd \/ StartRead \/ Quit \/ HostConfigures \/ UNCHANGED vars
  <2>1. /\ UNCHANGED <<bus, usb_tx_busy, send, ep_in, ep_out, usb_rx_buffer_length>>
        /\ pc \in {"mask", "out", "in", "enable", "send"} => pc' \in {pc, "send"}
    BY <1>1 DEF Attach, ProcStart, InitEnd, USB_Handler, Wake, ReadStatus, HandleReset,
                HandleEnd, StartRead, Quit, HostConfigures, vars, Inv, BornInv
  <2> QED BY <2>1 DEF AliveInv
<1>2. CASE HandleControl
  <2>1. /\ pc = "control" /\ pc' = "mask" /\ UNCHANGED <<send, usb_rx_buffer_length>>
        /\ \/ UNCHANGED <<bus, ep_in, ep_out, usb_tx_busy>>
           \/ ep_out' = Started(0) /\ usb_tx_busy' = FALSE
    BY <1>2 DEF HandleControl, BusyAfterInit
  <2> QED BY <2>1 DEF AliveInv, Started
<1>3. CASE MaskFlags
  <2>1. /\ pc = "mask" /\ pc' = "out" /\ UNCHANGED <<bus, usb_tx_busy, send, usb_rx_buffer_length>>
    BY <1>3 DEF MaskFlags
  <2>2. /\ ep_in'.ready = ep_in.ready /\ ep_in'.flag = ep_in.flag
        /\ ep_out'.ready = ep_out.ready /\ ep_out'.flag = ep_out.flag /\ ep_out'.length = ep_out.length
    BY <1>3, BankFacts DEF MaskFlags
  <2> QED BY <2>1, <2>2 DEF AliveInv
<1>4. CASE CompleteOut
  <2>1. /\ pc = "out" /\ pc' = "in" /\ UNCHANGED <<bus, usb_tx_busy, send, ep_in>>
        /\ ep_out' = [ep_out EXCEPT !.flag = FALSE]
        /\ usb_rx_buffer_length' = IF ep_out.flag THEN ep_out.length ELSE usb_rx_buffer_length
    BY <1>4 DEF CompleteOut
  <2>2. /\ ~ep_out'.flag /\ ep_out'.ready = ep_out.ready
        /\ ep_out'.length = ep_out.length
    BY <2>1, BankFacts
  <2> QED BY <2>1, <2>2 DEF AliveInv
<1>5. CASE CompleteIn
  <2>1. /\ pc = "in" /\ pc' = "enable" /\ UNCHANGED <<bus, send, ep_out, usb_rx_buffer_length>>
        /\ ep_in' = [ep_in EXCEPT !.flag = FALSE]
        /\ usb_tx_busy' => usb_tx_busy /\ ~ep_in.flag
    BY <1>5 DEF CompleteIn
  <2>2. ep_in'.ready = ep_in.ready BY <2>1, BankFacts
  <2> QED BY <2>1, <2>2 DEF AliveInv
<1>6. CASE SendMore
  <2>1. UNCHANGED <<bus, ep_out, usb_rx_buffer_length>> BY <1>6 DEF SendMore
  <2>2. CASE send'.status = FALSE /\ UNCHANGED <<ep_in, usb_tx_busy>>
    BY <2>1, <2>2 DEF AliveInv
  <2>3. CASE usb_tx_busy' = TRUE /\ \E n : ep_in' = Started(n)
    BY <2>1, <2>3 DEF AliveInv, Started
  <2>4. CASE ~SendTurn /\ UNCHANGED <<ep_in, usb_tx_busy, send>>
    BY <2>1, <2>4 DEF AliveInv, SendTurn
  <2>5. SendTurn =>
          \/ send' = [send EXCEPT !.status = FALSE] /\ UNCHANGED <<ep_in, usb_tx_busy>>
          \/ usb_tx_busy' = TRUE /\ \E n : ep_in' = Started(n)
    BY <1>6 DEF SendMore, StartIn
  <2>6. ~SendTurn => UNCHANGED <<ep_in, usb_tx_busy, send>> BY <1>6 DEF SendMore
  <2>7. [send EXCEPT !.status = FALSE].status = FALSE BY DEF TypeInv, TypeOK
  <2> QED BY <2>2, <2>3, <2>4, <2>5, <2>6, <2>7
<1>7. CASE ReadMore
  <2>1. pc = "read" /\ UNCHANGED <<bus, usb_tx_busy, send, ep_in>> BY <1>7 DEF ReadMore
  <2>2. UNCHANGED <<ep_out, usb_rx_buffer_length>> \/ ep_out' = Started(0)
    BY <1>7 DEF ReadMore, OutAfterRead
  <2> QED BY <2>1, <2>2 DEF AliveInv, Started
<1>8. CASE StartSend
  <2>1. /\ UNCHANGED <<bus, ep_out, usb_rx_buffer_length>> /\ usb_tx_busy' = TRUE
        /\ \E n : ep_in' = Started(n)
    BY <1>8 DEF StartSend, StartIn
  <2> QED BY <2>1 DEF AliveInv, Started
<1>9. CASE BusReset
  <2>1. bus' = "reset" /\ ep_out' = Off /\ UNCHANGED <<usb_tx_busy, send, pc>> BY <1>9 DEF BusReset
  <2> QED BY <2>1 DEF AliveInv, Off
<1>10. CASE HostTakes
  <2>1. /\ UNCHANGED <<pc, bus, usb_tx_busy, send, ep_out, usb_rx_buffer_length>>
        /\ ep_in' = [ep_in EXCEPT !.ready = FALSE, !.flag = TRUE]
    BY <1>10 DEF HostTakes
  <2>2. ep_in'.flag BY <2>1, BankFacts
  <2> QED BY <2>1, <2>2 DEF AliveInv
<1>11. CASE HostSends
  <2>1. /\ UNCHANGED <<pc, bus, usb_tx_busy, send, ep_in, usb_rx_buffer_length>>
        /\ \E n : ep_out' = [ep_out EXCEPT !.ready = FALSE, !.flag = TRUE, !.length = n]
    BY <1>11 DEF HostSends, HostPacket
  <2>2. ep_out'.flag BY <2>1, BankFacts
  <2> QED BY <2>1, <2>2 DEF AliveInv
<1> QED
  BY <1>1, <1>2, <1>3, <1>4, <1>5, <1>6, <1>7, <1>8, <1>9, <1>10, <1>11 DEF Next, UsbProcess

(* A send that is in progress while the process waits has a packet the host  *)
(* can take, or an interrupt that wakes the process to send the next; no     *)
(* bus reset leaves it behind usb_tx_busy.                                   *)
THEOREM SendGoesOn == Spec => []SendOnItsWay
<1>1. Inv /\ AliveInv => SendOnItsWay
  <2> SUFFICES ASSUME Inv, AliveInv, Waits, send.status, ~ep_in.ready
               PROVE  usb_interrupt \/ (nvic /\ Line)
    BY DEF SendOnItsWay
  <2>1. usb_tx_busy BY DEF AliveInv, Waits
  <2>2. ep_in.flag BY <2>1 DEF AliveInv, Waits
  <2> QED BY <2>2 DEF Inv, FlagInv, EnabledInv, Line, Waits
<1>2. Spec => [](TypeInv /\ Inv /\ AliveInv)
  BY InitType, TypeStep, InitInv, InvStep, InitAlive, AliveStep, PTL DEF Spec
<1> QED BY <1>1, <1>2, PTL

(* A read that is in progress while the process waits can be sent a packet,  *)
(* or has one that wakes the process, whatever packets, sends and bus resets *)
(* came before; but for a packet handled before the read began (rtos_usb.c:75) *)
(* and one without bytes, which stop the endpoint.                           *)
THEOREM ReadGoesOn == Spec => []ReadOnItsWay
<1>1. Inv /\ AliveInv => ReadOnItsWay
  <2> SUFFICES ASSUME Inv, AliveInv, Waits, read.status, ~ep_out.ready, ~OutStopped
               PROVE  usb_interrupt \/ (nvic /\ Line)
    BY DEF ReadOnItsWay
  <2>1. ep_out.flag BY DEF AliveInv, Waits, OutStopped
  <2> QED BY <2>1 DEF Inv, FlagInv, EnabledInv, Line, Waits
<1>2. Spec => [](TypeInv /\ Inv /\ AliveInv)
  BY InitType, TypeStep, InitInv, InvStep, InitAlive, AliveStep, PTL DEF Spec
<1> QED BY <1>1, <1>2, PTL
=============================================================================
