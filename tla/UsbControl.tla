----------------------------- MODULE UsbControl -----------------------------
(***************************************************************************)
(* The control endpoint: usb_requests.c, the descriptors and class         *)
(* requests of usb.c, and endpoint 0 in usb_samd.c.                        *)
(*                                                                         *)
(* The handler reads the flags of endpoint 0, clears all of them, and then  *)
(* serves a setup packet, an OUT and an IN completion in this order; the    *)
(* host and the controller act between any two of its steps.  A packet is   *)
(* what it holds, the offset it starts at and its size.                     *)
(***************************************************************************)
EXTENDS Integers, FiniteSetsExt

CONSTANTS
  Request,      \* the setup packets the host sends
  NoRequest,    \* usb_setup before the first one
  MaxRequest,   \* bound: setup packets
  MaxReset      \* bound: bus resets

Standard == {"GetStatus", "ClearFeature", "SetFeature", "SetAddress", "GetDescriptor",
             "GetConfiguration", "SetConfiguration", "SetInterface", "GetInterface"}
(* Class requests to an interface. *)
Class == {"SetLineEncoding", "GetLineEncoding", "SetControlLineState", "SendBreak",
          "SendEncapsulatedCommand"}

(* Class requests to the device, an endpoint or another recipient, and      *)
(* requests that are neither standard nor class ones.                       *)
Foreign == {"ClassElsewhere", "Vendor"}

ASSUME RequestAssumption ==
  /\ Request \subseteq
       [kind : Standard \cup Class \cup Foreign, value : Nat, index : Nat, length : Nat]
  /\ NoRequest \notin Request
  /\ MaxRequest \in Nat /\ MaxReset \in Nat

-----------------------------------------------------------------------------
(* Descriptors.  wValue holds the type of the one wanted and its index. *)

Low(word) == word % 256
High(word) == word \div 256

Ep0Size == 64

(* sizeof of the structures of usb_standard.h *)
StandardLength == [device |-> 18, configuration |-> 9, association |-> 8, interface |-> 9,
                   endpoint |-> 7]

(* sizeof of the structures of cdc_standard.h *)
FunctionalLength == [header |-> 5, acm |-> 4, union |-> 5]
LineEncodingLength == 7

(* USB_FullConfigurationDescriptor: the configuration with its association, *)
(* the control interface with its endpoint, the data interface with two.    *)
FullConfigLength ==
  StandardLength.configuration + StandardLength.association
    + StandardLength.interface + FunctionalLength.header + FunctionalLength.acm
    + FunctionalLength.union + StandardLength.endpoint
    + StandardLength.interface + 2 * StandardLength.endpoint

(* The lengths of the strings of usb_cb_get_descriptor: manufacturer,       *)
(* product, and the serial number of samd_serial_number_string_descriptor.  *)
StringText == [i \in 1 .. 3 |-> CASE i = 1 -> 13 [] i = 2 -> 4 [] i = 3 -> 26]

(* usb_string_to_descriptor: a header and two bytes for each character. *)
StringLength(n) ==
  LET maxlen == (Ep0Size - 2) \div 2
  IN 2 + 2 * (IF n > maxlen THEN maxlen ELSE n)

Device == 1
Configuration == 2
Strings == 3

(* The descriptors that are built in ep0_buf_in. *)
InPlace(value) == High(value) = Strings /\ Low(value) \in DOMAIN StringText

(* usb_cb_get_descriptor, 0 when there is none; only strings have an index. *)
DescriptorLength(value) ==
  CASE High(value) = Device -> StandardLength.device
    [] High(value) = Configuration -> FullConfigLength
    [] High(value) = Strings /\ Low(value) = 0 -> 4
    [] InPlace(value) -> StringLength(StringText[Low(value)])
    [] OTHER -> 0

-----------------------------------------------------------------------------
VARIABLES
  pc,           \* where the handler is
  seen,         \* the flags of endpoint 0 it has read
  eorst,        \* INTFLAG.EORST: there was a bus reset
  rxstp, trcpt0, trcpt1,          \* EPINTFLAG
  bank_in,      \* the IN bank: has a packet, its size
  bank_out,     \* the OUT bank can receive
  stalled,      \* EPSTATUS.STALLRQ
  address,      \* DADD
  ep0_buf_in, ep0_buf_out,
  usb_setup, usb_configuration, usb_ep0_in_size, usb_ep0_in_ptr, line_coding,
  host,         \* the host: its request, stage, bytes received, address it uses,
                \* and whether the setup packet found nothing else to handle
  intact,       \* every packet of the transfer was the next one
  requests, resets                \* counters for the bounds

flags == <<rxstp, trcpt0, trcpt1>>
banks == <<bank_in, bank_out, stalled>>
setup_state == <<usb_setup, usb_configuration, line_coding>>
multi == <<usb_ep0_in_size, usb_ep0_in_ptr>>
host_state == <<host, intact, requests, resets>>
vars == <<pc, seen, eorst, flags, banks, address, ep0_buf_in, ep0_buf_out, setup_state, multi,
          host_state>>

Kinds == Standard \cup Class \cup Foreign \cup {"none"}
Content == [what : Kinds, value : Nat, from : Nat]
Nothing == [what |-> "none", value |-> 0, from |-> 0]
Coding == {"default", "setup"}
Stage == {"idle", "data_in", "data_out", "status_in", "status_out"}

(* No packet is longer than endpoint 0 takes; the handler and the host are  *)
(* in one of the stages of a control transfer.                             *)
TypeOK ==
  /\ pc \in {"wait", "clear", "setup", "serve", "out", "in"}
  /\ seen \in SUBSET {"setup", "out", "in"}
  /\ {eorst, rxstp, trcpt0, trcpt1, bank_out, stalled, intact} \subseteq BOOLEAN
  /\ bank_in \in [ready : BOOLEAN, size : 0 .. Ep0Size]
  /\ address \in Nat
  /\ ep0_buf_in \in Content
  /\ ep0_buf_out \in Request \cup {NoRequest}
  /\ usb_setup \in Request \cup {NoRequest}
  /\ usb_configuration \in Nat
  /\ usb_ep0_in_size \in Nat /\ usb_ep0_in_ptr \in Content
  /\ line_coding \in Coding
  /\ host \in [request : Request \cup {NoRequest}, stage : Stage, got : Nat, address : Nat,
               clean : BOOLEAN]
  /\ requests \in 0 .. MaxRequest /\ resets \in 0 .. MaxReset

Init ==
  /\ pc = "wait" /\ seen = {} /\ eorst = FALSE
  /\ rxstp = FALSE /\ trcpt0 = FALSE /\ trcpt1 = FALSE
  /\ bank_in = [ready |-> FALSE, size |-> 0] /\ bank_out = FALSE /\ stalled = FALSE
  /\ address = 0
  /\ ep0_buf_in = Nothing /\ ep0_buf_out = NoRequest
  /\ usb_setup = NoRequest /\ usb_configuration = 0
  /\ usb_ep0_in_size = 0 /\ usb_ep0_in_ptr = Nothing
  /\ line_coding = "default"
  /\ host = [request |-> NoRequest, stage |-> "idle", got |-> 0, address |-> 0, clean |-> FALSE]
  /\ intact = TRUE /\ requests = 0 /\ resets = 0

-----------------------------------------------------------------------------
(* The handler *)

(* After a bus reset the run ends with usb_reset, which sets endpoint 0 up. *)
HandleReset ==
  /\ pc = "wait" /\ eorst
  /\ eorst' = FALSE
  /\ UNCHANGED <<pc, seen, flags, banks, address, ep0_buf_in, ep0_buf_out, setup_state, multi,
                 host_state>>

ReadFlags ==
  /\ pc = "wait" /\ ~eorst
  /\ rxstp \/ trcpt0 \/ trcpt1
  /\ seen' = {f \in {"setup", "out", "in"} :
                CASE f = "setup" -> rxstp [] f = "out" -> trcpt0 [] f = "in" -> trcpt1}
  /\ pc' = "clear"
  /\ UNCHANGED <<eorst, flags, banks, address, ep0_buf_in, ep0_buf_out, setup_state, multi,
                 host_state>>

(* All three flags are cleared, also one that was not set when they were    *)
(* read.                                                                    *)
ClearFlags ==
  /\ pc = "clear"
  /\ pc' = "setup"
  /\ rxstp' = FALSE /\ trcpt0' = FALSE /\ trcpt1' = FALSE
  /\ UNCHANGED <<seen, eorst, banks, address, ep0_buf_in, ep0_buf_out, setup_state, multi,
                 host_state>>

(* usb_ep0_in and usb_ep0_out: the old completion is cleared, a transfer    *)
(* started.                                                                 *)
In(size) == bank_in' = [ready |-> TRUE, size |-> size] /\ trcpt1' = FALSE
Out == bank_out' = TRUE /\ trcpt0' = FALSE

(* Mutant: the OUT transfer of the status stage is not started. *)
ReplyWithoutOut(size) == In(size) /\ UNCHANGED <<bank_out, trcpt0, stalled, multi>>

(* A reply of one packet, with the status stage ready behind it. *)
Reply(size) == In(size) /\ Out /\ UNCHANGED <<stalled, multi>>

Stall == stalled' = TRUE /\ UNCHANGED <<bank_in, bank_out, trcpt0, trcpt1, multi>>

(* Mutant: the pointer stays at the beginning of the descriptor. *)
AdvanceNot(ptr, size) == ptr

(* usb_ep0_in_ptr += tsize *)
Advance(ptr, size) == [ptr EXCEPT !.from = @ + size]

(* tsize: what one packet takes *)
Part(size) == IF size > Ep0Size THEN Ep0Size ELSE size

(* usb_ep0_in_multi: the next packet of a descriptor; after its end a       *)
(* packet of size zero and the OUT transfer of the status stage.            *)
InMulti(size, ptr) ==
  LET tsize == Part(size)
  IN /\ ep0_buf_in' = IF tsize = 0 THEN ep0_buf_in ELSE ptr
     /\ In(tsize)
     /\ IF tsize = 0 THEN Out ELSE UNCHANGED <<bank_out, trcpt0>>
     /\ usb_ep0_in_size' = size - tsize
     /\ usb_ep0_in_ptr' = Advance(ptr, tsize)
     /\ UNCHANGED stalled

(* Mutant: the request is answered with as much as there is. *)
AtMostAll(size, wLength) == size

(* No more than the host has asked for. *)
AtMost(size, wLength) == IF size > wLength THEN wLength ELSE size

(* GetDescriptor; a string has been built in ep0_buf_in and goes from there. *)
GetDescriptor(r) ==
  LET size == AtMost(DescriptorLength(r.value), r.length)
      content == [what |-> r.kind, value |-> r.value, from |-> 0]
  IN \/ /\ DescriptorLength(r.value) = 0
        /\ Stall
        /\ UNCHANGED ep0_buf_in
     \/ /\ DescriptorLength(r.value) > 0 /\ InPlace(r.value)
        /\ ep0_buf_in' = content
        /\ usb_ep0_in_size' = 0
        /\ In(size)
        /\ UNCHANGED <<usb_ep0_in_ptr, bank_out, stalled, trcpt0>>
     \/ /\ DescriptorLength(r.value) > 0 /\ ~InPlace(r.value)
        /\ InMulti(size, content)

(* What is written into ep0_buf_in and sent. *)
Send(r, size) ==
  /\ ep0_buf_in' = [what |-> r.kind, value |-> r.value, from |-> 0]
  /\ Reply(size)

(* The other standard requests of usb_handle_setup. *)
StandardRequest(r) ==
  \/ /\ r.kind = "GetStatus"
     /\ Send(r, 2)
     /\ UNCHANGED usb_configuration
  \/ /\ r.kind = "GetConfiguration"
     /\ Send(r, 1)
     /\ UNCHANGED usb_configuration
  \/ /\ \/ r.kind \in {"ClearFeature", "SetFeature", "SetAddress"}
        \/ r.kind = "SetInterface" /\ r.index \in {0, 1} /\ r.value = 0
     /\ Reply(0)
     /\ UNCHANGED <<ep0_buf_in, usb_configuration>>
  \/ /\ r.kind = "SetConfiguration" /\ Low(r.value) <= 1
     /\ Reply(0)
     /\ usb_configuration' = Low(r.value)
     /\ UNCHANGED ep0_buf_in
  \/ /\ \/ r.kind = "GetInterface"
        \/ r.kind = "SetConfiguration" /\ Low(r.value) > 1
        \/ r.kind = "SetInterface" /\ ~(r.index \in {0, 1} /\ r.value = 0)
     /\ Stall
     /\ UNCHANGED <<ep0_buf_in, usb_configuration>>

(* The requests that usb_handle_setup neither answers nor refuses: those of *)
(* a vendor, and class requests to another interface than the CDC control   *)
(* interface, which is number 0.                                            *)
Ignored(r) == r.kind = "Vendor" \/ (r.kind \in Class /\ Low(r.index) # 0)

(* usb_cb_control_setup.  SET_LINE_ENCODING takes the coding from           *)
(* ep0_buf_out, where the setup packet still is.                            *)
OtherRequest(r) ==
  \/ /\ Ignored(r)
     /\ UNCHANGED <<banks, trcpt0, trcpt1, multi, ep0_buf_in, line_coding>>
  \/ /\ ~Ignored(r) /\ r.kind = "SetLineEncoding"
     /\ line_coding' = "setup"
     /\ Reply(0)
     /\ UNCHANGED ep0_buf_in
  \/ /\ ~Ignored(r) /\ r.kind = "GetLineEncoding"
     /\ Send(r, LineEncodingLength)
     /\ UNCHANGED line_coding
  \/ /\ ~Ignored(r) /\ r.kind \in {"SetControlLineState", "SendBreak"}
     /\ Reply(0)
     /\ UNCHANGED <<ep0_buf_in, line_coding>>
  \/ /\ ~Ignored(r) /\ r.kind \in {"SendEncapsulatedCommand", "ClassElsewhere"}
     /\ Stall
     /\ UNCHANGED <<ep0_buf_in, line_coding>>

(* The setup packet is copied from ep0_buf_out.  Data of the host that have *)
(* overwritten it are taken for a request.                                  *)
TakeSetup ==
  /\ pc = "setup"
  /\ IF "setup" \in seen
     THEN /\ pc' = "serve"
          /\ usb_setup' \in IF ep0_buf_out = NoRequest THEN Request ELSE {ep0_buf_out}
     ELSE pc' = "out" /\ UNCHANGED usb_setup
  /\ UNCHANGED <<seen, eorst, flags, banks, address, ep0_buf_in, ep0_buf_out, usb_configuration,
                 line_coding, multi, host_state>>

(* usb_handle_setup *)
HandleSetup ==
  /\ pc = "serve"
  /\ pc' = "out"
  /\ \/ /\ usb_setup.kind = "GetDescriptor"
        /\ GetDescriptor(usb_setup)
        /\ UNCHANGED <<usb_configuration, line_coding>>
     \/ /\ usb_setup.kind \in Standard \ {"GetDescriptor"}
        /\ StandardRequest(usb_setup)
        /\ UNCHANGED line_coding
     \/ /\ usb_setup.kind \notin Standard
        /\ OtherRequest(usb_setup)
        /\ UNCHANGED usb_configuration
  /\ UNCHANGED <<seen, eorst, rxstp, address, ep0_buf_out, usb_setup, host_state>>

(* usb_handle_control_out_complete and its callback do nothing. *)
HandleOutComplete ==
  /\ pc = "out"
  /\ pc' = "in"
  /\ UNCHANGED <<seen, eorst, flags, banks, address, ep0_buf_in, ep0_buf_out, setup_state, multi,
                 host_state>>

(* Mutant: the completion handler runs whatever the flags say. *)
InDoneAlways == usb_setup # NoRequest

InDone == "in" \in seen

(* usb_handle_control_in_complete: the address takes effect, a descriptor   *)
(* goes on, any other transfer has nothing left to send.                    *)
HandleInComplete ==
  /\ pc = "in"
  /\ pc' = "wait" /\ seen' = {}
  /\ \/ /\ InDone /\ usb_setup.kind = "SetAddress"
        /\ address' = usb_setup.value % 128
        /\ UNCHANGED <<banks, trcpt0, trcpt1, ep0_buf_in, multi>>
     \/ /\ InDone /\ usb_setup.kind = "GetDescriptor"
        /\ InMulti(usb_ep0_in_size, usb_ep0_in_ptr)
        /\ UNCHANGED address
     \/ /\ ~InDone \/ usb_setup.kind \notin {"SetAddress", "GetDescriptor"}
        /\ UNCHANGED <<address, banks, trcpt0, trcpt1, ep0_buf_in, multi>>
  /\ UNCHANGED <<eorst, rxstp, ep0_buf_out, setup_state, host_state>>

Handler ==
  \/ HandleReset \/ ReadFlags \/ ClearFlags
  \/ TakeSetup \/ HandleSetup \/ HandleOutComplete \/ HandleInComplete

-----------------------------------------------------------------------------
(* The host and the controller (external).                                  *)

Reached == host.address = address

(* The stage that follows a setup packet. *)
FirstStage(r) ==
  CASE r.kind \in {"GetStatus", "GetDescriptor", "GetConfiguration", "GetLineEncoding",
                   "GetInterface"} -> "data_in"
    [] r.kind \in {"SetLineEncoding", "SendEncapsulatedCommand"} -> "data_out"
    [] OTHER -> "status_in"

(* The endpoint has a completion of the IN bank or an older setup packet    *)
(* that the handler has not dealt with, or is about to clear its flags.     *)
Busy ==
  \/ trcpt1 \/ "in" \in seen
  \/ pc = "clear"
  \/ pc \in {"setup", "serve"} /\ "setup" \in seen

(* A setup packet, also in the middle of an earlier transfer, which is      *)
(* given up.  Once usb_reset has set the endpoint up the controller takes   *)
(* it whatever the banks hold.                                              *)
HostSetup ==
  /\ requests < MaxRequest /\ Reached /\ ~eorst
  /\ \E r \in Request :
       /\ ep0_buf_out' = r
       /\ host' = [host EXCEPT !.request = r, !.stage = FirstStage(r), !.got = 0,
                               !.clean = ~Busy]
  /\ intact' = TRUE
  /\ rxstp' = TRUE
  /\ bank_in' = [bank_in EXCEPT !.ready = FALSE]
  /\ bank_out' = FALSE
  /\ stalled' = FALSE
  /\ requests' = requests + 1
  /\ UNCHANGED <<pc, seen, eorst, trcpt0, trcpt1, address, ep0_buf_in, setup_state, multi, resets>>

(* What the host should receive next. *)
Expected == [what |-> host.request.kind, value |-> host.request.value, from |-> host.got]

(* A packet of the data stage; a short one or the last byte ends the stage. *)
HostDataIn ==
  /\ Reached /\ host.stage = "data_in" /\ bank_in.ready
  /\ intact' = (intact /\ (bank_in.size > 0 => ep0_buf_in = Expected))
  /\ LET got == host.got + bank_in.size
         last == bank_in.size < Ep0Size \/ got >= host.request.length
     IN host' = [host EXCEPT !.got = got, !.stage = IF last THEN "status_out" ELSE @]
  /\ bank_in' = [bank_in EXCEPT !.ready = FALSE]
  /\ trcpt1' = TRUE
  /\ UNCHANGED <<pc, seen, eorst, rxstp, trcpt0, bank_out, stalled, address, ep0_buf_in, ep0_buf_out,
                 setup_state, multi, requests, resets>>

(* The packet of an OUT data stage; it overwrites the setup packet. *)
HostDataOut ==
  /\ Reached /\ host.stage = "data_out" /\ bank_out
  /\ host' = [host EXCEPT !.stage = "status_in"]
  /\ ep0_buf_out' = NoRequest
  /\ bank_out' = FALSE
  /\ trcpt0' = TRUE
  /\ UNCHANGED <<pc, seen, eorst, rxstp, trcpt1, bank_in, stalled, address, ep0_buf_in, setup_state,
                 multi, intact, requests, resets>>

(* The status stage of a transfer to the host. *)
HostStatusOut ==
  /\ Reached /\ host.stage = "status_out" /\ bank_out
  /\ host' = [host EXCEPT !.stage = "idle"]
  /\ bank_out' = FALSE
  /\ trcpt0' = TRUE
  /\ UNCHANGED <<pc, seen, eorst, rxstp, trcpt1, bank_in, stalled, address, ep0_buf_in, ep0_buf_out,
                 setup_state, multi, intact, requests, resets>>

(* The status stage of a transfer to the device: from here on the host      *)
(* uses the new address.                                                    *)
HostStatusIn ==
  /\ Reached /\ host.stage = "status_in" /\ bank_in.ready
  /\ intact' = (intact /\ bank_in.size = 0)
  /\ host' = [host EXCEPT !.stage = "idle",
                          !.address = IF host.request.kind = "SetAddress"
                                      THEN host.request.value ELSE @]
  /\ bank_in' = [bank_in EXCEPT !.ready = FALSE]
  /\ trcpt1' = TRUE
  /\ UNCHANGED <<pc, seen, eorst, rxstp, trcpt0, bank_out, stalled, address, ep0_buf_in, ep0_buf_out,
                 setup_state, multi, requests, resets>>

(* The host sees the request refused. *)
HostStalled ==
  /\ Reached /\ host.stage # "idle" /\ stalled
  /\ host' = [host EXCEPT !.stage = "idle"]
  /\ UNCHANGED <<pc, seen, eorst, flags, banks, address, ep0_buf_in, ep0_buf_out, setup_state, multi,
                 intact, requests, resets>>

(* A bus reset, at any moment of a run of the handler: the controller       *)
(* clears the flags, the banks and the address.                             *)
BusReset ==
  /\ resets < MaxReset
  /\ resets' = resets + 1
  /\ eorst' = TRUE
  /\ rxstp' = FALSE /\ trcpt0' = FALSE /\ trcpt1' = FALSE
  /\ bank_in' = [bank_in EXCEPT !.ready = FALSE]
  /\ bank_out' = FALSE /\ stalled' = FALSE
  /\ address' = 0
  /\ host' = [request |-> NoRequest, stage |-> "idle", got |-> 0, address |-> 0, clean |-> FALSE]
  /\ UNCHANGED <<pc, seen, ep0_buf_in, ep0_buf_out, setup_state, multi, intact, requests>>

HostStage == HostDataIn \/ HostDataOut \/ HostStatusOut \/ HostStatusIn \/ HostStalled

Next == Handler \/ HostSetup \/ HostStage \/ BusReset

(* The USB process runs when there is something to handle, and the host     *)
(* goes on with a transfer it has begun.                                    *)
Spec == Init /\ [][Next]_vars /\ WF_vars(Handler) /\ WF_vars(HostStage)

-----------------------------------------------------------------------------
(* The properties are about transfers whose setup packet found nothing that *)
(* the handler had still to deal with; others, and what a bus reset finds   *)
(* half done, are served in the wrong order (usb_samd.c:296-307).           *)

(* What the host receives in a data stage are the bytes it asked for, from  *)
(* the first on and without a gap, through every split into packets and     *)
(* every transfer given up before; and no packet of another request.        *)
TransferIntact == host.clean => intact

(* The data stage ends with all of the descriptor, or all that was asked for *)
(* (usb_requests.c:53-67): the total length of the configuration is right   *)
(* and a short packet only ends the last part.                              *)
DescriptorWhole ==
  host.clean /\ host.stage = "status_out" /\ host.request.kind = "GetDescriptor" =>
    host.got = Min({DescriptorLength(host.request.value), host.request.length})

(* The device takes a new address only when the host, having seen the       *)
(* status stage, uses it (usb_requests.c:110-115).                          *)
AddressAfterStatus ==
  [][address' # address => address' = host'.address \/ ~host.clean]_vars

(* A request that the device has to answer or refuse. *)
Due == host.stage # "idle" /\ host.clean /\ ~Ignored(host.request)

(* When the device has nothing left to handle the host can go on with its    *)
(* transfer: it finds the device at the address it uses, and the bank of the *)
(* stage it is in ready, or the request refused.                             *)
TransferGoesOn ==
  pc = "wait" /\ ~rxstp /\ ~trcpt0 /\ ~trcpt1 /\ Due =>
    /\ Reached
    /\ \/ stalled
       \/ host.stage \in {"data_in", "status_in"} /\ bank_in.ready
       \/ host.stage \in {"data_out", "status_out"} /\ bank_out

(* Every request is answered or refused, so that its transfer ends, but for *)
(* those that usb_cb_control_setup ignores.                                 *)
RequestEnds == Due ~> ~Due
=============================================================================
