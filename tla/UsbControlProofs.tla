--------------------------- MODULE UsbControlProofs ---------------------------
(***************************************************************************)
(* What the host receives over the control endpoint and the address the    *)
(* device takes, for any set of requests and any number of them.           *)
(***************************************************************************)
EXTENDS UsbControl, TLAPS

(* A setup packet has been received and not been served; a completion of    *)
(* the IN bank has not been handled.                                        *)
Fresh == rxstp \/ (pc \in {"clear", "setup", "serve"} /\ "setup" \in seen)
DoneIn == trcpt1 \/ "in" \in seen

(* The requests that are answered in a data stage. *)
ToHost == {"GetStatus", "GetDescriptor", "GetConfiguration", "GetLineEncoding", "GetInterface"}

(* What a request asks for: how much of a descriptor, and where it begins. *)
AskedBy(r) == AtMost(DescriptorLength(r.value), r.length)
ContentOf(r) == [what |-> r.kind, value |-> r.value, from |-> 0]

(* What holds of every transfer, also of one that is not served in order.   *)
BaseInv ==
  /\ pc = "wait" => seen = {}
  /\ pc = "serve" => "setup" \in seen /\ usb_setup \in Request
  /\ bank_in.ready \/ DoneIn => usb_setup \in Request
  /\ host.stage # "idle" => host.request \in Request

(* The setup packet of a transfer that found nothing beside it is the next  *)
(* one served, once, before anything else happens at the endpoint; and then *)
(* the device serves the host's request.                                    *)
SetupInv ==
  /\ host.request \in Request
  /\ Fresh =>
       /\ ep0_buf_out = host.request
       /\ host.stage = FirstStage(host.request) /\ host.got = 0
       /\ ~bank_in.ready /\ ~bank_out /\ ~stalled /\ ~DoneIn
  /\ ~Fresh \/ pc = "serve" => usb_setup = host.request
  /\ pc = "clear" /\ rxstp => "setup" \in seen
  /\ pc \in {"setup", "serve"} /\ "setup" \in seen => ~rxstp /\ ~trcpt0

StageInv ==
  /\ host.stage \in {"data_in", "status_out"} => host.request.kind \in ToHost
  /\ host.stage \in {"data_out", "status_in"} => host.request.kind \notin ToHost
  /\ host.stage = "data_out" => host.request.kind # "SetAddress"

(* A completion belongs to the request the device serves; that of          *)
(* SetAddress is the end of its status stage.                              *)
DoneInv ==
  /\ DoneIn => ~bank_in.ready
  /\ stalled => ~bank_in.ready /\ ~DoneIn
  /\ DoneIn /\ usb_setup.kind = "SetAddress" =>
       host.stage = "idle" /\ host.address = usb_setup.value

(* What has been sent and what is left of a descriptor make up what was    *)
(* asked for; the packet in the bank is the next one.                      *)
Sent == host.got + IF bank_in.ready THEN bank_in.size ELSE 0

PacketInv ==
  /\ ~Fresh /\ host.stage = "data_in" /\ ~stalled /\ host.request.kind = "GetDescriptor" =>
       /\ Sent + usb_ep0_in_size = AskedBy(host.request)
       /\ usb_ep0_in_size > 0 => usb_ep0_in_ptr = [ContentOf(host.request) EXCEPT !.from = Sent]
       /\ bank_in.ready /\ bank_in.size > 0 => ep0_buf_in = Expected
       /\ bank_in.ready /\ bank_in.size < Ep0Size => usb_ep0_in_size = 0
  /\ host.stage = "data_in" /\ host.request.kind # "GetDescriptor" =>
       /\ host.got = 0
       /\ bank_in.ready => bank_in.size \in 1 .. Ep0Size - 1 /\ ep0_buf_in = Expected
  /\ host.stage \in {"data_out", "status_in"} /\ bank_in.ready => bank_in.size = 0
  /\ host.stage = "status_out" /\ host.request.kind = "GetDescriptor" =>
       host.got = AskedBy(host.request)

Flow == SetupInv /\ StageInv /\ DoneInv /\ PacketInv /\ intact

Inv == TypeOK /\ BaseInv /\ (host.clean => Flow)
-----------------------------------------------------------------------------
(* Lengths *)

LEMMA RequestIs ==
  ASSUME NEW r \in Request
  PROVE  /\ r.kind \in Standard \cup Class \cup Foreign /\ r.value \in Nat /\ r.length \in Nat
         /\ r # NoRequest
BY RequestAssumption

LEMMA LengthIs ==
  ASSUME NEW value \in Nat
  PROVE  /\ DescriptorLength(value) \in Nat
         /\ InPlace(value) => DescriptorLength(value) <= Ep0Size
<1>1. StringText \in [1 .. 3 -> Nat]
  BY DEF StringText
<1>2. \A n \in Nat : StringLength(n) \in 0 .. Ep0Size
  BY DEF StringLength, Ep0Size
<1>3. StandardLength.device = 18 /\ FullConfigLength \in Nat
  BY DEF StandardLength, FunctionalLength, FullConfigLength
<1>4. DOMAIN StringText = 1 .. 3
  BY <1>1
<1>5. InPlace(value) => StringText[Low(value)] \in Nat
  BY <1>1, <1>4 DEF InPlace
<1>6. InPlace(value) => DescriptorLength(value) = StringLength(StringText[Low(value)])
  BY <1>4 DEF InPlace, DescriptorLength, Device, Configuration, Strings
<1>7. ~InPlace(value) => DescriptorLength(value) \in {StandardLength.device, FullConfigLength, 4, 0}
  BY DEF DescriptorLength
<1>8. CASE InPlace(value)
  BY <1>2, <1>5, <1>6, <1>8 DEF Ep0Size
<1>9. CASE ~InPlace(value)
  BY <1>3, <1>7, <1>9
<1> QED BY <1>8, <1>9

LEMMA AskedIs ==
  ASSUME NEW r \in Request
  PROVE  /\ AskedBy(r) \in Nat /\ AskedBy(r) <= r.length
         /\ InPlace(r.value) => AskedBy(r) <= Ep0Size
BY RequestIs, LengthIs DEF AskedBy, AtMost, Ep0Size

LEMMA PartIs ==
  ASSUME NEW size \in Nat
  PROVE  /\ Part(size) \in 0 .. Ep0Size /\ Part(size) \in Nat /\ size - Part(size) \in Nat
         /\ Part(size) + (size - Part(size)) = size
         /\ Part(size) < Ep0Size => size - Part(size) = 0
         /\ Part(size) = 0 => size = 0
BY DEF Part, Ep0Size

LEMMA ContentIs ==
  ASSUME NEW r \in Request
  PROVE  ContentOf(r) \in Content
BY RequestIs DEF ContentOf, Content, Kinds

LEMMA AdvanceIs ==
  ASSUME NEW ptr \in Content, NEW size \in Nat
  PROVE  /\ Advance(ptr, size) \in Content
         /\ Advance(ptr, size) = [ptr EXCEPT !.from = ptr.from + size]
BY DEF Advance, Content
-----------------------------------------------------------------------------
(* What a setup packet is answered with *)

Answer(r) ==
  \/ Stall /\ UNCHANGED ep0_buf_in
  \/ Ignored(r) /\ UNCHANGED <<banks, trcpt0, trcpt1, multi, ep0_buf_in>>
  \/ \E n \in 0 .. Ep0Size :
       /\ bank_in' = [ready |-> TRUE, size |-> n]
       /\ trcpt1' = FALSE
       /\ UNCHANGED stalled
       /\ ep0_buf_in' \in Content /\ usb_ep0_in_size' \in Nat /\ usb_ep0_in_ptr' \in Content
       /\ {bank_out', trcpt0'} \subseteq BOOLEAN
       /\ r.kind = "GetDescriptor" =>
            /\ n + usb_ep0_in_size' = AskedBy(r)
            /\ usb_ep0_in_size' > 0 => usb_ep0_in_ptr' = [ContentOf(r) EXCEPT !.from = n]
            /\ n > 0 => ep0_buf_in' = ContentOf(r)
            /\ n < Ep0Size => usb_ep0_in_size' = 0
       /\ r.kind \in ToHost \ {"GetDescriptor"} =>
            n \in 1 .. Ep0Size - 1 /\ ep0_buf_in' = ContentOf(r)
       /\ r.kind \notin ToHost => n = 0

LEMMA InMultiIs ==
  ASSUME TypeOK, NEW size \in Nat, NEW ptr \in Content, InMulti(size, ptr)
  PROVE  /\ bank_in' = [ready |-> TRUE, size |-> Part(size)]
         /\ trcpt1' = FALSE /\ UNCHANGED stalled
         /\ ep0_buf_in' \in Content
         /\ Part(size) > 0 => ep0_buf_in' = ptr
         /\ {bank_out', trcpt0'} \subseteq BOOLEAN
         /\ usb_ep0_in_size' \in Nat /\ usb_ep0_in_size' = size - Part(size)
         /\ usb_ep0_in_ptr' \in Content
         /\ usb_ep0_in_ptr' = [ptr EXCEPT !.from = ptr.from + Part(size)]
<1>1. Part(size) \in Nat BY PartIs
<1>2. Advance(ptr, Part(size)) \in Content
      /\ Advance(ptr, Part(size)) = [ptr EXCEPT !.from = ptr.from + Part(size)]
  BY <1>1, AdvanceIs
<1>3. /\ bank_in' = [ready |-> TRUE, size |-> Part(size)] /\ trcpt1' = FALSE
      /\ UNCHANGED stalled
      /\ usb_ep0_in_size' = size - Part(size) /\ usb_ep0_in_ptr' = Advance(ptr, Part(size))
      /\ ep0_buf_in' = IF Part(size) = 0 THEN ep0_buf_in ELSE ptr
      /\ IF Part(size) = 0 THEN bank_out' = TRUE /\ trcpt0' = FALSE
                          ELSE UNCHANGED <<bank_out, trcpt0>>
  BY DEF InMulti, In, Out
<1>4. {bank_out', trcpt0'} \subseteq BOOLEAN
  BY <1>3 DEF TypeOK
<1>5. ep0_buf_in' \in Content /\ (Part(size) > 0 => ep0_buf_in' = ptr)
  BY <1>1, <1>3 DEF TypeOK
<1> QED BY <1>2, <1>3, <1>4, <1>5, PartIs

LEMMA AnswerDescriptor ==
  ASSUME TypeOK, NEW r \in Request, r.kind = "GetDescriptor", GetDescriptor(r)
  PROVE  Answer(r)
<1> DEFINE size == AskedBy(r)
<1>1. size \in Nat /\ ContentOf(r) \in Content /\ DescriptorLength(r.value) \in Nat
  BY AskedIs, ContentIs, RequestIs, LengthIs
<1>2. ToHost \ {"GetDescriptor"} = {"GetStatus", "GetConfiguration", "GetLineEncoding", "GetInterface"}
      /\ r.kind \in ToHost
  BY DEF ToHost
<1>3. CASE DescriptorLength(r.value) = 0
  BY <1>3 DEF GetDescriptor, Answer
<1>4. CASE DescriptorLength(r.value) > 0 /\ InPlace(r.value)
  <2>1. /\ ep0_buf_in' = ContentOf(r) /\ usb_ep0_in_size' = 0
        /\ bank_in' = [ready |-> TRUE, size |-> size] /\ trcpt1' = FALSE
        /\ UNCHANGED <<usb_ep0_in_ptr, bank_out, stalled, trcpt0>>
    BY <1>1, <1>4 DEF GetDescriptor, In, AskedBy, ContentOf
  <2>2. size \in 0 .. Ep0Size BY <1>1, <1>4, AskedIs DEF Ep0Size
  <2>3. usb_ep0_in_ptr \in Content /\ bank_out \in BOOLEAN /\ trcpt0 \in BOOLEAN BY DEF TypeOK
  <2>4. size + 0 = size /\ ~(0 > 0) BY <1>1
  <2> QED BY <1>1, <1>2, <2>1, <2>2, <2>3, <2>4 DEF Answer
<1>5. CASE DescriptorLength(r.value) > 0 /\ ~InPlace(r.value)
  <2>1. InMulti(size, ContentOf(r)) BY <1>1, <1>5 DEF GetDescriptor, AskedBy, ContentOf
  <2>2. ContentOf(r).from + Part(size) = Part(size) BY <1>1, PartIs DEF ContentOf
  <2>3. /\ bank_in' = [ready |-> TRUE, size |-> Part(size)]
        /\ trcpt1' = FALSE /\ UNCHANGED stalled
        /\ ep0_buf_in' \in Content
        /\ Part(size) > 0 => ep0_buf_in' = ContentOf(r)
        /\ {bank_out', trcpt0'} \subseteq BOOLEAN
        /\ usb_ep0_in_size' \in Nat /\ usb_ep0_in_size' = size - Part(size)
        /\ usb_ep0_in_ptr' \in Content
        /\ usb_ep0_in_ptr' = [ContentOf(r) EXCEPT !.from = Part(size)]
    BY <1>1, <2>1, <2>2, InMultiIs
  <2>4. Part(size) \in 0 .. Ep0Size /\ Part(size) + usb_ep0_in_size' = size
        /\ (Part(size) < Ep0Size => usb_ep0_in_size' = 0)
    BY <1>1, <2>3, PartIs
  <2> QED BY <1>2, <2>3, <2>4 DEF Answer
<1> QED BY <1>1, <1>3, <1>4, <1>5

LEMMA AnswerSend ==
  ASSUME TypeOK, NEW r \in Request, r.kind \in ToHost \ {"GetDescriptor"},
         NEW n \in 1 .. Ep0Size - 1, Send(r, n)
  PROVE  Answer(r)
<1>1. n \in 0 .. Ep0Size BY DEF Ep0Size
<1>2. ContentOf(r) \in Content BY ContentIs
<1>3. /\ ep0_buf_in' = ContentOf(r) /\ bank_in' = [ready |-> TRUE, size |-> n]
      /\ trcpt1' = FALSE /\ bank_out' = TRUE /\ trcpt0' = FALSE
      /\ UNCHANGED <<stalled, usb_ep0_in_size, usb_ep0_in_ptr>>
  BY DEF Send, Reply, In, Out, ContentOf, multi
<1>4. usb_ep0_in_size \in Nat /\ usb_ep0_in_ptr \in Content BY DEF TypeOK
<1>5. r.kind # "GetDescriptor" /\ r.kind \in ToHost OBVIOUS
<1> QED BY <1>1, <1>2, <1>3, <1>4, <1>5 DEF Answer

LEMMA AnswerNothing ==
  ASSUME TypeOK, NEW r \in Request, r.kind \notin ToHost, Reply(0), UNCHANGED ep0_buf_in
  PROVE  Answer(r)
<1>1. 0 \in 0 .. Ep0Size BY DEF Ep0Size
<1>2. /\ bank_in' = [ready |-> TRUE, size |-> 0]
      /\ trcpt1' = FALSE /\ bank_out' = TRUE /\ trcpt0' = FALSE
      /\ UNCHANGED <<stalled, usb_ep0_in_size, usb_ep0_in_ptr>>
  BY DEF Reply, In, Out, multi
<1>3. usb_ep0_in_size \in Nat /\ usb_ep0_in_ptr \in Content /\ ep0_buf_in \in Content BY DEF TypeOK
<1>4. r.kind # "GetDescriptor" BY DEF ToHost
<1> QED BY <1>1, <1>2, <1>3, <1>4 DEF Answer

LEMMA AnswerStandard ==
  ASSUME TypeOK, NEW r \in Request, r.kind \in Standard \ {"GetDescriptor"}, StandardRequest(r)
  PROVE  Answer(r) /\ usb_configuration' \in Nat
<1>1. usb_configuration' \in Nat
  <2>1. usb_configuration \in Nat /\ Low(r.value) \in Nat BY RequestIs DEF TypeOK, Low
  <2> QED BY <2>1 DEF StandardRequest
<1>2. CASE r.kind = "GetStatus" /\ Send(r, 2)
  <2>1. r.kind \in ToHost \ {"GetDescriptor"} BY <1>2 DEF ToHost
  <2>2. 2 \in 1 .. Ep0Size - 1 BY DEF Ep0Size
  <2> QED BY <1>1, <1>2, <2>1, <2>2, AnswerSend
<1>3. CASE r.kind = "GetConfiguration" /\ Send(r, 1)
  <2>1. r.kind \in ToHost \ {"GetDescriptor"} BY <1>3 DEF ToHost
  <2>2. 1 \in 1 .. Ep0Size - 1 BY DEF Ep0Size
  <2> QED BY <1>1, <1>3, <2>1, <2>2, AnswerSend
<1>4. CASE /\ r.kind \in {"ClearFeature", "SetFeature", "SetAddress", "SetInterface", "SetConfiguration"}
           /\ Reply(0) /\ UNCHANGED ep0_buf_in
  <2>1. r.kind \notin ToHost BY <1>4 DEF ToHost
  <2> QED BY <1>1, <1>4, <2>1, AnswerNothing
<1>5. CASE Stall /\ UNCHANGED ep0_buf_in
  BY <1>1, <1>5 DEF Answer
<1> QED BY <1>2, <1>3, <1>4, <1>5 DEF StandardRequest

LEMMA AnswerOther ==
  ASSUME TypeOK, NEW r \in Request, r.kind \notin Standard, OtherRequest(r)
  PROVE  Answer(r) /\ line_coding' \in Coding
<1>1. line_coding' \in Coding BY DEF OtherRequest, TypeOK, Coding
<1>2. CASE Ignored(r) /\ UNCHANGED <<banks, trcpt0, trcpt1, multi, ep0_buf_in>>
  BY <1>1, <1>2 DEF Answer
<1>3. CASE Stall /\ UNCHANGED ep0_buf_in
  BY <1>1, <1>3 DEF Answer
<1>4. CASE r.kind = "GetLineEncoding" /\ Send(r, LineEncodingLength)
  <2>1. r.kind \in ToHost \ {"GetDescriptor"} BY <1>4 DEF ToHost
  <2>2. LineEncodingLength \in 1 .. Ep0Size - 1 BY DEF Ep0Size, LineEncodingLength
  <2> QED BY <1>1, <1>4, <2>1, <2>2, AnswerSend
<1>5. CASE /\ r.kind \in {"SetLineEncoding", "SetControlLineState", "SendBreak"}
           /\ Reply(0) /\ UNCHANGED ep0_buf_in
  <2>1. r.kind \notin ToHost BY <1>5 DEF ToHost
  <2> QED BY <1>1, <1>5, <2>1, AnswerNothing
<1> QED BY <1>2, <1>3, <1>4, <1>5 DEF OtherRequest

-----------------------------------------------------------------------------
(* Types *)

LEMMA InitInv == Init => Inv
<1> SUFFICES ASSUME Init PROVE Inv
  OBVIOUS
<1>1. /\ 0 \in 0 .. Ep0Size /\ Nothing \in Content
      /\ 0 \in 0 .. MaxRequest /\ 0 \in 0 .. MaxReset
  BY RequestAssumption DEF Ep0Size, Nothing, Content, Kinds
<1>2. TypeOK
  BY <1>1 DEF Init, TypeOK, Coding, Stage
<1>3. BaseInv /\ ~host.clean
  BY DEF Init, BaseInv, DoneIn
<1> QED BY <1>2, <1>3 DEF Inv

(* What serving a setup packet changes. *)
LEMMA ServeIs ==
  ASSUME Inv, HandleSetup
  PROVE  /\ usb_setup \in Request /\ Answer(usb_setup)
         /\ usb_configuration' \in Nat /\ line_coding' \in Coding
<1> DEFINE r == usb_setup
<1>1. r \in Request BY DEF HandleSetup, Inv, BaseInv
<1>2. usb_configuration \in Nat /\ line_coding \in Coding /\ TypeOK BY DEF Inv, TypeOK
<1>3. CASE r.kind = "GetDescriptor" /\ GetDescriptor(r) /\ UNCHANGED <<usb_configuration, line_coding>>
  BY <1>1, <1>2, <1>3, AnswerDescriptor
<1>4. CASE r.kind \in Standard \ {"GetDescriptor"} /\ StandardRequest(r) /\ UNCHANGED line_coding
  BY <1>1, <1>2, <1>4, AnswerStandard
<1>5. CASE r.kind \notin Standard /\ OtherRequest(r) /\ UNCHANGED usb_configuration
  BY <1>1, <1>2, <1>5, AnswerOther
<1> QED BY <1>3, <1>4, <1>5 DEF HandleSetup

LEMMA AnswerTypes ==
  ASSUME TypeOK, NEW r \in Request, Answer(r)
  PROVE  /\ {bank_out', trcpt0', trcpt1', stalled'} \subseteq BOOLEAN
         /\ bank_in' \in [ready : BOOLEAN, size : 0 .. Ep0Size]
         /\ ep0_buf_in' \in Content
         /\ usb_ep0_in_size' \in Nat /\ usb_ep0_in_ptr' \in Content
         /\ trcpt1' => trcpt1
<1>1. CASE Stall /\ UNCHANGED ep0_buf_in
  BY <1>1 DEF Stall, TypeOK, multi
<1>2. CASE UNCHANGED <<banks, trcpt0, trcpt1, multi, ep0_buf_in>>
  BY <1>2 DEF TypeOK, multi, banks
<1>3. CASE ~(Stall /\ UNCHANGED ep0_buf_in)
           /\ ~UNCHANGED <<banks, trcpt0, trcpt1, multi, ep0_buf_in>>
  <2>1. PICK n \in 0 .. Ep0Size :
       /\ bank_in' = [ready |-> TRUE, size |-> n]
       /\ trcpt1' = FALSE
       /\ UNCHANGED stalled
       /\ ep0_buf_in' \in Content /\ usb_ep0_in_size' \in Nat /\ usb_ep0_in_ptr' \in Content
       /\ {bank_out', trcpt0'} \subseteq BOOLEAN
    BY <1>3 DEF Answer
  <2>2. bank_in' \in [ready : BOOLEAN, size : 0 .. Ep0Size] BY <2>1
  <2> QED BY <2>1, <2>2 DEF TypeOK
<1> QED BY <1>1, <1>2, <1>3

(* The steps of the handler that do not change endpoint 0 but for its flags. *)
Passing == HandleReset \/ ReadFlags \/ ClearFlags \/ TakeSetup \/ HandleOutComplete

LEMMA TypePassing ==
  ASSUME Inv, Passing
  PROVE  TypeOK' /\ BaseInv'
<1>1. TypeOK /\ BaseInv BY DEF Inv
<1>2. CASE HandleReset
  BY <1>1, <1>2 DEF HandleReset, TypeOK, BaseInv, DoneIn, flags, banks, setup_state, multi,
     host_state
<1>3. CASE ReadFlags
  <2>1. /\ seen' \in SUBSET {"setup", "out", "in"} /\ ("in" \in seen' <=> trcpt1) /\ pc' = "clear"
        /\ UNCHANGED <<eorst, flags, banks, address, ep0_buf_in, ep0_buf_out, setup_state, multi,
                       host_state>>
    BY <1>3 DEF ReadFlags
  <2>2. TypeOK' BY <1>1, <2>1 DEF TypeOK, flags, banks, setup_state, multi, host_state
  <2>3. DoneIn' => DoneIn BY <2>1 DEF DoneIn, flags
  <2>4. BaseInv' BY <1>1, <2>1, <2>3 DEF BaseInv, banks, setup_state, host_state
  <2> QED BY <2>2, <2>4
<1>4. CASE ClearFlags
  BY <1>1, <1>4 DEF ClearFlags, TypeOK, BaseInv, DoneIn, banks, setup_state, multi, host_state
<1>5. CASE TakeSetup
  <2>1. /\ \/ pc' = "serve" /\ "setup" \in seen /\ usb_setup' \in Request
           \/ pc' = "out" /\ usb_setup' = usb_setup
        /\ UNCHANGED <<seen, eorst, flags, banks, address, ep0_buf_in, ep0_buf_out,
                       usb_configuration, line_coding, multi, host_state>>
    BY <1>1, <1>5 DEF TakeSetup, TypeOK
  <2>2. TypeOK' BY <1>1, <2>1 DEF TypeOK, flags, banks, multi, host_state
  <2>3. BaseInv' BY <1>1, <2>1 DEF BaseInv, DoneIn, banks, flags, host_state
  <2> QED BY <2>2, <2>3
<1>6. CASE HandleOutComplete
  BY <1>1, <1>6 DEF HandleOutComplete, TypeOK, BaseInv, DoneIn, flags, banks, setup_state, multi,
     host_state
<1> QED BY <1>2, <1>3, <1>4, <1>5, <1>6 DEF Passing

LEMMA TypeHandler ==
  ASSUME Inv, Handler
  PROVE  TypeOK' /\ BaseInv'
<1>1. TypeOK /\ BaseInv BY DEF Inv
<1>2. CASE Passing BY <1>2, TypePassing
<1>3. CASE HandleSetup
  <2>1. /\ pc' = "out"
        /\ UNCHANGED <<seen, eorst, rxstp, address, ep0_buf_out, usb_setup, host, intact, requests,
                       resets>>
    BY <1>3 DEF HandleSetup, host_state
  <2>2. /\ usb_setup \in Request /\ Answer(usb_setup)
        /\ usb_configuration' \in Nat /\ line_coding' \in Coding
    BY <1>3, ServeIs
  <2>3. /\ {bank_out', trcpt0', trcpt1', stalled'} \subseteq BOOLEAN
        /\ bank_in' \in [ready : BOOLEAN, size : 0 .. Ep0Size]
        /\ ep0_buf_in' \in Content
        /\ usb_ep0_in_size' \in Nat /\ usb_ep0_in_ptr' \in Content
    BY <1>1, <2>2, AnswerTypes
  <2>4. TypeOK' BY <1>1, <2>1, <2>2, <2>3 DEF TypeOK
  <2>5. BaseInv' BY <1>1, <2>1, <2>2 DEF BaseInv
  <2> QED BY <2>4, <2>5
<1>4. CASE HandleInComplete
  <2>1. /\ pc' = "wait" /\ seen' = {}
        /\ UNCHANGED <<eorst, rxstp, ep0_buf_out, usb_setup, usb_configuration, line_coding,
                       host, intact, requests, resets>>
    BY <1>4 DEF HandleInComplete, setup_state, host_state
  <2>2. CASE InDone /\ usb_setup.kind = "SetAddress"
    <3>1. usb_setup \in Request
      BY <1>1, <2>2 DEF BaseInv, DoneIn, InDone
    <3>2. address' \in Nat /\ UNCHANGED <<banks, trcpt0, trcpt1, ep0_buf_in, multi>>
      BY <1>4, <2>2, <3>1, RequestIs DEF HandleInComplete
    <3>3. TypeOK' BY <1>1, <2>1, <3>2 DEF TypeOK, banks, multi
    <3>4. BaseInv' BY <1>1, <2>1, <3>1 DEF BaseInv
    <3> QED BY <3>3, <3>4
  <2>3. CASE InDone /\ InMulti(usb_ep0_in_size, usb_ep0_in_ptr) /\ UNCHANGED address
    <3>1. usb_ep0_in_size \in Nat /\ usb_ep0_in_ptr \in Content BY <1>1 DEF TypeOK
    <3>2. Part(usb_ep0_in_size) \in 0 .. Ep0Size BY <3>1, PartIs
    <3>3. bank_in' \in [ready : BOOLEAN, size : 0 .. Ep0Size]
      <4>1. bank_in' = [ready |-> TRUE, size |-> Part(usb_ep0_in_size)]
        BY <1>1, <2>3, <3>1, InMultiIs
      <4> QED BY <3>2, <4>1
    <3>4. /\ trcpt1' = FALSE /\ UNCHANGED stalled /\ ep0_buf_in' \in Content
          /\ {bank_out', trcpt0'} \subseteq BOOLEAN
          /\ usb_ep0_in_size' \in Nat /\ usb_ep0_in_ptr' \in Content
      BY <1>1, <2>3, <3>1, InMultiIs
    <3>5. TypeOK' BY <1>1, <2>1, <2>3, <3>3, <3>4 DEF TypeOK
    <3>6. usb_setup \in Request BY <1>1, <2>3 DEF BaseInv, DoneIn, InDone
    <3>7. BaseInv' BY <1>1, <2>1, <3>6 DEF BaseInv
    <3> QED BY <3>5, <3>7
  <2>4. CASE UNCHANGED <<address, banks, trcpt0, trcpt1, ep0_buf_in, multi>>
    <3>1. TypeOK' BY <1>1, <2>1, <2>4 DEF TypeOK, banks, multi
    <3>2. BaseInv' BY <1>1, <2>1, <2>4 DEF BaseInv, DoneIn, banks
    <3> QED BY <3>1, <3>2
  <2> QED BY <1>4, <2>2, <2>3, <2>4 DEF HandleInComplete
<1> QED BY <1>2, <1>3, <1>4 DEF Handler, Passing

LEMMA StageIs ==
  ASSUME NEW r \in Request
  PROVE  /\ FirstStage(r) \in {"data_in", "data_out", "status_in"}
         /\ FirstStage(r) = "data_in" <=> r.kind \in ToHost
         /\ FirstStage(r) = "data_out" => r.kind # "SetAddress"
BY RequestIs DEF FirstStage, ToHost, Standard, Class, Foreign

HostStates == [request : Request \cup {NoRequest}, stage : Stage, got : Nat, address : Nat,
               clean : BOOLEAN]

LEMMA TypeHost ==
  ASSUME Inv, HostSetup \/ HostStage \/ BusReset
  PROVE  TypeOK' /\ BaseInv'
<1> DEFINE Bank == [ready : BOOLEAN, size : 0 .. Ep0Size]
<1>1. /\ TypeOK /\ BaseInv /\ bank_in \in Bank /\ bank_in.size \in Nat
      /\ host \in HostStates /\ host.got \in Nat
  BY DEF Inv, TypeOK, Ep0Size, HostStates
<1>2. [bank_in EXCEPT !.ready = FALSE] \in Bank
      /\ ~[bank_in EXCEPT !.ready = FALSE].ready
  BY <1>1
<1>3. {"idle", "data_in", "data_out", "status_in", "status_out"} = Stage
  BY DEF Stage
<1>4. CASE HostSetup
  <2>1. PICK r \in Request :
          /\ ep0_buf_out' = r
          /\ host' = [host EXCEPT !.request = r, !.stage = FirstStage(r), !.got = 0,
                                  !.clean = ~Busy]
    BY <1>4 DEF HostSetup
  <2>2. FirstStage(r) \in Stage BY <1>3, StageIs
  <2>3. host' \in HostStates /\ host'.request = r BY <1>1, <2>1, <2>2 DEF HostStates
  <2>4. requests' \in 0 .. MaxRequest
    <3>1. requests \in 0 .. MaxRequest /\ MaxRequest \in Nat
      BY RequestAssumption DEF Inv, TypeOK
    <3>2. requests < MaxRequest /\ requests' = requests + 1 BY <1>4 DEF HostSetup
    <3> QED BY <3>1, <3>2
  <2>5. /\ bank_in' = [bank_in EXCEPT !.ready = FALSE]
        /\ rxstp' = TRUE /\ bank_out' = FALSE /\ stalled' = FALSE /\ intact' = TRUE
        /\ UNCHANGED <<pc, seen, eorst, trcpt0, trcpt1, address, ep0_buf_in, setup_state, multi,
                       resets>>
    BY <1>4 DEF HostSetup
  <2>6. TypeOK' BY <1>1, <1>2, <2>1, <2>3, <2>4, <2>5 DEF TypeOK, setup_state, multi, HostStates
  <2>7. BaseInv' BY <1>1, <1>2, <2>3, <2>5 DEF BaseInv, DoneIn, setup_state
  <2> QED BY <2>6, <2>7
<1>5. CASE HostDataIn
  <2>1. PICK got, stage : /\ got = host.got + bank_in.size /\ stage \in {host.stage, "status_out"}
                          /\ host' = [host EXCEPT !.got = got, !.stage = stage]
    BY <1>1, <1>5 DEF HostDataIn, HostStates
  <2>2. host' \in HostStates /\ host'.request = host.request
    <3>1. got \in Nat /\ stage \in Stage BY <1>1, <1>3, <2>1 DEF HostStates
    <3> QED BY <1>1, <2>1, <3>1 DEF HostStates
  <2>3. intact' \in BOOLEAN BY <1>5 DEF HostDataIn
  <2>4. /\ bank_in' = [bank_in EXCEPT !.ready = FALSE] /\ trcpt1' = TRUE
        /\ bank_in.ready /\ host.stage # "idle"
        /\ UNCHANGED <<pc, seen, eorst, rxstp, trcpt0, bank_out, stalled, address, ep0_buf_in,
                       ep0_buf_out, setup_state, multi, requests, resets>>
    BY <1>5 DEF HostDataIn
  <2>5. TypeOK' BY <1>1, <1>2, <2>2, <2>3, <2>4 DEF TypeOK, setup_state, multi, HostStates
  <2>6. BaseInv' BY <1>1, <2>2, <2>4 DEF BaseInv, setup_state
  <2> QED BY <2>5, <2>6
<1>6. CASE HostDataOut
  <2>1. host' \in HostStates /\ host'.request = host.request /\ host.stage # "idle"
    BY <1>1, <1>3, <1>6 DEF HostDataOut, HostStates
  <2>2. TypeOK' BY <1>1, <1>6, <2>1 DEF HostDataOut, TypeOK, setup_state, multi, HostStates
  <2>3. BaseInv' BY <1>1, <1>6, <2>1 DEF HostDataOut, BaseInv, DoneIn, setup_state
  <2> QED BY <2>2, <2>3
<1>7. CASE HostStatusOut
  <2>1. host' \in HostStates /\ host'.stage = "idle"
    BY <1>1, <1>3, <1>7 DEF HostStatusOut, HostStates
  <2>2. TypeOK' BY <1>1, <1>7, <2>1 DEF HostStatusOut, TypeOK, setup_state, multi, HostStates
  <2>3. BaseInv' BY <1>1, <1>7, <2>1 DEF HostStatusOut, BaseInv, DoneIn, setup_state
  <2> QED BY <2>2, <2>3
<1>8. CASE HostStatusIn
  <2>1. host.request \in Request BY <1>1, <1>8 DEF BaseInv, HostStatusIn
  <2>2. PICK a \in Nat : host' = [host EXCEPT !.stage = "idle", !.address = a]
    BY <1>1, <1>8, <2>1, RequestIs DEF HostStatusIn, HostStates
  <2>3. host' \in HostStates /\ host'.stage = "idle" BY <1>1, <1>3, <2>2 DEF HostStates
  <2>4. intact' \in BOOLEAN BY <1>8 DEF HostStatusIn
  <2>5. /\ bank_in' = [bank_in EXCEPT !.ready = FALSE] /\ trcpt1' = TRUE /\ bank_in.ready
        /\ UNCHANGED <<pc, seen, eorst, rxstp, trcpt0, bank_out, stalled, address, ep0_buf_in,
                       ep0_buf_out, setup_state, multi, requests, resets>>
    BY <1>8 DEF HostStatusIn
  <2>6. TypeOK' BY <1>1, <1>2, <2>3, <2>4, <2>5 DEF TypeOK, setup_state, multi, HostStates
  <2>7. BaseInv' BY <1>1, <2>3, <2>5 DEF BaseInv, setup_state
  <2> QED BY <2>6, <2>7
<1>9. CASE HostStalled
  <2>1. host' \in HostStates /\ host'.stage = "idle"
    BY <1>1, <1>3, <1>9 DEF HostStalled, HostStates
  <2>2. TypeOK' BY <1>1, <1>9, <2>1 DEF HostStalled, TypeOK, flags, banks, setup_state, multi,
                  HostStates
  <2>3. BaseInv' BY <1>1, <1>9, <2>1 DEF HostStalled, BaseInv, DoneIn, flags, banks, setup_state
  <2> QED BY <2>2, <2>3
<1>10. CASE BusReset
  <2>1. host' \in HostStates /\ host'.stage = "idle" BY <1>3, <1>10 DEF BusReset, HostStates
  <2>2. resets' \in 0 .. MaxReset BY <1>1, <1>10, RequestAssumption DEF BusReset, TypeOK
  <2>3. TypeOK' BY <1>1, <1>2, <1>10, <2>1, <2>2 DEF BusReset, TypeOK, setup_state, multi,
                  HostStates
  <2>4. BaseInv' BY <1>1, <1>2, <1>10, <2>1 DEF BusReset, BaseInv, DoneIn, setup_state
  <2> QED BY <2>3, <2>4
<1> QED BY <1>4, <1>5, <1>6, <1>7, <1>8, <1>9, <1>10 DEF HostStage

-----------------------------------------------------------------------------
(* The flow of a transfer *)

LEMMA SameFlow ==
  ASSUME Flow,
         UNCHANGED <<bank_in, bank_out, stalled, ep0_buf_in, ep0_buf_out,
                     usb_ep0_in_size, usb_ep0_in_ptr, host, intact>>,
         Fresh' <=> Fresh, DoneIn' => DoneIn, usb_setup' = usb_setup \/ (Fresh /\ ~DoneIn'),
         SetupInv'
  PROVE  Flow'
<1>1. StageInv' BY DEF Flow, StageInv
<1>2. DoneInv'
  <2>1. (DoneIn => ~bank_in.ready)' BY DEF Flow, DoneInv
  <2>2. (stalled => ~bank_in.ready /\ ~DoneIn)' BY DEF Flow, DoneInv
  <2>3. (DoneIn /\ usb_setup.kind = "SetAddress" =>
           host.stage = "idle" /\ host.address = usb_setup.value)'
    BY DEF Flow, DoneInv
  <2> QED BY <2>1, <2>2, <2>3 DEF DoneInv
<1>3. PacketInv'
  <2>1. Sent' = Sent /\ Expected' = Expected BY DEF Sent, Expected
  <2> QED BY <2>1 DEF Flow, PacketInv
<1> QED BY <1>1, <1>2, <1>3 DEF Flow

LEMMA FlowPassing ==
  ASSUME Inv, host.clean, Passing
  PROVE  Flow'
<1>1. Flow /\ TypeOK /\ BaseInv BY DEF Inv
<1>2. SetupInv BY <1>1 DEF Flow
<1>3. CASE HandleReset \/ HandleOutComplete
  <2>1. /\ UNCHANGED <<bank_in, bank_out, stalled, ep0_buf_in, ep0_buf_out, usb_setup,
                       usb_ep0_in_size, usb_ep0_in_ptr, host, intact, seen, rxstp, trcpt0, trcpt1>>
        /\ pc \in {"wait", "out"} /\ pc' \in {"wait", "in"}
    BY <1>3 DEF HandleReset, HandleOutComplete, flags, banks, setup_state, multi, host_state
  <2>2. (Fresh' <=> Fresh) /\ (DoneIn' <=> DoneIn) BY <2>1 DEF Fresh, DoneIn
  <2>3. SetupInv' BY <1>2, <2>1, <2>2 DEF SetupInv
  <2> QED BY <1>1, <2>1, <2>2, <2>3, SameFlow
<1>4. CASE ReadFlags
  <2>1. /\ UNCHANGED <<bank_in, bank_out, stalled, ep0_buf_in, ep0_buf_out, usb_setup,
                       usb_ep0_in_size, usb_ep0_in_ptr, host, intact, rxstp, trcpt0, trcpt1>>
        /\ pc = "wait" /\ pc' = "clear"
        /\ ("setup" \in seen' <=> rxstp) /\ ("in" \in seen' <=> trcpt1)
    BY <1>4 DEF ReadFlags, flags, banks, setup_state, multi, host_state
  <2>2. (Fresh' <=> Fresh) /\ (DoneIn' => DoneIn) BY <2>1 DEF Fresh, DoneIn
  <2>3. SetupInv' BY <1>2, <2>1, <2>2 DEF SetupInv
  <2> QED BY <1>1, <2>1, <2>2, <2>3, SameFlow
<1>5. CASE ClearFlags
  <2>1. /\ UNCHANGED <<bank_in, bank_out, stalled, ep0_buf_in, ep0_buf_out, usb_setup,
                       usb_ep0_in_size, usb_ep0_in_ptr, host, intact, seen>>
        /\ pc = "clear" /\ pc' = "setup" /\ ~rxstp' /\ ~trcpt0' /\ ~trcpt1'
    BY <1>5 DEF ClearFlags, banks, setup_state, multi, host_state
  <2>2. rxstp => "setup" \in seen BY <1>2, <2>1 DEF SetupInv
  <2>3. (Fresh' <=> Fresh) /\ (DoneIn' => DoneIn) BY <2>1, <2>2 DEF Fresh, DoneIn
  <2>4. SetupInv' BY <1>2, <2>1, <2>3 DEF SetupInv
  <2> QED BY <1>1, <2>1, <2>3, <2>4, SameFlow
<1>6. CASE TakeSetup /\ "setup" \in seen
  <2>1. /\ UNCHANGED <<bank_in, bank_out, stalled, ep0_buf_in, ep0_buf_out, usb_ep0_in_size,
                       usb_ep0_in_ptr, host, intact, seen, rxstp, trcpt0, trcpt1>>
        /\ pc = "setup" /\ pc' = "serve"
        /\ usb_setup' \in IF ep0_buf_out = NoRequest THEN Request ELSE {ep0_buf_out}
    BY <1>6 DEF TakeSetup, flags, banks, multi, host_state
  <2>2. Fresh /\ Fresh' BY <1>6, <2>1 DEF Fresh
  <2>3. ~DoneIn /\ ~DoneIn' BY <1>2, <2>1, <2>2 DEF SetupInv, DoneIn
  <2>4. usb_setup' = host.request BY <1>2, <2>1, <2>2, RequestIs DEF SetupInv
  <2>5. SetupInv' BY <1>2, <2>1, <2>2, <2>3, <2>4 DEF SetupInv
  <2> QED BY <1>1, <2>1, <2>2, <2>3, <2>5, SameFlow
<1>7. CASE TakeSetup /\ "setup" \notin seen
  <2>1. /\ UNCHANGED <<bank_in, bank_out, stalled, ep0_buf_in, ep0_buf_out, usb_ep0_in_size,
                       usb_ep0_in_ptr, usb_setup, host, intact, seen, rxstp, trcpt0, trcpt1>>
        /\ pc = "setup" /\ pc' = "out"
    BY <1>7 DEF TakeSetup, flags, banks, multi, host_state
  <2>2. (Fresh' <=> Fresh) /\ (DoneIn' <=> DoneIn) BY <1>7, <2>1 DEF Fresh, DoneIn
  <2>3. SetupInv' BY <1>2, <1>7, <2>1, <2>2 DEF SetupInv
  <2> QED BY <1>1, <2>1, <2>2, <2>3, SameFlow
<1> QED BY <1>3, <1>4, <1>5, <1>6, <1>7 DEF Passing

LEMMA SendingFacts ==
  ASSUME Inv, host.clean
  PROVE  /\ bank_in.ready => ~Fresh /\ ~DoneIn /\ ~stalled
         /\ bank_in.ready \in BOOLEAN /\ bank_in.size \in 0 .. Ep0Size /\ bank_in.size \in Nat
         /\ host.got \in Nat /\ usb_ep0_in_size \in Nat
         /\ host.request \in Request
         /\ AskedBy(host.request) \in Nat
<1>1. bank_in.size \in 0 .. Ep0Size BY DEF Inv, TypeOK
<1>2. bank_in.size \in Nat BY <1>1 DEF Ep0Size
<1>3. host.request \in Request BY DEF Inv, Flow, SetupInv
<1>4. AskedBy(host.request) \in Nat BY <1>3, AskedIs
<1> QED BY <1>1, <1>2, <1>3, <1>4 DEF Inv, TypeOK, Flow, SetupInv, DoneInv

LEMMA FlowServe ==
  ASSUME Inv, host.clean, HandleSetup
  PROVE  Flow'
<1>1. Flow /\ TypeOK /\ BaseInv /\ SetupInv BY DEF Inv, Flow
<1>2. /\ pc = "serve" /\ pc' = "out"
      /\ UNCHANGED <<seen, rxstp, ep0_buf_out, usb_setup, host, intact>>
  BY DEF HandleSetup, host_state
<1>3. "setup" \in seen /\ Fresh BY <1>1, <1>2 DEF BaseInv, Fresh
<1> DEFINE r == usb_setup
<1>4. r \in Request /\ Answer(r) /\ r = host.request
  BY <1>1, <1>2, ServeIs DEF SetupInv
<1>5. /\ host.stage = FirstStage(r) /\ host.got = 0 /\ ~bank_in.ready /\ ~DoneIn /\ ~rxstp
      /\ ~stalled
  BY <1>1, <1>2, <1>3, <1>4 DEF SetupInv
<1>6. "in" \notin seen /\ ~trcpt1 BY <1>5 DEF DoneIn
<1>7. ~Fresh' BY <1>2, <1>5 DEF Fresh
<1>8. host.stage \in {"data_in", "data_out", "status_in"}
      /\ (host.stage = "data_in" <=> r.kind \in ToHost)
  BY <1>4, <1>5, StageIs
<1>9. /\ ContentOf(r) = Expected' /\ "GetDescriptor" \in ToHost
  BY <1>2, <1>4, <1>5 DEF ContentOf, Expected, ToHost
<1>10. StageInv' BY <1>1, <1>2 DEF Flow, StageInv
<1>11. intact' BY <1>1, <1>2 DEF Flow
<1>12. SetupInv' BY <1>1, <1>2, <1>4, <1>7 DEF SetupInv
<1>13. CASE \/ Stall /\ UNCHANGED ep0_buf_in
            \/ Ignored(r) /\ UNCHANGED <<banks, trcpt0, trcpt1, multi, ep0_buf_in>>
  <2>1. bank_in' = bank_in /\ trcpt1' = trcpt1
        /\ (stalled' \/ r.kind # "GetDescriptor")
    BY <1>13 DEF Stall, Ignored, banks, Class
  <2>2. ~DoneIn' BY <1>2, <1>6, <2>1 DEF DoneIn
  <2>3. DoneInv' BY <1>5, <2>1, <2>2 DEF DoneInv
  <2>4. PacketInv' BY <1>2, <1>4, <1>5, <1>8, <2>1 DEF PacketInv
  <2> QED BY <1>10, <1>11, <1>12, <2>3, <2>4 DEF Flow
<1>14. CASE ~(\/ Stall /\ UNCHANGED ep0_buf_in
              \/ Ignored(r) /\ UNCHANGED <<banks, trcpt0, trcpt1, multi, ep0_buf_in>>)
  <2>1. PICK n \in 0 .. Ep0Size :
       /\ bank_in' = [ready |-> TRUE, size |-> n]
       /\ trcpt1' = FALSE
       /\ UNCHANGED stalled
       /\ usb_ep0_in_size' \in Nat
       /\ r.kind = "GetDescriptor" =>
            /\ n + usb_ep0_in_size' = AskedBy(r)
            /\ usb_ep0_in_size' > 0 => usb_ep0_in_ptr' = [ContentOf(r) EXCEPT !.from = n]
            /\ n > 0 => ep0_buf_in' = ContentOf(r)
            /\ n < Ep0Size => usb_ep0_in_size' = 0
       /\ r.kind \in ToHost \ {"GetDescriptor"} =>
            n \in 1 .. Ep0Size - 1 /\ ep0_buf_in' = ContentOf(r)
       /\ r.kind \notin ToHost => n = 0
    BY <1>4, <1>14 DEF Answer
  <2>2. ~DoneIn' /\ ~stalled' BY <1>2, <1>5, <1>6, <2>1 DEF DoneIn
  <2>3. DoneInv' BY <2>2 DEF DoneInv
  <2>4. bank_in'.ready /\ bank_in'.size = n BY <2>1
  <2>5. Sent' = n BY <1>2, <1>5, <2>4 DEF Sent, Ep0Size
  <2>6. /\ host' = host /\ host.request = r /\ host.got = 0 BY <1>2, <1>4, <1>5
  <2>7. PacketInv'
    <3>1. r.kind = "GetDescriptor" =>
            /\ (Sent + usb_ep0_in_size = AskedBy(host.request))'
            /\ (usb_ep0_in_size > 0 => usb_ep0_in_ptr = [ContentOf(host.request) EXCEPT !.from = Sent])'
            /\ (bank_in.ready /\ bank_in.size > 0 => ep0_buf_in = Expected)'
            /\ (bank_in.ready /\ bank_in.size < Ep0Size => usb_ep0_in_size = 0)'
      BY <1>9, <2>1, <2>4, <2>5, <2>6
    <3>2. r.kind \in ToHost \ {"GetDescriptor"} =>
            bank_in'.size \in 1 .. Ep0Size - 1 /\ ep0_buf_in' = Expected'
      BY <1>9, <2>1, <2>4
    <3>3. r.kind \notin ToHost => bank_in'.size = 0 BY <2>1, <2>4
    <3> QED BY <1>8, <1>9, <2>6, <3>1, <3>2, <3>3 DEF PacketInv
  <2> QED BY <1>10, <1>11, <1>12, <2>3, <2>7 DEF Flow
<1> QED BY <1>13, <1>14

LEMMA FlowMore ==
  ASSUME Inv, host.clean, HandleInComplete, InDone, usb_setup.kind = "GetDescriptor"
  PROVE  Flow'
<1>1. /\ pc = "in" /\ pc' = "wait" /\ seen' = {}
      /\ UNCHANGED <<rxstp, ep0_buf_out, usb_setup, host, intact>>
      /\ InMulti(usb_ep0_in_size, usb_ep0_in_ptr)
  BY DEF HandleInComplete, setup_state, host_state
<1>2. Flow /\ SetupInv /\ DoneIn BY DEF Inv, Flow, DoneIn, InDone
<1>3. ~Fresh /\ ~bank_in.ready /\ ~stalled /\ ~rxstp
  BY <1>2 DEF Flow, SetupInv, DoneInv, Fresh
<1>4. usb_ep0_in_size \in Nat /\ usb_ep0_in_ptr \in Content /\ TypeOK BY DEF Inv, TypeOK
<1> DEFINE n == Part(usb_ep0_in_size)
<1>5. /\ bank_in' = [ready |-> TRUE, size |-> n] /\ trcpt1' = FALSE /\ UNCHANGED stalled
      /\ n > 0 => ep0_buf_in' = usb_ep0_in_ptr
      /\ usb_ep0_in_size' = usb_ep0_in_size - n
      /\ usb_ep0_in_ptr' = [usb_ep0_in_ptr EXCEPT !.from = usb_ep0_in_ptr.from + n]
  BY <1>1, <1>4, InMultiIs
<1>6. /\ n \in Nat /\ usb_ep0_in_size - n \in Nat /\ n + (usb_ep0_in_size - n) = usb_ep0_in_size
      /\ n < Ep0Size => usb_ep0_in_size - n = 0
      /\ n > 0 => usb_ep0_in_size > 0
      /\ usb_ep0_in_size - n > 0 => usb_ep0_in_size > 0
  BY <1>4, PartIs
<1>7. ~Fresh' /\ ~DoneIn' /\ ~stalled' BY <1>1, <1>3, <1>5 DEF Fresh, DoneIn
<1>8. SetupInv' BY <1>1, <1>2, <1>3, <1>7 DEF SetupInv
<1>9. StageInv' BY <1>1, <1>2 DEF Flow, StageInv
<1>10. DoneInv' BY <1>7 DEF DoneInv
<1>11. intact' BY <1>1, <1>2 DEF Flow
<1>12. host.request = usb_setup /\ host.request \in Request
  BY <1>2, <1>3 DEF SetupInv
<1>13. host.stage \notin {"data_out", "status_in"}
  BY <1>2, <1>12 DEF Flow, StageInv, ToHost
<1>14. bank_in'.ready /\ bank_in'.size = n BY <1>5
<1>15. host.got \in Nat /\ Sent = host.got /\ Sent' = host.got + n
  BY <1>1, <1>3, <1>14, SendingFacts DEF Sent
<1>16. CASE host.stage = "data_in"
  <2>1. /\ host.got + usb_ep0_in_size = AskedBy(host.request)
        /\ usb_ep0_in_size > 0 => usb_ep0_in_ptr = [ContentOf(host.request) EXCEPT !.from = host.got]
    BY <1>2, <1>3, <1>12, <1>15, <1>16 DEF Flow, PacketInv
  <2>2. AskedBy(host.request) \in Nat BY SendingFacts
  <2>3. Sent' + usb_ep0_in_size' = AskedBy(host.request) BY <1>4, <1>5, <1>6, <1>15, <2>1, <2>2
  <2>4. usb_ep0_in_size > 0 => usb_ep0_in_ptr = Expected BY <2>1 DEF ContentOf, Expected
  <2>5. usb_ep0_in_size' > 0 => usb_ep0_in_ptr' = [ContentOf(host.request) EXCEPT !.from = Sent']
    BY <1>5, <1>6, <1>15, <2>1 DEF ContentOf
  <2>6. n > 0 => ep0_buf_in' = Expected' BY <1>1, <1>5, <1>6, <2>4 DEF Expected
  <2>7. PacketInv'
    BY <1>1, <1>5, <1>6, <1>12, <1>14, <1>16, <2>3, <2>5, <2>6 DEF PacketInv
  <2> QED BY <1>8, <1>9, <1>10, <1>11, <2>7 DEF Flow
<1>17. CASE host.stage # "data_in"
  <2>1. PacketInv' BY <1>1, <1>2, <1>13, <1>17 DEF Flow, PacketInv
  <2> QED BY <1>8, <1>9, <1>10, <1>11, <2>1 DEF Flow
<1> QED BY <1>16, <1>17

LEMMA FlowHandler ==
  ASSUME Inv, host.clean, Handler
  PROVE  Flow'
<1>1. CASE Passing BY <1>1, FlowPassing
<1>2. CASE HandleSetup BY <1>2, FlowServe
<1>3. CASE HandleInComplete
  <2>1. CASE InDone /\ usb_setup.kind = "GetDescriptor" BY <1>3, <2>1, FlowMore
  <2>2. CASE ~(InDone /\ usb_setup.kind = "GetDescriptor")
    <3>1. /\ UNCHANGED <<bank_in, bank_out, stalled, ep0_buf_in, ep0_buf_out, usb_setup,
                         usb_ep0_in_size, usb_ep0_in_ptr, host, intact, rxstp, trcpt0, trcpt1>>
          /\ pc = "in" /\ pc' = "wait" /\ seen' = {}
      BY <1>3, <2>2 DEF HandleInComplete, banks, setup_state, multi, host_state
    <3>2. (Fresh' <=> Fresh) /\ (DoneIn' => DoneIn) BY <3>1 DEF Fresh, DoneIn
    <3>3. Flow /\ SetupInv BY DEF Inv, Flow
    <3>4. SetupInv' BY <3>1, <3>2, <3>3 DEF SetupInv
    <3> QED BY <3>1, <3>2, <3>3, <3>4, SameFlow
  <2> QED BY <2>1, <2>2
<1> QED BY <1>1, <1>2, <1>3 DEF Handler, Passing

LEMMA FlowSetup ==
  ASSUME Inv, HostSetup, ~Busy
  PROVE  Flow'
<1>1. PICK r \in Request :
        /\ ep0_buf_out' = r
        /\ host' = [host EXCEPT !.request = r, !.stage = FirstStage(r), !.got = 0,
                                !.clean = ~Busy]
  BY DEF HostSetup
<1>2. /\ rxstp' = TRUE /\ intact' = TRUE
      /\ bank_in' = [bank_in EXCEPT !.ready = FALSE] /\ ~bank_out' /\ ~stalled'
      /\ UNCHANGED <<pc, seen, trcpt0, trcpt1, usb_setup>>
  BY DEF HostSetup, setup_state
<1>3. /\ ~trcpt1 /\ "in" \notin seen /\ pc # "clear"
      /\ pc \in {"setup", "serve"} => "setup" \notin seen
  BY DEF Busy
<1>4. pc # "serve" BY <1>3 DEF Inv, BaseInv
<1>5. Fresh' /\ ~DoneIn' BY <1>2, <1>3 DEF Fresh, DoneIn
<1>6. ~bank_in'.ready BY <1>2 DEF Inv, TypeOK
<1>7. host'.request = r /\ host'.stage = FirstStage(r) /\ host'.got = 0
  BY <1>1 DEF Inv, TypeOK
<1>8. /\ FirstStage(r) \in {"data_in", "data_out", "status_in"}
      /\ FirstStage(r) = "data_in" <=> r.kind \in ToHost
      /\ FirstStage(r) = "data_out" => r.kind # "SetAddress"
  BY StageIs
<1>9. SetupInv' BY <1>1, <1>2, <1>3, <1>4, <1>5, <1>6, <1>7 DEF SetupInv
<1>10. StageInv' BY <1>7, <1>8 DEF StageInv
<1>11. DoneInv' BY <1>2, <1>5 DEF DoneInv
<1>12. PacketInv' BY <1>5, <1>6, <1>7, <1>8 DEF PacketInv
<1> QED BY <1>2, <1>9, <1>10, <1>11, <1>12 DEF Flow

LEMMA FlowDataIn ==
  ASSUME Inv, host.clean, HostDataIn
  PROVE  Flow'
<1> DEFINE got == host.got + bank_in.size
           last == bank_in.size < Ep0Size \/ got >= host.request.length
           r == host.request
<1>1. /\ host.stage = "data_in" /\ bank_in.ready /\ trcpt1'
      /\ host' = [host EXCEPT !.got = got, !.stage = IF last THEN "status_out" ELSE host.stage]
      /\ bank_in' = [bank_in EXCEPT !.ready = FALSE]
      /\ intact' = (intact /\ (bank_in.size > 0 => ep0_buf_in = Expected))
      /\ UNCHANGED <<pc, seen, rxstp, trcpt0, bank_out, stalled, ep0_buf_in, ep0_buf_out,
                     usb_setup, usb_ep0_in_size, usb_ep0_in_ptr>>
  BY DEF HostDataIn, setup_state, multi, Inv, TypeOK
<1>2. Flow /\ SetupInv /\ ~Fresh /\ ~DoneIn /\ ~stalled BY <1>1, SendingFacts DEF Inv, Flow
<1>3. r \in Request /\ usb_setup = r /\ r.kind \in ToHost
  BY <1>1, <1>2 DEF Flow, SetupInv, StageInv
<1>4. ~Fresh' BY <1>1, <1>2 DEF Fresh
<1>5. /\ host'.request = r /\ host'.got = got
      /\ host'.stage \in {"data_in", "status_out"} /\ (host'.stage = "status_out" <=> last)
      /\ ~bank_in'.ready
  BY <1>1 DEF Inv, TypeOK
<1>6. /\ bank_in.size \in Nat /\ host.got \in Nat /\ got \in Nat /\ usb_ep0_in_size \in Nat
      /\ AskedBy(r) \in Nat /\ AskedBy(r) <= r.length /\ r.length \in Nat
  BY <1>3, SendingFacts, AskedIs, RequestIs
<1>7. Sent = got /\ Sent' = got BY <1>1, <1>5, <1>6 DEF Sent
<1>8. SetupInv' BY <1>1, <1>2, <1>3, <1>4, <1>5 DEF SetupInv
<1>9. StageInv' BY <1>3, <1>5 DEF StageInv
<1>10. DoneInv' BY <1>1, <1>2, <1>3, <1>5 DEF DoneInv, ToHost
<1>11. CASE r.kind = "GetDescriptor"
  <2>1. /\ got + usb_ep0_in_size = AskedBy(r)
        /\ usb_ep0_in_size > 0 => usb_ep0_in_ptr = [ContentOf(r) EXCEPT !.from = got]
        /\ bank_in.size > 0 => ep0_buf_in = Expected
        /\ bank_in.size < Ep0Size => usb_ep0_in_size = 0
    BY <1>1, <1>2, <1>7, <1>11 DEF Flow, PacketInv
  <2>2. intact' BY <1>1, <1>2, <2>1 DEF Flow
  <2>3. last => got = AskedBy(r) BY <1>6, <2>1
  <2>4. (Sent + usb_ep0_in_size = AskedBy(host.request))' BY <1>1, <1>5, <1>7, <2>1
  <2>5. (usb_ep0_in_size > 0 => usb_ep0_in_ptr = [ContentOf(host.request) EXCEPT !.from = Sent])'
    BY <1>1, <1>5, <1>7, <2>1
  <2>6. PacketInv' BY <1>5, <1>11, <2>3, <2>4, <2>5 DEF PacketInv
  <2> QED BY <1>8, <1>9, <1>10, <2>2, <2>6 DEF Flow
<1>12. CASE r.kind # "GetDescriptor"
  <2>1. host.got = 0 /\ bank_in.size \in 1 .. Ep0Size - 1 /\ ep0_buf_in = Expected
    BY <1>1, <1>2, <1>12 DEF Flow, PacketInv
  <2>2. last BY <1>6, <2>1 DEF Ep0Size
  <2>3. PacketInv' BY <1>5, <1>12, <2>2 DEF PacketInv
  <2>4. intact' BY <1>1, <1>2, <2>1 DEF Flow
  <2> QED BY <1>8, <1>9, <1>10, <2>3, <2>4 DEF Flow
<1> QED BY <1>11, <1>12

LEMMA FlowStatusIn ==
  ASSUME Inv, host.clean, HostStatusIn
  PROVE  Flow'
<1> DEFINE a == IF host.request.kind = "SetAddress" THEN host.request.value ELSE host.address
<1>1. /\ host.stage = "status_in" /\ bank_in.ready /\ trcpt1'
      /\ host' = [host EXCEPT !.stage = "idle", !.address = a]
      /\ bank_in' = [bank_in EXCEPT !.ready = FALSE]
      /\ intact' = (intact /\ bank_in.size = 0)
      /\ UNCHANGED <<pc, seen, rxstp, trcpt0, bank_out, stalled, usb_setup, ep0_buf_out>>
  BY DEF HostStatusIn, setup_state
<1>2. Flow /\ SetupInv /\ ~Fresh /\ ~DoneIn /\ ~stalled BY <1>1, SendingFacts DEF Inv, Flow
<1>3. host.request \in Request /\ usb_setup = host.request
  BY <1>2 DEF SetupInv
<1>4. ~Fresh' BY <1>1, <1>2 DEF Fresh
<1>5. host'.stage = "idle" /\ host'.address = a /\ ~bank_in'.ready /\ host'.request = host.request
  BY <1>1 DEF Inv, TypeOK
<1>6. SetupInv' BY <1>1, <1>2, <1>3, <1>4, <1>5 DEF SetupInv
<1>7. StageInv' BY <1>5 DEF StageInv
<1>8. DoneInv' BY <1>1, <1>2, <1>3, <1>5 DEF DoneInv
<1>9. PacketInv' BY <1>5 DEF PacketInv
<1>10. intact' BY <1>1, <1>2 DEF Flow, PacketInv
<1> QED BY <1>6, <1>7, <1>8, <1>9, <1>10 DEF Flow

LEMMA FlowOther ==
  ASSUME Inv, host.clean, HostDataOut \/ HostStatusOut \/ HostStalled
  PROVE  Flow'
<1>1. Flow /\ TypeOK /\ SetupInv BY DEF Inv, Flow
<1>2. CASE HostDataOut
  <2>1. /\ host.stage = "data_out" /\ bank_out
        /\ host' = [host EXCEPT !.stage = "status_in"]
        /\ UNCHANGED <<pc, seen, rxstp, trcpt1, bank_in, stalled, usb_setup, intact>>
    BY <1>2 DEF HostDataOut, setup_state
  <2>2. ~Fresh BY <1>1, <2>1 DEF SetupInv
  <2>3. (Fresh' <=> Fresh) /\ (DoneIn' <=> DoneIn) BY <2>1 DEF Fresh, DoneIn
  <2>4. host'.stage = "status_in" /\ host'.request = host.request BY <1>1, <2>1 DEF TypeOK
  <2>5. pc \in {"setup", "serve"} => "setup" \notin seen BY <2>2 DEF Fresh
  <2>6. SetupInv' BY <1>1, <2>1, <2>2, <2>3, <2>4, <2>5 DEF SetupInv
  <2>7. StageInv' BY <1>1, <2>1, <2>4 DEF Flow, StageInv
  <2>8. DoneInv' BY <1>1, <2>1, <2>3, <2>4 DEF Flow, DoneInv
  <2>9. PacketInv' BY <1>1, <2>1, <2>4 DEF Flow, PacketInv
  <2> QED BY <1>1, <2>1, <2>6, <2>7, <2>8, <2>9 DEF Flow
<1>3. CASE HostStatusOut \/ HostStalled
  <2>1. /\ host.stage # "idle" /\ (bank_out \/ stalled)
        /\ host' = [host EXCEPT !.stage = "idle"]
        /\ UNCHANGED <<pc, seen, rxstp, trcpt1, bank_in, stalled, usb_setup, intact>>
    BY <1>3 DEF HostStatusOut, HostStalled, setup_state, flags, banks
  <2>2. ~Fresh BY <1>1, <2>1 DEF SetupInv
  <2>3. (Fresh' <=> Fresh) /\ (DoneIn' <=> DoneIn) BY <2>1 DEF Fresh, DoneIn
  <2>4. host'.stage = "idle" /\ host'.address = host.address /\ host'.request = host.request
    BY <1>1, <2>1 DEF TypeOK
  <2>5. pc \in {"setup", "serve"} => "setup" \notin seen BY <2>2 DEF Fresh
  <2>6. SetupInv' BY <1>1, <2>1, <2>2, <2>3, <2>4, <2>5 DEF SetupInv
  <2>7. StageInv' /\ PacketInv' BY <2>4 DEF StageInv, PacketInv
  <2>8. DoneInv' BY <1>1, <2>1, <2>3, <2>4 DEF Flow, DoneInv
  <2> QED BY <1>1, <2>1, <2>6, <2>7, <2>8 DEF Flow
<1> QED BY <1>2, <1>3

(* Only a setup packet makes a transfer one that found nothing beside it.   *)
LEMMA CleanStep ==
  ASSUME Inv, Next, host'.clean
  PROVE  (HostSetup /\ ~Busy) \/ (~HostSetup /\ host.clean)
<1>0. requests \in Nat /\ requests # requests + 1
  <2>1. requests \in 0 .. MaxRequest /\ MaxRequest \in Nat
    BY RequestAssumption DEF Inv, TypeOK
  <2> QED BY <2>1
<1>1. CASE HostSetup
  <2>1. host'.clean = ~Busy BY <1>1 DEF HostSetup, Inv, TypeOK
  <2> QED BY <1>1, <2>1
<1>2. CASE Handler
  <2>1. host' = host
    BY <1>2 DEF Handler, HandleReset, ReadFlags, ClearFlags, TakeSetup, HandleSetup,
       HandleOutComplete, HandleInComplete, host_state
  <2>2. requests' = requests
    BY <1>2 DEF Handler, HandleReset, ReadFlags, ClearFlags, TakeSetup, HandleSetup,
       HandleOutComplete, HandleInComplete, host_state
  <2>3. ~HostSetup BY <1>0, <2>2 DEF HostSetup
  <2> QED BY <2>1, <2>3
<1>3. CASE HostStage
  <2>1. host'.clean = host.clean
    BY <1>3 DEF HostStage, HostDataIn, HostDataOut, HostStatusOut, HostStatusIn, HostStalled,
       Inv, TypeOK
  <2>2. requests' = requests
    BY <1>3 DEF HostStage, HostDataIn, HostDataOut, HostStatusOut, HostStatusIn, HostStalled
  <2>3. ~HostSetup BY <1>0, <2>2 DEF HostSetup
  <2> QED BY <2>1, <2>3
<1>4. CASE BusReset
  BY <1>4 DEF BusReset
<1> QED BY <1>1, <1>2, <1>3, <1>4 DEF Next

LEMMA InvStep == Inv /\ [Next]_vars => Inv'
<1> SUFFICES ASSUME Inv, [Next]_vars
             PROVE  Inv'
  OBVIOUS
<1>1. CASE Next
  <2>1. TypeOK' /\ BaseInv' BY <1>1, TypeHandler, TypeHost DEF Next
  <2>2. ASSUME host'.clean PROVE Flow'
    <3>1. CASE HostSetup /\ ~Busy BY <3>1, FlowSetup
    <3>2. CASE ~HostSetup /\ host.clean
      <4>1. Handler \/ HostStage BY <1>1, <2>2, <3>2 DEF Next, BusReset
      <4> QED BY <3>2, <4>1, FlowHandler, FlowDataIn, FlowStatusIn, FlowOther DEF HostStage
    <3> QED BY <1>1, <2>2, <3>1, <3>2, CleanStep
  <2> QED BY <2>1, <2>2 DEF Inv
<1>2. CASE UNCHANGED vars
  <2>1. TypeOK' BY <1>2 DEF Inv, TypeOK, vars, flags, banks, setup_state, multi, host_state
  <2>2. UNCHANGED <<bank_in, bank_out, stalled, usb_setup, ep0_buf_in, ep0_buf_out,
                    usb_ep0_in_size, usb_ep0_in_ptr, host, intact, pc, seen, rxstp, trcpt0, trcpt1>>
    BY <1>2 DEF vars, flags, banks, setup_state, multi, host_state
  <2>3. (Fresh' <=> Fresh) /\ (DoneIn' <=> DoneIn) BY <2>2 DEF Fresh, DoneIn
  <2>4. BaseInv' BY <2>2, <2>3 DEF Inv, BaseInv
  <2>5. ASSUME host.clean PROVE Flow'
    <3>1. Flow BY <2>5 DEF Inv
    <3>2. SetupInv' BY <2>2, <2>3, <3>1 DEF Flow, SetupInv
    <3> QED BY <2>2, <2>3, <3>1, <3>2, SameFlow
  <2> QED BY <2>1, <2>2, <2>4, <2>5 DEF Inv
<1> QED BY <1>1, <1>2

LEMMA Invariant == Spec => []Inv
BY InitInv, InvStep, PTL DEF Spec
-----------------------------------------------------------------------------
(* No packet is longer than endpoint 0, and handler and host are in one of  *)
(* the stages of a control transfer, in whatever order setup packets,       *)
(* completions and bus resets come.                                         *)
THEOREM TypeCorrect == Spec => []TypeOK
<1>1. Inv => TypeOK BY DEF Inv
<1> QED BY <1>1, Invariant, PTL

(* Every packet of a transfer whose setup packet found nothing unhandled    *)
(* holds the next bytes of what was asked for.                              *)
THEOREM Intact == Spec => []TransferIntact
<1>1. Inv => TransferIntact BY DEF Inv, Flow, TransferIntact
<1> QED BY <1>1, Invariant, PTL

(* When the data stage of such a transfer ends the host has all of the      *)
(* descriptor or all it asked for, whatever the packet ends it.             *)
THEOREM Whole == Spec => []DescriptorWhole
<1>1. Inv => DescriptorWhole
  <2> SUFFICES ASSUME Inv, host.clean, host.stage = "status_out",
                      host.request.kind = "GetDescriptor"
               PROVE  host.got = Min({DescriptorLength(host.request.value), host.request.length})
    BY DEF DescriptorWhole
  <2>1. host.request \in Request /\ host.got = AskedBy(host.request)
    BY DEF Inv, Flow, SetupInv, PacketInv
  <2>2. DescriptorLength(host.request.value) \in Nat /\ host.request.length \in Nat
    BY <2>1, RequestIs, LengthIs
  <2>3. \A x, y \in Nat : AtMost(x, y) = Min({x, y})
    BY DEF AtMost, Min
  <2> QED BY <2>1, <2>2, <2>3 DEF AskedBy
<1> QED BY <1>1, Invariant, PTL

(* The addresses a host gives have seven bits. *)
SevenBits == \A r \in Request : r.kind = "SetAddress" => r.value < 128

(* The device takes a new address when the host uses it, not before, unless *)
(* the setup packet came beside a completion or there was a bus reset.      *)
THEOREM AddressTaken ==
  ASSUME SevenBits
  PROVE  Spec => AddressAfterStatus
<1>1. Inv /\ [Next]_vars => [address' # address => address' = host'.address \/ ~host.clean]_vars
  <2> SUFFICES ASSUME Inv, Next, address' # address, host.clean
               PROVE  address' = host'.address
    OBVIOUS
  <2>1. CASE HandleInComplete
    <3>1. InDone /\ usb_setup.kind = "SetAddress" /\ address' = usb_setup.value % 128
          /\ host' = host
      BY <2>1 DEF HandleInComplete, host_state
    <3>2. usb_setup \in Request /\ host.address = usb_setup.value
      BY <3>1 DEF Inv, BaseInv, Flow, DoneInv, DoneIn, InDone
    <3>3. usb_setup.value \in Nat /\ usb_setup.value < 128
      BY <3>1, <3>2, RequestIs DEF SevenBits
    <3> QED BY <3>1, <3>2, <3>3
  <2>2. CASE BusReset BY <2>2 DEF BusReset
  <2> QED
    BY <2>1, <2>2 DEF Next, Handler, HandleReset, ReadFlags, ClearFlags, TakeSetup, HandleSetup,
       HandleOutComplete, HostSetup, HostStage, HostDataIn, HostDataOut, HostStatusOut,
       HostStatusIn, HostStalled
<1> QED BY <1>1, Invariant, PTL DEF Spec, AddressAfterStatus
-----------------------------------------------------------------------------
(* A transfer goes on *)

(* The device is where the host looks for it, or has the status stage of   *)
(* SetAddress to handle; and once the setup packet is served the bank of   *)
(* the stage is ready, or handling the last packet will make it so.        *)
ReachedInv == Reached \/ (DoneIn /\ usb_setup.kind = "SetAddress")

(* A completion that matters is not cleared before it has been read: no     *)
(* other flag makes the handler run before it.                              *)
KeptInv ==
  /\ ~Fresh
  /\ \/ usb_setup.kind = "SetAddress"
     \/ usb_setup.kind = "GetDescriptor" /\ host.stage # "idle"
  => ~trcpt0 /\ (pc = "clear" => "in" \in seen)

MoreToSend == DoneIn /\ usb_setup.kind = "GetDescriptor"

BankInv ==
  ~Fresh /\ ~stalled /\ ~Ignored(host.request) =>
    /\ host.stage = "data_in" => bank_in.ready \/ MoreToSend
    /\ host.stage = "data_in" /\ host.request.kind # "GetDescriptor" => bank_out
    /\ host.stage = "status_out" => bank_out \/ MoreToSend
    /\ host.stage = "status_out" /\ host.request.kind = "GetDescriptor" => usb_ep0_in_size = 0
    /\ host.stage = "data_out" => bank_out
    /\ host.stage \in {"data_out", "status_in"} => bank_in.ready

AliveInv == host.clean => ReachedInv /\ KeptInv /\ BankInv

LEMMA InitAlive == Init => AliveInv
BY DEF Init, AliveInv

LEMMA AliveSame ==
  ASSUME ReachedInv, KeptInv', BankInv,
         UNCHANGED <<address, host, bank_in, bank_out, stalled, usb_ep0_in_size>>,
         ~Fresh' => ~Fresh /\ usb_setup' = usb_setup,
         DoneIn /\ usb_setup.kind = "SetAddress" => DoneIn' /\ usb_setup' = usb_setup,
         ~Fresh' /\ host.stage # "idle" /\ DoneIn /\ usb_setup.kind = "GetDescriptor" => DoneIn'
  PROVE  ReachedInv' /\ KeptInv' /\ BankInv'
<1>1. ReachedInv' BY DEF ReachedInv, Reached
<1>2. ~Fresh' /\ host.stage # "idle" /\ MoreToSend => MoreToSend' BY DEF MoreToSend
<1>3. BankInv' BY <1>2 DEF BankInv
<1> QED BY <1>1, <1>3

(* A completion that matters is still there when the flags have been        *)
(* cleared.                                                                 *)
LEMMA AlivePassing ==
  ASSUME Inv, host.clean, AliveInv, Passing
  PROVE  ReachedInv' /\ KeptInv' /\ BankInv'
<1>1. /\ Flow /\ SetupInv /\ BaseInv /\ ReachedInv /\ KeptInv /\ BankInv
  BY DEF Inv, Flow, AliveInv
<1>2. CASE HandleReset \/ HandleOutComplete
  <2>1. /\ UNCHANGED <<bank_in, bank_out, stalled, address, usb_setup, usb_ep0_in_size, host, seen,
                       rxstp, trcpt0, trcpt1>>
        /\ pc \in {"wait", "out"} /\ pc' \in {"wait", "in"}
    BY <1>2 DEF HandleReset, HandleOutComplete, flags, banks, setup_state, multi, host_state
  <2>2. (Fresh' <=> Fresh) /\ (DoneIn' <=> DoneIn) BY <2>1 DEF Fresh, DoneIn
  <2>3. KeptInv' BY <1>1, <2>1, <2>2 DEF KeptInv
  <2> QED BY <1>1, <2>1, <2>2, <2>3, AliveSame
<1>3. CASE ReadFlags
  <2>1. /\ UNCHANGED <<bank_in, bank_out, stalled, address, usb_setup, usb_ep0_in_size, host,
                       rxstp, trcpt0, trcpt1>>
        /\ pc = "wait" /\ pc' = "clear" /\ (rxstp \/ trcpt0 \/ trcpt1)
        /\ ("setup" \in seen' <=> rxstp) /\ ("in" \in seen' <=> trcpt1)
    BY <1>3 DEF ReadFlags, flags, banks, setup_state, multi, host_state
  <2>2. seen = {} BY <1>1, <2>1 DEF BaseInv
  <2>3. (Fresh' <=> Fresh) /\ (DoneIn' <=> DoneIn) BY <2>1, <2>2 DEF Fresh, DoneIn
  <2>4. KeptInv' BY <1>1, <2>1, <2>3 DEF KeptInv, Fresh
  <2> QED BY <1>1, <2>1, <2>3, <2>4, AliveSame
<1>4. CASE ClearFlags
  <2>1. /\ UNCHANGED <<bank_in, bank_out, stalled, address, usb_setup, usb_ep0_in_size, host, seen>>
        /\ pc = "clear" /\ pc' = "setup" /\ ~rxstp' /\ ~trcpt0' /\ ~trcpt1'
    BY <1>4 DEF ClearFlags, banks, setup_state, multi, host_state
  <2>2. rxstp => "setup" \in seen BY <1>1, <2>1 DEF SetupInv
  <2>3. (Fresh' <=> Fresh) BY <2>1, <2>2 DEF Fresh
  <2>4. KeptInv' BY <2>1 DEF KeptInv
  <2>5. DoneIn => ~Fresh BY <1>1 DEF SetupInv
  <2>6. DoneIn /\ usb_setup.kind = "SetAddress" => DoneIn'
    BY <1>1, <2>1, <2>5 DEF KeptInv, DoneIn
  <2>7. host.stage # "idle" /\ DoneIn /\ usb_setup.kind = "GetDescriptor" => DoneIn'
    BY <1>1, <2>1, <2>5 DEF KeptInv, DoneIn
  <2> QED BY <1>1, <2>1, <2>3, <2>4, <2>6, <2>7, AliveSame
<1>5. CASE TakeSetup /\ "setup" \in seen
  <2>1. /\ UNCHANGED <<bank_in, bank_out, stalled, address, usb_ep0_in_size, host, seen, rxstp,
                       trcpt0, trcpt1>>
        /\ pc = "setup" /\ pc' = "serve"
    BY <1>5 DEF TakeSetup, flags, banks, multi, host_state
  <2>2. Fresh /\ Fresh' BY <1>5, <2>1 DEF Fresh
  <2>3. ~DoneIn BY <1>1, <2>2 DEF SetupInv
  <2>4. KeptInv' BY <2>2 DEF KeptInv
  <2> QED BY <1>1, <2>1, <2>2, <2>3, <2>4, AliveSame
<1>6. CASE TakeSetup /\ "setup" \notin seen
  <2>1. /\ UNCHANGED <<bank_in, bank_out, stalled, address, usb_setup, usb_ep0_in_size, host, seen,
                       rxstp, trcpt0, trcpt1>>
        /\ pc = "setup" /\ pc' = "out"
    BY <1>6 DEF TakeSetup, flags, banks, multi, host_state
  <2>2. (Fresh' <=> Fresh) /\ (DoneIn' <=> DoneIn) BY <1>6, <2>1 DEF Fresh, DoneIn
  <2>3. KeptInv' BY <1>1, <2>1, <2>2 DEF KeptInv
  <2> QED BY <1>1, <2>1, <2>2, <2>3, AliveSame
<1> QED BY <1>2, <1>3, <1>4, <1>5, <1>6 DEF Passing

(* A request that is not refused has its packet, and unless it is for a    *)
(* descriptor what follows the packet too.                                 *)
LEMMA ServeBanks ==
  ASSUME Inv, HandleSetup, ~Ignored(usb_setup)
  PROVE  /\ \/ stalled'
            \/ bank_in'.ready /\ (usb_setup.kind # "GetDescriptor" => bank_out')
<1> DEFINE r == usb_setup
<1>1. \A n : Reply(n) => bank_in'.ready /\ bank_out' BY DEF Reply, In, Out
<1>2. CASE r.kind = "GetDescriptor"
  <2>1. Answer(r) BY ServeIs
  <2>2. stalled' \/ bank_in'.ready BY <2>1 DEF Answer, Stall
  <2> QED BY <1>2, <2>2
<1>3. CASE StandardRequest(r)
  BY <1>1, <1>3 DEF StandardRequest, Send, Stall
<1>4. CASE OtherRequest(r)
  BY <1>1, <1>4 DEF OtherRequest, Send, Stall
<1> QED BY <1>2, <1>3, <1>4 DEF HandleSetup

LEMMA AnswerKeeps ==
  ASSUME TypeOK, NEW r \in Request, HandleSetup, usb_setup = r, ~trcpt0
  PROVE  ~trcpt0'
<1>1. \A n : Reply(n) => trcpt0' = FALSE BY DEF Reply, Out
<1>2. Stall => trcpt0' = trcpt0 BY DEF Stall
<1>3. \A n, ptr : InMulti(n, ptr) => trcpt0' = FALSE \/ trcpt0' = trcpt0 BY DEF InMulti, Out
<1>4. CASE GetDescriptor(r) BY <1>2, <1>3, <1>4 DEF GetDescriptor
<1>5. CASE StandardRequest(r) BY <1>1, <1>2, <1>5 DEF StandardRequest, Send
<1>6. CASE OtherRequest(r) BY <1>1, <1>2, <1>6 DEF OtherRequest, Send
<1> QED BY <1>4, <1>5, <1>6 DEF HandleSetup

LEMMA AliveServe ==
  ASSUME Inv, host.clean, AliveInv, HandleSetup
  PROVE  ReachedInv' /\ KeptInv' /\ BankInv'
<1>1. /\ Flow /\ SetupInv /\ BaseInv /\ ReachedInv /\ TypeOK
  BY DEF Inv, Flow, AliveInv
<1>2. /\ pc = "serve" /\ pc' = "out" /\ UNCHANGED <<seen, rxstp, address, usb_setup, host>>
  BY DEF HandleSetup, host_state
<1>3. "setup" \in seen /\ Fresh BY <1>1, <1>2 DEF BaseInv, Fresh
<1> DEFINE r == usb_setup
<1>4. r \in Request /\ r = host.request BY <1>1, <1>2, ServeIs DEF SetupInv
<1>5. host.stage = FirstStage(r) /\ ~DoneIn /\ ~trcpt0 BY <1>1, <1>2, <1>3, <1>4 DEF SetupInv
<1>6. host.stage \in {"data_in", "data_out", "status_in"}
      /\ (host.stage = "data_in" <=> r.kind \in ToHost)
  BY <1>4, <1>5, StageIs
<1>7. "GetDescriptor" \in ToHost BY DEF ToHost
<1>8. ReachedInv' BY <1>1, <1>2, <1>5 DEF ReachedInv, Reached
<1>9. KeptInv' BY <1>1, <1>2, <1>4, <1>5, AnswerKeeps DEF KeptInv
<1>10. Ignored(r) \/ stalled' \/ (bank_in'.ready /\ (r.kind # "GetDescriptor" => bank_out'))
  BY ServeBanks
<1>11. Ignored(r) <=> Ignored(host'.request) BY <1>2, <1>4
<1>12. BankInv' BY <1>2, <1>4, <1>6, <1>7, <1>10, <1>11 DEF BankInv
<1> QED BY <1>8, <1>9, <1>12

LEMMA AliveInComplete ==
  ASSUME Inv, host.clean, AliveInv, SevenBits, HandleInComplete
  PROVE  ReachedInv' /\ KeptInv' /\ BankInv'
<1>1. /\ Flow /\ SetupInv /\ BaseInv /\ ReachedInv /\ KeptInv /\ BankInv
  BY DEF Inv, Flow, AliveInv
<1>2. /\ pc = "in" /\ pc' = "wait" /\ seen' = {} /\ UNCHANGED <<rxstp, usb_setup, host>>
  BY DEF HandleInComplete, setup_state, host_state
<1>3. Fresh' <=> Fresh BY <1>2 DEF Fresh
<1>4. CASE InDone /\ usb_setup.kind = "SetAddress"
  <2>1. DoneIn BY <1>4 DEF DoneIn, InDone
  <2>2. host.stage = "idle" /\ host.address = usb_setup.value /\ usb_setup \in Request
    BY <1>1, <1>4, <2>1 DEF Flow, DoneInv, BaseInv
  <2>3. usb_setup.value \in Nat /\ usb_setup.value < 128
    BY <1>4, <2>2, RequestIs DEF SevenBits
  <2>4. address' = usb_setup.value % 128 /\ trcpt0' = trcpt0 BY <1>4 DEF HandleInComplete
  <2>5. Reached' BY <1>2, <2>2, <2>3, <2>4 DEF Reached
  <2>6. KeptInv' BY <1>1, <1>2, <1>3, <2>4 DEF KeptInv
  <2> QED BY <1>2, <2>2, <2>5, <2>6 DEF ReachedInv, BankInv
<1>5. CASE InDone /\ usb_setup.kind = "GetDescriptor"
  <2>1. InMulti(usb_ep0_in_size, usb_ep0_in_ptr) /\ address' = address
    BY <1>5 DEF HandleInComplete
  <2>2. DoneIn /\ ~Fresh BY <1>1, <1>5 DEF DoneIn, InDone, SetupInv
  <2>3. usb_ep0_in_size \in Nat /\ stalled' = stalled /\ bank_in'.ready
        /\ (trcpt0' = FALSE \/ trcpt0' = trcpt0)
    BY <2>1 DEF Inv, TypeOK, InMulti, In, Out
  <2>4. ReachedInv' BY <1>1, <1>2, <1>5, <2>1 DEF ReachedInv, Reached
  <2>5. KeptInv' BY <1>1, <1>2, <1>3, <2>3 DEF KeptInv
  <2>6. host.request = usb_setup BY <1>1, <2>2 DEF SetupInv
  <2>7. host.stage \notin {"data_out", "status_in"}
    BY <1>1, <1>5, <2>6 DEF Flow, StageInv, ToHost
  <2>8. ~Ignored(host.request) BY <1>5, <2>6 DEF Ignored, Class
  <2>9. CASE host.stage = "status_out" /\ ~stalled
    <3>1. usb_ep0_in_size = 0 BY <1>1, <1>5, <2>2, <2>6, <2>8, <2>9 DEF BankInv
    <3>2. Part(usb_ep0_in_size) = 0 /\ usb_ep0_in_size' = 0
      BY <2>1, <3>1 DEF InMulti, Part, Ep0Size
    <3>3. bank_out' BY <2>1, <3>2 DEF InMulti, Out
    <3>4. BankInv' BY <1>2, <2>9, <3>2, <3>3 DEF BankInv
    <3> QED BY <2>4, <2>5, <3>4
  <2>10. CASE host.stage # "status_out" \/ stalled
    <3>1. host.request.kind = "GetDescriptor" BY <1>5, <2>6
    <3>2. BankInv' BY <1>2, <2>3, <2>7, <2>10, <3>1 DEF BankInv
    <3> QED BY <2>4, <2>5, <3>2
  <2> QED BY <2>9, <2>10
<1>6. CASE ~InDone \/ usb_setup.kind \notin {"SetAddress", "GetDescriptor"}
  <2>1. UNCHANGED <<address, bank_in, bank_out, stalled, usb_ep0_in_size, trcpt0, trcpt1>>
    BY <1>6 DEF HandleInComplete, banks, multi
  <2>2. KeptInv' BY <1>1, <1>2, <1>3, <2>1 DEF KeptInv
  <2>3. DoneIn => DoneIn' \/ usb_setup.kind \notin {"SetAddress", "GetDescriptor"}
    BY <1>2, <1>6, <2>1 DEF DoneIn, InDone
  <2> QED BY <1>1, <1>2, <1>3, <2>1, <2>2, <2>3, AliveSame
<1> QED BY <1>4, <1>5, <1>6

LEMMA AliveDataIn ==
  ASSUME Inv, host.clean, AliveInv, HostDataIn
  PROVE  ReachedInv' /\ KeptInv' /\ BankInv'
<1> DEFINE got == host.got + bank_in.size
           last == bank_in.size < Ep0Size \/ got >= host.request.length
           r == host.request
<1>1. /\ host.stage = "data_in" /\ bank_in.ready /\ trcpt1' /\ Reached
      /\ host' = [host EXCEPT !.got = got, !.stage = IF last THEN "status_out" ELSE host.stage]
      /\ UNCHANGED <<pc, seen, rxstp, trcpt0, bank_out, stalled, usb_setup, usb_ep0_in_size, address>>
  BY DEF HostDataIn, setup_state, multi, Inv, TypeOK
<1>2. /\ Flow /\ SetupInv /\ KeptInv /\ BankInv /\ ~Fresh /\ ~stalled
  BY <1>1, SendingFacts DEF Inv, Flow, AliveInv
<1>3. r \in Request /\ usb_setup = r BY <1>2 DEF SetupInv
<1>4. /\ host'.request = r /\ host'.address = host.address
      /\ host'.stage \in {"data_in", "status_out"} /\ (host'.stage = "status_out" <=> last)
  BY <1>1 DEF Inv, TypeOK
<1>5. /\ bank_in.size \in Nat /\ host.got \in Nat /\ usb_ep0_in_size \in Nat
      /\ AskedBy(r) \in Nat /\ AskedBy(r) <= r.length /\ r.length \in Nat
  BY <1>3, SendingFacts, AskedIs, RequestIs
<1>6. ReachedInv' BY <1>1, <1>4 DEF ReachedInv, Reached
<1>7. DoneIn' BY <1>1 DEF DoneIn
<1>8. KeptInv' BY <1>1, <1>2 DEF KeptInv, Fresh
<1>9. CASE r.kind = "GetDescriptor"
  <2>1. Sent = got BY <1>1 DEF Sent
  <2>2. /\ got + usb_ep0_in_size = AskedBy(r)
        /\ bank_in.size < Ep0Size => usb_ep0_in_size = 0
    BY <1>1, <1>2, <1>9, <2>1 DEF Flow, PacketInv
  <2>3. last => usb_ep0_in_size = 0 BY <1>5, <2>2
  <2>4. MoreToSend' BY <1>1, <1>3, <1>7, <1>9 DEF MoreToSend
  <2>5. BankInv' BY <1>1, <1>4, <1>9, <2>3, <2>4 DEF BankInv
  <2> QED BY <1>6, <1>8, <2>5
<1>10. CASE r.kind # "GetDescriptor"
  <2>1. bank_in.size \in 1 .. Ep0Size - 1 BY <1>1, <1>2, <1>10 DEF Flow, PacketInv
  <2>2. last BY <1>5, <2>1 DEF Ep0Size
  <2>3. ~Ignored(r) => bank_out BY <1>1, <1>2, <1>10 DEF BankInv
  <2>4. BankInv' BY <1>1, <1>4, <1>10, <2>2, <2>3 DEF BankInv
  <2> QED BY <1>6, <1>8, <2>4
<1> QED BY <1>9, <1>10

LEMMA AliveHost ==
  ASSUME Inv, host.clean, AliveInv, HostStage
  PROVE  ReachedInv' /\ KeptInv' /\ BankInv'
<1>1. /\ Flow /\ SetupInv /\ StageInv /\ ReachedInv /\ KeptInv /\ BankInv
  BY DEF Inv, Flow, AliveInv
<1>2. CASE HostDataIn BY <1>2, AliveDataIn
<1>3. CASE HostDataOut
  <2>1. /\ host.stage = "data_out" /\ Reached
        /\ host' = [host EXCEPT !.stage = "status_in"]
        /\ UNCHANGED <<pc, seen, rxstp, bank_in, stalled, address, usb_setup>>
    BY <1>3 DEF HostDataOut, setup_state
  <2>2. Fresh' <=> Fresh BY <2>1 DEF Fresh
  <2>3. host'.stage = "status_in" /\ host'.address = host.address /\ host'.request = host.request
    BY <2>1 DEF Inv, TypeOK
  <2>4. BankInv' BY <1>1, <2>1, <2>2, <2>3 DEF BankInv
  <2>5. ~Fresh => usb_setup = host.request BY <1>1 DEF SetupInv
  <2>6. host.request.kind \notin {"SetAddress", "GetDescriptor"}
    BY <1>1, <2>1 DEF StageInv, ToHost
  <2>7. KeptInv' BY <2>1, <2>2, <2>5, <2>6 DEF KeptInv
  <2> QED BY <2>1, <2>3, <2>4, <2>7 DEF ReachedInv, Reached
<1>4. CASE HostStatusOut
  <2>1. /\ Reached /\ host.stage = "status_out"
        /\ host' = [host EXCEPT !.stage = "idle"] /\ address' = address
        /\ UNCHANGED <<pc, seen, rxstp, usb_setup>>
    BY <1>4 DEF HostStatusOut, setup_state
  <2>2. host'.stage = "idle" /\ host'.address = host.address BY <2>1 DEF Inv, TypeOK
  <2>3. Fresh' <=> Fresh BY <2>1 DEF Fresh
  <2>4. ~Fresh => usb_setup = host.request BY <1>1 DEF SetupInv
  <2>5. host.request.kind # "SetAddress" BY <1>1, <2>1 DEF StageInv, ToHost
  <2>6. KeptInv' BY <2>1, <2>2, <2>3, <2>4, <2>5 DEF KeptInv
  <2> QED BY <2>1, <2>2, <2>6 DEF ReachedInv, BankInv, Reached
<1>5. CASE HostStalled
  <2>1. /\ Reached /\ host.stage # "idle"
        /\ host' = [host EXCEPT !.stage = "idle"] /\ address' = address
        /\ UNCHANGED <<pc, seen, rxstp, trcpt0, usb_setup>>
    BY <1>5 DEF HostStalled, setup_state, flags
  <2>2. host'.stage = "idle" /\ host'.address = host.address BY <2>1 DEF Inv, TypeOK
  <2>3. Fresh' <=> Fresh BY <2>1 DEF Fresh
  <2>4. KeptInv' BY <1>1, <2>1, <2>2, <2>3 DEF KeptInv
  <2> QED BY <2>1, <2>2, <2>4 DEF ReachedInv, BankInv, Reached
<1>6. CASE HostStatusIn
  <2>1. host.stage = "status_in" /\ bank_in.ready /\ Reached /\ trcpt1' /\ usb_setup' = usb_setup
        /\ address' = address /\ UNCHANGED <<pc, seen, rxstp, trcpt0>>
        /\ host' = [host EXCEPT !.stage = "idle",
                                !.address = IF host.request.kind = "SetAddress"
                                            THEN host.request.value ELSE host.address]
    BY <1>6 DEF HostStatusIn, setup_state
  <2>2. usb_setup = host.request /\ ~Fresh BY <1>1, <2>1, SendingFacts DEF SetupInv
  <2>3. host'.stage = "idle"
        /\ (host.request.kind = "SetAddress" \/ host'.address = host.address)
    BY <2>1 DEF Inv, TypeOK
  <2>4. DoneIn' /\ ~Fresh' BY <2>1, <2>2 DEF DoneIn, Fresh
  <2>5. ReachedInv' BY <2>1, <2>2, <2>3, <2>4 DEF ReachedInv, Reached
  <2>6. KeptInv' BY <1>1, <2>1, <2>2, <2>3 DEF KeptInv
  <2> QED BY <2>3, <2>5, <2>6 DEF BankInv
<1> QED BY <1>2, <1>3, <1>4, <1>5, <1>6 DEF HostStage

LEMMA AliveStep == SevenBits /\ Inv /\ AliveInv /\ [Next]_vars => AliveInv'
<1> SUFFICES ASSUME SevenBits, Inv, AliveInv, [Next]_vars, host'.clean
             PROVE  ReachedInv' /\ KeptInv' /\ BankInv'
  BY DEF AliveInv
<1>1. CASE Next
  <2>1. CASE HostSetup
    <3>1. Fresh' BY <2>1 DEF HostSetup, Fresh
    <3>2. Reached /\ address' = address /\ host'.address = host.address
      BY <2>1 DEF HostSetup, Inv, TypeOK
    <3> QED BY <3>1, <3>2 DEF ReachedInv, KeptInv, BankInv, Reached
  <2>2. CASE ~HostSetup /\ host.clean
    <3>1. Handler \/ HostStage BY <1>1, <2>2 DEF Next, BusReset
    <3> QED
      BY <2>2, <3>1, AlivePassing, AliveServe, AliveInComplete, AliveHost DEF Handler, Passing
  <2> QED BY <1>1, <2>1, <2>2, CleanStep
<1>2. CASE UNCHANGED vars
  <2>1. UNCHANGED <<address, host, bank_in, bank_out, stalled, usb_setup, usb_ep0_in_size,
                    pc, seen, rxstp, trcpt0, trcpt1>>
    BY <1>2 DEF vars, flags, banks, setup_state, multi, host_state
  <2>2. ReachedInv /\ KeptInv /\ BankInv BY <2>1 DEF AliveInv
  <2>3. (Fresh' <=> Fresh) /\ (DoneIn' <=> DoneIn) BY <2>1 DEF Fresh, DoneIn
  <2>4. KeptInv' BY <2>1, <2>2, <2>3 DEF KeptInv
  <2> QED BY <2>1, <2>2, <2>3, <2>4, AliveSame
<1> QED BY <1>1, <1>2

(* When the device has nothing left to handle the host finds it at the      *)
(* address it uses, and a transfer that it has to answer can go on or has   *)
(* been refused: neither side waits for the other.                          *)
THEOREM GoesOn ==
  ASSUME SevenBits
  PROVE  Spec => []TransferGoesOn
<1>1. Inv /\ AliveInv => TransferGoesOn
  <2> SUFFICES ASSUME Inv, AliveInv, pc = "wait", ~rxstp, ~trcpt1, Due
               PROVE  /\ Reached
                      /\ \/ stalled
                         \/ host.stage \in {"data_in", "status_in"} /\ bank_in.ready
                         \/ host.stage \in {"data_out", "status_out"} /\ bank_out
    BY DEF TransferGoesOn
  <2>1. seen = {} BY DEF Inv, BaseInv
  <2>2. ~Fresh /\ ~DoneIn BY <2>1 DEF Fresh, DoneIn
  <2>3. host.stage \in {"data_in", "data_out", "status_in", "status_out"}
    BY DEF Inv, TypeOK, Stage, Due
  <2>4. ReachedInv /\ BankInv /\ ~Ignored(host.request) BY DEF AliveInv, Due
  <2> QED BY <2>2, <2>3, <2>4 DEF ReachedInv, BankInv, MoreToSend
<1> QED BY <1>1, InitAlive, AliveStep, Invariant, PTL DEF Spec
=============================================================================
