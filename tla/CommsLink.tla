----------------------------- MODULE CommsLink -----------------------------
(***************************************************************************)
(* The communications process, comms.c: packets in frames over a port that *)
(* may spoil any frame.  The ground station at the other end speaks the    *)
(* same protocol: lost frames are asked for by index, and where that cannot *)
(* help the station sends its request again.  The frame and packet checks of the  *)
(* GNClink library are taken to be exact.  Frames are counted from 0.      *)
(***************************************************************************)
EXTENDS Integers, FiniteSets, Sequences

CONSTANTS
  Request,    \* the packets the ground station sends
  Frames,     \* how many frames each of them takes
  Answer,     \* how many frames its response takes, 0 when its handler fails
  Nothing,    \* zeroes, where a packet could be
  Spoiled,    \* what a handler that failed has left in txpacket
  MaxFrames,  \* GNCLINK_MAX_FRAMES_PER_PACKET
  MaxRequest, MaxLoss, MaxEarly   \* bounds: requests, spoiled frames, early repetitions

ASSUME CommsAssumption ==
  /\ Frames \in [Request -> Nat \ {0}] /\ Answer \in [Request -> Nat]
  /\ MaxFrames \in Nat \ {0}
  /\ \A r \in Request : Frames[r] <= MaxFrames /\ Answer[r] <= MaxFrames
  /\ Nothing \notin Request /\ Spoiled \notin Request /\ Nothing # Spoiled
  /\ MaxRequest \in Nat /\ MaxLoss \in Nat /\ MaxEarly \in Nat

Index == 0 .. MaxFrames - 1
Packet == Request \cup {Nothing, Spoiled}

-----------------------------------------------------------------------------
(* Frames *)

(* A frame of a packet, and one that asks for frames again (packet Nothing). *)
Data(packet, i, end) == [packet |-> packet, index |-> i, end |-> end, resend |-> << >>, good |-> TRUE]
RequestResend(list) == [packet |-> Nothing, index |-> 0, end |-> FALSE, resend |-> list, good |-> TRUE]

Frame == [packet : Packet, index : Index, end : BOOLEAN,
          resend : UNION {[1 .. n -> Index] : n \in 0 .. MaxFrames}, good : BOOLEAN]

Asks(frame) == frame.resend # << >>

(* send_packet(false): the frames of a packet of n frames. *)
AllFrames(packet, n) == [k \in 1 .. n |-> Data(packet, k - 1, k = n)]

(* Mutant: frames that are sent again do not end the transaction. *)
ResentWithoutEnd(packet, list, k) == Data(packet, list[k], FALSE)

(* send_packet(true): the k-th of the frames that are sent again. *)
Resent(packet, list, k) == Data(packet, list[k], k = Len(list))

AllResent(packet, list) == [k \in DOMAIN list |-> Resent(packet, list, k)]

(* The elements of a set of indexes in the order a loop over them has. *)
Ascending(S) ==
  CHOOSE s \in [1 .. Cardinality(S) -> S] : \A j, k \in DOMAIN s : j < k => s[j] < s[k]

(* The indexes below the one that ended the transaction that did not come. *)
Missing(received, last) == Ascending({i \in Index : i < last} \ received)

-----------------------------------------------------------------------------
VARIABLES
  link_pc,     \* "frame" in get_frame, or sending an answer, or frames again
  rxpacket,    \* by frame, the packet it is of
  received,    \* receivedFrames
  rxframe,     \* the last frame that was received
  txpacket,    \* the packet that was constructed last
  count,       \* send_packet: frames sent
  to_device, to_station,   \* frames on their way
  station,     \* the ground station: its request, and what has come of the answer
  evaluated,               \* how often each request was carried out
  end_lost,    \* a frame that no other follows has come spoiled
  requests, losses, early  \* counters for the bounds

device == <<link_pc, rxpacket, received, rxframe, txpacket, count>>
link == <<to_device, to_station>>
bounds == <<end_lost, requests, losses, early>>
link_vars == <<device, link, station, evaluated, bounds>>

Blank == [i \in Index |-> Nothing]
NoFrame == Data(Nothing, 0, FALSE)
Idle == [request |-> Nothing, answer |-> Blank]

(* The frames on their way and those put together are of packets that were  *)
(* sent, and the process is in one of the loops of comms.c.                *)
LinkTypeOK ==
  /\ link_pc \in {"frame", "answer", "resend"}
  /\ rxpacket \in [Index -> Packet]
  /\ received \subseteq Index
  /\ rxframe \in Frame
  /\ txpacket \in Packet
  /\ count \in 0 .. MaxFrames
  /\ to_device \in Seq(Frame) /\ to_station \in Seq(Frame)
  /\ station \in [request : Request \cup {Nothing}, answer : [Index -> Packet]]
  /\ evaluated \in [Request -> Nat]
  /\ end_lost \in BOOLEAN
  /\ requests \in 0 .. MaxRequest /\ losses \in 0 .. MaxLoss /\ early \in 0 .. MaxEarly

LinkInit ==
  /\ link_pc = "frame" /\ rxpacket = Blank /\ received = {} /\ rxframe = NoFrame
  /\ txpacket = Nothing /\ count = 0
  /\ to_device = << >> /\ to_station = << >>
  /\ station = Idle
  /\ evaluated = [r \in Request |-> 0]
  /\ end_lost = FALSE
  /\ requests = 0 /\ losses = 0 /\ early = 0

-----------------------------------------------------------------------------
(* The communications process *)

(* Mutant: rxpacket keeps what the last packet left. *)
BlankKept(packet) == packet

(* get_packet begins: memset of rxpacket and rxframe. *)
Cleared(packet) == Blank

NewPacket(packet) ==
  /\ link_pc' = "frame"
  /\ rxpacket' = Cleared(packet) /\ received' = {}
  /\ rxframe' = NoFrame
  /\ count' = 0

(* get_frame: GNClink_Check_Frame fails. *)
BadFrame ==
  /\ link_pc = "frame" /\ to_device # << >> /\ ~Head(to_device).good
  /\ to_device' = Tail(to_device)
  /\ rxframe' = Head(to_device)
  /\ UNCHANGED <<link_pc, rxpacket, received, txpacket, count, to_station, station,
                 evaluated, bounds>>

GetFrame ==
  /\ link_pc = "frame" /\ to_device # << >> /\ Head(to_device).good
  /\ to_device' = Tail(to_device)
  /\ rxframe' = Head(to_device)

(* get_packet returns false: frames are being requested. *)
ResendRequested ==
  /\ GetFrame /\ Asks(rxframe')
  /\ link_pc' = "resend" /\ count' = 0
  /\ UNCHANGED <<rxpacket, received, txpacket, to_station, station, evaluated,
                 bounds>>

Store ==
  /\ ~Asks(rxframe')
  /\ received' = received \cup {rxframe'.index}
  /\ rxpacket' = [rxpacket EXCEPT ![rxframe'.index] = rxframe'.packet]
  /\ UNCHANGED <<txpacket, station, bounds>>

MoreFrames ==
  /\ GetFrame /\ Store
  /\ ~rxframe'.end
  /\ UNCHANGED <<link_pc, count, to_station, evaluated>>

(* get_packet: "if resend is required" *)
AskAgain ==
  /\ GetFrame /\ Store
  /\ rxframe'.end
  /\ LET missing == Missing(received', rxframe'.index)
     IN /\ missing # << >>
        /\ to_station' = Append(to_station, RequestResend(missing))
  /\ UNCHANGED <<link_pc, count, evaluated>>

(* GNClink_Check_Packet: the packet is one that was sent, for its length. *)
CheckPacket(packet) ==
  /\ packet[0] \in Request
  /\ \A i \in 0 .. Frames[packet[0]] - 1 : packet[i] = packet[0]

(* get_packet returns true; evaluatePacket; a response is sent if its       *)
(* handler has constructed one.                                            *)
Evaluate ==
  /\ GetFrame
  /\ ~Asks(rxframe')
  /\ rxframe'.end
  /\ LET complete == [rxpacket EXCEPT ![rxframe'.index] = rxframe'.packet]
         request == complete[0]
     IN /\ Missing(received \cup {rxframe'.index}, rxframe'.index) = << >>
        /\ IF CheckPacket(complete)
           THEN /\ evaluated' = [evaluated EXCEPT ![request] = @ + 1]
                /\ IF Answer[request] > 0
                   THEN /\ link_pc' = "answer" /\ txpacket' = request
                        /\ rxpacket' = complete /\ received' = {} /\ count' = 0
                   ELSE /\ link_pc' = "frame" /\ txpacket' \in {txpacket, Spoiled}
                        /\ rxpacket' = Cleared(complete) /\ received' = {} /\ count' = 0
           ELSE /\ link_pc' = "frame" /\ rxpacket' = Cleared(complete) /\ received' = {} /\ count' = 0
                /\ UNCHANGED <<txpacket, evaluated>>
  /\ UNCHANGED <<to_station, station, bounds>>

(* send_packet(false) *)
SendFrame ==
  /\ link_pc = "answer"
  /\ LET frames == AllFrames(txpacket, Answer[txpacket])
     IN /\ to_station' = Append(to_station, frames[count + 1])
        /\ IF count + 1 < Len(frames)
           THEN /\ count' = count + 1
                /\ UNCHANGED <<link_pc, rxpacket, received, rxframe>>
           ELSE NewPacket(rxpacket)
  /\ UNCHANGED <<txpacket, to_device, station, evaluated, bounds>>

(* send_packet(true): the list is read from rxframe while it is sent. *)
ResendFrame ==
  /\ link_pc = "resend"
  /\ IF count < Len(rxframe.resend)
     THEN /\ to_station' = Append(to_station, Resent(txpacket, rxframe.resend, count + 1))
          /\ count' = count + 1
          /\ UNCHANGED <<link_pc, rxpacket, received, rxframe>>
     ELSE /\ NewPacket(rxpacket)
          /\ UNCHANGED to_station
  /\ UNCHANGED <<txpacket, to_device, station, evaluated, bounds>>

Comms == BadFrame \/ ResendRequested \/ MoreFrames \/ AskAgain \/ Evaluate \/ SendFrame \/ ResendFrame

-----------------------------------------------------------------------------
(* The port *)

(* No other frame follows this one. *)
IsLast(frame) == frame.end \/ Asks(frame)

SpoilOf(frames, k) == [frames EXCEPT ![k].good = FALSE]

(* A frame that is on its way comes spoiled. *)
Spoil ==
  /\ losses < MaxLoss
  /\ losses' = losses + 1
  /\ \/ \E k \in DOMAIN to_device :
          /\ to_device[k].good
          /\ to_device' = SpoilOf(to_device, k)
          /\ end_lost' = (end_lost \/ IsLast(to_device[k]))
          /\ UNCHANGED to_station
     \/ \E k \in DOMAIN to_station :
          /\ to_station[k].good
          /\ to_station' = SpoilOf(to_station, k)
          /\ end_lost' = (end_lost \/ IsLast(to_station[k]))
          /\ UNCHANGED to_device
  /\ UNCHANGED <<device, station, evaluated, requests, early>>

-----------------------------------------------------------------------------
(* The ground station *)

Send(r) ==
  /\ to_device' = to_device \o AllFrames(r, Frames[r])
  /\ station' = [Idle EXCEPT !.request = r]
  /\ UNCHANGED <<device, to_station, evaluated, losses>>

StationRequest(r) ==
  /\ station.request = Nothing /\ requests < MaxRequest
  /\ requests' = requests + 1
  /\ Send(r)
  /\ UNCHANGED <<end_lost, early>>

(* It gives up too early, and asks for the same or for something else. *)
StationImpatient(r) ==
  /\ station.request # Nothing /\ early < MaxEarly
  /\ early' = early + 1
  /\ Send(r)
  /\ UNCHANGED <<end_lost, requests>>

Quiet == to_device = << >> /\ to_station = << >> /\ link_pc = "frame"

(* No answer has come.  It repeats the request where the resend protocol has *)
(* no remedy: a last frame was spoiled, or it has itself mixed two requests. *)
StationTimeout ==
  /\ Quiet /\ station.request # Nothing
  /\ \/ /\ Answer[station.request] = 0
        /\ station' = Idle
        /\ UNCHANGED <<device, link, evaluated, losses>>
     \/ /\ Answer[station.request] > 0 /\ (end_lost \/ early > 0)
        /\ Send(station.request)
  /\ UNCHANGED <<end_lost, requests, early>>

AnswerWhole(answer) ==
  \A i \in 0 .. Answer[station.request] - 1 : answer[i] = station.request

StationReceive ==
  /\ to_station # << >>
  /\ LET frame == Head(to_station)
         answer == [station.answer EXCEPT ![frame.index] = frame.packet]
         missing == Ascending({i \in Index : i < frame.index /\ answer[i] = Nothing})
     IN /\ to_station' = Tail(to_station)
        /\ CASE ~frame.good \/ station.request = Nothing -> UNCHANGED <<to_device, station>>
             [] frame.good /\ station.request # Nothing /\ Asks(frame) ->
                  /\ to_device' = to_device \o AllResent(station.request, frame.resend)
                  /\ UNCHANGED station
             [] OTHER ->
                  /\ station' = IF ~frame.end \/ missing # << >>
                                THEN [station EXCEPT !.answer = answer]
                                ELSE IF AnswerWhole(answer) THEN Idle
                                ELSE [station EXCEPT !.answer = Blank]
                  /\ to_device' = IF frame.end /\ missing # << >>
                                  THEN Append(to_device, RequestResend(missing))
                                  ELSE to_device
  /\ UNCHANGED <<device, evaluated, bounds>>

LinkNext ==
  \/ Comms
  \/ Spoil
  \/ \E r \in Request : StationRequest(r) \/ StationImpatient(r)
  \/ StationTimeout
  \/ StationReceive

(* The process is scheduled, the station reads what comes and its timer runs. *)
LinkSpec ==
  /\ LinkInit /\ [][LinkNext]_link_vars
  /\ WF_link_vars(Comms) /\ WF_link_vars(StationReceive) /\ WF_link_vars(StationTimeout)

-----------------------------------------------------------------------------
(* Properties *)

CarriedOut(r) == evaluated'[r] > evaluated[r]
Complete == [rxpacket EXCEPT ![rxframe'.index] = rxframe'.packet]

(* All frames of what is carried out have come since the last packet: a     *)
(* frame that comes late or a second time does not run that one again,      *)
(* because rxpacket is cleared (comms.c:269).                               *)
EvaluatedFresh ==
  [][\A r \in Request : CarriedOut(r) =>
       0 .. Frames[r] - 1 \subseteq received \cup {rxframe'.index}]_link_vars

(* A request that is to be answered has something on its way: as long as no *)
(* frame that no other follows was spoiled and the station is patient, the  *)
(* resend protocol needs no time-out (comms.c:306-331, 346-352).            *)
LinkGoesOn ==
  station.request # Nothing /\ Answer[station.request] > 0 => ~Quiet \/ end_lost \/ early > 0

(* A request gets its answer: frames that were spoiled are asked for by     *)
(* index (comms.c:306-331, 346-352).  Only the loss of a frame that no      *)
(* other follows, which get_packet waits for for ever, and a request given   *)
(* up too early need the station to repeat it.                              *)
Answered ==
  \A r \in Request : (station.request = r /\ Answer[r] > 0) ~> (station.request # r)
=============================================================================
