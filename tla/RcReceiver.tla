----------------------------- MODULE RcReceiver -----------------------------
(***************************************************************************)
(* The radio receiver's process, rc_receiver.c.  The UART's DMA channel    *)
(* writes what comes into a circular buffer without end; every 10 ms the   *)
(* process looks for a frame in it.                                        *)
(*                                                                         *)
(* A cell of the buffer holds one part of a frame.  A byte takes 24 us at  *)
(* 420 kBd and a search less: at most one byte arrives during a search,    *)
(* any number between two of them, and a copy of the buffer is that of one *)
(* moment.  The CRC is taken to be exact: it tells frames that are whole   *)
(* from all others.                                                        *)
(***************************************************************************)
EXTENDS Integers, FiniteSets

CONSTANTS
  Size,         \* of the buffer
  Length,       \* of a frame, by its type
  MaxFrame,     \* bound: frames with channels
  Loss          \* the radio link may be lost, and stays lost

Type == {"channels", "statistics"}

ASSUME RcAssumption ==
  /\ Size \in Nat \ {0} /\ MaxFrame \in Nat /\ Loss \in BOOLEAN
  /\ Length \in [Type -> 2 .. Size]

Position == 0 .. Size - 1
Good == 1   \* uplink_linkqly
Bad == 0

VARIABLES
  crsf_receive_buffer,
  write,        \* where the DMA channel writes next, and what of which frame
  count,        \* frames with channels so far
  radio,        \* the radio link is up
  arrived,      \* a byte has arrived during this search
  rc_pc, i,     \* receiver_main
  crsf_channels,    \* the parts that were read, by position in the frame
  RCRXFailsafe

line == <<write, count, radio, arrived>>
rc_vars == <<crsf_receive_buffer, line, rc_pc, i, crsf_channels, RCRXFailsafe>>

(* A frame with channels has a number, one with statistics the link quality. *)
Frame == [type : {"channels"}, value : 1 .. MaxFrame]
         \cup [type : {"statistics"}, value : {Good, Bad}]
Cell(frame, part) == [frame |-> frame, part |-> part]
NoFrame == [type |-> "none", value |-> 0]
Empty == Cell(NoFrame, 0)
Cells == [frame : Frame \cup {NoFrame}, part : Nat]

(* The DMA channel writes inside the buffer, the search looks inside it,    *)
(* and what is taken for the channels is one frame long.                   *)
RcTypeOK ==
  /\ crsf_receive_buffer \in [Position -> Cells]
  /\ write \in [at : Position, frame : Frame \cup {NoFrame}, part : Nat]
  /\ count \in 0 .. MaxFrame
  /\ radio \in BOOLEAN /\ arrived \in BOOLEAN
  /\ rc_pc \in {"scan", "delay"} /\ i \in 0 .. Size
  /\ crsf_channels \in [1 .. Length["channels"] -> Cells]
  /\ RCRXFailsafe \in BOOLEAN

(* receiver_init *)
RcInit ==
  /\ crsf_receive_buffer = [p \in Position |-> Empty]
  /\ write = [at |-> 0, frame |-> NoFrame, part |-> 0]
  /\ count = 0 /\ radio = TRUE /\ arrived = FALSE
  /\ rc_pc = "scan" /\ i = 0
  /\ crsf_channels = [k \in 1 .. Length["channels"] |-> Empty]
  /\ RCRXFailsafe = FALSE

-----------------------------------------------------------------------------
(* The receiver and the DMA channel *)

(* The descriptor is linked to itself: the buffer has no end. *)
Wraps(p) == (p + 1) % Size

Put(frame, part) ==
  /\ rc_pc = "scan" => ~arrived
  /\ arrived' = (rc_pc = "scan")
  /\ crsf_receive_buffer' = [crsf_receive_buffer EXCEPT ![write.at] = Cell(frame, part)]
  /\ write' = [at |-> Wraps(write.at), frame |-> frame, part |-> part]

BetweenFrames == IF write.frame = NoFrame THEN TRUE ELSE write.part = Length[write.frame.type]

SendPart ==
  /\ ~BetweenFrames
  /\ Put(write.frame, write.part + 1)
  /\ UNCHANGED <<count, radio, rc_pc, i, crsf_channels, RCRXFailsafe>>

SendChannels ==
  /\ BetweenFrames /\ radio /\ count < MaxFrame
  /\ count' = count + 1
  /\ Put([type |-> "channels", value |-> count'], 1)
  /\ UNCHANGED <<radio, rc_pc, i, crsf_channels, RCRXFailsafe>>

(* A receiver that has lost the radio link goes on with statistics. *)
SendStatistics ==
  /\ BetweenFrames
  /\ Put([type |-> "statistics", value |-> IF radio THEN Good ELSE Bad], 1)
  /\ UNCHANGED <<count, radio, rc_pc, i, crsf_channels, RCRXFailsafe>>

LoseRadio ==
  /\ Loss /\ radio
  /\ radio' = FALSE
  /\ UNCHANGED <<crsf_receive_buffer, write, count, arrived, rc_pc, i, crsf_channels, RCRXFailsafe>>

-----------------------------------------------------------------------------
(* The process *)

Around(p, n) == (p + n) % Size

(* The sync byte; the last byte of a frame with channels looks like one too. *)
IsSync(cell) ==
  \/ cell.part = 1
  \/ cell.frame.type = "channels" /\ cell.part = Length["channels"]

(* crc8_dvb_s2, and the length that each type must have *)
CrcOk(cached, p, frame) ==
  \A k \in 1 .. Length[frame.type] : cached[Around(p, k - 1)] = Cell(frame, k)

(* The frame that begins at p, by its header. *)
Header(cached, p) == IF cached[p].part = 1 THEN cached[p].frame ELSE NoFrame

Valid(cached, p) ==
  Header(cached, p) # NoFrame /\ CrcOk(cached, p, Header(cached, p))

(* rc_channels_packed *)
ChannelsPacked(cached, p) ==
  [k \in 1 .. Length["channels"] |-> cached[Around(p, k - 1)]]

(* Mutant: the failsafe stays off whatever the link quality is. *)
FailsafeNever(quality) == FALSE

(* link_statistics *)
Failsafe(quality) == quality = Bad

(* Mutant: the search goes on behind a frame that was found. *)
FoundNever(cached, p) == {FALSE}

(* investigate_packet: TRUE for a frame with channels; link_statistics has   *)
(* no return statement behind its checks.                                  *)
Found(cached, p) ==
  IF ~Valid(cached, p) THEN {FALSE}
  ELSE IF Header(cached, p).type = "channels" THEN {TRUE} ELSE BOOLEAN

ScanNext ==
  /\ rc_pc = "scan" /\ i < Size
  /\ ~IsSync(crsf_receive_buffer[i])
  /\ i' = i + 1
  /\ UNCHANGED <<crsf_receive_buffer, line, rc_pc, crsf_channels, RCRXFailsafe>>

(* The buffer is copied, and what begins here is investigated; the copy, in *)
(* crsf_cached_buffer, is not used again.                                  *)
Investigate ==
  /\ rc_pc = "scan" /\ i < Size
  /\ IsSync(crsf_receive_buffer[i])
  /\ LET cached == crsf_receive_buffer
         frame == Header(cached, i)
     IN /\ crsf_channels' = IF Valid(cached, i) /\ frame.type = "channels"
                            THEN ChannelsPacked(cached, i) ELSE crsf_channels
        /\ RCRXFailsafe' = IF Valid(cached, i) /\ frame.type = "statistics"
                           THEN Failsafe(frame.value) ELSE RCRXFailsafe
        /\ \E found \in Found(cached, i) :
             IF found THEN rc_pc' = "delay" /\ i' = 0 ELSE rc_pc' = rc_pc /\ i' = i + 1
  /\ UNCHANGED <<crsf_receive_buffer, line>>

ScanEnd ==
  /\ rc_pc = "scan" /\ i = Size
  /\ rc_pc' = "delay" /\ i' = 0
  /\ UNCHANGED <<crsf_receive_buffer, line, crsf_channels, RCRXFailsafe>>

(* rtos_delay_ms(10) *)
RcDelay ==
  /\ rc_pc = "delay"
  /\ rc_pc' = "scan" /\ arrived' = FALSE
  /\ UNCHANGED <<crsf_receive_buffer, write, count, radio, i, crsf_channels, RCRXFailsafe>>

Receiver == ScanNext \/ Investigate \/ ScanEnd \/ RcDelay

RcNext == SendPart \/ SendChannels \/ SendStatistics \/ LoseRadio \/ Receiver

(* The process is scheduled, and the receiver goes on sending. *)
RcSpec ==
  /\ RcInit /\ [][RcNext]_rc_vars
  /\ WF_rc_vars(Receiver) /\ WF_rc_vars(SendPart \/ SendStatistics)

-----------------------------------------------------------------------------
(* Properties *)

(* They never go back to an older frame: the search begins at the start of  *)
(* the buffer, not at the oldest frame, and stops at the first one it finds *)
(* (rc_receiver.c:178-183).                                                *)
NeverBack ==
  [][crsf_channels'[1].frame.value >= crsf_channels[1].frame.value]_rc_vars

(* When the radio link is lost the failsafe is set, although the last       *)
(* frames with channels are still in the buffer and end the search.        *)
FailsafeFollows == ~radio ~> [](RCRXFailsafe)
=============================================================================
