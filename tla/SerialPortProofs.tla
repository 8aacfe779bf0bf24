--------------------------- MODULE SerialPortProofs ---------------------------
(***************************************************************************)
(* A wait for a UART port ends with the process's own transfer, for any    *)
(* processes, ports and sizes, whatever channel is selected in between;    *)
(* and what comms.c carries out, at the end of one such port, has come     *)
(* whole, for any requests, any number of frames and whatever the port and *)
(* the ground station do.                                                  *)
(***************************************************************************)
EXTENDS SerialPort, CommsLink, FiniteSetTheorems, TLAPS

(* What the proofs need of the types *)
Types ==
  /\ pc \in [Proc -> {"ready", "described", "disabled", "waiting", "timed"}]
  /\ op \in [Proc -> Transfer \cup {None}]
  /\ DOMAIN channel = Channel
  /\ moved \in [Channel -> Nat]
  /\ \A p \in Proc : pc[p] # "ready" => op[p] # None
  /\ \A p \in Proc : Port[p] = 0 => pc[p] \in {"ready", "waiting"}

(* A block of n beats that is under way on a channel, or has ended. *)
Block(c, n) ==
  \/ /\ channel[c].enabled /\ ~channel[c].tcmpl /\ ~channel[c].descriptor.loop
     /\ channel[c].left \in Nat \ {0} /\ moved[c] + channel[c].left = n
  \/ ~channel[c].enabled /\ channel[c].tcmpl /\ moved[c] = n

(* What a process knows of its channel, by the step it has come to *)
Own(p) ==
  LET c == ChannelOf(p) IN
  /\ pc[p] # "ready"
       => channel[c].descriptor = [count |-> op[p].count, loop |-> LoopsOn(p, op[p].side)]
  /\ pc[p] = "disabled" => ~channel[c].enabled
  /\ pc[p] \in {"waiting", "timed"} => ~LoopsOn(p, op[p].side) /\ Block(c, op[p].count)

Inv == Types /\ \A p \in Proc : Port[p] # 0 => Own(p)

-----------------------------------------------------------------------------
LEMMA MaxCountIs == MaxCount \in Count /\ \A n \in Count : n <= MaxCount
BY SerialPortAssumption DEF MaxCount

LEMMA CountIs == Count \subseteq Nat /\ \A n \in Count : n > 0
BY SerialPortAssumption

(* Every process of a UART port has its own two channels. *)
LEMMA OwnChannels ==
  ASSUME NEW p \in Proc, Port[p] # 0, NEW s \in Side
  PROVE  /\ Descriptor(Port[p])[s] \in Channel \ {SpiChannel}
         /\ \A t \in Side : Descriptor(Port[p])[s] = Descriptor(Port[p])[t] => s = t
         /\ \A q \in Proc, t \in Side :
              q # p /\ Port[q] # 0 => Descriptor(Port[p])[s] # Descriptor(Port[q])[t]
<1>1. Port[p] \in 1 .. 4 /\ \A q \in Proc : q # p /\ Port[q] # 0 => Port[q] \in 1 .. 4 /\ Port[q] # Port[p]
  BY SerialPortAssumption DEF UartPort
<1>2. \A n \in 1 .. 4 : /\ Descriptor(n)["tx"] = 2 * n /\ Descriptor(n)["rx"] = 2 * n + 1
  BY DEF Descriptor
<1>3. s \in {"tx", "rx"} BY DEF Side
<1>4. Descriptor(Port[p])[s] \in Channel \ {SpiChannel} BY <1>1, <1>2, <1>3 DEF Channel, SpiChannel
<1>5. ASSUME NEW t \in Side, Descriptor(Port[p])[s] = Descriptor(Port[p])[t]
      PROVE  s = t
  BY <1>1, <1>2, <1>3, <1>5 DEF Side
<1>6. ASSUME NEW q \in Proc, NEW t \in Side, q # p, Port[q] # 0
      PROVE  Descriptor(Port[p])[s] # Descriptor(Port[q])[t]
  BY <1>1, <1>2, <1>3, <1>6 DEF Side
<1> QED BY <1>4, <1>5, <1>6

LEMMA OpIs ==
  ASSUME Types, NEW p \in Proc, op[p] # None
  PROVE  op[p] \in Transfer /\ op[p].side \in Side /\ op[p].count \in Count
BY DEF Types, Transfer

LEMMA InitInv == Init => Inv
BY DEF Init, Inv, Types, Own, None

(* A process that is not stepped keeps what it knows when its channel does. *)
LEMMA OwnKept ==
  ASSUME Inv, NEW p \in Proc, Port[p] # 0, op[p] # None,
         pc'[p] = pc[p], op'[p] = op[p],
         channel'[ChannelOf(p)] = channel[ChannelOf(p)], moved'[ChannelOf(p)] = moved[ChannelOf(p)]
  PROVE  Own(p)'
<1> DEFINE c == ChannelOf(p)
<1>1. c' = c BY DEF ChannelOf
<1>2. Own(p) BY DEF Inv
<1>3. ASSUME NEW n, Block(c, n)
      PROVE  Block(c, n)'
  BY <1>1, <1>3 DEF Block
<1> HIDE DEF c
<1> QED BY <1>1, <1>2, <1>3, ZenonT(40) DEF Own, c

LEMMA OwnNone ==
  ASSUME NEW p \in Proc, pc'[p] = "ready", op'[p] = None
  PROVE  Own(p)'
BY DEF Own

(* The step of p's own channel c by another process or the bus: none. *)
LEMMA OthersKept ==
  ASSUME Inv, Types', NEW q \in Proc, Port[q] # 0, NEW c,
         pc'[q] = pc[q], op'[q] = op[q],
         \A d \in Channel : d # c => channel'[d] = channel[d] /\ moved'[d] = moved[d],
         \A s \in Side : c # Descriptor(Port[q])[s]
  PROVE  Own(q)'
<1>1. CASE op[q] = None BY <1>1, OwnNone DEF Inv, Types
<1>2. CASE op[q] # None
  <2>1. op[q].side \in Side BY <1>2, OpIs DEF Inv
  <2>2. ChannelOf(q) \in Channel /\ ChannelOf(q) # c BY <2>1, OwnChannels DEF ChannelOf
  <2> QED BY <1>2, <2>2, OwnKept
<1> QED BY <1>1, <1>2

-----------------------------------------------------------------------------
(* Every operation works on one channel of one process. *)

LEMMA StartInv ==
  ASSUME Inv, NEW p \in Proc, NEW side \in Side, NEW n \in Count, NEW timed \in BOOLEAN,
         Start(p, side, n, timed)
  PROVE  Inv'
<1> DEFINE next == [side |-> side, count |-> n, timed |-> timed]
<1>1. op' = [op EXCEPT ![p] = next] /\ next \in Transfer /\ next # None
  BY DEF Start, Transfer, None, Side
<1> HIDE DEF next
<1>2. CASE Port[p] = 0
  <2>1. pc' = [pc EXCEPT ![p] = "waiting"] /\ UNCHANGED dma BY <1>2 DEF Start
  <2>2. Types' BY <1>1, <2>1 DEF Inv, Types, dma
  <2>3. ASSUME NEW q \in Proc, Port[q] # 0
        PROVE  Own(q)'
    <3>1. pc'[q] = pc[q] /\ op'[q] = op[q] BY <1>1, <1>2, <2>1, <2>3 DEF Inv, Types
    <3>2. CASE op[q] = None BY <3>1, <3>2, OwnNone DEF Inv, Types
    <3>3. CASE op[q] # None BY <2>1, <2>3, <3>1, <3>3, OwnKept DEF dma
    <3> QED BY <3>2, <3>3
  <2> QED BY <2>2, <2>3 DEF Inv
<1>3. CASE Port[p] # 0
  <2> DEFINE c == Descriptor(Port[p])[side]
  <2>1. /\ pc' = [pc EXCEPT ![p] = "described"]
        /\ channel' = [channel EXCEPT ![c].descriptor = [count |-> n, loop |-> LoopsOn(p, side)]]
        /\ UNCHANGED moved
    BY <1>3 DEF Start, CreateDescriptor
  <2>2. Types'
    <3>1. /\ pc' \in [Proc -> {"ready", "described", "disabled", "waiting", "timed"}]
          /\ op' \in [Proc -> Transfer \cup {None}]
      BY <1>1, <2>1 DEF Inv, Types
    <3>2. \A q \in Proc : /\ pc'[q] = IF q = p THEN "described" ELSE pc[q]
                          /\ op'[q] = IF q = p THEN next ELSE op[q]
      BY <1>1, <2>1 DEF Inv, Types
    <3>3. \A q \in Proc : /\ pc'[q] # "ready" => op'[q] # None
                          /\ Port[q] = 0 => pc'[q] \in {"ready", "waiting"}
      BY <1>1, <1>3, <3>2 DEF Inv, Types
    <3> QED BY <2>1, <3>1, <3>3 DEF Inv, Types
  <2>3. c \in Channel BY <1>3, OwnChannels
  <2>4. Own(p)'
    <3>1. op'[p] = next /\ pc'[p] = "described" BY <1>1, <2>1 DEF Inv, Types
    <3>2. op'[p].count = n /\ op'[p].side = side BY <3>1 DEF next
    <3>3. channel'[c].descriptor = [count |-> n, loop |-> LoopsOn(p, side)]
      BY <2>1, <2>3 DEF Inv, Types
    <3>4. ChannelOf(p)' = c BY <3>2 DEF ChannelOf
    <3> QED BY <3>1, <3>2, <3>3, <3>4 DEF Own, LoopsOn
  <2>5. ASSUME NEW q \in Proc, Port[q] # 0, q # p
        PROVE  Own(q)'
    <3>1. pc'[q] = pc[q] /\ op'[q] = op[q] BY <1>1, <2>1, <2>5 DEF Inv, Types
    <3>2. \A d \in Channel : d # c => channel'[d] = channel[d] /\ moved'[d] = moved[d]
      BY <2>1 DEF Inv, Types
    <3>3. \A s \in Side : c # Descriptor(Port[q])[s] BY <1>3, <2>5, OwnChannels
    <3> QED BY <2>2, <2>5, <3>1, <3>2, <3>3, OthersKept
  <2> QED BY <2>2, <2>4, <2>5 DEF Inv
<1> QED BY <1>2, <1>3

(* What the other processes know when p works on its own channel. *)
LEMMA StepOthers ==
  ASSUME Inv, Types', NEW p \in Proc, Port[p] # 0, op[p] # None, UNCHANGED op,
         \A q \in Proc : q # p => pc'[q] = pc[q],
         \A d \in Channel : d # ChannelOf(p) => channel'[d] = channel[d] /\ moved'[d] = moved[d],
         NEW q \in Proc, Port[q] # 0, q # p
  PROVE  Own(q)'
<1>1. op[p].side \in Side BY OpIs DEF Inv
<1>2. \A s \in Side : ChannelOf(p) # Descriptor(Port[q])[s] BY <1>1, OwnChannels DEF ChannelOf
<1> QED BY <1>2, OthersKept

LEMMA NotReady ==
  ASSUME Inv, NEW p \in Proc, pc[p] # "ready", Port[p] # 0
  PROVE  /\ op[p] # None /\ op[p].count \in Count /\ op[p].side \in Side
         /\ ChannelOf(p) \in Channel
<1>1. op[p] # None BY DEF Inv, Types
<1>2. op[p].count \in Count /\ op[p].side \in Side BY <1>1, OpIs DEF Inv
<1> QED BY <1>1, <1>2, OwnChannels DEF ChannelOf

LEMMA StartDisableInv ==
  ASSUME Inv, NEW p \in Proc, Port[p] # 0, StartDisable(p)
  PROVE  Inv'
<1>1. /\ pc[p] = "described" /\ pc' = [pc EXCEPT ![p] = "disabled"]
      /\ channel' = [channel EXCEPT ![ChannelOf(p)].enabled = FALSE] /\ UNCHANGED <<op, moved>>
  BY DEF StartDisable, DisableAndInit
<1>2. ChannelOf(p) \in Channel /\ op[p] # None BY <1>1, NotReady
<1>3. Types' BY <1>1, <1>2 DEF Inv, Types
<1>4. ChannelOf(p)' = ChannelOf(p) BY <1>1 DEF ChannelOf
<1>5. Own(p)'
  <2>1. pc'[p] = "disabled" BY <1>1 DEF Inv, Types
  <2>2. /\ ~channel'[ChannelOf(p)].enabled
        /\ channel'[ChannelOf(p)].descriptor = channel[ChannelOf(p)].descriptor
    BY <1>1, <1>2 DEF Inv, Types
  <2>3. channel[ChannelOf(p)].descriptor = [count |-> op[p].count, loop |-> LoopsOn(p, op[p].side)]
    BY <1>1 DEF Inv, Own
  <2> QED BY <1>1, <1>4, <2>1, <2>2, <2>3 DEF Own, LoopsOn
<1>6. ASSUME NEW q \in Proc, Port[q] # 0, q # p
      PROVE  Own(q)'
  BY <1>1, <1>2, <1>3, <1>6, StepOthers DEF Inv, Types
<1> QED BY <1>3, <1>5, <1>6 DEF Inv

LEMMA StartEnableInv ==
  ASSUME Inv, NEW p \in Proc, Port[p] # 0, StartEnable(p)
  PROVE  Inv'
<1> DEFINE c == ChannelOf(p)
<1>1. /\ pc[p] = "disabled"
      /\ pc' = [pc EXCEPT ![p] = IF LoopsOn(p, op[p].side) THEN "ready"
                                 ELSE IF op[p].timed THEN "timed" ELSE "waiting"]
      /\ channel' = [channel EXCEPT ![c] = Enabled(@)]
      /\ moved' = [moved EXCEPT ![c] = 0] /\ UNCHANGED op
  BY DEF StartEnable, EnableChannel
<1>2. c \in Channel /\ op[p] # None /\ op[p].count \in Count BY <1>1, NotReady
<1>3. Types' BY <1>1, <1>2 DEF Inv, Types
<1>4. ChannelOf(p)' = c BY <1>1 DEF ChannelOf
<1>5. Own(p)'
  <2>1. /\ ~channel[c].enabled
        /\ channel[c].descriptor = [count |-> op[p].count, loop |-> LoopsOn(p, op[p].side)]
    BY <1>1 DEF Inv, Own
  <2>2. channel'[c] = Enabled(channel[c]) /\ moved'[c] = 0 BY <1>1, <1>2 DEF Inv, Types
  <2>3. Enabled(channel[c]) = [[channel[c] EXCEPT !.tcmpl = FALSE]
                                 EXCEPT !.enabled = TRUE, !.left = channel[c].descriptor.count]
    BY <2>1 DEF Enabled
  <2>4. /\ channel'[c].descriptor = channel[c].descriptor
        /\ channel'[c].enabled /\ ~channel'[c].tcmpl /\ channel'[c].left = op[p].count
    BY <2>1, <2>2, <2>3
  <2>5. pc'[p] = IF LoopsOn(p, op[p].side) THEN "ready" ELSE IF op[p].timed THEN "timed" ELSE "waiting"
    BY <1>1 DEF Inv, Types
  <2>6. ASSUME ~LoopsOn(p, op[p].side)
        PROVE  Block(c, op[p].count)'
    <3>1. ~channel'[c].descriptor.loop BY <2>1, <2>4, <2>6
    <3>2. channel'[c].left \in Nat \ {0} /\ moved'[c] + channel'[c].left = op[p].count
      <4>1. op[p].count \in Nat \ {0} BY <1>2, SerialPortAssumption
      <4>2. channel'[c].left = op[p].count /\ moved'[c] = 0 BY <2>2, <2>4
      <4> HIDE DEF c
      <4> QED BY <4>1, <4>2
    <3> QED BY <1>1, <1>4, <2>4, <3>1, <3>2 DEF Block
  <2>7. channel'[c].descriptor = [count |-> op[p].count, loop |-> LoopsOn(p, op[p].side)]
    BY <2>1, <2>4
  <2>8. op' = op /\ ChannelOf(p)' = c /\ c' = c BY <1>1, <1>4
  <2> HIDE DEF c
  <2> QED BY <2>5, <2>6, <2>7, <2>8 DEF Own, LoopsOn
<1>6. ASSUME NEW q \in Proc, Port[q] # 0, q # p
      PROVE  Own(q)'
  BY <1>1, <1>2, <1>3, <1>6, StepOthers DEF Inv, Types
<1> QED BY <1>3, <1>5, <1>6 DEF Inv

LEMMA PollInv ==
  ASSUME Inv, NEW p \in Proc, Poll(p)
  PROVE  Inv' /\ (pc'[p] = "ready" => channel[ChannelOf(p)].tcmpl)
<1>1. /\ pc[p] = "waiting" /\ Port[p] # 0
      /\ pc' = [pc EXCEPT ![p] = IF channel[ChannelOf(p)].tcmpl THEN "ready" ELSE @]
      /\ UNCHANGED <<op, channel, moved>>
  BY DEF Poll, Callback
<1>2. ChannelOf(p) \in Channel /\ op[p] # None BY <1>1, NotReady
<1>3. Types' BY <1>1, <1>2 DEF Inv, Types
<1>4. ChannelOf(p)' = ChannelOf(p) BY <1>1 DEF ChannelOf
<1>5. pc'[p] = IF channel[ChannelOf(p)].tcmpl THEN "ready" ELSE "waiting" BY <1>1 DEF Inv, Types
<1>6. Own(p)'
  <2>1. Own(p) BY <1>1 DEF Inv
  <2> QED BY <1>1, <1>4, <1>5, <2>1 DEF Own, Block
<1>7. ASSUME NEW q \in Proc, Port[q] # 0, q # p
      PROVE  Own(q)'
  BY <1>1, <1>2, <1>3, <1>7, StepOthers DEF Inv, Types
<1> QED BY <1>3, <1>5, <1>6, <1>7 DEF Inv

LEMMA PollTimedInv ==
  ASSUME Inv, NEW p \in Proc, Port[p] # 0, PollTimed(p)
  PROVE  Inv'
<1> DEFINE c == ChannelOf(p)
           over == TimedOut(p) \/ channel[c].tcmpl
<1>1. /\ pc[p] = "timed" /\ pc' = [pc EXCEPT ![p] = IF over THEN "ready" ELSE @]
      /\ channel' = IF over THEN [channel EXCEPT ![c] = Enabled(@)] ELSE channel
      /\ UNCHANGED <<op, moved>>
  BY DEF PollTimed, Callback
<1> HIDE DEF over
<1>2. c \in Channel /\ op[p] # None BY <1>1, NotReady
<1>3. Types' BY <1>1, <1>2 DEF Inv, Types
<1>4. Own(p)'
  <2>1. pc'[p] = IF over THEN "ready" ELSE "timed" BY <1>1 DEF Inv, Types
  <2>2. CASE over BY <2>1, <2>2 DEF Own
  <2>3. CASE ~over BY <1>1, <2>1, <2>3, OwnKept, <1>2 DEF Inv, Types
  <2> QED BY <2>2, <2>3
<1>5. ASSUME NEW q \in Proc, Port[q] # 0, q # p
      PROVE  Own(q)'
  <2>1. \A d \in Channel : d # c => channel'[d] = channel[d] /\ moved'[d] = moved[d]
    BY <1>1 DEF Inv, Types
  <2> QED BY <1>1, <1>2, <1>3, <1>5, <2>1, StepOthers DEF Inv, Types
<1> QED BY <1>3, <1>4, <1>5 DEF Inv

(* Only the process itself is stepped, and no channel of a port is touched. *)
LEMMA ChannelsKept ==
  ASSUME Inv, UNCHANGED op, DOMAIN channel' = Channel, moved' \in [Channel -> Nat],
         \A d \in Channel \ {SpiChannel} : channel'[d] = channel[d] /\ moved'[d] = moved[d],
         pc' \in [Proc -> {"ready", "described", "disabled", "waiting", "timed"}],
         \A p \in Proc : pc'[p] # pc[p] => Port[p] = 0 /\ pc'[p] = "ready"
  PROVE  Inv'
<1>1. Types' BY DEF Inv, Types
<1>2. ASSUME NEW q \in Proc, Port[q] # 0
      PROVE  Own(q)'
  <2>1. \A s \in Side : SpiChannel # Descriptor(Port[q])[s] BY <1>2, OwnChannels
  <2>2. pc'[q] = pc[q] /\ op'[q] = op[q] BY <1>2
  <2>3. \A d \in Channel : d # SpiChannel => channel'[d] = channel[d] /\ moved'[d] = moved[d]
    OBVIOUS
  <2> QED BY <1>1, <1>2, <2>1, <2>2, <2>3, OthersKept
<1> QED BY <1>1, <1>2 DEF Inv

(* A beat moves one of those that are left. *)
LEMMA BeatInv ==
  ASSUME Inv, NEW c \in Channel, Beat(c)
  PROVE  Inv'
<1>1. /\ channel[c].enabled /\ channel' = [channel EXCEPT ![c] = Moved(@)]
      /\ moved' = [moved EXCEPT ![c] = IF @ <= 2 * MaxCount THEN @ + 1 ELSE @]
      /\ UNCHANGED <<pc, op>>
  BY DEF Beat, processes
<1>2. moved[c] \in Nat BY DEF Inv, Types
<1>3. Types' BY <1>1, <1>2 DEF Inv, Types
<1>4. channel'[c] = Moved(channel[c]) /\ moved'[c] = IF moved[c] <= 2 * MaxCount THEN moved[c] + 1 ELSE moved[c]
  BY <1>1 DEF Inv, Types
<1>5. channel'[c].descriptor = channel[c].descriptor BY <1>4 DEF Moved
<1>6. ASSUME NEW n \in Count, Block(c, n)
      PROVE  Block(c, n)'
  <2>1. /\ ~channel[c].descriptor.loop /\ ~channel[c].tcmpl
        /\ channel[c].left \in Nat \ {0} /\ moved[c] + channel[c].left = n
    BY <1>1, <1>6 DEF Block
  <2>2. n \in Nat /\ MaxCount \in Nat /\ n <= MaxCount BY MaxCountIs, CountIs
  <2>3. moved'[c] = moved[c] + 1
    <3>1. moved[c] <= 2 * MaxCount BY <1>2, <2>1, <2>2
    <3> QED BY <1>4, <3>1
  <2>4. CASE channel[c].left > 1
    <3>1. channel'[c] = [channel[c] EXCEPT !.left = @ - 1] BY <1>4, <2>4 DEF Moved
    <3>2. /\ channel'[c].enabled = channel[c].enabled /\ channel'[c].tcmpl = channel[c].tcmpl
          /\ channel'[c].left = channel[c].left - 1
      BY <3>1
    <3>3. channel'[c].left \in Nat \ {0} /\ moved'[c] + channel'[c].left = n
      BY <1>2, <2>1, <2>3, <2>4, <3>2
    <3> QED BY <1>1, <1>5, <2>1, <3>2, <3>3 DEF Block
  <2>5. CASE ~(channel[c].left > 1)
    <3>1. channel'[c] = [channel[c] EXCEPT !.left = 0, !.enabled = FALSE, !.tcmpl = TRUE]
      BY <1>4, <2>1, <2>5 DEF Moved
    <3>2. ~channel'[c].enabled /\ channel'[c].tcmpl BY <3>1
    <3>3. moved'[c] = n BY <1>2, <2>1, <2>3, <2>5
    <3> QED BY <3>2, <3>3 DEF Block
  <2> QED BY <2>4, <2>5
<1>7. ASSUME NEW q \in Proc, Port[q] # 0
      PROVE  Own(q)'
  <2>1. CASE op[q] = None BY <1>1, <2>1, OwnNone DEF Inv, Types
  <2>2. CASE op[q] # None /\ ChannelOf(q) # c
    <3>1. ChannelOf(q) \in Channel BY <1>7, <2>2, OpIs, OwnChannels DEF Inv, ChannelOf
    <3> QED BY <1>1, <1>7, <2>2, <3>1, OwnKept DEF Inv, Types
  <2>3. CASE op[q] # None /\ ChannelOf(q) = c
    <3>1. ChannelOf(q)' = c /\ UNCHANGED <<pc, op>> BY <1>1, <2>3 DEF ChannelOf
    <3>2. Own(q) /\ op[q].count \in Count BY <1>7, <2>3, OpIs DEF Inv
    <3>3. Block(c, op[q].count) => Block(c, op[q].count)' BY <1>6, <3>1, <3>2
    <3> QED BY <1>1, <1>5, <2>3, <3>1, <3>2, <3>3 DEF Own, LoopsOn
  <2> QED BY <2>1, <2>2, <2>3
<1> QED BY <1>3, <1>7 DEF Inv

LEMMA StepInv == Inv /\ [Next]_vars => Inv'
<1> SUFFICES ASSUME Inv, [Next]_vars
             PROVE  Inv'
  OBVIOUS
<1> USE DEF processes, dma
<1>1. CASE \E p \in Proc, side \in Side, n \in Count, timed \in BOOLEAN : Start(p, side, n, timed)
  BY <1>1, StartInv
<1>2. ASSUME NEW p \in Proc, Step(p)
      PROVE  Inv'
  <2>1. CASE PollUsb(p)
    <3>1. Port[p] = 0 /\ pc' = [pc EXCEPT ![p] = "ready"] /\ UNCHANGED <<op, channel, moved>>
      BY <2>1 DEF PollUsb
    <3> QED BY <3>1, ChannelsKept DEF Inv, Types
  <2>2. CASE ~PollUsb(p)
    <3>1. pc[p] \in {"described", "disabled", "timed"} \/ Poll(p)
      BY <1>2, <2>2 DEF Step, StartDisable, StartEnable, PollTimed
    <3>2. Port[p] # 0 BY <3>1 DEF Poll, Inv, Types
    <3> QED BY <1>2, <2>2, <3>2, StartDisableInv, StartEnableInv, PollInv, PollTimedInv DEF Step
  <2> QED BY <2>1, <2>2
<1>3. CASE \E p \in Proc : Expire(p)
  <2>1. UNCHANGED <<pc, op, channel, moved>> BY <1>3 DEF Expire
  <2> QED BY <2>1, ChannelsKept DEF Inv, Types
<1>4. CASE \E c \in Channel : Beat(c) BY <1>4, BeatInv
<1>5. CASE SpiStart
  <2>1. UNCHANGED <<pc, op>> /\ moved' = [moved EXCEPT ![SpiChannel] = 0]
        /\ DOMAIN channel' = DOMAIN channel
        /\ \A d \in DOMAIN channel \ {SpiChannel} : channel'[d] = channel[d]
    BY <1>5 DEF SpiStart
  <2> QED BY <2>1, ChannelsKept DEF Inv, Types
<1>6. CASE SpiPoll
  <2>1. UNCHANGED <<pc, op, channel, moved>> BY <1>6 DEF SpiPoll
  <2> QED BY <2>1, ChannelsKept DEF Inv, Types
<1>7. CASE \E side \in Side : UsbDone(side)
  <2>1. UNCHANGED <<pc, op, channel, moved>> BY <1>7 DEF UsbDone
  <2> QED BY <2>1, ChannelsKept DEF Inv, Types
<1>8. CASE UNCHANGED vars
  <2>1. UNCHANGED <<pc, op, channel, moved>> BY <1>8 DEF vars
  <2> QED BY <2>1, ChannelsKept DEF Inv, Types
<1> QED BY <1>1, <1>2, <1>3, <1>4, <1>5, <1>6, <1>7, <1>8 DEF Next

LEMMA Invariant == Spec => []Inv
BY InitInv, StepInv, PTL DEF Spec

-----------------------------------------------------------------------------
(* Types *)

ChannelType == [descriptor : [count : Nat, loop : BOOLEAN], enabled : BOOLEAN,
                tcmpl : BOOLEAN, left : Nat]

(* A channel that is enabled has beats left, and a descriptor of some to    *)
(* start again with.                                                       *)
Sound(ch) == ch \in ChannelType /\ (ch.enabled => ch.left > 0 /\ ch.descriptor.count > 0)

(* The channel of a started transfer has a descriptor that is not empty. *)
Described == \A p \in Proc : Port[p] # 0 /\ op[p] # None => channel[ChannelOf(p)].descriptor.count > 0

PortInv ==
  /\ expired \in [Proc -> BOOLEAN]
  /\ chid \in Channel
  /\ channel \in [Channel -> ChannelType]
  /\ \A c \in Channel : Sound(channel[c])
  /\ usb \in [Side -> BOOLEAN]
  /\ Described

LEMMA EnabledSound ==
  ASSUME NEW ch, Sound(ch), ch.descriptor.count > 0
  PROVE  Sound(Enabled(ch)) /\ Enabled(ch).descriptor = ch.descriptor
BY DEF Sound, ChannelType, Enabled

LEMMA MovedSound ==
  ASSUME NEW ch, Sound(ch), ch.enabled
  PROVE  Sound(Moved(ch)) /\ Moved(ch).descriptor = ch.descriptor
<1>1. CASE ch.left > 1
  <2>1. Moved(ch) = [ch EXCEPT !.left = ch.left - 1] BY <1>1 DEF Moved
  <2> QED BY <1>1, <2>1 DEF Sound, ChannelType
<1>2. CASE ~(ch.left > 1) /\ ch.descriptor.loop
  <2>1. Moved(ch) = [ch EXCEPT !.left = ch.descriptor.count, !.tcmpl = TRUE] BY <1>2 DEF Moved
  <2>2. ch.descriptor.count \in Nat BY DEF Sound, ChannelType
  <2> QED BY <2>1, <2>2 DEF Sound, ChannelType
<1>3. CASE ~(ch.left > 1) /\ ~ch.descriptor.loop
  <2>1. Moved(ch) = [ch EXCEPT !.left = 0, !.enabled = FALSE, !.tcmpl = TRUE] BY <1>3 DEF Moved
  <2>2. ch \in ChannelType /\ 0 \in Nat BY DEF Sound
  <2>3. Moved(ch) \in ChannelType /\ ~Moved(ch).enabled BY <2>1, <2>2 DEF ChannelType
  <2>4. Moved(ch).descriptor = ch.descriptor BY <2>1, <2>2 DEF ChannelType
  <2> QED BY <2>3, <2>4 DEF Sound
<1> QED BY <1>1, <1>2, <1>3

LEMMA SpiSound ==
  ASSUME NEW ch, Sound(ch)
  PROVE  Sound(Enabled([ch EXCEPT !.descriptor = [count |-> 1, loop |-> FALSE]]))
<1> DEFINE next == [ch EXCEPT !.descriptor = [count |-> 1, loop |-> FALSE]]
<1>1. Sound(next) /\ next.descriptor.count > 0
  <2> DEFINE d == [count |-> 1, loop |-> FALSE]
  <2>1. d \in [count : Nat, loop : BOOLEAN] /\ d.count > 0 OBVIOUS
  <2> HIDE DEF d
  <2>2. ch \in ChannelType BY DEF Sound
  <2>3. [ch EXCEPT !.descriptor = d] \in ChannelType BY <2>1, <2>2 DEF ChannelType
  <2>4. /\ [ch EXCEPT !.descriptor = d].descriptor = d
        /\ [ch EXCEPT !.descriptor = d].enabled = ch.enabled
        /\ [ch EXCEPT !.descriptor = d].left = ch.left
    BY <2>2 DEF ChannelType
  <2>5. Sound([ch EXCEPT !.descriptor = d]) BY <2>1, <2>3, <2>4 DEF Sound
  <2> QED BY <2>1, <2>4, <2>5 DEF d
<1> QED BY <1>1, EnabledSound

(* A step that works on one channel. *)
LEMMA OneChannel ==
  ASSUME PortInv, NEW c \in Channel, NEW ch, Sound(ch), channel' = [channel EXCEPT ![c] = ch]
  PROVE  channel' \in [Channel -> ChannelType] /\ \A d \in Channel : Sound(channel'[d])
BY DEF PortInv, Sound

(* The descriptors of the processes are not emptied. *)
LEMMA DescribedKept ==
  ASSUME Inv, PortInv, UNCHANGED op,
         \A d \in Channel \ {SpiChannel} : channel'[d].descriptor = channel[d].descriptor
  PROVE  Described'
<1> SUFFICES ASSUME NEW p \in Proc, Port[p] # 0, op[p] # None
             PROVE  channel'[ChannelOf(p)].descriptor.count > 0
  BY DEF Described, ChannelOf
<1>1. op[p].side \in Side BY OpIs DEF Inv
<1>2. ChannelOf(p) \in Channel \ {SpiChannel} BY <1>1, OwnChannels DEF ChannelOf
<1> QED BY <1>2 DEF PortInv, Described

LEMMA InitPort == Init => PortInv
<1> SUFFICES ASSUME Init PROVE PortInv
  OBVIOUS
<1>1. 0 \in Channel BY DEF Channel
<1>2. \A c \in Channel : channel[c] \in ChannelType /\ ~channel[c].enabled
  BY DEF Init, ChannelType, NoDescriptor
<1>3. channel \in [Channel -> ChannelType] BY <1>2 DEF Init
<1> QED BY <1>1, <1>2, <1>3 DEF Init, PortInv, Sound, Described

LEMMA PortStart ==
  ASSUME Inv, PortInv, NEW p \in Proc, NEW side \in Side, NEW n \in Count, NEW timed \in BOOLEAN,
         Start(p, side, n, timed)
  PROVE  PortInv'
<1> DEFINE next == [side |-> side, count |-> n, timed |-> timed]
<1>1. op' = [op EXCEPT ![p] = next] /\ next # None /\ next.side = side
  BY DEF Start, None, Side
<1> HIDE DEF next
<1>2. op' = [q \in Proc |-> IF q = p THEN next ELSE op[q]] BY <1>1 DEF Inv, Types
<1>3. n \in Nat /\ n > 0 BY CountIs
<1>4. CASE Port[p] = 0
  <2>1. UNCHANGED <<expired, chid, channel>> /\ usb' = [usb EXCEPT ![side] = TRUE]
    BY <1>4 DEF Start, dma
  <2>2. Described' BY <1>2, <1>4, <2>1 DEF PortInv, Described, ChannelOf
  <2> QED BY <2>1, <2>2 DEF PortInv
<1>5. CASE Port[p] # 0
  <2> DEFINE c == Descriptor(Port[p])[side]
             d == [count |-> n, loop |-> LoopsOn(p, side)]
  <2>1. channel' = [channel EXCEPT ![c].descriptor = d] /\ UNCHANGED <<expired, chid, usb>>
    BY <1>5 DEF Start, CreateDescriptor
  <2>2. c \in Channel BY <1>5, OwnChannels
  <2>3. d \in [count : Nat, loop : BOOLEAN] /\ d.count > 0 BY <1>3 DEF LoopsOn
  <2> HIDE DEF c, d
  <2>4. Sound([channel[c] EXCEPT !.descriptor = d])
    BY <2>2, <2>3 DEF PortInv, Sound, ChannelType
  <2>5. channel' = [channel EXCEPT ![c] = [channel[c] EXCEPT !.descriptor = d]] BY <2>1
  <2>6. channel' \in [Channel -> ChannelType] /\ \A x \in Channel : Sound(channel'[x])
    BY <2>2, <2>4, <2>5, OneChannel
  <2>7. \A x \in Channel : channel'[x].descriptor = IF x = c THEN d ELSE channel[x].descriptor
    BY <2>2, <2>5 DEF PortInv, ChannelType
  <2>8. ASSUME NEW q \in Proc, Port[q] # 0, op'[q] # None
        PROVE  channel'[ChannelOf(q)'].descriptor.count > 0
    <3>1. CASE q = p
      <4>1. ChannelOf(q)' = c BY <1>1, <1>2, <3>1 DEF ChannelOf, c
      <4> QED BY <2>2, <2>3, <2>7, <4>1
    <3>2. CASE q # p
      <4>1. op'[q] = op[q] /\ ChannelOf(q)' = ChannelOf(q) BY <1>2, <3>2 DEF ChannelOf
      <4>2. op[q].side \in Side BY <2>8, <4>1, OpIs DEF Inv
      <4>3. ChannelOf(q) \in Channel /\ ChannelOf(q) # c
        BY <1>5, <2>8, <3>2, <4>2, OwnChannels DEF ChannelOf, c
      <4> QED BY <2>7, <2>8, <4>1, <4>3 DEF PortInv, Described
    <3> QED BY <3>1, <3>2
  <2> QED BY <2>1, <2>6, <2>8 DEF PortInv, Described
<1> QED BY <1>4, <1>5

LEMMA PortOwn ==
  ASSUME Inv, PortInv, NEW p \in Proc, Port[p] # 0,
         StartDisable(p) \/ StartEnable(p) \/ Poll(p) \/ PollTimed(p)
  PROVE  PortInv'
<1> DEFINE c == ChannelOf(p)
<1>1. pc[p] # "ready" BY DEF StartDisable, StartEnable, Poll, PollTimed
<1>2. c \in Channel /\ channel[c].descriptor.count > 0 /\ Sound(channel[c])
  BY <1>1, NotReady DEF PortInv, Described
<1>3. UNCHANGED <<op, usb>> /\ chid' = c
  BY DEF StartDisable, DisableAndInit, StartEnable, EnableChannel, Poll, PollTimed, Callback
<1>4. expired' \in [Proc -> BOOLEAN]
  BY DEF PortInv, StartDisable, StartEnable, Poll, PollTimed
<1>5. channel' \in {channel, [channel EXCEPT ![c].enabled = FALSE],
                    [channel EXCEPT ![c] = Enabled(channel[c])]}
  BY DEF StartDisable, DisableAndInit, StartEnable, EnableChannel, Poll, PollTimed, Callback
<1> HIDE DEF c
<1>6. PICK ch : /\ Sound(ch) /\ ch.descriptor = channel[c].descriptor
                /\ channel' = [channel EXCEPT ![c] = ch]
  <2>1. CASE channel' = channel
    BY <1>2, <2>1 DEF PortInv
  <2>2. CASE channel' = [channel EXCEPT ![c].enabled = FALSE]
    <3>1. Sound([channel[c] EXCEPT !.enabled = FALSE]) BY <1>2 DEF Sound, ChannelType
    <3> QED BY <1>2, <2>2, <3>1 DEF Sound, ChannelType
  <2>3. CASE channel' = [channel EXCEPT ![c] = Enabled(channel[c])]
    BY <1>2, <2>3, EnabledSound
  <2> QED BY <1>5, <2>1, <2>2, <2>3
<1>7. channel' \in [Channel -> ChannelType] /\ \A d \in Channel : Sound(channel'[d])
  BY <1>2, <1>6, OneChannel
<1>8. \A d \in Channel : channel'[d].descriptor = channel[d].descriptor
  BY <1>2, <1>6 DEF PortInv
<1>9. Described' BY <1>3, <1>8, DescribedKept
<1> QED BY <1>2, <1>3, <1>4, <1>7, <1>9 DEF PortInv

LEMMA PortStep == Inv /\ PortInv /\ [Next]_vars => PortInv'
<1> SUFFICES ASSUME Inv, PortInv, [Next]_vars PROVE PortInv'
  OBVIOUS
<1>1. SpiChannel \in Channel BY DEF SpiChannel, Channel
<1>2. CASE \E p \in Proc, side \in Side, n \in Count, timed \in BOOLEAN : Start(p, side, n, timed)
  BY <1>2, PortStart
<1>3. ASSUME NEW p \in Proc, Step(p)
      PROVE  PortInv'
  <2>1. CASE PollUsb(p)
    <3>1. UNCHANGED <<op, expired, chid, channel, usb>> BY <2>1 DEF PollUsb, dma
    <3>2. Described' BY <3>1, DescribedKept
    <3> QED BY <3>1, <3>2 DEF PortInv
  <2>2. CASE ~PollUsb(p)
    <3>1. pc[p] \in {"described", "disabled", "timed"} \/ Poll(p)
      BY <1>3, <2>2 DEF Step, StartDisable, StartEnable, PollTimed
    <3>2. Port[p] # 0 BY <3>1 DEF Poll, Inv, Types
    <3> QED BY <1>3, <2>2, <3>2, PortOwn DEF Step
  <2> QED BY <2>1, <2>2
<1>4. CASE \E p \in Proc : Expire(p)
  <2>1. UNCHANGED <<op, chid, channel, usb>> /\ expired' \in [Proc -> BOOLEAN]
    BY <1>4 DEF Expire, dma, PortInv
  <2>2. Described' BY <2>1, DescribedKept
  <2> QED BY <2>1, <2>2 DEF PortInv
<1>5. ASSUME NEW c \in Channel, Beat(c)
      PROVE  PortInv'
  <2>1. /\ channel[c].enabled /\ channel' = [channel EXCEPT ![c] = Moved(channel[c])]
        /\ UNCHANGED <<op, expired, chid, usb>>
    BY <1>5 DEF Beat, processes
  <2>2. Sound(Moved(channel[c])) /\ Moved(channel[c]).descriptor = channel[c].descriptor
    BY <2>1, MovedSound DEF PortInv
  <2>3. channel' \in [Channel -> ChannelType] /\ \A d \in Channel : Sound(channel'[d])
    BY <2>1, <2>2, OneChannel
  <2>4. \A d \in Channel : channel'[d].descriptor = channel[d].descriptor
    BY <2>1, <2>2 DEF PortInv
  <2>5. Described' BY <2>1, <2>4, DescribedKept
  <2> QED BY <2>1, <2>3, <2>5 DEF PortInv
<1>6. CASE SpiStart
  <2> DEFINE ch == Enabled([channel[SpiChannel] EXCEPT !.descriptor = [count |-> 1, loop |-> FALSE]])
  <2>1. /\ channel' = [channel EXCEPT ![SpiChannel] = ch] /\ chid' = SpiChannel
        /\ UNCHANGED <<op, expired, usb>>
    BY <1>6 DEF SpiStart, processes
  <2>2. Sound(ch) BY <1>1, SpiSound DEF PortInv
  <2> HIDE DEF ch
  <2>3. channel' \in [Channel -> ChannelType] /\ \A d \in Channel : Sound(channel'[d])
    BY <1>1, <2>1, <2>2, OneChannel
  <2>4. Described' BY <2>1, DescribedKept DEF PortInv
  <2> QED BY <1>1, <2>1, <2>3, <2>4 DEF PortInv
<1>7. CASE SpiPoll
  <2>1. UNCHANGED <<op, expired, channel, usb>> /\ chid' = SpiChannel
    BY <1>7 DEF SpiPoll, Callback, processes
  <2>2. Described' BY <2>1, DescribedKept
  <2> QED BY <1>1, <2>1, <2>2 DEF PortInv
<1>8. CASE (\E side \in Side : UsbDone(side)) \/ UNCHANGED vars
  <2>1. UNCHANGED <<op, expired, chid, channel>> /\ usb' \in [Side -> BOOLEAN]
    BY <1>8 DEF UsbDone, processes, dma, vars, PortInv
  <2>2. Described' BY <2>1, DescribedKept
  <2> QED BY <2>1, <2>2 DEF PortInv
<1> QED BY <1>2, <1>3, <1>4, <1>5, <1>6, <1>7, <1>8 DEF Next

-----------------------------------------------------------------------------
(* rtos_dma.c:5-12, dma.c:68-76: when a wait ends, the process's transfer    *)
(* has moved all its beats, and the channel has stopped.                   *)
THEOREM OwnTransfer == Spec => WaitEndsTransfer
<1>1. Inv /\ [Next]_vars
        => [\A p \in Proc : Returns(p) =>
              moved[ChannelOf(p)] = op[p].count /\ ~channel[ChannelOf(p)].enabled]_vars
  <2> SUFFICES ASSUME Inv, [Next]_vars, NEW p \in Proc, Returns(p)
               PROVE  moved[ChannelOf(p)] = op[p].count /\ ~channel[ChannelOf(p)].enabled
    OBVIOUS
  <2>1. pc[p] = "waiting" /\ pc'[p] = "ready" /\ Port[p] # 0 BY DEF Returns
  <2>2. Poll(p)
    <3>1. pc'[p] # pc[p] BY <2>1
    <3>2. \A q \in Proc : q # p => ~Step(q)
      <4> SUFFICES ASSUME NEW q \in Proc, q # p, Step(q)
                   PROVE  pc'[p] = pc[p]
        BY <3>1
      <4> QED
        BY DEF Step, StartDisable, StartEnable, Poll, PollTimed, PollUsb, Inv, Types
    <3>3. ASSUME NEW q \in Proc, NEW side \in Side, NEW n \in Count, NEW timed \in BOOLEAN,
                 Start(q, side, n, timed)
          PROVE  FALSE
      BY <2>1, <3>3 DEF Start, Inv, Types
    <3>4. Step(p)
      BY <3>1, <3>2, <3>3
      DEF Next, Expire, Beat, SpiStart, SpiPoll, UsbDone, processes, dma, vars
    <3> QED BY <2>1, <3>4 DEF Step, StartDisable, StartEnable, PollTimed, PollUsb
  <2>3. channel[ChannelOf(p)].tcmpl BY <2>1, <2>2, PollInv
  <2>4. Block(ChannelOf(p), op[p].count) BY <2>1 DEF Inv, Own
  <2> QED BY <2>3, <2>4 DEF Block
<1> QED BY Invariant, <1>1, PTL DEF Spec, WaitEndsTransfer

(* While a process waits, its transfer is under way or its flag is set, so   *)
(* the next poll of it ends the wait or the controller still works on it.   *)
THEOREM TransfersGoOn == Spec => []TransferGoesOn
<1>1. Inv => TransferGoesOn BY DEF Inv, Own, Block, TransferGoesOn
<1> QED BY <1>1, Invariant, PTL

(* After a transfer *)

(* What the controller may still move on a channel that no transfer uses. *)
Behind(c) ==
  /\ again[c] /\ ~channel[c].descriptor.loop
  /\ channel[c].descriptor.count \in Count
  /\ channel[c].left \in Nat \ {0}
  /\ moved[c] + channel[c].left <= 2 * channel[c].descriptor.count

Late(p, side) ==
  ~Transfers(p, side) /\ channel[Descriptor(Port[p])[side]].enabled
    => Behind(Descriptor(Port[p])[side])

LateInv ==
  /\ again \in [Channel -> BOOLEAN]
  /\ \A p \in Proc, side \in Side : Port[p] # 0 /\ ~LoopsOn(p, side) => Late(p, side)

LEMMA InitLate == Init => LateInv
<1> SUFFICES ASSUME Init, NEW p \in Proc, NEW side \in Side, Port[p] # 0
             PROVE  Late(p, side)
  BY DEF LateInv, Init
<1>1. Descriptor(Port[p])[side] \in Channel BY OwnChannels
<1> QED BY <1>1 DEF Init, Late

LEMMA LateSame ==
  ASSUME NEW p \in Proc, NEW side \in Side, Late(p, side), NEW c,
         c = Descriptor(Port[p])[side],
         Transfers(p, side) => Transfers(p, side)',
         channel'[c] = channel[c], moved'[c] = moved[c], again'[c] = again[c]
  PROVE  Late(p, side)'
BY DEF Late, Behind

(* A step on one channel leaves the others as they are. *)
LEMMA LateOthers ==
  ASSUME Inv, LateInv, again' \in [Channel -> BOOLEAN], NEW p \in Proc, NEW side \in Side,
         Port[p] # 0,
         \A q \in Proc : q # p => pc'[q] = pc[q] /\ op'[q] = op[q],
         \A t \in Side : Transfers(p, t) /\ t # side => Transfers(p, t)',
         \A d \in Channel : d # Descriptor(Port[p])[side] =>
           channel'[d] = channel[d] /\ moved'[d] = moved[d] /\ again'[d] = again[d],
         ~LoopsOn(p, side) => Late(p, side)'
  PROVE  LateInv'
<1> SUFFICES ASSUME NEW q \in Proc, NEW t \in Side, Port[q] # 0, ~LoopsOn(q, t), q # p \/ t # side
             PROVE  Late(q, t)'
  BY DEF LateInv, LoopsOn
<1>1. Descriptor(Port[q])[t] \in Channel
      /\ Descriptor(Port[q])[t] # Descriptor(Port[p])[side]
  BY OwnChannels
<1>2. Transfers(q, t) => Transfers(q, t)' BY DEF Transfers
<1>3. Late(q, t) BY DEF LateInv
<1> QED BY <1>1, <1>2, <1>3, LateSame

(* No channel of a port is touched, and no transfer of one begun or ended.  *)
LEMMA LateKept ==
  ASSUME Inv, LateInv, again' = again,
         \A d \in Channel \ {SpiChannel} : channel'[d] = channel[d] /\ moved'[d] = moved[d],
         \A p \in Proc : Port[p] # 0 => pc'[p] = pc[p] /\ op'[p] = op[p]
  PROVE  LateInv'
<1> SUFFICES ASSUME NEW q \in Proc, NEW t \in Side, Port[q] # 0, ~LoopsOn(q, t)
             PROVE  Late(q, t)'
  BY DEF LateInv, LoopsOn
<1>1. Descriptor(Port[q])[t] \in Channel \ {SpiChannel} BY OwnChannels
<1>2. Transfers(q, t) => Transfers(q, t)' BY DEF Transfers
<1>3. Late(q, t) BY DEF LateInv
<1> QED BY <1>1, <1>2, <1>3, LateSame

LEMMA LateStart ==
  ASSUME Inv, LateInv, NEW p \in Proc, NEW side \in Side, NEW n \in Count, NEW timed \in BOOLEAN,
         Start(p, side, n, timed)
  PROVE  LateInv'
<1>1. /\ pc[p] = "ready"
      /\ op' = [op EXCEPT ![p] = [side |-> side, count |-> n, timed |-> timed]]
  BY DEF Start
<1>2. \A q \in Proc : q # p => op'[q] = op[q] BY <1>1 DEF Inv, Types
<1>3. CASE Port[p] = 0
  <2>1. pc' = [pc EXCEPT ![p] = "waiting"] /\ UNCHANGED <<channel, moved, again>>
    BY <1>3 DEF Start, dma
  <2>2. \A q \in Proc : Port[q] # 0 => pc'[q] = pc[q] /\ op'[q] = op[q]
    BY <1>2, <1>3, <2>1 DEF Inv, Types
  <2> QED BY <2>1, <2>2, LateKept
<1>4. CASE Port[p] # 0
  <2> DEFINE c == Descriptor(Port[p])[side]
  <2>1. /\ pc' = [pc EXCEPT ![p] = "described"]
        /\ channel' = [channel EXCEPT ![c].descriptor = [count |-> n, loop |-> LoopsOn(p, side)]]
        /\ UNCHANGED <<moved, again>>
    BY <1>4 DEF Start, CreateDescriptor
  <2>2. \A d \in Channel : d # c => channel'[d] = channel[d] BY <2>1 DEF Inv, Types
  <2>3. \A q \in Proc : q # p => pc'[q] = pc[q] BY <2>1 DEF Inv, Types
  <2>4. Transfers(p, side)' BY <1>1, <2>1 DEF Transfers, Inv, Types
  <2>5. Late(p, side)' BY <2>4 DEF Late
  <2>6. \A t \in Side : ~Transfers(p, t) BY <1>1 DEF Transfers
  <2>7. again' \in [Channel -> BOOLEAN] BY <2>1 DEF LateInv
  <2> QED BY <1>2, <1>4, <2>1, <2>2, <2>3, <2>5, <2>6, <2>7, LateOthers
<1> QED BY <1>3, <1>4

(* The wait is over: what may come behind it. *)
LEMMA LatePollTimed ==
  ASSUME Inv, NEW p \in Proc, Port[p] # 0, PollTimed(p), pc'[p] = "ready",
         again \in [Channel -> BOOLEAN],
         NEW side, side = op[p].side, NEW n, n = op[p].count, NEW c, c = ChannelOf(p)
  PROVE  Late(p, side)'
<1>1. /\ pc[p] = "timed"
      /\ channel' = [channel EXCEPT ![c] = Enabled(@)] /\ again' = [again EXCEPT ![c] = TRUE]
      /\ UNCHANGED <<op, moved>>
  <2>1. TimedOut(p) \/ channel[c].tcmpl BY DEF PollTimed, Callback, Inv, Types
  <2>2. PollTimed(p) => again' = [again EXCEPT ![c] = @ \/ TRUE]
    BY <2>1 DEF PollTimed, Callback
  <2> QED BY <2>1, <2>2 DEF PollTimed, Callback
<1>2. c \in Channel /\ n \in Count /\ side \in Side BY <1>1, NotReady
<1>3. Own(p) /\ c = Descriptor(Port[p])[side] BY DEF Inv, ChannelOf
<1>4. /\ channel[c].descriptor = [count |-> n, loop |-> LoopsOn(p, side)]
      /\ ~LoopsOn(p, side) /\ Block(c, n)
  BY <1>1, <1>3 DEF Own
<1>5. n \in Nat \ {0} BY <1>2, CountIs
<1>6. moved'[c] = moved[c] /\ moved[c] \in Nat /\ again'[c] /\ channel'[c] = Enabled(channel[c])
  BY <1>1, <1>2 DEF Inv, Types
<1>7. CASE channel[c].enabled
  <2>1. channel'[c] = [channel[c] EXCEPT !.tcmpl = FALSE] BY <1>6, <1>7 DEF Enabled
  <2>2. channel'[c].left = channel[c].left /\ channel'[c].descriptor = channel[c].descriptor
    BY <2>1
  <2>3. channel[c].left \in Nat \ {0} /\ moved[c] + channel[c].left = n
    BY <1>4, <1>7 DEF Block
  <2>4. moved'[c] + channel'[c].left <= 2 * n BY <1>5, <1>6, <2>2, <2>3
  <2>5. Behind(c)' BY <1>2, <1>4, <1>6, <2>2, <2>3, <2>4 DEF Behind
  <2> QED BY <1>1, <1>3, <2>5 DEF Late
<1>8. CASE ~channel[c].enabled
  <2>1. channel'[c] = [[channel[c] EXCEPT !.tcmpl = FALSE] EXCEPT !.enabled = TRUE,
                                                             !.left = channel[c].descriptor.count]
    BY <1>6, <1>8 DEF Enabled
  <2>2. channel'[c].descriptor = channel[c].descriptor /\ channel'[c].left = n
    BY <1>4, <2>1
  <2>3. moved[c] = n BY <1>4, <1>8 DEF Block
  <2>4. moved'[c] + channel'[c].left <= 2 * n BY <1>5, <1>6, <2>2, <2>3
  <2>5. Behind(c)' BY <1>2, <1>4, <1>5, <1>6, <2>2, <2>4 DEF Behind
  <2> QED BY <1>1, <1>3, <2>5 DEF Late
<1> QED BY <1>7, <1>8

LEMMA LateOwn ==
  ASSUME Inv, LateInv, NEW p \in Proc, Port[p] # 0,
         StartDisable(p) \/ StartEnable(p) \/ Poll(p) \/ PollTimed(p)
  PROVE  LateInv'
<1> SUFFICES ASSUME NEW s, s = op[p].side, NEW c, c = ChannelOf(p)
             PROVE  LateInv'
  OBVIOUS
<1>1. pc[p] # "ready" /\ op' = op
  BY DEF StartDisable, StartEnable, Poll, PollTimed
<1>2. s \in Side /\ c \in Channel /\ c = Descriptor(Port[p])[s]
  BY <1>1, NotReady DEF ChannelOf
<1>3. \A d \in Channel : d # c =>
        channel'[d] = channel[d] /\ moved'[d] = moved[d] /\ again'[d] = again[d]
  <2>1. CASE StartDisable(p) \/ Poll(p)
    BY <2>1 DEF StartDisable, DisableAndInit, Poll, Inv, Types
  <2>2. CASE StartEnable(p)
    BY <2>2 DEF StartEnable, EnableChannel, Inv, Types, LateInv
  <2>3. CASE PollTimed(p)
    BY <2>3 DEF PollTimed, Callback, Inv, Types, LateInv
  <2> QED BY <2>1, <2>2, <2>3
<1>4. \A q \in Proc : q # p => pc'[q] = pc[q]
  BY DEF StartDisable, StartEnable, Poll, PollTimed, Inv, Types
<1>5. \A t \in Side : t # s => ~Transfers(p, t) BY DEF Transfers
<1>6. again' \in [Channel -> BOOLEAN]
  BY <1>2 DEF StartDisable, DisableAndInit, StartEnable, EnableChannel, Poll, PollTimed,
     Callback, LateInv
<1>7. ASSUME ~LoopsOn(p, s)
      PROVE  Late(p, s)'
  <2>1. CASE pc'[p] # "ready" BY <1>1, <2>1 DEF Late, Transfers
  <2>2. CASE pc'[p] = "ready" /\ PollTimed(p) BY <2>2, LatePollTimed DEF LateInv
  <2>3. CASE pc'[p] = "ready" /\ Poll(p)
    <3>1. channel[c].tcmpl /\ channel' = channel /\ pc[p] = "waiting"
      BY <2>3, PollInv DEF Poll
    <3>2. ~channel[c].enabled BY <3>1 DEF Inv, Own, Block
    <3> QED BY <1>1, <1>2, <3>1, <3>2 DEF Late
  <2>4. pc'[p] # "ready" \/ PollTimed(p) \/ Poll(p)
    BY <1>7 DEF StartDisable, StartEnable, Inv, Types
  <2> QED BY <2>1, <2>2, <2>3, <2>4
<1> QED BY <1>1, <1>2, <1>3, <1>4, <1>5, <1>6, <1>7, LateOthers

LEMMA LateBeat ==
  ASSUME Inv, LateInv, NEW c \in Channel, Beat(c)
  PROVE  LateInv'
<1>1. /\ channel[c].enabled /\ channel' = [channel EXCEPT ![c] = Moved(@)]
      /\ moved' = [moved EXCEPT ![c] = IF @ <= 2 * MaxCount THEN @ + 1 ELSE @]
      /\ UNCHANGED <<pc, op, again>>
  BY DEF Beat, processes
<1> SUFFICES ASSUME NEW p \in Proc, NEW side \in Side, Port[p] # 0, ~LoopsOn(p, side)
             PROVE  Late(p, side)'
  BY <1>1 DEF LateInv, LoopsOn
<1> DEFINE d == Descriptor(Port[p])[side]
<1>2. d \in Channel BY OwnChannels
<1>3. Late(p, side) BY DEF LateInv
<1>4. Transfers(p, side)' <=> Transfers(p, side) BY <1>1 DEF Transfers
<1>5. CASE d # c
  <2>1. channel'[d] = channel[d] /\ moved'[d] = moved[d] BY <1>1, <1>2, <1>5 DEF Inv, Types
  <2> HIDE DEF d
  <2> QED BY <1>1, <1>3, <1>4, <2>1, LateSame DEF d
<1>6. CASE d = c /\ ~Transfers(p, side)
  <2>1. Behind(c) BY <1>1, <1>3, <1>6 DEF Late
  <2>2. /\ ~channel[c].descriptor.loop /\ channel[c].left \in Nat \ {0}
        /\ channel[c].descriptor.count \in Nat /\ channel[c].descriptor.count <= MaxCount
        /\ MaxCount \in Nat /\ moved[c] \in Nat
        /\ moved[c] + channel[c].left <= 2 * channel[c].descriptor.count
    BY <2>1, MaxCountIs, CountIs DEF Behind, Inv, Types
  <2>3. channel'[c] = Moved(channel[c]) BY <1>1 DEF Inv, Types
  <2>4. moved[c] <= 2 * MaxCount BY <2>2
  <2>5. moved'[c] = moved[c] + 1 BY <1>1, <2>4 DEF Inv, Types
  <2>6. CASE channel[c].left > 1
    <3>1. channel'[c] = [channel[c] EXCEPT !.left = @ - 1] BY <2>3, <2>6 DEF Moved
    <3>2. channel'[c].left = channel[c].left - 1
          /\ channel'[c].descriptor = channel[c].descriptor
      BY <3>1
    <3>3. channel'[c].left \in Nat \ {0}
          /\ moved'[c] + channel'[c].left <= 2 * channel[c].descriptor.count
      BY <2>2, <2>5, <2>6, <3>2
    <3>4. Behind(c)' BY <1>1, <2>1, <3>2, <3>3 DEF Behind
    <3> QED BY <1>6, <3>4 DEF Late
  <2>7. CASE ~(channel[c].left > 1)
    <3>1. channel'[c] = [channel[c] EXCEPT !.left = 0, !.enabled = FALSE, !.tcmpl = TRUE]
      BY <2>2, <2>3, <2>7 DEF Moved
    <3>2. ~channel'[c].enabled BY <3>1
    <3> QED BY <1>6, <3>2 DEF Late
  <2> QED BY <2>6, <2>7
<1>7. CASE d = c /\ Transfers(p, side) BY <1>4, <1>7 DEF Late
<1> QED BY <1>5, <1>6, <1>7

LEMMA LateStep == Inv /\ LateInv /\ [Next]_vars => LateInv'
<1> SUFFICES ASSUME Inv, LateInv, [Next]_vars PROVE LateInv'
  OBVIOUS
<1>1. CASE \E p \in Proc, side \in Side, n \in Count, timed \in BOOLEAN : Start(p, side, n, timed)
  BY <1>1, LateStart
<1>2. ASSUME NEW p \in Proc, Step(p)
      PROVE  LateInv'
  <2>1. CASE PollUsb(p)
    <3>1. Port[p] = 0 /\ pc' = [pc EXCEPT ![p] = "ready"] /\ UNCHANGED <<op, channel, moved, again>>
      BY <2>1 DEF PollUsb, dma
    <3>2. \A q \in Proc : Port[q] # 0 => pc'[q] = pc[q] BY <3>1 DEF Inv, Types
    <3> QED BY <3>1, <3>2, LateKept
  <2>2. CASE ~PollUsb(p)
    <3>1. pc[p] \in {"described", "disabled", "timed"} \/ Poll(p)
      BY <1>2, <2>2 DEF Step, StartDisable, StartEnable, PollTimed
    <3>2. Port[p] # 0 BY <3>1 DEF Poll, Inv, Types
    <3> QED BY <1>2, <2>2, <3>2, LateOwn DEF Step
  <2> QED BY <2>1, <2>2
<1>3. CASE \E c \in Channel : Beat(c) BY <1>3, LateBeat
<1>4. CASE SpiStart
  <2>1. UNCHANGED <<pc, op, again>>
        /\ \A d \in Channel \ {SpiChannel} : channel'[d] = channel[d] /\ moved'[d] = moved[d]
    BY <1>4 DEF SpiStart, processes, Inv, Types
  <2> QED BY <2>1, LateKept
<1>5. CASE (\E p \in Proc : Expire(p)) \/ SpiPoll \/ (\E side \in Side : UsbDone(side)) \/ UNCHANGED vars
  <2>1. UNCHANGED <<pc, op, channel, moved, again>>
    BY <1>5 DEF Expire, SpiPoll, UsbDone, processes, dma, vars
  <2> QED BY <2>1, LateKept
<1> QED BY <1>1, <1>2, <1>3, <1>4, <1>5 DEF Next

(* Only channels of the controller are selected, and one that is enabled has *)
(* beats left to move, also a read that is enabled again after its time-out. *)
THEOREM PortTypeCorrect == Spec => []TypeOK
<1>1. Inv /\ PortInv /\ LateInv => TypeOK
  BY DEF Inv, Types, PortInv, Sound, ChannelType, TypeOK, LateInv
<1> QED BY <1>1, InitInv, StepInv, InitPort, PortStep, InitLate, LateStep, PTL DEF Spec

(* rtos_uart.c:49: outside its transfers the controller writes only into the *)
(* buffer of a read that was waited for with a time-out, and no more than   *)
(* the bytes of one more read; every other buffer is left alone.            *)
THEOREM QuietWhenDone == Spec => BufferQuiet
<1>1. Inv /\ LateInv /\ [Next]_vars
        => [\A p \in Proc, side \in Side :
              LET own == Descriptor(Port[p])[side]
              IN Port[p] # 0 /\ ~(side = "rx" /\ p \in Infinite) /\ ~Transfers(p, side)
                   /\ moved'[own] > moved[own]
                 => again[own] /\ moved'[own] <= 2 * channel[own].descriptor.count]_vars
  <2> SUFFICES ASSUME Inv, LateInv, [Next]_vars, NEW p \in Proc, NEW side \in Side, NEW c,
                      c = Descriptor(Port[p])[side], Port[p] # 0,
                      ~LoopsOn(p, side), ~Transfers(p, side), moved'[c] > moved[c]
               PROVE  again[c] /\ moved'[c] <= 2 * channel[c].descriptor.count
    BY DEF LoopsOn
  <2>1. c \in Channel /\ moved[c] \in Nat BY OwnChannels DEF Inv, Types
  <2>2. Late(p, side) BY DEF LateInv
  <2>3. CASE \E d \in Channel : Beat(d)
    <3>1. PICK d \in Channel : Beat(d) BY <2>3
    <3>2. d = c BY <2>1, <3>1 DEF Beat, Inv, Types
    <3>3. Behind(c) BY <2>2, <3>1, <3>2 DEF Late, Beat
    <3>4. moved'[c] <= moved[c] + 1 BY <2>1, <3>1 DEF Beat, Inv, Types
    <3>5. channel[c].descriptor.count \in Nat BY <3>3, CountIs DEF Behind
    <3>6. moved'[c] \in Nat BY <2>1, <3>1 DEF Beat, Inv, Types
    <3> QED BY <2>1, <3>3, <3>4, <3>5, <3>6 DEF Behind
  <2>4. CASE ~\E d \in Channel : Beat(d)
    <3>1. UNCHANGED moved \/ \E d : moved' = [moved EXCEPT ![d] = 0]
      BY <2>4, ZenonT(40)
      DEF Next, Start, CreateDescriptor, Step, StartDisable, DisableAndInit, StartEnable,
          EnableChannel, Poll, PollTimed, PollUsb, Expire, SpiStart, SpiPoll, UsbDone, dma, vars
    <3>2. moved'[c] = moved[c] \/ moved'[c] = 0 BY <2>1, <3>1 DEF Inv, Types
    <3> QED BY <2>1, <3>2
  <2> QED BY <2>3, <2>4
<1> QED BY Invariant, InitLate, LateStep, <1>1, PTL DEF Spec, BufferQuiet

-----------------------------------------------------------------------------
(* The communications link *)

(* A frame that is in rxpacket has been received since rxpacket was cleared; *)
(* while a response is sent, nothing reads received any more.               *)
RxInv ==
  /\ DOMAIN rxpacket = Index
  /\ evaluated \in [Request -> Nat]
  /\ link_pc \in {"frame", "answer", "resend"}
  /\ link_pc # "answer" => \A i \in Index : rxpacket[i] # Nothing => i \in received

LEMMA InitRx == LinkInit => RxInv
BY DEF LinkInit, RxInv, Blank

(* A packet that begins is empty. *)
LEMMA NewPacketRx ==
  ASSUME RxInv, NewPacket(rxpacket), UNCHANGED evaluated
  PROVE  RxInv'
BY DEF RxInv, NewPacket, Cleared, Blank

(* A frame that is stored is a frame that was received. *)
LEMMA StoreRx ==
  ASSUME RxInv, Store, UNCHANGED <<link_pc, evaluated>>
  PROVE  RxInv'
<1>1. DOMAIN rxpacket' = Index BY DEF RxInv, Store
<1>2. ASSUME link_pc # "answer", NEW i \in Index, rxpacket'[i] # Nothing
      PROVE  i \in received'
  <2>1. CASE i = rxframe'.index BY <2>1 DEF Store
  <2>2. CASE i # rxframe'.index
    <3>1. rxpacket'[i] = rxpacket[i] BY <2>2 DEF Store, RxInv
    <3> QED BY <1>2, <3>1 DEF Store, RxInv
  <2> QED BY <2>1, <2>2
<1> QED BY <1>1, <1>2 DEF RxInv

(* The end of a packet, carried out or not. *)
LEMMA EvaluateRx ==
  ASSUME RxInv, Evaluate
  PROVE  RxInv'
<1> DEFINE complete == [rxpacket EXCEPT ![rxframe'.index] = rxframe'.packet]
<1>1. DOMAIN complete = Index BY DEF RxInv
<1>2. evaluated' \in [Request -> Nat] BY DEF Evaluate, RxInv
<1>3. CASE link_pc' = "answer"
  <2>1. rxpacket' = complete BY <1>3 DEF Evaluate
  <2> QED BY <1>1, <1>2, <1>3, <2>1 DEF RxInv
<1>4. CASE link_pc' # "answer"
  <2>1. link_pc' = "frame" /\ rxpacket' = Blank BY <1>4 DEF Evaluate, Cleared
  <2> QED BY <1>2, <2>1 DEF RxInv, Blank
<1> QED BY <1>3, <1>4

LEMMA StepRx == RxInv /\ [LinkNext]_link_vars => RxInv'
<1> SUFFICES ASSUME RxInv, [LinkNext]_link_vars
             PROVE  RxInv'
  OBVIOUS
<1>1. CASE BadFrame BY <1>1 DEF BadFrame, RxInv
<1>2. CASE ResendRequested BY <1>2 DEF ResendRequested, GetFrame, RxInv
<1>3. CASE MoreFrames BY <1>3, StoreRx DEF MoreFrames
<1>4. CASE AskAgain BY <1>4, StoreRx DEF AskAgain
<1>5. CASE Evaluate BY <1>5, EvaluateRx
<1>6. CASE SendFrame
  <2>1. CASE NewPacket(rxpacket) BY <1>6, <2>1, NewPacketRx DEF SendFrame
  <2>2. CASE UNCHANGED <<link_pc, rxpacket, received>>
    BY <1>6, <2>2 DEF SendFrame, RxInv
  <2> QED BY <1>6, <2>1, <2>2 DEF SendFrame
<1>7. CASE ResendFrame
  <2>1. CASE NewPacket(rxpacket) BY <1>7, <2>1, NewPacketRx DEF ResendFrame
  <2>2. CASE UNCHANGED <<link_pc, rxpacket, received>>
    BY <1>7, <2>2 DEF ResendFrame, RxInv
  <2> QED BY <1>7, <2>1, <2>2 DEF ResendFrame
<1>8. CASE Spoil BY <1>8 DEF Spoil, device, RxInv
<1>9. CASE \E r \in Request : StationRequest(r) \/ StationImpatient(r)
  BY <1>9 DEF StationRequest, StationImpatient, Send, device, RxInv
<1>10. CASE StationTimeout BY <1>10 DEF StationTimeout, Send, device, RxInv
<1>11. CASE StationReceive BY <1>11 DEF StationReceive, device, RxInv
<1>12. CASE UNCHANGED link_vars BY <1>12 DEF link_vars, device, RxInv
<1> QED
  BY <1>1, <1>2, <1>3, <1>4, <1>5, <1>6, <1>7, <1>8, <1>9, <1>10, <1>11, <1>12
  DEF LinkNext, Comms

(* Only the end of a packet carries a request out, and then the packet is   *)
(* the whole of that request.                                              *)
LEMMA CarriedOutWhole ==
  ASSUME RxInv, [LinkNext]_link_vars, NEW r \in Request, CarriedOut(r)
  PROVE  /\ Evaluate
         /\ \A i \in 0 .. Frames[r] - 1 :
              [rxpacket EXCEPT ![rxframe'.index] = rxframe'.packet][i] = r
<1>1. evaluated' # evaluated BY DEF CarriedOut, RxInv
<1>2. Evaluate
  BY <1>1 DEF LinkNext, Comms, BadFrame, ResendRequested, MoreFrames, AskAgain, SendFrame,
     ResendFrame, Spoil, StationRequest, StationImpatient, StationTimeout, StationReceive, Send,
     link_vars
<1> DEFINE complete == [rxpacket EXCEPT ![rxframe'.index] = rxframe'.packet]
<1>3. /\ CheckPacket(complete)
      /\ evaluated' = [evaluated EXCEPT ![complete[0]] = @ + 1]
  BY <1>1, <1>2 DEF Evaluate
<1>4. complete[0] = r BY <1>3 DEF CarriedOut, RxInv
<1> QED BY <1>2, <1>3, <1>4 DEF CheckPacket

LEMMA StepFresh ==
  ASSUME RxInv, [LinkNext]_link_vars, NEW r \in Request, CarriedOut(r)
  PROVE  0 .. Frames[r] - 1 \subseteq received \cup {rxframe'.index}
<1> SUFFICES ASSUME NEW i \in 0 .. Frames[r] - 1, i # rxframe'.index
             PROVE  i \in received
  OBVIOUS
<1>1. i \in Index BY CommsAssumption DEF Index
<1>2. [rxpacket EXCEPT ![rxframe'.index] = rxframe'.packet][i] = r BY CarriedOutWhole
<1>3. rxpacket[i] = r BY <1>1, <1>2 DEF RxInv
<1>4. r # Nothing BY CommsAssumption
<1>5. link_pc = "frame" BY CarriedOutWhole DEF Evaluate, GetFrame
<1> QED BY <1>1, <1>3, <1>4, <1>5 DEF RxInv

(* comms.c:264-337 and :178-223: every frame of a packet that is carried out *)
(* has come since the last packet ended, whatever was lost, repeated, given  *)
(* up or mixed on the way.                                                  *)
THEOREM Fresh == LinkSpec => EvaluatedFresh
<1>1. RxInv /\ [LinkNext]_link_vars
        => [\A r \in Request : CarriedOut(r) =>
              0 .. Frames[r] - 1 \subseteq received \cup {rxframe'.index}]_link_vars
  BY StepFresh
<1> QED BY InitRx, StepRx, <1>1, PTL DEF LinkSpec, EvaluatedFresh

-----------------------------------------------------------------------------
(* Lists of indexes *)

(* The place of an element of a finite set of numbers: how many are not     *)
(* above it.                                                               *)
Place(S, x) == Cardinality({y \in S : y <= x})

LEMMA PlaceIs ==
  ASSUME NEW S \in SUBSET Nat, IsFiniteSet(S), NEW x \in S
  PROVE  Place(S, x) \in 1 .. Cardinality(S)
<1> DEFINE below == {y \in S : y <= x}
<1>1. IsFiniteSet(below) /\ Cardinality(below) <= Cardinality(S) BY FS_Subset
<1>2. Cardinality(below) \in Nat /\ Cardinality(S) \in Nat BY <1>1, FS_CardinalityType
<1>3. x \in below OBVIOUS
<1>4. Cardinality(below) # 0 BY <1>1, <1>3, FS_EmptySet
<1> QED BY <1>1, <1>2, <1>4 DEF Place

LEMMA PlaceGrows ==
  ASSUME NEW S \in SUBSET Nat, IsFiniteSet(S), NEW x \in S, NEW z \in S, x < z
  PROVE  Place(S, x) < Place(S, z)
<1> DEFINE upto(u) == {y \in S : y <= u}
<1>1. IsFiniteSet(upto(x)) /\ IsFiniteSet(upto(z)) BY FS_Subset
<1>2. \A y \in S : y \in Nat OBVIOUS
<1>3. \A y \in S : y <= x => y <= z BY <1>2
<1>4. z <= z /\ ~(z <= x) BY <1>2
<1>5. upto(x) \subseteq upto(z) /\ z \in upto(z) /\ z \notin upto(x) BY <1>3, <1>4
<1>6. /\ Cardinality(upto(x)) <= Cardinality(upto(z))
      /\ Cardinality(upto(x)) # Cardinality(upto(z))
  BY <1>1, <1>5, FS_Subset
<1>7. Cardinality(upto(x)) \in Nat /\ Cardinality(upto(z)) \in Nat BY <1>1, FS_CardinalityType
<1> HIDE DEF upto
<1>8. Cardinality(upto(x)) < Cardinality(upto(z)) BY <1>6, <1>7
<1> QED BY <1>8 DEF Place, upto

(* Every finite set of numbers has an ascending sequence of its elements. *)
LEMMA AscendingExists ==
  ASSUME NEW S \in SUBSET Nat, IsFiniteSet(S)
  PROVE  \E s \in [1 .. Cardinality(S) -> S] : \A j, k \in DOMAIN s : j < k => s[j] < s[k]
<1> DEFINE n == Cardinality(S)
           place == [x \in S |-> Place(S, x)]
           s == [k \in 1 .. n |-> CHOOSE x \in S : Place(S, x) = k]
<1>1. n \in Nat BY FS_CardinalityType
<1>2. IsFiniteSet(1 .. n) /\ Cardinality(1 .. n) = n BY <1>1, FS_Interval
<1>3. place \in Injection(S, 1 .. n)
  <2>1. place \in [S -> 1 .. n] BY PlaceIs
  <2>2. ASSUME NEW x \in S, NEW z \in S, x # z
        PROVE  Place(S, x) # Place(S, z)
    <3>1. CASE x < z BY <3>1, <2>2, PlaceIs, PlaceGrows
    <3>2. CASE z < x BY <3>2, <2>2, PlaceIs, PlaceGrows
    <3> QED BY <2>2, <3>1, <3>2
  <2> QED BY <2>1, <2>2 DEF Injection, IsInjective
<1>4. place \in Surjection(S, 1 .. n) BY <1>2, <1>3, FS_Injection
<1>5. ASSUME NEW k \in 1 .. n
      PROVE  s[k] \in S /\ Place(S, s[k]) = k
  <2>1. \E x \in S : Place(S, x) = k BY <1>4 DEF Surjection
  <2> QED BY <2>1
<1>6. ASSUME NEW j \in 1 .. n, NEW k \in 1 .. n, j < k
      PROVE  s[j] < s[k]
  <2> DEFINE a == s[j]
             b == s[k]
  <2>1. a \in S /\ b \in S /\ Place(S, a) = j /\ Place(S, b) = k BY <1>5
  <2> HIDE DEF a, b
  <2>2. ~(b < a) BY <1>1, <1>6, <2>1, PlaceGrows
  <2>3. a # b BY <1>6, <2>1
  <2>4. a < b BY <2>1, <2>2, <2>3
  <2> QED BY <2>4 DEF a, b
<1>7. s \in [1 .. n -> S] BY <1>5
<1> HIDE DEF s
<1> QED BY <1>6, <1>7

(* A list asks for every element of a set, in ascending order, so that its  *)
(* last one has all others before it.                                      *)
LEMMA AscendingFacts ==
  ASSUME NEW S \in SUBSET Nat, IsFiniteSet(S)
  PROVE  /\ Ascending(S) \in Seq(S) /\ Len(Ascending(S)) = Cardinality(S)
         /\ Ascending(S) = << >> <=> S = {}
         /\ \A x \in S : x <= Ascending(S)[Len(Ascending(S))]
<1> DEFINE s == Ascending(S)
           n == Cardinality(S)
<1>1. n \in Nat BY FS_CardinalityType
<1>2. s \in [1 .. n -> S] /\ \A j, k \in DOMAIN s : j < k => s[j] < s[k]
  BY AscendingExists DEF Ascending
<1> HIDE DEF s
<1>3. /\ \A k \in 1 .. n : s[k] \in Nat
      /\ \A j, k \in 1 .. n : j < k => s[j] < s[k]
  BY <1>2
<1>4. s \in Injection(1 .. n, S)
  <2>1. ASSUME NEW j \in 1 .. n, NEW k \in 1 .. n, j # k
        PROVE  s[j] # s[k]
    <3>1. CASE j < k BY <1>3, <3>1
    <3>2. CASE k < j BY <1>3, <3>2
    <3> QED BY <1>1, <2>1, <3>1, <3>2
  <2> QED BY <1>2, <2>1 DEF Injection, IsInjective
<1>5. s \in Surjection(1 .. n, S)
  <2>1. Cardinality(1 .. n) = n BY <1>1, FS_Interval
  <2> QED BY <1>4, <2>1, FS_Injection
<1>6. s \in Seq(S) /\ Len(s) = n BY <1>1, <1>2
<1>7. s = << >> <=> S = {}
  <2>1. s = << >> <=> n = 0 BY <1>1, <1>6
  <2> QED BY <2>1, FS_EmptySet
<1>8. ASSUME NEW x \in S
      PROVE  x <= s[n]
  <2>1. PICK k \in 1 .. n : s[k] = x BY <1>5 DEF Surjection
  <2>2. k = n \/ k < n BY <1>1
  <2>3. n \in 1 .. n BY <1>1, <2>1
  <2> QED BY <1>2, <1>3, <2>1, <2>2, <2>3
<1> QED BY <1>6, <1>7, <1>8 DEF s
(* The indexes that are asked for are a list that a frame can carry. *)
LEMMA AskedList ==
  ASSUME NEW S \in SUBSET Index
  PROVE  /\ S \in SUBSET Nat /\ IsFiniteSet(S)
         /\ Ascending(S) \in UNION {[1 .. n -> Index] : n \in 0 .. MaxFrames}
<1>1. IsFiniteSet(Index) /\ Cardinality(Index) = MaxFrames
  BY FS_Interval, CommsAssumption DEF Index
<1>2. S \in SUBSET Nat BY CommsAssumption DEF Index
<1>3. IsFiniteSet(S) /\ Cardinality(S) <= MaxFrames BY <1>1, FS_Subset
<1>4. Cardinality(S) \in 0 .. MaxFrames BY <1>3, FS_CardinalityType, CommsAssumption
<1>5. Ascending(S) \in [1 .. Cardinality(S) -> S]
  BY <1>2, <1>3, AscendingExists DEF Ascending
<1>6. Ascending(S) \in [1 .. Cardinality(S) -> Index] BY <1>5
<1> HIDE DEF Index
<1> QED BY <1>2, <1>3, <1>4, <1>6

-----------------------------------------------------------------------------
(* Types of the link *)

Lists == UNION {[1 .. n -> Index] : n \in 0 .. MaxFrames}

(* An answer that is being sent has frames left. *)
LinkTypes ==
  /\ LinkTypeOK
  /\ link_pc = "answer" => txpacket \in Request /\ count < Answer[txpacket]

LEMMA FrameIs ==
  /\ Frame = [packet : Packet, index : Index, end : BOOLEAN, resend : Lists, good : BOOLEAN]
  /\ << >> \in Lists /\ 0 \in Index
  /\ \A list \in Lists : list \in Seq(Index) /\ Len(list) \in 0 .. MaxFrames
<1>1. << >> \in [1 .. 0 -> Index] OBVIOUS
<1>2. << >> \in Lists BY <1>1, CommsAssumption DEF Lists
<1>3. ASSUME NEW list \in Lists
      PROVE  list \in Seq(Index) /\ Len(list) \in 0 .. MaxFrames
  <2>1. PICK n \in 0 .. MaxFrames : list \in [1 .. n -> Index] BY <1>3 DEF Lists
  <2>2. n \in Nat BY CommsAssumption
  <2> QED BY <2>1, <2>2
<1>4. Frame = [packet : Packet, index : Index, end : BOOLEAN, resend : Lists, good : BOOLEAN]
  BY DEF Frame, Lists
<1>5. 0 \in Index BY CommsAssumption DEF Index
<1> QED BY <1>2, <1>3, <1>4, <1>5

LEMMA DataIs ==
  ASSUME NEW p \in Packet, NEW i \in Index, NEW e \in BOOLEAN
  PROVE  Data(p, i, e) \in Frame
BY FrameIs DEF Data

LEMMA AskIs ==
  ASSUME NEW list \in Lists
  PROVE  RequestResend(list) \in Frame
BY FrameIs DEF RequestResend, Packet

(* The frames of a packet, and those of it that are sent again. *)
LEMMA AllFramesIs ==
  ASSUME NEW p \in Packet, NEW n \in 0 .. MaxFrames
  PROVE  AllFrames(p, n) \in Seq(Frame)
<1>1. n \in Nat /\ MaxFrames \in Nat BY CommsAssumption
<1>2. ASSUME NEW k \in 1 .. n
      PROVE  Data(p, k - 1, k = n) \in Frame
  <2>1. k - 1 \in Index BY <1>1 DEF Index
  <2> QED BY <2>1, DataIs
<1> QED BY <1>1, <1>2 DEF AllFrames

LEMMA ResentIs ==
  ASSUME NEW p \in Packet, NEW list \in Lists, NEW k \in DOMAIN list
  PROVE  Resent(p, list, k) \in Frame
<1>1. list \in Seq(Index) BY FrameIs
<1>2. list[k] \in Index BY <1>1
<1> QED BY <1>2, DataIs DEF Resent

LEMMA AllResentIs ==
  ASSUME NEW p \in Packet, NEW list \in Lists
  PROVE  AllResent(p, list) \in Seq(Frame)
<1>1. list \in Seq(Index) BY FrameIs
<1>2. DOMAIN list = 1 .. Len(list) /\ Len(list) \in Nat BY <1>1
<1> QED BY <1>2, ResentIs DEF AllResent

LEMMA SpoilIs ==
  ASSUME NEW frames \in Seq(Frame), NEW k \in DOMAIN frames
  PROVE  SpoilOf(frames, k) \in Seq(Frame)
<1>1. frames[k] \in Frame OBVIOUS
<1>2. [frames[k] EXCEPT !.good = FALSE] \in Frame BY <1>1, FrameIs
<1>3. SpoilOf(frames, k) = [frames EXCEPT ![k] = [frames[k] EXCEPT !.good = FALSE]]
  BY DEF SpoilOf
<1> QED BY <1>2, <1>3

LEMMA InitLinkTypes == LinkInit => LinkTypes
<1>1. NoFrame \in Frame BY DataIs, FrameIs DEF NoFrame, Packet
<1>2. Blank \in [Index -> Packet] /\ Nothing \in Packet BY DEF Blank, Packet
<1>3. << >> \in Seq(Frame) OBVIOUS
<1>4. Idle \in [request : Request \cup {Nothing}, answer : [Index -> Packet]] BY <1>2 DEF Idle
<1>5. 0 \in 0 .. MaxFrames /\ 0 \in 0 .. MaxRequest /\ 0 \in 0 .. MaxLoss /\ 0 \in 0 .. MaxEarly
  BY CommsAssumption
<1>6. [r \in Request |-> 0] \in [Request -> Nat] OBVIOUS
<1> HIDE DEF Idle, Blank, NoFrame
<1> QED BY <1>1, <1>2, <1>3, <1>4, <1>5, <1>6 DEF LinkInit, LinkTypes, LinkTypeOK

LEMMA NewPacketTypes ==
  ASSUME LinkTypes, NewPacket(rxpacket)
  PROVE  /\ link_pc' = "frame" /\ rxpacket' \in [Index -> Packet] /\ received' \subseteq Index
         /\ rxframe' \in Frame /\ count' \in 0 .. MaxFrames
<1>1. NoFrame \in Frame BY DataIs, FrameIs DEF NoFrame, Packet
<1>2. Blank \in [Index -> Packet] BY DEF Blank, Packet
<1> QED BY <1>1, <1>2, CommsAssumption DEF NewPacket, Cleared

LEMMA GetFrameTypes ==
  ASSUME LinkTypes, GetFrame \/ BadFrame
  PROVE  /\ to_device' \in Seq(Frame) /\ rxframe' \in Frame
         /\ rxframe'.index \in Index /\ rxframe'.packet \in Packet
<1>1. to_device \in Seq(Frame) /\ to_device # << >> /\ to_device' = Tail(to_device)
      /\ rxframe' = Head(to_device)
  BY DEF GetFrame, BadFrame, LinkTypes, LinkTypeOK
<1>2. Head(to_device) \in Frame /\ Tail(to_device) \in Seq(Frame) BY <1>1
<1> QED BY <1>1, <1>2, FrameIs

LEMMA StoreTypes ==
  ASSUME LinkTypes, GetFrame, Store
  PROVE  received' \subseteq Index /\ rxpacket' \in [Index -> Packet]
BY GetFrameTypes DEF Store, LinkTypes, LinkTypeOK

LEMMA AskAgainTypes ==
  ASSUME LinkTypes, AskAgain
  PROVE  LinkTypes'
<1> DEFINE missing == Missing(received', rxframe'.index)
<1>1. GetFrame /\ Store BY DEF AskAgain
<1>2. to_station' = Append(to_station, RequestResend(missing)) BY DEF AskAgain
<1>3. missing \in Lists BY AskedList DEF Missing, Lists
<1>4. RequestResend(missing) \in Frame BY <1>3, AskIs
<1>5. to_station' \in Seq(Frame) BY <1>2, <1>4 DEF LinkTypes, LinkTypeOK
<1>6. UNCHANGED <<link_pc, count, evaluated, txpacket, station, bounds>> BY <1>1 DEF AskAgain, Store
<1> QED BY <1>1, <1>5, <1>6, GetFrameTypes, StoreTypes DEF LinkTypes, LinkTypeOK, bounds

LEMMA EvaluateTypes ==
  ASSUME LinkTypes, Evaluate
  PROVE  LinkTypes'
<1> DEFINE complete == [rxpacket EXCEPT ![rxframe'.index] = rxframe'.packet]
<1>1. GetFrame /\ UNCHANGED <<to_station, station, bounds>> BY DEF Evaluate
<1>2. complete \in [Index -> Packet] BY <1>1, GetFrameTypes DEF LinkTypes, LinkTypeOK
<1>3. Blank \in [Index -> Packet] /\ Spoiled \in Packet BY DEF Blank, Packet
<1>4. rxpacket' \in {complete, Blank} /\ received' = {} /\ count' = 0
  BY DEF Evaluate, Cleared
<1>5. \/ /\ link_pc' = "answer" /\ txpacket' \in Request /\ Answer[txpacket'] > 0
         /\ evaluated' = [evaluated EXCEPT ![txpacket'] = @ + 1]
      \/ /\ link_pc' = "frame" /\ txpacket' \in {txpacket, Spoiled}
         /\ evaluated' = evaluated \/ \E r \in Request : evaluated' = [evaluated EXCEPT ![r] = @ + 1]
  <2>1. CASE CheckPacket(complete) BY <2>1 DEF Evaluate, CheckPacket
  <2>2. CASE ~CheckPacket(complete) BY <2>2 DEF Evaluate
  <2> QED BY <2>1, <2>2
<1> HIDE DEF complete
<1>6. evaluated' \in [Request -> Nat] BY <1>5 DEF LinkTypes, LinkTypeOK
<1>7. txpacket' \in Packet BY <1>3, <1>5 DEF LinkTypes, LinkTypeOK, Packet
<1>8. rxpacket' \in [Index -> Packet] BY <1>2, <1>3, <1>4
<1> QED
  BY <1>1, <1>4, <1>5, <1>6, <1>7, <1>8, GetFrameTypes, CommsAssumption
  DEF LinkTypes, LinkTypeOK, bounds

LEMMA SendFrameTypes ==
  ASSUME LinkTypes, SendFrame
  PROVE  LinkTypes'
<1> DEFINE n == Answer[txpacket]
           frames == AllFrames(txpacket, n)
<1>1. link_pc = "answer" /\ txpacket \in Request /\ count < n /\ count \in Nat
  BY DEF SendFrame, LinkTypes, LinkTypeOK
<1>2. n \in 0 .. MaxFrames /\ n \in Nat /\ txpacket \in Packet
  BY <1>1, CommsAssumption DEF Packet
<1>3. frames \in Seq(Frame) BY <1>2, AllFramesIs
<1>4. Len(frames) = n BY <1>2 DEF AllFrames
<1>5. frames[count + 1] \in Frame BY <1>1, <1>2, <1>3, <1>4
<1>6. /\ to_station' = Append(to_station, frames[count + 1])
      /\ UNCHANGED <<txpacket, to_device, station, evaluated, bounds>>
      /\ \/ /\ count + 1 < Len(frames) /\ count' = count + 1
            /\ UNCHANGED <<link_pc, rxpacket, received, rxframe>>
         \/ NewPacket(rxpacket)
  BY DEF SendFrame
<1> HIDE DEF frames, n
<1>7. to_station' \in Seq(Frame) BY <1>5, <1>6 DEF LinkTypes, LinkTypeOK
<1>8. CASE NewPacket(rxpacket)
  BY <1>6, <1>7, <1>8, NewPacketTypes DEF LinkTypes, LinkTypeOK, bounds
<1>9. CASE ~NewPacket(rxpacket)
  <2>1. count' = count + 1 /\ count + 1 < n /\ UNCHANGED <<link_pc, rxpacket, received, rxframe>>
    BY <1>4, <1>6, <1>9
  <2>2. count' \in 0 .. MaxFrames BY <1>1, <1>2, <2>1, CommsAssumption
  <2>3. txpacket' = txpacket /\ count' < Answer[txpacket] BY <1>6, <2>1 DEF n
  <2> QED BY <1>1, <1>6, <1>7, <2>1, <2>2, <2>3 DEF LinkTypes, LinkTypeOK, bounds
<1> QED BY <1>8, <1>9

LEMMA ResendFrameTypes ==
  ASSUME LinkTypes, ResendFrame
  PROVE  LinkTypes'
<1> DEFINE list == rxframe.resend
<1>1. list \in Lists /\ rxframe \in Frame /\ count \in Nat /\ txpacket \in Packet /\ link_pc = "resend"
  BY FrameIs DEF ResendFrame, LinkTypes, LinkTypeOK
<1>2. list \in Seq(Index) /\ Len(list) \in 0 .. MaxFrames BY <1>1, FrameIs
<1>3. CASE count < Len(list)
  <2>1. count + 1 \in DOMAIN list BY <1>1, <1>2, <1>3
  <2>2. Resent(txpacket, list, count + 1) \in Frame BY <1>1, <2>1, ResentIs
  <2>3. /\ to_station' = Append(to_station, Resent(txpacket, list, count + 1))
        /\ count' = count + 1
        /\ UNCHANGED <<link_pc, rxpacket, received, rxframe, txpacket, to_device, station, evaluated,
                       bounds>>
    BY <1>3 DEF ResendFrame
  <2>4. to_station' \in Seq(Frame) BY <2>2, <2>3 DEF LinkTypes, LinkTypeOK
  <2>5. count' \in 0 .. MaxFrames BY <1>1, <1>2, <1>3, <2>3, CommsAssumption
  <2> QED BY <1>1, <2>3, <2>4, <2>5 DEF LinkTypes, LinkTypeOK, bounds
<1>4. CASE ~(count < Len(list))
  <2>1. NewPacket(rxpacket) /\ UNCHANGED <<to_station, txpacket, to_device, station, evaluated, bounds>>
    BY <1>4 DEF ResendFrame
  <2> QED BY <2>1, NewPacketTypes DEF LinkTypes, LinkTypeOK, bounds
<1> QED BY <1>3, <1>4

LEMMA SpoilTypes ==
  ASSUME LinkTypes, Spoil
  PROVE  LinkTypes'
<1>1. losses' \in 0 .. MaxLoss BY CommsAssumption DEF Spoil, LinkTypes, LinkTypeOK
<1>2. end_lost' \in BOOLEAN
  BY FrameIs DEF Spoil, LinkTypes, LinkTypeOK, IsLast, Asks
<1>3. to_device' \in Seq(Frame) /\ to_station' \in Seq(Frame)
  BY SpoilIs DEF Spoil, LinkTypes, LinkTypeOK
<1> QED BY <1>1, <1>2, <1>3 DEF Spoil, device, LinkTypes, LinkTypeOK

LEMMA SendTypes ==
  ASSUME LinkTypes, NEW r \in Request, Send(r),
         end_lost' \in BOOLEAN, requests' \in 0 .. MaxRequest, early' \in 0 .. MaxEarly
  PROVE  LinkTypes'
<1>1. Frames[r] \in 0 .. MaxFrames /\ r \in Packet BY CommsAssumption DEF Packet
<1>2. AllFrames(r, Frames[r]) \in Seq(Frame) BY <1>1, AllFramesIs
<1>3. to_device' \in Seq(Frame) BY <1>2 DEF Send, LinkTypes, LinkTypeOK
<1>4. station' = [request |-> r, answer |-> Blank] BY DEF Send, Idle
<1>5. station' \in [request : Request \cup {Nothing}, answer : [Index -> Packet]]
  BY <1>4 DEF Blank, Packet
<1> QED BY <1>3, <1>5 DEF Send, device, LinkTypes, LinkTypeOK

LEMMA StationTypes ==
  ASSUME LinkTypes,
         \/ \E r \in Request : StationRequest(r) \/ StationImpatient(r)
         \/ StationTimeout
  PROVE  LinkTypes'
<1>1. CASE \E r \in Request : StationRequest(r) \/ StationImpatient(r)
  <2>1. PICK r \in Request : StationRequest(r) \/ StationImpatient(r) BY <1>1
  <2>2. Send(r) /\ end_lost' = end_lost BY <2>1 DEF StationRequest, StationImpatient
  <2>3. requests' \in 0 .. MaxRequest /\ early' \in 0 .. MaxEarly
    BY <2>1, CommsAssumption DEF StationRequest, StationImpatient, LinkTypes, LinkTypeOK
  <2> QED BY <2>2, <2>3, SendTypes DEF LinkTypes, LinkTypeOK
<1>2. CASE StationTimeout /\ Send(station.request)
  <2>1. station.request \in Request BY <1>2 DEF StationTimeout, LinkTypes, LinkTypeOK
  <2> QED BY <1>2, <2>1, SendTypes DEF StationTimeout, LinkTypes, LinkTypeOK
<1>3. CASE StationTimeout /\ ~Send(station.request)
  <2>1. station' = [request |-> Nothing, answer |-> Blank] BY <1>3 DEF StationTimeout, Idle
  <2>2. station' \in [request : Request \cup {Nothing}, answer : [Index -> Packet]]
    BY <2>1 DEF Blank, Packet
  <2> QED BY <1>3, <2>2 DEF StationTimeout, device, link, LinkTypes, LinkTypeOK
<1> QED BY <1>1, <1>2, <1>3

LEMMA ReceiveTypes ==
  ASSUME LinkTypes, StationReceive
  PROVE  LinkTypes'
<1> DEFINE frame == Head(to_station)
           answer == [station.answer EXCEPT ![frame.index] = frame.packet]
           missing == Ascending({i \in Index : i < frame.index /\ answer[i] = Nothing})
<1>1. to_station \in Seq(Frame) /\ to_station # << >> /\ to_station' = Tail(to_station)
  BY DEF StationReceive, LinkTypes, LinkTypeOK
<1>2. frame \in Frame /\ to_station' \in Seq(Frame) BY <1>1
<1>3. frame.index \in Index /\ frame.packet \in Packet /\ frame.resend \in Lists BY <1>2, FrameIs
<1>4. station \in [request : Request \cup {Nothing}, answer : [Index -> Packet]]
  BY DEF LinkTypes, LinkTypeOK
<1>5. answer \in [Index -> Packet] BY <1>3, <1>4
<1>6. /\ Idle \in [request : Request \cup {Nothing}, answer : [Index -> Packet]]
      /\ Blank \in [Index -> Packet]
  BY DEF Idle, Blank, Packet
<1>7. missing \in Lists
  <2>1. {i \in Index : i < frame.index /\ answer[i] = Nothing} \in SUBSET Index OBVIOUS
  <2> QED BY <2>1, AskedList DEF Lists
<1>8. RequestResend(missing) \in Frame BY <1>7, AskIs
<1>9. AllResent(station.request, frame.resend) \in Seq(Frame) BY <1>3, <1>4, AllResentIs DEF Packet
<1>10. UNCHANGED <<device, evaluated, bounds>> BY DEF StationReceive
<1>11. /\ station' \in {station, [station EXCEPT !.answer = answer], Idle,
                        [station EXCEPT !.answer = Blank]}
       /\ to_device' \in {to_device, to_device \o AllResent(station.request, frame.resend),
                          Append(to_device, RequestResend(missing))}
  BY Zenon DEF StationReceive
<1> HIDE DEF frame, answer, missing
<1>12. station' \in [request : Request \cup {Nothing}, answer : [Index -> Packet]]
  BY <1>4, <1>5, <1>6, <1>11
<1>13. to_device' \in Seq(Frame)
  <2>1. to_device \in Seq(Frame) BY DEF LinkTypes, LinkTypeOK
  <2>2. Append(to_device, RequestResend(missing)) \in Seq(Frame) BY <1>8, <2>1
  <2>3. to_device \o AllResent(station.request, frame.resend) \in Seq(Frame) BY <1>9, <2>1
  <2> QED BY <1>11, <2>1, <2>2, <2>3
<1> QED BY <1>2, <1>10, <1>12, <1>13 DEF device, bounds, LinkTypes, LinkTypeOK

LEMMA StepLinkTypes == LinkTypes /\ [LinkNext]_link_vars => LinkTypes'
<1> SUFFICES ASSUME LinkTypes, [LinkNext]_link_vars
             PROVE  LinkTypes'
  OBVIOUS
<1>1. CASE BadFrame
  BY <1>1, GetFrameTypes DEF BadFrame, bounds, LinkTypes, LinkTypeOK
<1>2. CASE ResendRequested
  BY <1>2, GetFrameTypes, CommsAssumption DEF ResendRequested, bounds, LinkTypes, LinkTypeOK
<1>3. CASE MoreFrames
  <2>1. GetFrame /\ Store /\ UNCHANGED <<link_pc, count, to_station, evaluated, txpacket, station, bounds>>
    BY <1>3 DEF MoreFrames, Store
  <2> QED BY <2>1, GetFrameTypes, StoreTypes DEF bounds, LinkTypes, LinkTypeOK
<1>4. CASE UNCHANGED link_vars
  BY <1>4 DEF link_vars, device, link, bounds, LinkTypes, LinkTypeOK
<1> QED
  BY <1>1, <1>2, <1>3, <1>4, AskAgainTypes, EvaluateTypes, SendFrameTypes, ResendFrameTypes,
     SpoilTypes, StationTypes, ReceiveTypes
  DEF LinkNext, Comms

(* Frames carry indexes that exist and lists that fit into them, and a       *)
(* response is sent within its length.                                     *)
THEOREM LinkTypeCorrect == LinkSpec => []LinkTypeOK
<1>1. LinkTypes => LinkTypeOK BY DEF LinkTypes
<1> QED BY <1>1, InitLinkTypes, StepLinkTypes, PTL DEF LinkSpec

-----------------------------------------------------------------------------
(* Whose turn it is *)

(* The frames of a packet of n frames for a request: a part of them without *)
(* the one that ends the transaction, or what is left up to that one.      *)
DataFrame(r, n) ==
  [packet : {r}, index : 0 .. n - 1, end : BOOLEAN, resend : {<< >>}, good : BOOLEAN]

Begun(frames, r, n) ==
  /\ frames \in Seq(DataFrame(r, n))
  /\ \A k \in 1 .. Len(frames) : ~frames[k].end

Whole(frames, r, n) ==
  /\ frames \in Seq(DataFrame(r, n)) /\ frames # << >>
  /\ \A k \in 1 .. Len(frames) : frames[k].end <=> k = Len(frames)
  /\ frames[Len(frames)].good

EndOf(frames) == frames[Len(frames)].index

(* A list of some of n frames, and one frame that asks for those. *)
ListOf(list, n) == list \in Seq(0 .. n - 1) /\ list # << >>
LastOf(list) == list[Len(list)]
Asking(frames, n) ==
  LET list == frames[1].resend IN frames = <<RequestResend(list)>> /\ ListOf(list, n)

(* What has come is of the request, and all above an index has come. *)
Collected(r, last) ==
  /\ received \subseteq 0 .. Frames[r] - 1
  /\ \A i \in received : rxpacket[i] = r
  /\ \A i \in 0 .. Frames[r] - 1 : i \in received \/ i <= last

AnswerUpTo(r, last) ==
  \A i \in 0 .. Answer[r] - 1 : station.answer[i] = r \/ i <= last

Empty == rxpacket = Blank /\ received = {}

(* The process is in get_packet, or comes there without sending any more. *)
Listens ==
  \/ link_pc = "frame"
  \/ (link_pc = "resend" /\ count = Len(rxframe.resend) /\ Empty)

(* Nothing is to come; *)
Resting(r) ==
  /\ Listens /\ Empty /\ to_device = << >> /\ to_station = << >>
  /\ \/ r = Nothing
     \/ r \in Request /\ Answer[r] = 0

(* the request comes, or frames of it are being asked for; *)
RequestComes(r) ==
  /\ Listens /\ to_station = << >>
  /\ Whole(to_device, r, Frames[r]) /\ Collected(r, EndOf(to_device))

RequestAsked(r) ==
  /\ link_pc = "frame" /\ to_device = << >>
  /\ Asking(to_station, Frames[r]) /\ Collected(r, LastOf(to_station[1].resend))

(* the response is sent or comes, *)
Answering(r) ==
  /\ link_pc = "answer" /\ to_device = << >>
  /\ count \in 0 .. Answer[r] - 1
  /\ Begun(to_station, r, Answer[r])

AnswerComes(r) ==
  /\ Listens /\ Empty /\ to_device = << >>
  /\ Whole(to_station, r, Answer[r]) /\ AnswerUpTo(r, EndOf(to_station))

(* or frames of it are being asked for, or sent again. *)
AnswerAsked(r) ==
  /\ Listens /\ Empty /\ to_station = << >>
  /\ Asking(to_device, Answer[r]) /\ AnswerUpTo(r, LastOf(to_device[1].resend))

Resending(r) ==
  /\ link_pc = "resend" /\ Empty /\ to_device = << >>
  /\ ListOf(rxframe.resend, Answer[r]) /\ count \in 0 .. Len(rxframe.resend) - 1
  /\ AnswerUpTo(r, LastOf(rxframe.resend))
  /\ Begun(to_station, r, Answer[r])

Turn(r) ==
  \/ Resting(r)
  \/ /\ r \in Request
     /\ RequestComes(r) \/ RequestAsked(r)
  \/ /\ r \in Request /\ txpacket = r /\ Answer[r] > 0
     /\ Answering(r) \/ AnswerComes(r) \/ AnswerAsked(r) \/ Resending(r)

(* A frame that no other follows was spoiled, or the station was impatient. *)
Disturbed == end_lost \/ early > 0

TurnInv ==
  Disturbed \/ /\ Turn(station.request)
               /\ \A i \in Index : station.answer[i] \in {Nothing, station.request}

LEMMA DataFrameIs ==
  ASSUME NEW r, NEW n, NEW f \in DataFrame(r, n)
  PROVE  /\ f.packet = r /\ f.index \in 0 .. n - 1 /\ ~Asks(f) /\ f.good \in BOOLEAN
         /\ IsLast(f) = f.end
         /\ [f EXCEPT !.good = FALSE] \in DataFrame(r, n)
         /\ [f EXCEPT !.good = FALSE].end = f.end
BY DEF DataFrame, Asks, IsLast

LEMMA EmptyIs ==
  ASSUME NEW T, NEW t \in Seq(T)
  PROVE  t = << >> <=> Len(t) = 0
OBVIOUS

(* The first frame is read. *)
LEMMA ReadBegun ==
  ASSUME NEW r, NEW n, NEW s, Begun(s, r, n), s # << >>
  PROVE  Begun(Tail(s), r, n) /\ Head(s) \in DataFrame(r, n) /\ ~Head(s).end
<1>1. s \in Seq(DataFrame(r, n)) BY DEF Begun
<1>2. Len(s) \in Nat \ {0} /\ Head(s) = s[1] /\ Head(s) \in DataFrame(r, n) BY <1>1
<1>3. /\ Tail(s) \in Seq(DataFrame(r, n)) /\ Len(Tail(s)) = Len(s) - 1
      /\ \A k \in 1 .. Len(Tail(s)) : Tail(s)[k] = s[k + 1]
  BY <1>1
<1>4. \A k \in 1 .. Len(Tail(s)) : k + 1 \in 1 .. Len(s) BY <1>2, <1>3
<1> QED BY <1>1, <1>2, <1>3, <1>4 DEF Begun

LEMMA ReadWhole ==
  ASSUME NEW r, NEW n, NEW s, Whole(s, r, n)
  PROVE  /\ s # << >> /\ Head(s) \in DataFrame(r, n)
         /\ Head(s).end => Tail(s) = << >> /\ Head(s).good /\ Head(s).index = EndOf(s)
         /\ ~Head(s).end => Whole(Tail(s), r, n) /\ EndOf(Tail(s)) = EndOf(s)
<1>1. s \in Seq(DataFrame(r, n)) /\ s # << >> BY DEF Whole
<1>2. Len(s) \in Nat \ {0} /\ Head(s) = s[1] /\ Head(s) \in DataFrame(r, n) BY <1>1
<1>3. /\ Tail(s) \in Seq(DataFrame(r, n)) /\ Len(Tail(s)) = Len(s) - 1
      /\ \A k \in 1 .. Len(Tail(s)) : Tail(s)[k] = s[k + 1]
  BY <1>1
<1>4. Head(s).end <=> Len(s) = 1
  <2>1. 1 \in 1 .. Len(s) BY <1>2
  <2>2. s[1].end <=> 1 = Len(s) BY <2>1 DEF Whole
  <2> QED BY <1>2, <2>2
<1>5. CASE Len(s) = 1
  <2>1. Tail(s) = << >>
    <3>1. Len(Tail(s)) = 0 BY <1>3, <1>5
    <3> QED BY <1>3, <3>1, EmptyIs
  <2> QED BY <1>1, <1>2, <1>4, <1>5, <2>1 DEF Whole, EndOf
<1>6. CASE Len(s) # 1
  <2>1. Len(Tail(s)) \in Nat \ {0} /\ Tail(s) # << >> BY <1>2, <1>3, <1>6
  <2>2. Tail(s)[Len(Tail(s))] = s[Len(s)] BY <1>2, <1>3, <2>1
  <2>3. ASSUME NEW k \in 1 .. Len(Tail(s))
        PROVE  Tail(s)[k].end <=> k = Len(Tail(s))
    <3>1. k + 1 \in 1 .. Len(s) /\ (k + 1 = Len(s) <=> k = Len(Tail(s))) BY <1>2, <1>3
    <3> QED BY <1>3, <3>1 DEF Whole
  <2> QED BY <1>1, <1>2, <1>3, <1>4, <1>6, <2>1, <2>2, <2>3 DEF Whole, EndOf
<1> QED BY <1>5, <1>6

(* A frame is sent after those that are on their way. *)
LEMMA SendPart ==
  ASSUME NEW r, NEW n, NEW s, Begun(s, r, n), NEW f \in DataFrame(r, n), ~f.end
  PROVE  Begun(Append(s, f), r, n)
<1>1. s \in Seq(DataFrame(r, n)) BY DEF Begun
<1>2. /\ Append(s, f) \in Seq(DataFrame(r, n)) /\ Len(Append(s, f)) = Len(s) + 1 /\ Len(s) \in Nat
      /\ Append(s, f)[Len(s) + 1] = f
      /\ \A k \in 1 .. Len(s) : Append(s, f)[k] = s[k]
  BY <1>1
<1> QED BY <1>2 DEF Begun

LEMMA SendEnd ==
  ASSUME NEW r, NEW n, NEW s, Begun(s, r, n), NEW f \in DataFrame(r, n), f.end, f.good
  PROVE  Whole(Append(s, f), r, n) /\ EndOf(Append(s, f)) = f.index
<1>1. s \in Seq(DataFrame(r, n)) BY DEF Begun
<1>2. /\ Append(s, f) \in Seq(DataFrame(r, n)) /\ Len(Append(s, f)) = Len(s) + 1 /\ Len(s) \in Nat
      /\ Append(s, f)[Len(s) + 1] = f
      /\ \A k \in 1 .. Len(s) : Append(s, f)[k] = s[k]
  BY <1>1
<1>3. Append(s, f) # << >> BY <1>2
<1> QED BY <1>2, <1>3 DEF Begun, Whole, EndOf

(* A whole packet is sent, or the frames of a list. *)
LEMMA AllFramesWhole ==
  ASSUME NEW r, NEW n \in Nat \ {0}
  PROVE  Whole(AllFrames(r, n), r, n) /\ EndOf(AllFrames(r, n)) = n - 1
<1> DEFINE s == AllFrames(r, n)
<1>1. \A k \in 1 .. n : Data(r, k - 1, k = n) \in DataFrame(r, n) BY DEF Data, DataFrame
<1>2. s \in Seq(DataFrame(r, n)) /\ Len(s) = n BY <1>1 DEF AllFrames
<1>3. \A k \in 1 .. n : s[k].end = (k = n) /\ s[k].good /\ s[k].index = k - 1
  BY DEF AllFrames, Data
<1>4. s # << >> /\ n \in 1 .. n BY <1>2
<1> HIDE DEF s
<1>5. Whole(s, r, n) /\ EndOf(s) = n - 1 BY <1>2, <1>3, <1>4 DEF Whole, EndOf
<1> QED BY <1>5 DEF s

LEMMA AllResentWhole ==
  ASSUME NEW r, NEW n \in Nat, NEW list, ListOf(list, n)
  PROVE  Whole(AllResent(r, list), r, n) /\ EndOf(AllResent(r, list)) = LastOf(list)
<1> DEFINE s == AllResent(r, list)
           m == Len(list)
<1>1. m \in Nat \ {0} /\ DOMAIN list = 1 .. m /\ \A k \in 1 .. m : list[k] \in 0 .. n - 1
  BY DEF ListOf
<1>2. \A k \in 1 .. m : Data(r, list[k], k = m) \in DataFrame(r, n) BY <1>1 DEF Data, DataFrame
<1>3. s = [k \in 1 .. m |-> Data(r, list[k], k = m)] BY <1>1 DEF AllResent, Resent
<1>4. \A k \in 1 .. m : s[k].end = (k = m) /\ s[k].good /\ s[k].index = list[k]
  BY <1>3 DEF Data
<1> HIDE DEF s, m
<1>5. s \in Seq(DataFrame(r, n)) /\ Len(s) = m BY <1>1, <1>2, <1>3
<1>6. s # << >> /\ m \in 1 .. m BY <1>1, <1>5
<1>7. Whole(s, r, n) /\ EndOf(s) = LastOf(list) BY <1>4, <1>5, <1>6 DEF Whole, EndOf, LastOf, m
<1> QED BY <1>7 DEF s

(* A frame is spoiled that does not end its transaction. *)
LEMMA SpoilSame ==
  ASSUME NEW r, NEW n, NEW s \in Seq(DataFrame(r, n)), NEW k \in DOMAIN s
  PROVE  /\ SpoilOf(s, k) \in Seq(DataFrame(r, n)) /\ Len(SpoilOf(s, k)) = Len(s)
         /\ \A j \in 1 .. Len(s) : SpoilOf(s, k)[j].end = s[j].end
         /\ \A j \in 1 .. Len(s) : j # k => SpoilOf(s, k)[j] = s[j]
<1>1. SpoilOf(s, k) = [s EXCEPT ![k] = [s[k] EXCEPT !.good = FALSE]] BY DEF SpoilOf
<1>2. s[k] \in DataFrame(r, n) OBVIOUS
<1>3. /\ [s[k] EXCEPT !.good = FALSE] \in DataFrame(r, n)
      /\ [s[k] EXCEPT !.good = FALSE].end = s[k].end
  BY <1>2, DataFrameIs
<1> QED BY <1>1, <1>3

LEMMA SpoilBegun ==
  ASSUME NEW r, NEW n, NEW s, Begun(s, r, n), NEW k \in DOMAIN s
  PROVE  Begun(SpoilOf(s, k), r, n)
<1>1. s \in Seq(DataFrame(r, n)) BY DEF Begun
<1>2. /\ SpoilOf(s, k) \in Seq(DataFrame(r, n)) /\ Len(SpoilOf(s, k)) = Len(s)
      /\ \A j \in 1 .. Len(s) : SpoilOf(s, k)[j].end = s[j].end
  BY <1>1, SpoilSame
<1> QED BY <1>2 DEF Begun

LEMMA SpoilWhole ==
  ASSUME NEW r, NEW n, NEW s, Whole(s, r, n), NEW k \in DOMAIN s, ~IsLast(s[k])
  PROVE  Whole(SpoilOf(s, k), r, n) /\ EndOf(SpoilOf(s, k)) = EndOf(s)
<1>1. s \in Seq(DataFrame(r, n)) /\ s # << >> /\ s[k] \in DataFrame(r, n) BY DEF Whole
<1>2. Len(s) \in 1 .. Len(s) /\ k \in 1 .. Len(s) BY <1>1
<1>3. k # Len(s) BY <1>1, <1>2, DataFrameIs DEF Whole
<1> DEFINE t == SpoilOf(s, k)
<1>4. /\ t \in Seq(DataFrame(r, n)) /\ Len(t) = Len(s)
      /\ \A j \in 1 .. Len(s) : t[j].end = s[j].end
      /\ \A j \in 1 .. Len(s) : j # k => t[j] = s[j]
  BY <1>1, SpoilSame
<1> HIDE DEF t
<1>5. t[Len(s)] = s[Len(s)] BY <1>2, <1>3, <1>4
<1>6. t # << >> BY <1>1, <1>4, EmptyIs
<1>7. Whole(t, r, n) /\ EndOf(t) = EndOf(s) BY <1>4, <1>5, <1>6 DEF Whole, EndOf
<1> QED BY <1>7 DEF t

LEMMA AskingIs ==
  ASSUME NEW n, NEW s, Asking(s, n)
  PROVE  /\ s # << >> /\ Tail(s) = << >> /\ Head(s) = s[1]
         /\ Head(s) = RequestResend(Head(s).resend) /\ ListOf(Head(s).resend, n)
         /\ Head(s).good /\ Asks(Head(s))
         /\ \A k \in DOMAIN s : IsLast(s[k])
<1> DEFINE list == s[1].resend
<1>1. s = <<RequestResend(list)>> /\ ListOf(list, n) BY DEF Asking
<1> HIDE DEF list
<1>2. s # << >> /\ Tail(s) = << >> /\ Head(s) = s[1] /\ s[1] = RequestResend(list)
      /\ \A k \in DOMAIN s : s[k] = RequestResend(list)
  BY <1>1
<1>3. RequestResend(list).good /\ RequestResend(list).resend = list BY DEF RequestResend
<1>4. list # << >> BY <1>1 DEF ListOf
<1> QED BY <1>1, <1>2, <1>3, <1>4 DEF Asks, IsLast

LEMMA AskingFor ==
  ASSUME NEW n, NEW list, ListOf(list, n)
  PROVE  Asking(<<RequestResend(list)>>, n) /\ <<RequestResend(list)>>[1].resend = list
BY DEF Asking, RequestResend

(* What a step of the process starts from. *)
Turning ==
  /\ LinkTypes /\ ~Disturbed
  /\ Turn(station.request) /\ \A i \in Index : station.answer[i] \in {Nothing, station.request}

LEMMA SizesIs ==
  ASSUME NEW r \in Request
  PROVE  /\ Frames[r] \in Nat \ {0} /\ 0 .. Frames[r] - 1 \subseteq Index
         /\ Answer[r] \in Nat /\ 0 .. Answer[r] - 1 \subseteq Index
         /\ r # Nothing
<1>1. Frames[r] \in Nat \ {0} /\ Frames[r] <= MaxFrames /\ Answer[r] \in Nat /\ Answer[r] <= MaxFrames
      /\ MaxFrames \in Nat /\ r # Nothing
  BY CommsAssumption
<1> QED BY <1>1 DEF Index

(* A frame that the process reads is of the request, or asks for frames of  *)
(* the response.                                                          *)
LEMMA ProcessReads ==
  ASSUME Turning, link_pc = "frame", to_device # << >>,
         to_device' = Tail(to_device), rxframe' = Head(to_device)
  PROVE  LET r == station.request
             f == rxframe'
         IN /\ r \in Request
            /\ to_station = << >>
            /\ \/ /\ f \in DataFrame(r, Frames[r]) /\ Collected(r, EndOf(to_device))
                  /\ f.end => to_device' = << >> /\ f.good /\ f.index = EndOf(to_device)
                  /\ ~f.end => Whole(to_device', r, Frames[r]) /\ EndOf(to_device') = EndOf(to_device)
               \/ /\ txpacket = r /\ Answer[r] > 0 /\ Empty
                  /\ to_device' = << >> /\ f.good /\ Asks(f)
                  /\ ListOf(f.resend, Answer[r]) /\ AnswerUpTo(r, LastOf(f.resend))
<1> DEFINE r == station.request
<1>1. CASE r \in Request /\ RequestComes(r)
  <2>1. Whole(to_device, r, Frames[r]) /\ to_station = << >> /\ Collected(r, EndOf(to_device))
    BY <1>1 DEF RequestComes
  <2> HIDE DEF r
  <2> QED BY <1>1, <2>1, ReadWhole DEF r
<1>2. CASE r \in Request /\ txpacket = r /\ Answer[r] > 0 /\ AnswerAsked(r)
  <2>1. /\ Asking(to_device, Answer[r]) /\ AnswerUpTo(r, LastOf(to_device[1].resend))
        /\ Empty /\ to_station = << >>
    BY <1>2 DEF AnswerAsked
  <2> HIDE DEF r
  <2> QED BY <1>2, <2>1, AskingIs DEF r
<1>3. ~(Resting(r) \/ RequestAsked(r) \/ Answering(r) \/ AnswerComes(r) \/ Resending(r))
  BY DEF Resting, RequestAsked, Answering, AnswerComes, Resending
<1> QED BY <1>1, <1>2, <1>3 DEF Turning, Turn

LEMMA BadFrameTurn ==
  ASSUME Turning, BadFrame
  PROVE  TurnInv'
<1> DEFINE r == station.request
<1>1. /\ link_pc = "frame" /\ to_device # << >> /\ ~Head(to_device).good
      /\ to_device' = Tail(to_device) /\ rxframe' = Head(to_device)
      /\ UNCHANGED <<link_pc, rxpacket, received, txpacket, count, to_station, station,
                     evaluated, bounds>>
  BY DEF BadFrame
<1>2. /\ r \in Request /\ to_station = << >> /\ Collected(r, EndOf(to_device))
      /\ Whole(to_device', r, Frames[r]) /\ EndOf(to_device') = EndOf(to_device)
  BY <1>1, ProcessReads
<1>3. RequestComes(r)' BY <1>1, <1>2 DEF RequestComes, Listens, Collected
<1> QED BY <1>1, <1>2, <1>3 DEF TurnInv, Turn, Turning

LEMMA ResendRequestedTurn ==
  ASSUME Turning, ResendRequested
  PROVE  TurnInv'
<1> DEFINE r == station.request
<1>1. /\ link_pc = "frame" /\ to_device # << >>
      /\ to_device' = Tail(to_device) /\ rxframe' = Head(to_device) /\ Asks(rxframe')
      /\ link_pc' = "resend" /\ count' = 0
      /\ UNCHANGED <<rxpacket, received, txpacket, to_station, station, evaluated, bounds>>
  BY DEF ResendRequested, GetFrame
<1>2. /\ r \in Request /\ to_station = << >> /\ txpacket = r /\ Answer[r] > 0 /\ Empty
      /\ to_device' = << >>
      /\ ListOf(rxframe'.resend, Answer[r]) /\ AnswerUpTo(r, LastOf(rxframe'.resend))
  BY <1>1, ProcessReads, DataFrameIs
<1>3. 0 \in 0 .. Len(rxframe'.resend) - 1
  <2>1. Len(rxframe'.resend) \in Nat \ {0} BY <1>2 DEF ListOf
  <2> QED BY <2>1
<1>4. Begun(<< >>, r, Answer[r]) BY DEF Begun
<1>5. Resending(r)' BY <1>1, <1>2, <1>3, <1>4 DEF Resending, Empty, AnswerUpTo
<1> QED BY <1>1, <1>2, <1>5 DEF TurnInv, Turn, Turning

(* A frame of the request is stored. *)
LEMMA StoredTurn ==
  ASSUME Turning, GetFrame, Store
  PROVE  LET r == station.request
             f == rxframe'
         IN /\ r \in Request /\ to_station = << >> /\ link_pc = "frame"
            /\ f \in DataFrame(r, Frames[r]) /\ f.index \in received'
            /\ received' \subseteq 0 .. Frames[r] - 1
            /\ \A i \in received' : rxpacket'[i] = r
            /\ \A i \in 0 .. Frames[r] - 1 : i \in received' \/ i <= EndOf(to_device)
            /\ f.end => to_device' = << >> /\ f.index = EndOf(to_device)
            /\ ~f.end => Whole(to_device', r, Frames[r]) /\ EndOf(to_device') = EndOf(to_device)
<1> DEFINE r == station.request
           f == rxframe'
<1>1. /\ link_pc = "frame" /\ to_device # << >>
      /\ to_device' = Tail(to_device) /\ f = Head(to_device) /\ ~Asks(f)
      /\ received' = received \cup {f.index}
      /\ rxpacket' = [rxpacket EXCEPT ![f.index] = f.packet]
  BY DEF GetFrame, Store
<1>2. /\ r \in Request /\ to_station = << >>
      /\ f \in DataFrame(r, Frames[r]) /\ Collected(r, EndOf(to_device))
      /\ f.end => to_device' = << >> /\ f.index = EndOf(to_device)
      /\ ~f.end => Whole(to_device', r, Frames[r]) /\ EndOf(to_device') = EndOf(to_device)
  BY <1>1, ProcessReads
<1>3. f.packet = r /\ f.index \in 0 .. Frames[r] - 1
  <2> HIDE DEF r, f
  <2> QED BY <1>2, DataFrameIs
<1>4. f.index \in Index /\ 0 .. Frames[r] - 1 \subseteq Index BY <1>2, <1>3, SizesIs
<1>5. DOMAIN rxpacket = Index BY DEF Turning, LinkTypes, LinkTypeOK
<1> HIDE DEF r, f
<1>6. received' \subseteq 0 .. Frames[r] - 1 BY <1>1, <1>2, <1>3 DEF Collected
<1>7. ASSUME NEW i \in received'
      PROVE  rxpacket'[i] = r
  <2>1. i \in Index BY <1>4, <1>6
  <2> QED BY <1>1, <1>2, <1>3, <1>5, <1>7, <2>1 DEF Collected
<1>8. \A i \in 0 .. Frames[r] - 1 : i \in received' \/ i <= EndOf(to_device)
  BY <1>1, <1>2 DEF Collected
<1> QED BY <1>1, <1>2, <1>6, <1>7, <1>8 DEF r, f

LEMMA MoreFramesTurn ==
  ASSUME Turning, MoreFrames
  PROVE  TurnInv'
<1> DEFINE r == station.request
<1>1. /\ GetFrame /\ Store /\ ~rxframe'.end
      /\ UNCHANGED <<link_pc, count, to_station, txpacket, station, bounds>>
  BY DEF MoreFrames, Store
<1>2. RequestComes(r)' BY <1>1, StoredTurn DEF RequestComes, Listens, Collected
<1>3. r \in Request BY <1>1, StoredTurn
<1> QED BY <1>1, <1>2, <1>3 DEF TurnInv, Turn, Turning

LEMMA SeqOfMore ==
  ASSUME NEW S, NEW T, S \subseteq T, NEW s \in Seq(S)
  PROVE  s \in Seq(T)
OBVIOUS

(* What is missing below the end of the request is all that is missing, and *)
(* the last of it ends what will be sent again.                            *)
LEMMA MissingIs ==
  ASSUME NEW n \in Nat, 0 .. n - 1 \subseteq Index, NEW last \in 0 .. n - 1,
         NEW S, last \in S, \A i \in 0 .. n - 1 : i \in S \/ i <= last
  PROVE  LET list == Missing(S, last)
         IN /\ list = << >> => 0 .. n - 1 \subseteq S
            /\ list # << >> => /\ ListOf(list, n)
                               /\ \A i \in 0 .. n - 1 : i \in S \/ i <= LastOf(list)
<1> DEFINE M == {i \in Index : i < last} \ S
           list == Ascending(M)
<1>1. Missing(S, last) = list BY DEF Missing
<1>2. M \in SUBSET Nat /\ IsFiniteSet(M) BY AskedList
<1>3. M \subseteq 0 .. n - 1 BY <1>2
<1>4. \A i \in 0 .. n - 1 : i \in S \/ i \in M
  <2> SUFFICES ASSUME NEW i \in 0 .. n - 1, i \notin S
               PROVE  i < last
    OBVIOUS
  <2>1. i <= last /\ i # last OBVIOUS
  <2> QED BY <2>1
<1> HIDE DEF M
<1>5. /\ list \in Seq(M) /\ (list = << >> <=> M = {})
      /\ \A x \in M : x <= list[Len(list)]
  BY <1>2, AscendingFacts
<1> HIDE DEF list
<1>6. list \in Seq(0 .. n - 1) BY <1>3, <1>5, SeqOfMore
<1> QED BY <1>1, <1>4, <1>5, <1>6 DEF ListOf, LastOf

LEMMA AskAgainTurn ==
  ASSUME Turning, AskAgain
  PROVE  TurnInv'
<1> DEFINE r == station.request
           list == Missing(received', rxframe'.index)
<1>1. /\ GetFrame /\ Store /\ rxframe'.end
      /\ list # << >> /\ to_station' = Append(to_station, RequestResend(list))
      /\ UNCHANGED <<link_pc, count, txpacket, station, bounds>>
  BY DEF AskAgain, Store
<1>2. /\ r \in Request /\ to_station = << >> /\ link_pc = "frame" /\ to_device' = << >>
      /\ rxframe' \in DataFrame(r, Frames[r]) /\ rxframe'.index \in received'
      /\ received' \subseteq 0 .. Frames[r] - 1
      /\ \A i \in received' : rxpacket'[i] = r
      /\ \A i \in 0 .. Frames[r] - 1 : i \in received' \/ i <= rxframe'.index
  BY <1>1, StoredTurn
<1>3. /\ Frames[r] \in Nat /\ 0 .. Frames[r] - 1 \subseteq Index
      /\ rxframe'.index \in 0 .. Frames[r] - 1
  BY <1>2, SizesIs, DataFrameIs
<1>4. ListOf(list, Frames[r]) /\ \A i \in 0 .. Frames[r] - 1 : i \in received' \/ i <= LastOf(list)
  BY <1>1, <1>2, <1>3, MissingIs
<1> HIDE DEF list
<1>5. to_station' = <<RequestResend(list)>> BY <1>1, <1>2
<1>6. Asking(to_station', Frames[r]) /\ to_station'[1].resend = list BY <1>4, <1>5, AskingFor
<1>7. RequestAsked(r)' BY <1>1, <1>2, <1>4, <1>6 DEF RequestAsked, Collected
<1> QED BY <1>1, <1>2, <1>7 DEF TurnInv, Turn, Turning

(* A request that has come to its end is whole, and is carried out. *)
LEMMA EvaluateTurn ==
  ASSUME Turning, Evaluate
  PROVE  TurnInv'
<1> DEFINE r == station.request
           f == rxframe'
           complete == [rxpacket EXCEPT ![f.index] = f.packet]
           S == received \cup {f.index}
<1>1. /\ link_pc = "frame" /\ to_device # << >> /\ ~Asks(f) /\ f.end
      /\ to_device' = Tail(to_device) /\ f = Head(to_device)
      /\ Missing(S, f.index) = << >>
      /\ UNCHANGED <<to_station, station, bounds>>
  BY DEF Evaluate, GetFrame
<1>2. /\ r \in Request /\ to_station = << >> /\ to_device' = << >>
      /\ f \in DataFrame(r, Frames[r]) /\ f.index = EndOf(to_device)
      /\ Collected(r, EndOf(to_device))
  BY <1>1, ProcessReads
<1>3. f.packet = r /\ f.index \in 0 .. Frames[r] - 1
  <2> HIDE DEF r, f
  <2> QED BY <1>2, DataFrameIs
<1>4. /\ Frames[r] \in Nat \ {0} /\ 0 .. Frames[r] - 1 \subseteq Index
      /\ Answer[r] \in Nat
  BY <1>2, SizesIs
<1>5. \A i \in 0 .. Frames[r] - 1 : i \in S \/ i <= f.index BY <1>2 DEF Collected
<1>6. f.index \in S OBVIOUS
<1> HIDE DEF S
<1>7. 0 .. Frames[r] - 1 \subseteq S BY <1>1, <1>3, <1>4, <1>5, <1>6, MissingIs
<1>8. DOMAIN rxpacket = Index BY DEF Turning, LinkTypes, LinkTypeOK
<1>9. ASSUME NEW i \in 0 .. Frames[r] - 1
      PROVE  complete[i] = r
  <2>1. i \in Index /\ f.packet = r BY <1>3, <1>4
  <2>2. i \in received \/ i = f.index BY <1>7 DEF S
  <2>3. i \in received => rxpacket[i] = r BY <1>2 DEF Collected
  <2> QED BY <1>8, <2>1, <2>2, <2>3
<1>10. 0 \in 0 .. Frames[r] - 1 BY <1>4
<1>11. complete[0] = r BY <1>9, <1>10
<1>12. CheckPacket(complete) BY <1>2, <1>9, <1>11 DEF CheckPacket
<1>13. IF Answer[r] > 0
       THEN /\ link_pc' = "answer" /\ txpacket' = r /\ received' = {} /\ count' = 0
       ELSE /\ link_pc' = "frame" /\ rxpacket' = Blank /\ received' = {}
  BY <1>11, <1>12 DEF Evaluate, Cleared
<1>14. CASE Answer[r] > 0
  <2>1. Begun(<< >>, r, Answer[r]) BY DEF Begun
  <2>2. 0 \in 0 .. Answer[r] - 1 BY <1>4, <1>14
  <2>3. Answering(r)' BY <1>1, <1>2, <1>13, <1>14, <2>1, <2>2 DEF Answering
  <2> QED BY <1>1, <1>2, <1>13, <1>14, <2>3 DEF TurnInv, Turn, Turning
<1>15. CASE ~(Answer[r] > 0)
  <2>1. Answer[r] = 0 BY <1>4, <1>15
  <2>2. Resting(r)' BY <1>1, <1>2, <1>13, <1>15, <2>1 DEF Resting, Listens, Empty
  <2> QED BY <1>1, <2>2 DEF TurnInv, Turn, Turning
<1> QED BY <1>14, <1>15

LEMMA SendFrameTurn ==
  ASSUME Turning, SendFrame
  PROVE  TurnInv'
<1> DEFINE r == station.request
           n == Answer[r]
           frames == AllFrames(txpacket, Answer[txpacket])
<1>1. /\ link_pc = "answer"
      /\ to_station' = Append(to_station, frames[count + 1])
      /\ \/ /\ count + 1 < Len(frames) /\ count' = count + 1
            /\ UNCHANGED <<link_pc, rxpacket, received, rxframe>>
         \/ ~(count + 1 < Len(frames)) /\ NewPacket(rxpacket)
      /\ UNCHANGED <<txpacket, to_device, station, evaluated, bounds>>
  BY DEF SendFrame
<1>2. r \in Request /\ txpacket = r /\ n > 0 /\ Answering(r)
  BY <1>1
  DEF Turning, Turn, Resting, RequestComes, RequestAsked, AnswerComes, AnswerAsked, Resending, Listens
<1>3. count \in 0 .. n - 1 /\ to_device = << >> /\ Begun(to_station, r, n) BY <1>2 DEF Answering
<1>4. n \in Nat BY <1>2, SizesIs
<1>5. Len(frames) = n /\ frames[count + 1] = Data(r, count, count + 1 = n)
  BY <1>2, <1>3, <1>4 DEF AllFrames
<1> DEFINE f == Data(r, count, count + 1 = n)
<1>6. /\ f \in DataFrame(r, n) /\ (f.end <=> count + 1 = n) /\ f.good /\ f.index = count
  BY <1>3 DEF Data, DataFrame
<1> HIDE DEF f, frames
<1>7. CASE count + 1 < n
  <2>1. Begun(to_station', r, n)
    <3>1. ~f.end /\ to_station' = Append(to_station, f) BY <1>1, <1>3, <1>4, <1>5, <1>6, <1>7 DEF f
    <3> HIDE DEF r, n
    <3> QED BY <1>3, <1>6, <3>1, SendPart
  <2>2. count' \in 0 .. n - 1 /\ link_pc' = "answer" BY <1>1, <1>3, <1>4, <1>5, <1>7
  <2>3. Answering(r)' BY <1>1, <1>3, <2>1, <2>2 DEF Answering
  <2> QED BY <1>1, <1>2, <2>3 DEF TurnInv, Turn, Turning
<1>8. CASE ~(count + 1 < n)
  <2>1. count + 1 = n /\ count = n - 1 BY <1>3, <1>4, <1>8
  <2>2. Whole(to_station', r, n) /\ EndOf(to_station') = n - 1
    <3>1. f.end /\ to_station' = Append(to_station, f) BY <1>1, <1>5, <1>6, <2>1 DEF f
    <3> HIDE DEF r, n
    <3> QED BY <1>3, <1>6, <2>1, <3>1, SendEnd
  <2>3. link_pc' = "frame" /\ rxpacket' = Blank /\ received' = {}
    BY <1>1, <1>5, <1>8 DEF NewPacket, Cleared
  <2>4. AnswerUpTo(r, EndOf(to_station))' BY <1>1, <1>4, <2>2 DEF AnswerUpTo
  <2>5. AnswerComes(r)' BY <1>1, <1>3, <2>2, <2>3, <2>4 DEF AnswerComes, Listens, Empty
  <2> QED BY <1>1, <1>2, <2>5 DEF TurnInv, Turn, Turning
<1> QED BY <1>7, <1>8

(* Frames of the response are sent again; after the last one the process    *)
(* listens again, wherever the others have got to by then.                 *)
LEMMA ResendFrameTurn ==
  ASSUME Turning, ResendFrame
  PROVE  TurnInv'
<1> DEFINE r == station.request
           n == Answer[r]
           list == rxframe.resend
<1>1. /\ link_pc = "resend" /\ UNCHANGED <<txpacket, to_device, station, evaluated, bounds>>
      /\ count < Len(list) => /\ to_station' = Append(to_station, Resent(txpacket, list, count + 1))
                              /\ count' = count + 1
                              /\ UNCHANGED <<link_pc, rxpacket, received, rxframe>>
      /\ ~(count < Len(list)) => NewPacket(rxpacket) /\ UNCHANGED to_station
  BY DEF ResendFrame
<1>2. CASE r \in Request /\ txpacket = r /\ n > 0 /\ Resending(r)
  <2>1. /\ ListOf(list, n) /\ count \in 0 .. Len(list) - 1 /\ to_device = << >> /\ Empty
        /\ AnswerUpTo(r, LastOf(list)) /\ Begun(to_station, r, n)
    BY <1>2 DEF Resending
  <2>2. n \in Nat /\ list \in Seq(0 .. n - 1) /\ Len(list) \in Nat
    BY <1>2, <2>1, SizesIs DEF ListOf
  <2>3. list[count + 1] \in 0 .. n - 1 BY <2>1, <2>2
  <2> DEFINE f == Resent(r, list, count + 1)
  <2>4. /\ f \in DataFrame(r, n) /\ (f.end <=> count + 1 = Len(list)) /\ f.good
        /\ f.index = list[count + 1]
    BY <2>3 DEF Resent, Data, DataFrame
  <2> HIDE DEF f
  <2>5. /\ to_station' = Append(to_station, f) /\ count' = count + 1
        /\ UNCHANGED <<link_pc, rxpacket, received, rxframe>>
    BY <1>1, <1>2, <2>1, <2>2 DEF f
  <2>6. CASE count + 1 < Len(list)
    <3>1. Begun(to_station', r, n)
      <4>1. ~f.end BY <2>1, <2>2, <2>4, <2>6
      <4> HIDE DEF r, n
      <4> QED BY <2>1, <2>4, <2>5, <4>1, SendPart
    <3>2. count' \in 0 .. Len(list) - 1 BY <2>1, <2>2, <2>5, <2>6
    <3>3. Resending(r)' BY <1>1, <2>1, <2>5, <3>1, <3>2 DEF Resending, Empty, AnswerUpTo
    <3> QED BY <1>1, <1>2, <3>3 DEF TurnInv, Turn, Turning
  <2>7. CASE ~(count + 1 < Len(list))
    <3>1. count + 1 = Len(list) BY <2>1, <2>2, <2>7
    <3>2. Whole(to_station', r, n) /\ EndOf(to_station') = LastOf(list)
      <4>1. f.end /\ f.index = LastOf(list) BY <2>4, <3>1 DEF LastOf
      <4> HIDE DEF r, n
      <4> QED BY <2>1, <2>4, <2>5, <4>1, SendEnd
    <3>3. AnswerComes(r)'
      BY <1>1, <2>1, <2>5, <3>1, <3>2 DEF AnswerComes, Listens, Empty, AnswerUpTo
    <3> QED BY <1>1, <1>2, <3>3 DEF TurnInv, Turn, Turning
  <2> QED BY <2>6, <2>7
<1>3. CASE Listens
  <2>1. count = Len(list) /\ Empty BY <1>1, <1>3 DEF Listens
  <2>2. count \in Nat BY DEF Turning, LinkTypes, LinkTypeOK
  <2>3. ~(count < Len(list)) BY <2>1, <2>2
  <2>4. /\ link_pc' = "frame" /\ rxpacket' = rxpacket /\ received' = received
        /\ UNCHANGED to_station
    BY <1>1, <2>1, <2>3 DEF NewPacket, Cleared, Empty
  <2>5. Listens' /\ (Empty' <=> Empty) BY <2>4 DEF Listens, Empty
  <2>6. /\ Resting(r) => Resting(r)'
        /\ RequestComes(r) => RequestComes(r)'
        /\ AnswerComes(r) => AnswerComes(r)'
        /\ AnswerAsked(r) => AnswerAsked(r)'
    BY <1>1, <2>4, <2>5
    DEF Resting, RequestComes, AnswerComes, AnswerAsked, Collected, AnswerUpTo
  <2>7. ~(RequestAsked(r) \/ Answering(r)) BY <1>1 DEF RequestAsked, Answering
  <2>8. ~Resending(r) BY <2>1, <2>2 DEF Resending
  <2> QED BY <1>1, <2>6, <2>7, <2>8 DEF TurnInv, Turn, Turning
<1> QED
  BY <1>1, <1>2, <1>3
  DEF Turning, Turn, Resting, RequestComes, RequestAsked, AnswerComes, AnswerAsked, Answering

LEMMA SpoilTurn ==
  ASSUME Turning, Spoil
  PROVE  TurnInv'
<1> DEFINE r == station.request
<1>1. UNCHANGED <<device, station, evaluated, requests, early>> BY DEF Spoil
<1>2. CASE end_lost' BY <1>2 DEF TurnInv, Disturbed
<1>3. ASSUME NEW k \in DOMAIN to_device, ~IsLast(to_device[k]),
             to_device' = SpoilOf(to_device, k), UNCHANGED to_station
      PROVE  TurnInv'
  <2>1. to_device # << >>
    <3>1. \A s : s = << >> => DOMAIN s = {} OBVIOUS
    <3> QED BY <3>1
  <2>2. ~(Resting(r) \/ RequestAsked(r) \/ Answering(r) \/ AnswerComes(r) \/ Resending(r))
    BY <2>1 DEF Resting, RequestAsked, Answering, AnswerComes, Resending
  <2>3. ~AnswerAsked(r) BY <1>3, AskingIs DEF AnswerAsked
  <2>4. r \in Request /\ RequestComes(r) BY <2>2, <2>3 DEF Turning, Turn
  <2>5. /\ Whole(to_device, r, Frames[r]) /\ Collected(r, EndOf(to_device))
        /\ Listens /\ to_station = << >>
    BY <2>4 DEF RequestComes
  <2> HIDE DEF r
  <2>6. Whole(to_device', r, Frames[r]) /\ EndOf(to_device') = EndOf(to_device)
    BY <1>3, <2>5, SpoilWhole
  <2> USE DEF r
  <2>7. RequestComes(r)'
    BY <1>1, <1>3, <2>5, <2>6 DEF RequestComes, Collected, Listens, Empty, device
  <2> QED BY <1>1, <2>4, <2>7 DEF TurnInv, Turn, Turning
<1>4. ASSUME NEW k \in DOMAIN to_station, ~IsLast(to_station[k]),
             to_station' = SpoilOf(to_station, k), UNCHANGED to_device
      PROVE  TurnInv'
  <2> DEFINE n == Answer[r]
  <2>1. to_station # << >>
    <3>1. \A s : s = << >> => DOMAIN s = {} OBVIOUS
    <3> QED BY <3>1
  <2>2. ~(Resting(r) \/ RequestComes(r) \/ AnswerAsked(r))
    BY <2>1 DEF Resting, RequestComes, AnswerAsked
  <2>3. ~RequestAsked(r) BY <1>4, AskingIs DEF RequestAsked
  <2>4. r \in Request /\ txpacket = r /\ n > 0 /\ (Answering(r) \/ AnswerComes(r) \/ Resending(r))
    BY <2>2, <2>3 DEF Turning, Turn
  <2> HIDE DEF r, n
  <2>5. Begun(to_station, r, n) => Begun(to_station', r, n) BY <1>4, SpoilBegun
  <2>6. Whole(to_station, r, n) => Whole(to_station', r, n) /\ EndOf(to_station') = EndOf(to_station)
    BY <1>4, SpoilWhole
  <2> USE DEF r, n
  <2>7. Answering(r) => Answering(r)' BY <1>1, <1>4, <2>5 DEF Answering, device
  <2>8. AnswerComes(r) => AnswerComes(r)'
    BY <1>1, <1>4, <2>6 DEF AnswerComes, AnswerUpTo, Listens, Empty, device
  <2>9. Resending(r) => Resending(r)'
    BY <1>1, <1>4, <2>5 DEF Resending, AnswerUpTo, Empty, device
  <2> QED BY <1>1, <2>4, <2>7, <2>8, <2>9 DEF TurnInv, Turn, Turning, device
<1> QED BY <1>2, <1>3, <1>4 DEF Spoil

(* The station sends a request when nothing is on its way. *)
LEMMA SendTurn ==
  ASSUME Turning, NEW r \in Request, Resting(station.request), Send(r)
  PROVE  TurnInv'
<1>1. /\ to_device = << >> /\ to_station = << >> /\ Listens /\ Empty
      /\ to_device' = to_device \o AllFrames(r, Frames[r])
      /\ station' = [request |-> r, answer |-> Blank]
      /\ UNCHANGED <<device, to_station>>
  BY DEF Resting, Send, Idle
<1>2. Frames[r] \in Nat \ {0} BY SizesIs
<1>3. /\ Whole(AllFrames(r, Frames[r]), r, Frames[r])
      /\ EndOf(AllFrames(r, Frames[r])) = Frames[r] - 1
  BY <1>2, AllFramesWhole
<1>4. to_device' = AllFrames(r, Frames[r])
  <2>1. AllFrames(r, Frames[r]) \in Seq(DataFrame(r, Frames[r])) BY <1>3 DEF Whole
  <2> QED BY <1>1, <2>1
<1>5. Collected(r, EndOf(to_device))' BY <1>1, <1>2, <1>3, <1>4 DEF Collected, Empty, device
<1>6. RequestComes(r)' BY <1>1, <1>3, <1>4, <1>5 DEF RequestComes, Listens, Empty, device
<1>7. station'.request = r /\ \A i \in Index : station'.answer[i] = Nothing BY <1>1 DEF Blank
<1> QED BY <1>6, <1>7 DEF TurnInv, Turn

LEMMA StationTurn ==
  ASSUME Turning,
         \/ \E r \in Request : StationRequest(r) \/ StationImpatient(r)
         \/ StationTimeout
  PROVE  TurnInv'
<1>1. CASE \E r \in Request : StationRequest(r)
  <2>1. PICK r \in Request : StationRequest(r) BY <1>1
  <2>2. station.request = Nothing /\ Send(r) BY <2>1 DEF StationRequest
  <2>3. Resting(station.request) BY <2>2, CommsAssumption DEF Turning, Turn
  <2> QED BY <2>2, <2>3, SendTurn
<1>2. CASE \E r \in Request : StationImpatient(r)
  <2>1. early \in Nat BY DEF Turning, LinkTypes, LinkTypeOK
  <2>2. early' > 0 BY <1>2, <2>1 DEF StationImpatient
  <2> QED BY <2>2 DEF TurnInv, Disturbed
<1>3. CASE StationTimeout
  <2>1. /\ to_device = << >> /\ to_station = << >> /\ link_pc = "frame"
        /\ station' = Idle /\ UNCHANGED <<device, link>>
    BY <1>3 DEF StationTimeout, Quiet, Turning, Disturbed
  <2>2. ~(RequestComes(station.request) \/ AnswerComes(station.request))
    BY <2>1 DEF RequestComes, AnswerComes, Whole
  <2>3. ~(RequestAsked(station.request) \/ AnswerAsked(station.request))
    BY <2>1, AskingIs DEF RequestAsked, AnswerAsked
  <2>4. ~(Answering(station.request) \/ Resending(station.request))
    BY <2>1 DEF Answering, Resending
  <2>5. Resting(station.request) BY <2>2, <2>3, <2>4 DEF Turning, Turn
  <2>6. station'.request = Nothing /\ \A i \in Index : station'.answer[i] = Nothing
    BY <2>1 DEF Idle, Blank
  <2>7. Resting(station.request)'
    BY <2>1, <2>5, <2>6 DEF Resting, Listens, Empty, device, link
  <2> QED BY <2>6, <2>7 DEF TurnInv, Turn
<1> QED BY <1>1, <1>2, <1>3

(* The answer with the frame that the station has read. *)
WithFrame ==
  [station.answer EXCEPT ![Head(to_station).index] = Head(to_station).packet]
Lacking == Ascending({i \in Index : i < Head(to_station).index /\ WithFrame[i] = Nothing})

LEMMA StationReads ==
  ASSUME Turning, StationReceive, NEW r \in Request, r = station.request,
         Head(to_station) \in DataFrame(r, Answer[r])
  PROVE  LET f == Head(to_station)
         IN /\ to_station # << >> /\ to_station' = Tail(to_station)
            /\ UNCHANGED <<device, evaluated, bounds>>
            /\ f.index \in 0 .. Answer[r] - 1 /\ f.index \in Index
            /\ ~f.good => UNCHANGED <<to_device, station>>
            /\ f.good => /\ station' = IF ~f.end \/ Lacking # << >>
                                       THEN [station EXCEPT !.answer = WithFrame]
                                       ELSE IF AnswerWhole(WithFrame) THEN Idle
                                       ELSE [station EXCEPT !.answer = Blank]
                         /\ to_device' = IF f.end /\ Lacking # << >>
                                         THEN Append(to_device, RequestResend(Lacking))
                                         ELSE to_device
            /\ WithFrame \in [Index -> {Nothing, r}]
            /\ \A i \in Index : station.answer[i] = r => WithFrame[i] = r
            /\ WithFrame[f.index] = r
<1> DEFINE f == Head(to_station)
<1>1. /\ f.packet = r /\ f.index \in 0 .. Answer[r] - 1 /\ ~Asks(f)
  <2> HIDE DEF f
  <2> QED BY DataFrameIs DEF f
<1>2. f.index \in Index /\ r # Nothing BY <1>1, SizesIs
<1>3. station.answer \in [Index -> {Nothing, r}] BY DEF Turning, LinkTypes, LinkTypeOK
<1>4. /\ WithFrame \in [Index -> {Nothing, r}]
      /\ \A i \in Index : station.answer[i] = r => WithFrame[i] = r
      /\ WithFrame[f.index] = r
  BY <1>1, <1>2, <1>3 DEF WithFrame
<1>5. /\ to_station # << >> /\ to_station' = Tail(to_station)
      /\ UNCHANGED <<device, evaluated, bounds>>
  BY DEF StationReceive
<1>6. ~f.good => UNCHANGED <<to_device, station>> BY <1>2 DEF StationReceive
<1>7. f.good => /\ station' = IF ~f.end \/ Lacking # << >>
                              THEN [station EXCEPT !.answer = WithFrame]
                              ELSE IF AnswerWhole(WithFrame) THEN Idle
                              ELSE [station EXCEPT !.answer = Blank]
                /\ to_device' = IF f.end /\ Lacking # << >>
                                THEN Append(to_device, RequestResend(Lacking))
                                ELSE to_device
  BY <1>1, <1>2 DEF StationReceive, Lacking, WithFrame
<1> QED BY <1>1, <1>2, <1>4, <1>5, <1>6, <1>7

(* A frame that does not end the response *)
LEMMA ReadsPart ==
  ASSUME Turning, StationReceive, NEW r \in Request, r = station.request,
         Head(to_station) \in DataFrame(r, Answer[r]), ~Head(to_station).end
  PROVE  /\ to_station' = Tail(to_station) /\ UNCHANGED <<device, evaluated, bounds, to_device>>
         /\ station'.request = r /\ \A i \in Index : station'.answer[i] \in {Nothing, r}
         /\ \A i \in 0 .. Answer[r] - 1 : station.answer[i] = r => station'.answer[i] = r
<1>1. station \in [request : Request \cup {Nothing}, answer : [Index -> Packet]]
  BY DEF Turning, LinkTypes, LinkTypeOK
<1>2. \A i \in Index : station.answer[i] \in {Nothing, r} BY DEF Turning
<1>3. station' = station \/ station' = [station EXCEPT !.answer = WithFrame] BY StationReads
<1>4. 0 .. Answer[r] - 1 \subseteq Index BY SizesIs
<1>5. CASE station' = station BY <1>2, <1>5, StationReads
<1>6. CASE station' = [station EXCEPT !.answer = WithFrame]
  <2>1. station'.request = r /\ station'.answer = WithFrame BY <1>1, <1>6
  <2> QED BY <1>4, <2>1, StationReads
<1> QED BY <1>3, <1>5, <1>6

LEMMA AskedTurn ==
  ASSUME Turning, StationReceive, NEW r \in Request, r = station.request, RequestAsked(r)
  PROVE  TurnInv'
<1> DEFINE list == to_station[1].resend
<1>1. /\ link_pc = "frame" /\ to_device = << >> /\ Asking(to_station, Frames[r])
      /\ Collected(r, LastOf(list))
  BY DEF RequestAsked
<1>2. /\ to_station # << >> /\ Tail(to_station) = << >> /\ Head(to_station) = to_station[1]
      /\ Head(to_station).good /\ Asks(Head(to_station)) /\ ListOf(list, Frames[r])
  BY <1>1, AskingIs
<1>3. /\ to_station' = << >> /\ UNCHANGED <<station, device, evaluated, bounds>>
      /\ to_device' = to_device \o AllResent(r, list)
  BY <1>2, SizesIs DEF StationReceive
<1> HIDE DEF list
<1>4. Whole(AllResent(r, list), r, Frames[r]) /\ EndOf(AllResent(r, list)) = LastOf(list)
  BY <1>2, SizesIs, AllResentWhole
<1>5. to_device' = AllResent(r, list)
  <2>1. AllResent(r, list) \in Seq(DataFrame(r, Frames[r])) BY <1>4 DEF Whole
  <2> QED BY <1>1, <1>3, <2>1
<1>6. EndOf(to_device)' = LastOf(list) BY <1>4, <1>5
<1>7. Collected(r, EndOf(to_device))' BY <1>1, <1>3, <1>6 DEF Collected, device
<1>8. RequestComes(r)' BY <1>1, <1>3, <1>4, <1>5, <1>7 DEF RequestComes, Listens, device
<1> QED BY <1>3, <1>8 DEF TurnInv, Turn, Turning

LEMMA AnswerEndTurn ==
  ASSUME Turning, StationReceive, NEW r \in Request, r = station.request,
         txpacket = r, Answer[r] > 0, AnswerComes(r), Head(to_station).end
  PROVE  TurnInv'
<1> DEFINE f == Head(to_station)
           n == Answer[r]
           M == {i \in Index : i < f.index /\ WithFrame[i] = Nothing}
           list == Lacking
<1>1. /\ Listens /\ Empty /\ to_device = << >> /\ Whole(to_station, r, n)
      /\ AnswerUpTo(r, EndOf(to_station))
  BY DEF AnswerComes
<1>2. f \in DataFrame(r, n) /\ f.good /\ f.index = EndOf(to_station) /\ Tail(to_station) = << >>
  BY <1>1, ReadWhole
<1>3. /\ to_station' = << >> /\ UNCHANGED <<device, evaluated, bounds>>
      /\ f.index \in 0 .. n - 1
      /\ station' = IF list # << >> THEN [station EXCEPT !.answer = WithFrame]
                    ELSE IF AnswerWhole(WithFrame) THEN Idle
                    ELSE [station EXCEPT !.answer = Blank]
      /\ to_device' = IF list # << >> THEN Append(to_device, RequestResend(list)) ELSE to_device
      /\ WithFrame \in [Index -> {Nothing, r}]
      /\ \A i \in Index : station.answer[i] = r => WithFrame[i] = r
      /\ WithFrame[f.index] = r
  BY <1>2, StationReads
<1>4. n \in Nat /\ 0 .. n - 1 \subseteq Index /\ r # Nothing BY SizesIs
<1>5. ASSUME NEW i \in 0 .. n - 1
      PROVE  WithFrame[i] = r \/ i \in M
  <2>1. i \in Index BY <1>4
  <2>2. CASE station.answer[i] = r BY <1>3, <2>1, <2>2
  <2>3. CASE i <= f.index
    <3>1. i = f.index \/ i < f.index BY <1>3, <1>4, <2>3
    <3>2. WithFrame[i] \in {Nothing, r} BY <1>3, <2>1
    <3> QED BY <1>3, <2>1, <3>1, <3>2
  <2> QED BY <1>1, <1>2, <2>2, <2>3 DEF AnswerUpTo
<1>6. M \in SUBSET Nat /\ IsFiniteSet(M)
  <2>1. M \in SUBSET Index OBVIOUS
  <2> HIDE DEF M
  <2> QED BY <2>1, AskedList
<1>7. M \subseteq 0 .. n - 1
  <2> SUFFICES ASSUME NEW i \in M
               PROVE  i \in 0 .. n - 1
    OBVIOUS
  <2>1. i \in Nat /\ i < f.index BY <1>6
  <2> QED BY <1>3, <1>4, <2>1
<1>8. list = Ascending(M) BY DEF Lacking
<1> HIDE DEF M, list, f
<1>9. /\ list \in Seq(M) /\ (list = << >> <=> M = {})
      /\ \A x \in M : x <= list[Len(list)]
  BY <1>6, <1>8, AscendingFacts
<1>10. CASE list # << >>
  <2>1. ListOf(list, n)
    <3>1. list \in Seq(0 .. n - 1) BY <1>7, <1>9, SeqOfMore
    <3> QED BY <1>10, <3>1 DEF ListOf
  <2>2. to_device' = <<RequestResend(list)>> BY <1>1, <1>3, <1>10
  <2>3. Asking(to_device', n) /\ to_device'[1].resend = list BY <2>1, <2>2, AskingFor
  <2>4. station'.request = r /\ station'.answer = WithFrame
    BY <1>3, <1>10 DEF Turning, LinkTypes, LinkTypeOK
  <2>5. AnswerUpTo(r, LastOf(to_device[1].resend))'
    BY <1>5, <1>9, <2>3, <2>4 DEF AnswerUpTo, LastOf
  <2>6. AnswerAsked(r)' BY <1>1, <1>3, <2>3, <2>5 DEF AnswerAsked, Listens, Empty, device
  <2> QED BY <1>3, <2>4, <2>6 DEF TurnInv, Turn, device
<1>11. CASE list = << >>
  <2>1. \A i \in 0 .. n - 1 : WithFrame[i] = r BY <1>5, <1>9, <1>11
  <2>2. AnswerWhole(WithFrame) BY <2>1 DEF AnswerWhole
  <2>3. station' = Idle /\ to_device' = to_device BY <1>3, <1>11, <2>2
  <2>4. station'.request = Nothing /\ \A i \in Index : station'.answer[i] = Nothing
    BY <2>3 DEF Idle, Blank
  <2>5. Resting(station.request)' BY <1>1, <1>3, <2>3, <2>4 DEF Resting, Listens, Empty, device
  <2> QED BY <2>4, <2>5 DEF TurnInv, Turn
<1> QED BY <1>10, <1>11

LEMMA ReceiveTurn ==
  ASSUME Turning, StationReceive
  PROVE  TurnInv'
<1> DEFINE r == station.request
<1>1. to_station # << >> BY DEF StationReceive
<1>2. ~(Resting(r) \/ RequestComes(r) \/ AnswerAsked(r))
  BY <1>1 DEF Resting, RequestComes, AnswerAsked
<1>3. CASE r \in Request /\ RequestAsked(r) BY <1>3, AskedTurn
<1>4. CASE r \in Request /\ txpacket = r /\ Answer[r] > 0 /\ (Answering(r) \/ Resending(r))
  <2>1. Begun(to_station, r, Answer[r]) BY <1>4 DEF Answering, Resending
  <2>2. /\ Begun(Tail(to_station), r, Answer[r]) /\ Head(to_station) \in DataFrame(r, Answer[r])
        /\ ~Head(to_station).end
    <3> HIDE DEF r
    <3> QED BY <1>1, <2>1, ReadBegun
  <2>3. /\ to_station' = Tail(to_station) /\ UNCHANGED <<device, evaluated, bounds, to_device>>
        /\ station'.request = r /\ \A i \in Index : station'.answer[i] \in {Nothing, r}
        /\ \A i \in 0 .. Answer[r] - 1 : station.answer[i] = r => station'.answer[i] = r
    BY <1>4, <2>2, ReadsPart
  <2>4. Answering(r) => Answering(station.request)' BY <2>2, <2>3 DEF Answering, device
  <2>5. Resending(r) => Resending(station.request)'
    BY <2>2, <2>3 DEF Resending, Empty, AnswerUpTo, device
  <2> QED BY <1>4, <2>3, <2>4, <2>5 DEF TurnInv, Turn, device
<1>5. CASE r \in Request /\ txpacket = r /\ Answer[r] > 0 /\ AnswerComes(r) /\ ~Head(to_station).end
  <2>1. Whole(to_station, r, Answer[r]) /\ AnswerUpTo(r, EndOf(to_station)) BY <1>5 DEF AnswerComes
  <2>2. /\ Whole(Tail(to_station), r, Answer[r]) /\ Head(to_station) \in DataFrame(r, Answer[r])
        /\ EndOf(Tail(to_station)) = EndOf(to_station)
    <3> HIDE DEF r
    <3> QED BY <1>5, <2>1, ReadWhole
  <2>3. /\ to_station' = Tail(to_station) /\ UNCHANGED <<device, evaluated, bounds, to_device>>
        /\ station'.request = r /\ \A i \in Index : station'.answer[i] \in {Nothing, r}
        /\ \A i \in 0 .. Answer[r] - 1 : station.answer[i] = r => station'.answer[i] = r
    BY <1>5, <2>2, ReadsPart
  <2>4. AnswerUpTo(station.request, EndOf(to_station))' BY <2>1, <2>2, <2>3 DEF AnswerUpTo
  <2>5. AnswerComes(station.request)'
    BY <1>5, <2>2, <2>3, <2>4 DEF AnswerComes, Listens, Empty, device
  <2> QED BY <1>5, <2>3, <2>5 DEF TurnInv, Turn, device
<1>6. CASE r \in Request /\ txpacket = r /\ Answer[r] > 0 /\ AnswerComes(r) /\ Head(to_station).end
  BY <1>6, AnswerEndTurn
<1> QED BY <1>2, <1>3, <1>4, <1>5, <1>6 DEF Turning, Turn

LEMMA InitTurn == LinkInit => TurnInv
BY DEF LinkInit, TurnInv, Turn, Resting, Listens, Empty, Idle, Blank

(* What disturbs a transaction is not forgotten. *)
LEMMA StaysDisturbed ==
  ASSUME LinkTypes, [LinkNext]_link_vars, Disturbed
  PROVE  Disturbed'
<1>1. early \in Nat BY DEF LinkTypes, LinkTypeOK
<1>2. /\ end_lost' = end_lost \/ Spoil
      /\ early' = early \/ early' = early + 1
  BY DEF LinkNext, Comms, BadFrame, ResendRequested, MoreFrames, AskAgain, Store, Evaluate,
     SendFrame, ResendFrame, Spoil, StationRequest, StationImpatient, StationTimeout, StationReceive,
     bounds, link_vars
<1>3. Spoil /\ end_lost => end_lost' BY DEF Spoil
<1> QED BY <1>1, <1>2, <1>3 DEF Disturbed

LEMMA StepTurn == LinkTypes /\ TurnInv /\ [LinkNext]_link_vars => TurnInv'
<1> SUFFICES ASSUME LinkTypes, TurnInv, [LinkNext]_link_vars
             PROVE  TurnInv'
  OBVIOUS
<1>1. CASE Disturbed BY <1>1, StaysDisturbed DEF TurnInv
<1>2. CASE ~Disturbed /\ UNCHANGED link_vars
  BY <1>2 DEF TurnInv, Turn, Resting, RequestComes, RequestAsked, Answering, AnswerComes, AnswerAsked,
     Resending, Listens, Empty, Collected, AnswerUpTo, link_vars, device, link
<1>3. CASE ~Disturbed /\ LinkNext
  <2>1. Turning BY <1>3 DEF Turning, TurnInv
  <2> QED
    BY <1>3, <2>1, BadFrameTurn, ResendRequestedTurn, MoreFramesTurn, AskAgainTurn, EvaluateTurn,
       SendFrameTurn, ResendFrameTurn, SpoilTurn, StationTurn, ReceiveTurn
    DEF LinkNext, Comms
<1> QED BY <1>1, <1>2, <1>3

(* comms.c:306-331 and :346-352: as long as the frame that ends a           *)
(* transaction comes whole, asking for the missing ones is enough: until a  *)
(* request has its answer, a frame is on its way or the process sends one.  *)
THEOREM ResendsSuffice == LinkSpec => []LinkGoesOn
<1>1. TurnInv => LinkGoesOn
  <2> SUFFICES ASSUME TurnInv, ~Disturbed, Quiet, station.request # Nothing, Answer[station.request] > 0
               PROVE  FALSE
    BY DEF LinkGoesOn, Disturbed
  <2> DEFINE r == station.request
  <2>1. to_device = << >> /\ to_station = << >> /\ link_pc = "frame" BY DEF Quiet
  <2>2. ~(RequestComes(r) \/ AnswerComes(r)) BY <2>1 DEF RequestComes, AnswerComes, Whole
  <2>3. ~(RequestAsked(r) \/ AnswerAsked(r)) BY <2>1, AskingIs DEF RequestAsked, AnswerAsked
  <2>4. ~(Answering(r) \/ Resending(r)) BY <2>1 DEF Answering, Resending
  <2>5. Resting(r) BY <2>2, <2>3, <2>4 DEF TurnInv, Turn
  <2> QED BY <2>5 DEF Resting
<1> QED BY <1>1, InitTurn, StepTurn, InitLinkTypes, StepLinkTypes, PTL DEF LinkSpec
=============================================================================
