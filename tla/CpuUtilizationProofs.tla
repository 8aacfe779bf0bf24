------------------------ MODULE CpuUtilizationProofs ------------------------
(***************************************************************************)
(* Theorems about CpuUtilization, for every timer width, length of a       *)
(* second and longest time from one calculation to the next.               *)
(***************************************************************************)
EXTENDS CpuUtilization, TLAPS

USE DEF timing, counters, calculated, history

(* What makes the above inductive: a stretch is being measured exactly     *)
(* while the processor is busy, a period lasts for a second at least, and  *)
(* the processes' share, divided a little later, does not exceed the total.*)
Inductive ==
  /\ utilization_timing <=> Busy
  /\ process_ticks <= busy_ticks /\ busy_ticks <= elapsed
  /\ control \in {"divide", "divide_process", "epoch"} => elapsed >= Second
  /\ calculated_cpu_utilization \in 0 .. 100
  /\ calculated_process_cpu_utilization \in 0 .. 100
  /\ control # "divide_process" => calculated_process_cpu_utilization <= calculated_cpu_utilization
  /\ control = "divide_process" =>
       Percent(process_utilization_tick_counter) <= calculated_cpu_utilization
IInv == TypeOK /\ Counted /\ Percentages /\ Inductive
-----------------------------------------------------------------------------
(* Arithmetic of the timer and of the percentages *)

LEMMA SinceValue ==
  ASSUME NEW a \in 0 .. TimeMod - 1, NEW t \in 0 .. TimeMod - 1
  PROVE  (a - t) % TimeMod = IF a >= t THEN a - t ELSE a - t + TimeMod
  BY UtilizationAssumption

LEMMA TickValue ==
  ASSUME NEW a \in 0 .. TimeMod - 1
  PROVE  (a + 1) % TimeMod = IF a + 1 = TimeMod THEN 0 ELSE a + 1
  BY UtilizationAssumption

(* A stretch that has not filled the timer grows by one with each tick.    *)
LEMMA SinceGrows ==
  ASSUME TypeOK, Tick, NEW t \in 0 .. TimeMod - 1, Since(t) < MaxElapsed
  PROVE  (now' - t) % TimeMod = Since(t) + 1
<1>1. now \in 0 .. TimeMod - 1 /\ now' = (now + 1) % TimeMod
  BY DEF TypeOK, Tick
<1>2. now' = IF now + 1 = TimeMod THEN 0 ELSE now + 1
  BY <1>1, TickValue
<1>3. now' \in 0 .. TimeMod - 1
  BY <1>1, <1>2, UtilizationAssumption
<1>4. (now' - t) % TimeMod = IF now' >= t THEN now' - t ELSE now' - t + TimeMod
  BY <1>3, SinceValue
<1>5. Since(t) = IF now >= t THEN now - t ELSE now - t + TimeMod
  BY <1>1, SinceValue DEF Since
<1> QED
  BY <1>1, <1>2, <1>4, <1>5, UtilizationAssumption

(* A share divided by a later reading of the timer is not the larger one.  *)
LEMMA SmallerShare ==
  ASSUME NEW a \in Nat, NEW b \in Nat, NEW d \in Nat \ {0}, NEW e \in Nat \ {0},
         a <= b, e <= d
  PROVE  /\ ((a * 100) + (Second \div 2)) \div d <= ((b * 100) + (Second \div 2)) \div e
         /\ ((a * 100) + (Second \div 2)) \div d \in Nat
  BY UtilizationAssumption

(* Rounding does not lift a share of a whole period above 100.             *)
LEMMA AtMostAll ==
  ASSUME NEW a \in Nat, NEW e \in Nat, a <= e, Second <= e
  PROVE  ((a * 100) + (Second \div 2)) \div e \in 0 .. 100
  BY UtilizationAssumption

LEMMA ToOnePercent ==
  ASSUME NEW a \in Nat, NEW e \in Nat, a <= e, Second <= e
  PROVE  (((a * 100) + (Second \div 2)) \div e) * e - a * 100 \in -e .. e
  BY UtilizationAssumption
-----------------------------------------------------------------------------
(* The invariant *)

LEMMA InitInv == Init => IInv
<1> SUFFICES ASSUME Init PROVE IInv
  OBVIOUS
<1> USE UtilizationAssumption
<1>1. TypeOK
  <2>1. 0 \in 0 .. TimeMod - 1 /\ 0 \in 0 .. MaxElapsed /\ 0 \in Nat
    OBVIOUS
  <2>2. globals \in [TotalCpuUtilization : Int, ProcessCpuUtilization : Int, OSCpuUtilization : Int]
    BY DEF Init
  <2> QED
    BY <2>1, <2>2 DEF Init, TypeOK
<1>2. (now - utilization_timing_epoch) % TimeMod = 0
  BY SinceValue DEF Init
<1>3. Counted
  BY <1>2 DEF Init, Counted, Since, Busy
<1>4. Percentages /\ Inductive
  BY DEF Init, Percentages, Inductive, Busy
<1> QED
  BY <1>1, <1>3, <1>4 DEF IInv

LEMMA TickInv == IInv /\ Tick => IInv'
<1> SUFFICES ASSUME IInv, Tick PROVE IInv'
  OBVIOUS
<1> USE UtilizationAssumption
<1>0. TypeOK /\ Counted /\ Percentages /\ Inductive
  BY DEF IInv
<1>1. now' \in 0 .. TimeMod - 1
  BY <1>0, TickValue DEF TypeOK, Tick
<1>2. Since(utilization_timing_epoch)' = elapsed'
  BY <1>0, SinceGrows DEF TypeOK, Counted, Tick, Since
<1>3. Busy => Since(utilization_current_time) \in Nat /\ Since(utilization_current_time) <= busy_ticks
  BY <1>0, SinceValue DEF TypeOK, Counted, Inductive, Since
<1>4. Busy => Since(utilization_current_time)' = Since(utilization_current_time) + 1
  <2>1. Busy => Since(utilization_current_time) < MaxElapsed
    BY <1>0, <1>3 DEF TypeOK, Inductive, Tick
  <2>2. utilization_current_time \in 0 .. TimeMod - 1 /\ UNCHANGED utilization_current_time
    BY <1>0 DEF TypeOK, Tick
  <2> QED
    BY <1>0, <2>1, <2>2, SinceGrows DEF Since
<1>5. TypeOK'
  BY <1>0, <1>1 DEF TypeOK, Tick
<1>6. Counted'
  BY <1>0, <1>2, <1>3, <1>4 DEF TypeOK, Counted, Inductive, Tick, Busy, Since
<1>7. Percentages'
  BY <1>0 DEF Percentages, Tick
<1>8. control = "divide_process" => Percent(process_utilization_tick_counter)' <= calculated_cpu_utilization'
  <2> SUFFICES ASSUME control = "divide_process"
               PROVE  Percent(process_utilization_tick_counter)' <= calculated_cpu_utilization
    BY DEF Tick
  <2>1. Percent(process_utilization_tick_counter) <= calculated_cpu_utilization
    BY <1>0 DEF Inductive
  <2>2. Since(utilization_timing_epoch) = elapsed /\ Since(utilization_timing_epoch)' = elapsed + 1
    BY <1>0, <1>2 DEF Counted, Tick
  <2>3. elapsed \in Nat \ {0} /\ process_utilization_tick_counter \in Nat
    BY <1>0 DEF TypeOK, Inductive
  <2>4. /\ Percent(process_utilization_tick_counter)' <= Percent(process_utilization_tick_counter)
        /\ Percent(process_utilization_tick_counter)' \in Nat
        /\ Percent(process_utilization_tick_counter) \in Nat
    BY <2>2, <2>3, SmallerShare DEF Percent, Tick
  <2> QED
    BY <1>0, <2>1, <2>4 DEF Inductive
<1>9. Inductive'
  BY <1>0, <1>8 DEF TypeOK, Inductive, Tick, Busy
<1> QED
  BY <1>5, <1>6, <1>7, <1>9 DEF IInv

LEMMA CountBusyInv == IInv /\ CountBusy => IInv'
<1> SUFFICES ASSUME IInv, CountBusy PROVE IInv'
  OBVIOUS
<1>0. TypeOK /\ Counted /\ Percentages /\ Inductive
  BY DEF IInv
<1>1. Since(utilization_current_time) \in Nat
  BY <1>0, SinceValue, UtilizationAssumption DEF TypeOK, Since
<1>2. TypeOK'
  <2>1. utilization_tick_counter' \in Nat
    BY <1>0, <1>1 DEF TypeOK, CountBusy
  <2> QED
    BY <1>0, <2>1 DEF TypeOK, CountBusy
<1>3. Counted'
  BY <1>0, <1>1 DEF TypeOK, Counted, Inductive, CountBusy, Busy, Since
<1>4. Percentages' /\ Inductive'
  BY <1>0 DEF Percentages, Inductive, CountBusy, Busy
<1> QED
  BY <1>2, <1>3, <1>4 DEF IInv

LEMMA CheckSecondInv == IInv /\ CheckSecond => IInv'
  BY UtilizationAssumption
     DEF IInv, TypeOK, Counted, Percentages, Inductive, CheckSecond, Busy, Since

(* The two divisions: the counters are shares of the time since the last   *)
(* calculation.                                                            *)
LEMMA PercentFacts ==
  ASSUME IInv, control \in {"divide", "divide_process"}
  PROVE  /\ Since(utilization_timing_epoch) = elapsed
         /\ elapsed \in Nat /\ Second <= elapsed
         /\ utilization_tick_counter \in Nat /\ utilization_tick_counter = busy_ticks
         /\ process_utilization_tick_counter \in Nat
         /\ process_utilization_tick_counter = process_ticks
         /\ process_ticks <= busy_ticks /\ busy_ticks <= elapsed
  BY DEF IInv, TypeOK, Counted, Inductive, Busy

LEMMA CalculateInv == IInv /\ CalculateStep => IInv'
<1> SUFFICES ASSUME IInv, CalculateStep PROVE IInv'
  OBVIOUS
<1>0. TypeOK /\ Counted /\ Percentages /\ Inductive
  BY DEF IInv
<1>1. CASE control = "divide"
  <2>1. /\ calculated_cpu_utilization' = Percent(utilization_tick_counter)
        /\ control' = "divide_process"
        /\ UNCHANGED calculated_process_cpu_utilization
    BY <1>1 DEF CalculateStep, Calculate
  <2>2. Percent(utilization_tick_counter) \in 0 .. 100
    BY <1>1, PercentFacts, AtMostAll DEF Percent
  <2>3. Percent(process_utilization_tick_counter) <= Percent(utilization_tick_counter)
    <3>1. elapsed \in Nat \ {0}
      BY <1>1, PercentFacts, UtilizationAssumption
    <3> QED
      BY <1>1, <3>1, PercentFacts, SmallerShare DEF Percent
  <2>4. TypeOK' /\ Counted' /\ Percentages'
    BY <1>0, <1>1, <2>1, <2>2
       DEF TypeOK, Counted, Percentages, CalculateStep, Busy, Since
  <2>5. Percent(process_utilization_tick_counter)' = Percent(process_utilization_tick_counter)
    BY DEF CalculateStep, Percent, Since
  <2>6. Inductive'
    BY <1>0, <1>1, <2>1, <2>2, <2>3, <2>5 DEF Inductive, CalculateStep, Busy
  <2> QED
    BY <2>4, <2>6 DEF IInv
<1>2. CASE control = "divide_process"
  <2>1. /\ calculated_process_cpu_utilization' = Percent(process_utilization_tick_counter)
        /\ control' = "epoch"
        /\ UNCHANGED calculated_cpu_utilization
    BY <1>2 DEF CalculateStep, Calculate
  <2>2. Percent(process_utilization_tick_counter) \in 0 .. 100
    BY <1>0, <1>2, PercentFacts, AtMostAll DEF Percent, TypeOK
  <2>3. TypeOK' /\ Counted' /\ Percentages'
    BY <1>0, <1>2, <2>1, <2>2
       DEF TypeOK, Counted, Percentages, CalculateStep, Busy, Since
  <2>4. Inductive'
    BY <1>0, <1>2, <2>1, <2>2 DEF Inductive, CalculateStep, Busy
  <2> QED
    BY <2>3, <2>4 DEF IInv
<1> QED
  BY <1>1, <1>2 DEF CalculateStep, Calculate

LEMMA StartEpochInv == IInv /\ StartEpoch => IInv'
<1> SUFFICES ASSUME IInv, StartEpoch PROVE IInv'
  OBVIOUS
<1>1. TypeOK /\ Counted /\ Percentages /\ Inductive
  BY DEF IInv
<1>2. (now - now) % TimeMod = 0
  BY <1>1, SinceValue DEF TypeOK
<1>3. TypeOK'
  <2>1. 0 \in 0 .. MaxElapsed /\ 0 \in Nat
    BY UtilizationAssumption
  <2> QED
    BY <1>1, <2>1 DEF TypeOK, StartEpoch
<1>4. Counted'
  BY <1>1, <1>2, UtilizationAssumption DEF TypeOK, Counted, Inductive, StartEpoch, Busy, Since
<1>5. Percentages' /\ Inductive'
  BY <1>1, <1>2, UtilizationAssumption DEF TypeOK, Counted, Percentages, Inductive, StartEpoch, Busy, Since
<1> QED
  BY <1>3, <1>4, <1>5 DEF IInv

LEMMA RunProcessInv == IInv /\ RunProcess => IInv'
<1> SUFFICES ASSUME IInv, RunProcess PROVE IInv'
  OBVIOUS
<1>1. TypeOK /\ Counted /\ Percentages /\ Inductive
  BY DEF IInv
<1>2. (now - now) % TimeMod = 0
  BY <1>1, SinceValue DEF TypeOK
<1>3. TypeOK'
  BY <1>1, <1>2 DEF TypeOK, RunProcess
<1>4. Counted'
  BY <1>1, <1>2 DEF TypeOK, Counted, Inductive, RunProcess, Busy, Since
<1>5. Percentages'
  BY <1>1 DEF Percentages, RunProcess
<1>6. Inductive'
  BY <1>1 DEF TypeOK, Inductive, RunProcess, Busy
<1> QED
  BY <1>3, <1>4, <1>5, <1>6 DEF IInv

LEMMA ReturnInv == IInv /\ Return => IInv'
<1> SUFFICES ASSUME IInv, Return PROVE IInv'
  OBVIOUS
<1>1. TypeOK /\ Counted /\ Percentages /\ Inductive
  BY DEF IInv
<1>2. Since(utilization_current_time) \in Nat
  BY <1>1, SinceValue, UtilizationAssumption DEF TypeOK, Since
<1>3. TypeOK'
  BY <1>1, <1>2 DEF TypeOK, Return
<1>4. Counted'
  BY <1>1, <1>2 DEF TypeOK, Counted, Inductive, Return, Busy, Since
<1>5. Percentages' /\ Inductive'
  BY <1>1, <1>2 DEF TypeOK, Counted, Percentages, Inductive, Return, Busy, Since
<1> QED
  BY <1>3, <1>4, <1>5 DEF IInv

LEMMA PublishInv == IInv /\ Publish => IInv'
<1> SUFFICES ASSUME IInv, Publish PROVE IInv'
  OBVIOUS
<1>1. TypeOK /\ Counted /\ Percentages /\ Inductive
  BY DEF IInv
<1>2. TypeOK' /\ Counted' /\ Inductive'
  BY <1>1 DEF TypeOK, Counted, Inductive, Publish, Busy, Since, Percent
<1>3. Percentages'
  BY <1>1 DEF Percentages, Inductive, Publish
<1> QED
  BY <1>2, <1>3 DEF IInv

LEMMA StutterInv == IInv /\ UNCHANGED vars => IInv'
  BY DEF IInv, TypeOK, Counted, Percentages, Inductive, Busy, Since, Percent,
         vars

LEMMA Invariant == Spec => []IInv
<1>1. IInv /\ [Next]_vars => IInv'
  BY TickInv, CountBusyInv, CheckSecondInv, CalculateInv, StartEpochInv, RunProcessInv,
     ReturnInv, PublishInv, StutterInv DEF Next
<1> QED
  BY <1>1, InitInv, PTL DEF Spec
-----------------------------------------------------------------------------
(* What main publishes are percentages that add up.                        *)
THEOREM PublishedPercentages == Spec => []Percentages
<1>1. IInv => Percentages
  BY DEF IInv
<1> QED
  BY <1>1, Invariant, PTL

(* The counters of next_process miss no tick and count none twice.         *)
THEOREM NothingMissed == Spec => [](TypeOK /\ Counted)
<1>1. IInv => TypeOK /\ Counted
  BY DEF IInv
<1> QED
  BY <1>1, Invariant, PTL

(* Both figures are right to one percent when they are calculated.         *)
THEOREM CalculatedAccurately == Spec => Accurate
<1>1. ASSUME IInv, [Next]_vars
      PROVE  /\ control = "divide" /\ control' # control =>
                 calculated_cpu_utilization' * elapsed - busy_ticks * 100 \in -elapsed .. elapsed
             /\ control = "divide_process" /\ control' # control =>
                 calculated_process_cpu_utilization' * elapsed - process_ticks * 100
                   \in -elapsed .. elapsed
  <2>1. control \in {"divide", "divide_process"} /\ control' # control => Calculate
    BY <1>1 DEF Next, Tick, CountBusy, CheckSecond, CalculateStep, StartEpoch, RunProcess,
                Return, Publish, vars
  <2>2. ASSUME control = "divide", control' # control
        PROVE  calculated_cpu_utilization' * elapsed - busy_ticks * 100 \in -elapsed .. elapsed
    <3>1. calculated_cpu_utilization' = Percent(utilization_tick_counter)
      BY <2>1, <2>2 DEF Calculate
    <3> QED
      BY <1>1, <2>2, <3>1, PercentFacts, ToOnePercent DEF Percent
  <2>3. ASSUME control = "divide_process", control' # control
        PROVE  calculated_process_cpu_utilization' * elapsed - process_ticks * 100
                 \in -elapsed .. elapsed
    <3>1. calculated_process_cpu_utilization' = Percent(process_utilization_tick_counter)
      BY <2>1, <2>3 DEF Calculate
    <3>2. process_ticks <= elapsed
      BY <1>1, <2>3, PercentFacts DEF IInv, TypeOK
    <3> QED
      BY <1>1, <2>3, <3>1, <3>2, PercentFacts, ToOnePercent DEF Percent
  <2> QED
    BY <2>2, <2>3
<1> QED
  BY <1>1, Invariant, PTL DEF Spec, Accurate
=============================================================================
