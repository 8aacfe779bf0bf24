--------------------------- MODULE CpuUtilization ---------------------------
(***************************************************************************)
(* The CPU utilization that next_process of source/RTOS/rtos_process.c     *)
(* measures with the free running timer, and that main.c publishes in the  *)
(* global variables.                                                       *)
(*                                                                         *)
(* The timer is read once for each use and counts between any two of them. *)
(* What next_process does with the ring is in RtosProcess; here it runs a  *)
(* process or finds none.                                                  *)
(***************************************************************************)
EXTENDS Integers

CONSTANTS
  TimeMod,    \* 2^32
  Second,     \* time_ticks_s_mult, ticks of the timer in a second
  MaxElapsed  \* bound: ticks from one calculation to the next

ASSUME UtilizationAssumption ==
  /\ Second \in Nat \ {0}
  /\ MaxElapsed \in Nat
  /\ TimeMod \in Nat /\ TimeMod > MaxElapsed

VARIABLES
  now,                                                   \* the timer
  utilization_current_time, utilization_timing_epoch, utilization_timing,
  utilization_tick_counter, process_utilization_tick_counter,
  calculated_cpu_utilization, calculated_process_cpu_utilization,
  globals,                                               \* the published values
  control,                                               \* where the processor is
  elapsed, busy_ticks, process_ticks   \* history: real ticks since the last calculation

counters == <<utilization_tick_counter, process_utilization_tick_counter>>
calculated == <<calculated_cpu_utilization, calculated_process_cpu_utilization>>
timing == <<utilization_current_time, utilization_timing>>
history == <<elapsed, busy_ticks, process_ticks>>
vars == <<now, timing, utilization_timing_epoch, counters, calculated, globals, control, history>>

(* Mutant: the timer does not wrap. *)
SinceStart(t) == now - t

(* "time_read_ticks() - t", unsigned *)
Since(t) == (now - t) % TimeMod

(* The scheduler's part that follows a process counts as busy, too.        *)
Busy == control \in {"running", "returned"}

Tick ==
  /\ elapsed < MaxElapsed
  /\ now' = (now + 1) % TimeMod
  /\ elapsed' = elapsed + 1
  /\ busy_ticks' = busy_ticks + (IF Busy THEN 1 ELSE 0)
  /\ process_ticks' = process_ticks + (IF control = "running" THEN 1 ELSE 0)
  /\ UNCHANGED <<timing, utilization_timing_epoch, counters, calculated, globals, control>>
-----------------------------------------------------------------------------
(* Mutant: the end of the time measured is forgotten. *)
CountBusyTwice ==
  /\ control \in {"returned", "idle"}
  /\ control' = "check"
  /\ utilization_tick_counter' =
       utilization_tick_counter + IF utilization_timing THEN Since(utilization_current_time) ELSE 0
  /\ UNCHANGED <<now, timing, utilization_timing_epoch, process_utilization_tick_counter,
                 calculated, globals, history>>

(* next_process has scanned the ring; it adds the time since the last      *)
(* process was started.                                                    *)
CountBusy ==
  /\ control \in {"returned", "idle"}
  /\ control' = "check"
  /\ utilization_tick_counter' =
       utilization_tick_counter + IF utilization_timing THEN Since(utilization_current_time) ELSE 0
  /\ utilization_timing' = FALSE
  /\ UNCHANGED <<now, utilization_current_time, utilization_timing_epoch,
                 process_utilization_tick_counter, calculated, globals, history>>

CheckSecond ==
  /\ control = "check"
  /\ control' = IF Since(utilization_timing_epoch) >= Second THEN "divide" ELSE "start"
  /\ UNCHANGED <<now, timing, utilization_timing_epoch, counters, calculated, globals, history>>

(* Mutant: the counter is multiplied in the timer's width. *)
NarrowPercent(ticks) == (((ticks * 100) % TimeMod) + (Second \div 2)) \div Since(utilization_timing_epoch)

(* "multiply by 100 and add 500 ms to enable rounding", in 64 bits *)
Percent(ticks) == ((ticks * 100) + (Second \div 2)) \div Since(utilization_timing_epoch)

Calculate ==
  \/ /\ control = "divide"
     /\ calculated_cpu_utilization' = Percent(utilization_tick_counter)
     /\ control' = "divide_process"
     /\ UNCHANGED calculated_process_cpu_utilization
  \/ /\ control = "divide_process"
     /\ calculated_process_cpu_utilization' = Percent(process_utilization_tick_counter)
     /\ control' = "epoch"
     /\ UNCHANGED calculated_cpu_utilization

CalculateStep ==
  /\ Calculate
  /\ UNCHANGED <<now, timing, utilization_timing_epoch, counters, globals, history>>

(* Mutant: the processes' counter goes on. *)
StartEpochHalf ==
  /\ control = "epoch"
  /\ control' = "start"
  /\ utilization_timing_epoch' = now
  /\ utilization_timing' = FALSE
  /\ utilization_tick_counter' = 0
  /\ elapsed' = 0 /\ busy_ticks' = 0 /\ process_ticks' = 0
  /\ UNCHANGED <<now, utilization_current_time, process_utilization_tick_counter, calculated, globals>>

StartEpoch ==
  /\ control = "epoch"
  /\ control' = "start"
  /\ utilization_timing_epoch' = now
  /\ utilization_timing' = FALSE
  /\ utilization_tick_counter' = 0
  /\ process_utilization_tick_counter' = 0
  /\ elapsed' = 0 /\ busy_ticks' = 0 /\ process_ticks' = 0
  /\ UNCHANGED <<now, utilization_current_time, calculated, globals>>

(* switch_process, if the scan found a process to run *)
RunProcess ==
  /\ control = "start"
  /\ \/ /\ control' = "running"
        /\ utilization_current_time' = now
        /\ utilization_timing' = TRUE
     \/ control' = "idle" /\ UNCHANGED timing
  /\ UNCHANGED <<now, utilization_timing_epoch, counters, calculated, globals, history>>

(* It yields or returns, and next_process goes on behind switch_process.   *)
Return ==
  /\ control = "running"
  /\ control' = "returned"
  /\ process_utilization_tick_counter' =
       process_utilization_tick_counter + Since(utilization_current_time)
  /\ UNCHANGED <<now, timing, utilization_timing_epoch, utilization_tick_counter, calculated,
                 globals, history>>

(* The process is main, after a packet. *)
Publish ==
  /\ control = "running"
  /\ globals' = [TotalCpuUtilization |-> calculated_cpu_utilization,
                 ProcessCpuUtilization |-> calculated_process_cpu_utilization,
                 OSCpuUtilization |-> calculated_cpu_utilization - calculated_process_cpu_utilization]
  /\ UNCHANGED <<now, timing, utilization_timing_epoch, counters, calculated, control, history>>

Init ==
  /\ now = 0
  /\ utilization_current_time = 0
  /\ utilization_timing_epoch = 0
  /\ utilization_timing = FALSE
  /\ utilization_tick_counter = 0
  /\ process_utilization_tick_counter = 0
  /\ calculated_cpu_utilization = 0
  /\ calculated_process_cpu_utilization = 0
  /\ globals = [TotalCpuUtilization |-> 0, ProcessCpuUtilization |-> 0, OSCpuUtilization |-> 0]
  /\ control = "idle"
  /\ elapsed = 0 /\ busy_ticks = 0 /\ process_ticks = 0

Next == Tick \/ CountBusy \/ CheckSecond \/ CalculateStep \/ StartEpoch \/ RunProcess \/ Return
        \/ Publish

Spec == Init /\ [][Next]_vars
-----------------------------------------------------------------------------
(* Properties *)

(* Every variable has a value of its C type; the timer's are unsigned.     *)
TypeOK ==
  /\ now \in 0 .. TimeMod - 1
  /\ utilization_current_time \in 0 .. TimeMod - 1
  /\ utilization_timing_epoch \in 0 .. TimeMod - 1
  /\ utilization_timing \in BOOLEAN
  /\ utilization_tick_counter \in Nat
  /\ process_utilization_tick_counter \in Nat
  /\ calculated_cpu_utilization \in Int
  /\ calculated_process_cpu_utilization \in Int
  /\ globals \in [TotalCpuUtilization : Int, ProcessCpuUtilization : Int, OSCpuUtilization : Int]
  /\ control \in {"idle", "check", "divide", "divide_process", "epoch", "start", "running", "returned"}
  /\ elapsed \in 0 .. MaxElapsed
  /\ busy_ticks \in Nat
  /\ process_ticks \in Nat

(* What main publishes are percentages that add up, never negative and     *)
(* never above 100, although the total and the processes' share are        *)
(* counted, divided and cleared at different moments of a running timer.   *)
Percentages ==
  /\ globals.OSCpuUtilization \in 0 .. 100
  /\ globals.ProcessCpuUtilization \in 0 .. 100
  /\ globals.TotalCpuUtilization \in 0 .. 100
  /\ globals.TotalCpuUtilization = globals.ProcessCpuUtilization + globals.OSCpuUtilization

(* A calculated figure is the share of real time that was spent, to one    *)
(* percent ("calculated cpu utilization as a percent", rtos_process.h      *)
(* 183): every stretch is counted once, in the period it belongs to, also  *)
(* across the timer's wrap.                                                *)
Accurate ==
  [][/\ control = "divide" /\ control' # control =>
          calculated_cpu_utilization' * elapsed - busy_ticks * 100 \in -elapsed .. elapsed
     /\ control = "divide_process" /\ control' # control =>
          calculated_process_cpu_utilization' * elapsed - process_ticks * 100 \in -elapsed .. elapsed]_vars

(* The counters are what was really spent, up to the stretch that is being *)
(* measured: the history above has nothing the code's variables miss.      *)
Counted ==
  /\ Since(utilization_timing_epoch) = elapsed
  /\ utilization_tick_counter
       + (IF utilization_timing /\ Busy THEN Since(utilization_current_time) ELSE 0) = busy_ticks
  /\ process_utilization_tick_counter
       + (IF control = "running" THEN Since(utilization_current_time) ELSE 0) = process_ticks
=============================================================================
