---------------------------- MODULE RtosProcess ----------------------------
(***************************************************************************)
(* The cooperative scheduler of source/RTOS: the ring of processes kept in *)
(* deadline order (rtos_process.c), the loop that runs it (rtos_main.c),   *)
(* the delay (rtos_time.c) and the wait with a timeout (rtos_dma.c).       *)
(*                                                                         *)
(* What a process computes is abstracted to the calls it makes: it writes  *)
(* shared variables, starts other processes, waits, delays, returns.       *)
(* Preemption is compiled in but never enabled by this program             *)
(* (MAIN_PREEMPT is not defined and nothing sets enable_preempt), so a     *)
(* slice ends only where the process yields or returns.                    *)
(***************************************************************************)
EXTENDS Integers, FiniteSets

CONSTANTS
  Proc,              \* the Process structures of the program
  Main,              \* mainproc
  NoProc,            \* the null pointer
  MaxProcessCount,   \* RTOS_MAX_PROCESS_COUNT
  TimeMod,           \* 2^w, the timer counts modulo this
  Variable,          \* shared variables that processes wait on
  InterruptVariable, \* those of them an interrupt handler sets
  Value,             \* what a variable holds
  Wait,              \* the waits processes use: variable, condition, value
  Ticks,             \* the delays and timeouts processes use
  MaxSlice,          \* bound: timer ticks between two scans of the queue
  MaxLate            \* bound: ticks a queued process is past its deadline

ASSUME ProcAssumption ==
  /\ Main \in Proc
  /\ NoProc \notin Proc
  /\ Variable \cap Proc = {}
  /\ InterruptVariable \subseteq Variable

ASSUME SizeAssumption ==
  /\ MaxProcessCount \in Nat \ {0}
  /\ TimeMod \in Nat \ {0}
  /\ MaxSlice \in Nat
  /\ MaxLate \in Nat
  /\ Ticks \subseteq Nat

(* Process_State, in the order of the enumeration *)
Ready == 0
Running == 1
Blocked == 2
Done == 3
ProcessState == {Ready, Running, Blocked, Done}

Condition == {"Equal", "NotEqual", "Greater", "GEqual", "Less", "LEqual"}

ASSUME ValueAssumption ==
  /\ Value \subseteq Nat
  /\ {0, 1} \subseteq Value
  /\ Wait \subseteq [variable : Variable \cup Proc, value : Value \cup ProcessState,
                     condition : Condition]

VARIABLES
  process_queue, process_queue_head, process_queue_tail, process_count,
  current_process,
  status,            \* Process.status
  return_deadline,   \* Process.return_deadline, a timer value
  internal_data,     \* Process.internal_data, the wait record it points to
  memory,            \* the shared variables
  now,               \* the timer register
  irq,               \* interrupts are enabled
  control,           \* which code has the processor
  slice,             \* ticks since the last scan (for MaxSlice)
  remaining          \* history: real ticks until the delay or timeout is over

ring == <<process_queue, process_queue_head, process_queue_tail, process_count>>
vars == <<ring, current_process, status, return_deadline, internal_data, memory,
          now, irq, control, slice, remaining>>

Slot == 0 .. MaxProcessCount - 1

(* Process_Wait_Until_Data; callback is TRUE for rtos_delay_callback and    *)
(* rtos_dma_wait_until_end_or_timeout_callback, FALSE for none.             *)
WaitData == [variable : Variable \cup Proc \cup {NoProc}, value : Value \cup ProcessState,
             condition : Condition \cup {"None"}, callback : BOOLEAN]

(* A pointer that is not in use: no process is waiting through it. *)
NoWait == [variable |-> NoProc, value |-> Ready, condition |-> "None", callback |-> FALSE]
-----------------------------------------------------------------------------
(* Ring arithmetic: "% RTOS_MAX_PROCESS_COUNT" on a slot number plus one,  *)
(* and the step back with its "if (next_queue_pointer < 0)".               *)
SuccNoWrap(s) == s + 1   \* mutant: the modulo is forgotten
Succ(s) == IF s = MaxProcessCount - 1 THEN 0 ELSE s + 1
Pred(s) == IF s = 0 THEN MaxProcessCount - 1 ELSE s - 1

(* How many slots s lies behind the head, and in front of the tail. *)
FromHead(s) == IF s >= process_queue_head THEN s - process_queue_head
               ELSE s - process_queue_head + MaxProcessCount
ToTail(s) == IF s <= process_queue_tail THEN process_queue_tail - s
             ELSE process_queue_tail - s + MaxProcessCount

(* The slots the ring says are occupied, and the processes in them. *)
Occupied == {s \in Slot : FromHead(s) < process_count}
Queued == {process_queue[s] : s \in Occupied}

(* (int)(x) of an unsigned difference of timer values. *)
Signed(x) == LET m == x % TimeMod
             IN  IF 2 * m < TimeMod THEN m ELSE m - TimeMod

(* Mutant: the same difference without its sign. *)
UnsignedTimeToDeadline(p) == IF status[p] = Ready THEN 0 ELSE (return_deadline[p] - now) % TimeMod

TimeToDeadline(p) == IF status[p] = Ready THEN 0 ELSE Signed(return_deadline[p] - now)
-----------------------------------------------------------------------------
(* Waiting: how next_process decides that a blocked process may go on. *)
(* Mutant: Equal tests LEqual. *)
SatisfiesLEqual(x, condition, value) ==
  CASE condition \in {"Equal", "LEqual"} -> x <= value
    [] condition = "NotEqual" -> x # value
    [] condition = "Greater"  -> x > value
    [] condition = "GEqual"   -> x >= value
    [] condition = "Less"     -> x < value
    [] condition = "None"     -> FALSE

Satisfies(x, condition, value) ==
  CASE condition = "Equal"    -> x = value
    [] condition = "NotEqual" -> x # value
    [] condition = "Greater"  -> x > value
    [] condition = "GEqual"   -> x >= value
    [] condition = "Less"     -> x < value
    [] condition = "LEqual"   -> x <= value
    [] condition = "None"     -> FALSE

ConditionHolds(w) ==
  /\ w.condition # "None"
  /\ Satisfies(IF w.variable \in Proc THEN status[w.variable] ELSE memory[w.variable],
               w.condition, w.value)

(* Mutant: the deadline is compared as an unsigned number. *)
ReleasesUnsigned(p) == internal_data[p].callback /\ return_deadline[p] <= now

(* The callback makes the process Running once its deadline has come. *)
CallbackReleases(p) == internal_data[p].callback /\ Signed(return_deadline[p] - now) <= 0

Runnable(p) == \/ status[p] # Blocked
               \/ CallbackReleases(p)
               \/ ConditionHolds(internal_data[p])
-----------------------------------------------------------------------------
(* dispatch_process. m entries, counted back from the tail, have a         *)
(* deadline later than ttd: they move one slot towards the tail and p goes *)
(* in front of them. The early returns leave interrupts disabled.          *)
MovedForDeadline(m, ttd) ==
  /\ \A s \in Occupied : ToTail(s) \in 1 .. m => TimeToDeadline(process_queue[s]) > ttd
  /\ \A s \in Occupied : ToTail(s) = m + 1 => TimeToDeadline(process_queue[s]) <= ttd

(* Mutant: the last entry moved is overwritten. *)
InsertedOverMoved(p, m) ==
  [s \in Slot |-> IF ToTail(s) < m - 1 THEN process_queue[Pred(s)]
                  ELSE IF ToTail(s) = m THEN p ELSE process_queue[s]]

Inserted(p, m) ==
  [s \in Slot |-> IF ToTail(s) < m THEN process_queue[Pred(s)]
                  ELSE IF ToTail(s) = m THEN p ELSE process_queue[s]]

Discard == irq' = FALSE /\ UNCHANGED ring

(* Mutant: interrupts are not enabled again after the insertion. *)
InsertQuiet(p, ttd) ==
  /\ process_count < MaxProcessCount
  /\ \E m \in 0 .. process_count :
       /\ MovedForDeadline(m, ttd)
       /\ process_queue' = Inserted(p, m)
  /\ process_count' = process_count + 1
  /\ process_queue_tail' = Succ(process_queue_tail)
  /\ irq' = FALSE
  /\ UNCHANGED process_queue_head

Insert(p, ttd) ==
  /\ process_count < MaxProcessCount
  /\ \E m \in 0 .. process_count :
       /\ MovedForDeadline(m, ttd)
       /\ process_queue' = Inserted(p, m)
  /\ process_count' = process_count + 1
  /\ process_queue_tail' = Succ(process_queue_tail)
  /\ irq' = TRUE
  /\ UNCHANGED process_queue_head

DispatchProcess(p, ttd) ==
  \/ process_count >= MaxProcessCount /\ Discard
  \/ Insert(p, ttd)
-----------------------------------------------------------------------------
(* next_process, as far as the call of switch_process: with interrupts     *)
(* off it passes over n blocked processes at the head of the queue, takes  *)
(* out the first that may run (or the last one when all are blocked) and   *)
(* moves the n up to close the gap. The loop moves the last first; when    *)
(* the ring is full and every process is blocked, its first move is onto   *)
(* the head slot, which the last move then copies. Slots outside the new   *)
(* queue keep old pointers in the code; nothing reads them, here they are  *)
(* null.                                                                   *)
IsBlockedCount(n) ==
  /\ \A s \in Occupied : FromHead(s) < n => ~Runnable(process_queue[s])
  /\ \A s \in Occupied : FromHead(s) = n => Runnable(process_queue[s])

(* Mutant: the entry at the head is not moved. *)
MovedUpButFirst(n) ==
  [s \in Slot |-> IF FromHead(s) \in {0, process_count} THEN NoProc
                  ELSE IF FromHead(s) \in 2 .. n THEN process_queue[Pred(s)]
                  ELSE process_queue[s]]

MovedUp(n) ==
  [s \in Slot |->
     IF FromHead(s) \in {0, process_count} THEN NoProc
     ELSE IF n = MaxProcessCount /\ FromHead(s) = 1 THEN process_queue[Pred(process_queue_head)]
     ELSE IF FromHead(s) \in 1 .. n THEN process_queue[Pred(s)]
     ELSE process_queue[s]]

Scanned(n) == IF n = process_count THEN n - 1 ELSE n

NextProcess ==
  /\ control = "next"
  /\ \E n \in 0 .. process_count :
       /\ IsBlockedCount(n)
       /\ \E s \in Occupied :
            /\ FromHead(s) = Scanned(n)
            /\ current_process' = process_queue[s]
            /\ status' = IF n < process_count /\ status[process_queue[s]] = Blocked
                         THEN [status EXCEPT ![process_queue[s]] = Running]
                         ELSE status
       /\ process_queue' = MovedUp(n)
       /\ control' = IF n < process_count THEN "switch" ELSE "dispatch"
  /\ process_count' = process_count - 1
  /\ process_queue_head' = Succ(process_queue_head)
  /\ irq' = TRUE
  /\ slice' = 0
  /\ UNCHANGED <<process_queue_tail, return_deadline, internal_data, memory, now, remaining>>

(* switch_process, up to the first instruction of the process. A process   *)
(* that starts does so with interrupts disabled; one that resumes enables  *)
(* them at the end of yield_process and drops its wait record.             *)
SwitchProcess ==
  /\ control = "switch"
  /\ control' = "process"
  /\ status' = [status EXCEPT ![current_process] = Done]
  /\ irq' = (status[current_process] # Ready)
  /\ internal_data' = [internal_data EXCEPT ![current_process] = NoWait]
  /\ UNCHANGED <<ring, current_process, return_deadline, memory, now, slice, remaining>>
-----------------------------------------------------------------------------
(* What a running process does. *)

(* yield_process(Process_State_Blocked), back through switch_process into  *)
(* rtos_main, with the wait record and the deadline the caller has set.    *)
YieldBlocked(wait, deadline, ticks) ==
  /\ control = "process"
  /\ internal_data' = [internal_data EXCEPT ![current_process] = wait]
  /\ return_deadline' = [return_deadline EXCEPT ![current_process] = deadline]
  /\ remaining' = [remaining EXCEPT ![current_process] = ticks]
  /\ status' = [status EXCEPT ![current_process] = Blocked]
  /\ irq' = TRUE
  /\ control' = "dispatch"
  /\ UNCHANGED <<ring, current_process, memory, now, slice>>

WaitRecord(w, callback) == [variable |-> w.variable, value |-> w.value,
                            condition |-> w.condition, callback |-> callback]

(* wait_until: the deadline is now. *)
WaitUntil(w) == YieldBlocked(WaitRecord(w, FALSE), now, 0)

(* rtos_dma_wait_until_end_or_timeout: the deadline is the timeout. *)
WaitUntilOrTimeout(w, n) == YieldBlocked(WaitRecord(w, TRUE), (now + n) % TimeMod, n)

(* Mutant: the callback is not handed over. *)
DelayWithoutCallback(n) == YieldBlocked(NoWait, (now + n) % TimeMod, n)

(* rtos_delay_ctick: no condition, only the callback ends it. *)
RtosDelay(n) == YieldBlocked([NoWait EXCEPT !.callback = TRUE], (now + n) % TimeMod, n)

Yield == \/ \E w \in Wait : WaitUntil(w)
         \/ \E w \in Wait, n \in Ticks : WaitUntilOrTimeout(w, n)
         \/ \E n \in Ticks : RtosDelay(n)

(* The process function returns: its status is still Done. *)
Finish ==
  /\ control = "process"
  /\ control' = "dispatch"
  /\ irq' = TRUE
  /\ UNCHANGED <<ring, current_process, status, return_deadline, internal_data,
                 memory, now, slice, remaining>>

InFlight == IF control \in {"switch", "process", "dispatch"} THEN {current_process} ELSE {}

(* The processes the scheduler answers for: queued, or taken out to run. *)
Pool == Queued \cup InFlight

(* init_process or reset_process, then dispatch_process. Callers do this   *)
(* to a process that is not in the scheduler's hands.                      *)
StartProcess(q) ==
  /\ control = "process"
  /\ q \notin Pool
  /\ status' = [status EXCEPT ![q] = Ready]
  /\ return_deadline' = [return_deadline EXCEPT ![q] = now]
  /\ DispatchProcess(q, 0)
  /\ UNCHANGED <<current_process, internal_data, memory, now, control, slice, remaining>>

Assign(v, x) ==
  /\ control = "process"
  /\ memory' = [memory EXCEPT ![v] = x]
  /\ UNCHANGED <<ring, current_process, status, return_deadline, internal_data,
                 now, irq, control, slice, remaining>>
-----------------------------------------------------------------------------
(* Mutant: dispatch_process does not discard a process that is Done. *)
RtosMainKeepsDone ==
  /\ control = "dispatch"
  /\ DispatchProcess(current_process, TimeToDeadline(current_process))
  /\ control' = IF process_count' > 0 THEN "next" ELSE "halt"
  /\ UNCHANGED <<current_process, status, return_deadline, internal_data, memory,
                 now, slice, remaining>>

(* rtos_main: dispatch_process(lastproc), then the loop test.              *)
RtosMain ==
  /\ control = "dispatch"
  /\ \/ status[current_process] = Done /\ Discard
     \/ status[current_process] # Done
        /\ DispatchProcess(current_process, TimeToDeadline(current_process))
  /\ control' = IF process_count' > 0 THEN "next" ELSE "halt"
  /\ UNCHANGED <<current_process, status, return_deadline, internal_data, memory,
                 now, slice, remaining>>

(* The timer counts, whatever runs; MaxSlice and MaxLate bound it. *)
Tick ==
  /\ slice < MaxSlice
  /\ \A p \in Queued : status[p] # Ready => Signed(now - return_deadline[p]) < MaxLate
  /\ slice' = slice + 1
  /\ now' = (now + 1) % TimeMod
  /\ remaining' = [p \in Proc |-> IF remaining[p] > 0 THEN remaining[p] - 1 ELSE 0]
  /\ UNCHANGED <<ring, current_process, status, return_deadline, internal_data,
                 memory, irq, control>>

(* An interrupt handler sets its flag, as USB_Handler does. *)
Interrupt(v) ==
  /\ irq
  /\ memory' = [memory EXCEPT ![v] = 1]
  /\ UNCHANGED <<ring, current_process, status, return_deadline, internal_data,
                 now, irq, control, slice, remaining>>
-----------------------------------------------------------------------------
(* rtos_main has initialised the queue and dispatched the main process. *)
Init ==
  /\ process_queue = [s \in Slot |-> IF s = 0 THEN Main ELSE NoProc]
  /\ process_queue_head = 0
  /\ process_queue_tail = Succ(0)
  /\ process_count = 1
  /\ current_process = NoProc
  /\ status = [p \in Proc |-> Ready]
  /\ return_deadline = [p \in Proc |-> 0]
  /\ internal_data = [p \in Proc |-> NoWait]
  /\ memory = [v \in Variable |-> 0]
  /\ now = 0
  /\ irq = TRUE
  /\ control = "next"
  /\ slice = 0
  /\ remaining = [p \in Proc |-> 0]

Next ==
  \/ NextProcess
  \/ SwitchProcess
  \/ Yield
  \/ Finish
  \/ \E q \in Proc : StartProcess(q)
  \/ \E v \in Variable, x \in Value : Assign(v, x)
  \/ RtosMain
  \/ Tick
  \/ \E v \in InterruptVariable : Interrupt(v)

Spec == Init /\ [][Next]_vars

(* The processor does not stop, the timer does not stop, and every process *)
(* eventually yields or returns, as cooperative scheduling requires.       *)
Fairness ==
  /\ WF_vars(NextProcess)
  /\ WF_vars(SwitchProcess)
  /\ WF_vars(RtosMain)
  /\ WF_vars(Yield \/ Finish)
  /\ WF_vars(Tick)

FairSpec == Spec /\ Fairness
-----------------------------------------------------------------------------
(* Properties *)

Control == {"next", "switch", "process", "dispatch", "halt"}

(* Every variable of the scheduler holds a value of its C type: slots and  *)
(* counts stay inside the ring, the timer inside its width.                *)
TypeOK ==
  /\ process_queue \in [Slot -> Proc \cup {NoProc}]
  /\ process_queue_head \in Slot
  /\ process_queue_tail \in Slot
  /\ process_count \in 0 .. MaxProcessCount
  /\ current_process \in Proc \cup {NoProc}
  /\ status \in [Proc -> ProcessState]
  /\ return_deadline \in [Proc -> 0 .. TimeMod - 1]
  /\ internal_data \in [Proc -> WaitData]
  /\ memory \in [Variable -> Value]
  /\ now \in 0 .. TimeMod - 1
  /\ irq \in BOOLEAN
  /\ control \in Control
  /\ slice \in 0 .. MaxSlice
  /\ remaining \in [Proc -> Nat]
  /\ control \in {"switch", "process", "dispatch"} => current_process \in Proc
  /\ control = "next" => process_count > 0

(* The ring's three counters agree, and no process is in it twice or both  *)
(* in it and running: what dispatch_process and next_process assume of     *)
(* each other when each moves entries by its own end of the ring.          *)
RingConsistent ==
  /\ process_queue_tail = (process_queue_head + process_count) % MaxProcessCount
  /\ \A s, t \in Occupied : process_queue[s] = process_queue[t] => s = t
  /\ Queued \cap InFlight = {}
  /\ NoProc \notin Queued

(* Entries of the queue are never running or finished: next_process marks  *)
(* a process Running only when it takes it out, rtos_main discards Done.   *)
QueuedWait == \A p \in Queued : status[p] \in {Ready, Blocked}

RunsNow(p) == control = "process" /\ current_process = p

(* The live processes: those in the scheduler's hands that have not        *)
(* returned.                                                               *)
Live == Queued \cup {p \in InFlight : control = "dispatch" => status[p] # Done}

Abstract == INSTANCE ProcessPool
  WITH pool <- Live, running <- IF control = "process" THEN current_process ELSE NoProc

(* The scheduler implements ProcessPool: moving entries about the ring     *)
(* never drops, duplicates or invents a process, only live processes run,  *)
(* and one is gone only after it has returned. This needs fewer processes  *)
(* than the ring has slots.                                                *)
PoolSpec == Abstract!PoolSpec

(* "RTOS_MAX_PROCESS_COUNT - maximum number of processes the RTOS needs to *)
(* be able to handle" (rtos_config.h 9-10): with that many processes, too, *)
(* none that has not returned disappears.                                  *)
NoProcessLost ==
  [][\A p \in Proc : p \in Live /\ p \notin Live' => RunsNow(p)]_vars

(* Of two queued processes that have run before, the one nearer the head   *)
(* has the earlier deadline ("insert element to correct position for its   *)
(* deadline", rtos_process.c 132), however scans and insertions of started *)
(* processes, which have no deadline yet, interleave.                      *)
DeadlineOrder ==
  \A s, t \in Occupied :
    FromHead(s) < FromHead(t) /\ Ready \notin {status[process_queue[s]], status[process_queue[t]]}
      => Signed(return_deadline[process_queue[s]] - return_deadline[process_queue[t]]) <= 0

(* A wait ends only for its reason: when the process goes on, the condition *)
(* it waited for holds now (no other process ran since next_process checked *)
(* it), or its delay or timeout has fully elapsed in real ticks, whatever   *)
(* the timer register has wrapped to (rtos_time.h 28-29).                   *)
NoEarlyResume ==
  control = "switch" /\ status[current_process] = Running =>
    LET w == internal_data[current_process]
    IN  ConditionHolds(w) \/ (w.callback /\ remaining[current_process] = 0)

(* join_process: the status of a running process reads Done while it runs,  *)
(* and still a process that waits for another's Done goes on only when that *)
(* other has really returned and left the scheduler.                        *)
JoinAfterReturn ==
  control = "switch" /\ status[current_process] = Running =>
    LET w == internal_data[current_process]
    IN  w.variable \in Proc /\ w.condition = "Equal" /\ w.value = Done /\ ~w.callback
          => w.variable \notin Pool

(* Interrupts are off only from the return of a process to the next scan    *)
(* (dispatch_process leaves them off when it drops one that is Done), and in *)
(* the first turn of a process until it yields or starts another. Neither    *)
(* the other early return, for a full ring, nor a resumed wait leaves them   *)
(* off: no handler would set the flag that is waited for.                    *)
InterruptsComeBack ==
  [][~irq' => \/ control = "switch" /\ status[current_process] = Ready
              \/ control = "dispatch" /\ status[current_process] = Done
              \/ ~irq /\ control' = control /\ ring' = ring]_vars

Delayed(p) == status[p] = Blocked /\ internal_data[p].condition = "None"

(* A delay ends: whatever the other processes do, a process in rtos_delay  *)
(* eventually runs again, although the timer wraps while it waits.         *)
DelayReturns == \A p \in Proc : Delayed(p) ~> RunsNow(p)

(* A process whose condition has come true and stays true is not passed    *)
(* over forever.                                                           *)
WaitReturns ==
  \A p \in Proc : ~<>[](p \in Queued /\ status[p] = Blocked /\ ConditionHolds(internal_data[p]))
=============================================================================
