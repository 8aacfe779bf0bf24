-------------------------- MODULE RtosProcessProofs --------------------------
(***************************************************************************)
(* Theorems about RtosProcess, for every set of processes, ring size and   *)
(* timer width.                                                            *)
(***************************************************************************)
EXTENDS RtosProcess, FiniteSetTheorems, TLAPS

USE DEF Slot, ProcessState, Ready, Running, Blocked, Done

(* Types alone are not inductive: next_process hands out what is in a slot, *)
(* so occupied slots must hold processes, and dispatch_process fills slots  *)
(* by the tail that next_process empties by the head, so the two must agree.*)
RingInv ==
  /\ process_queue_tail = IF process_queue_head + process_count >= MaxProcessCount
                          THEN process_queue_head + process_count - MaxProcessCount
                          ELSE process_queue_head + process_count
  /\ \A s \in Occupied : process_queue[s] \in Proc
-----------------------------------------------------------------------------
(* Arithmetic of the ring *)

LEMMA StepTypes ==
  ASSUME NEW s \in Slot
  PROVE  Succ(s) \in Slot /\ Pred(s) \in Slot
  BY SizeAssumption DEF Succ, Pred

(* Stepping back lessens the distance from the head; slots are told apart  *)
(* by that distance, and every distance is some slot's.                    *)
LEMMA FromHeadFacts ==
  ASSUME process_queue_head \in Slot
  PROVE  /\ \A s \in Slot : FromHead(s) \in Slot
         /\ \A s \in Slot : FromHead(s) > 0 => FromHead(Pred(s)) = FromHead(s) - 1
         /\ \A s, t \in Slot : FromHead(s) = FromHead(t) => s = t
         /\ \A i \in Slot : \E s \in Slot : FromHead(s) = i
         /\ FromHead(process_queue_head) = 0
         /\ \A s \in Slot : FromHead(s) = 0 => FromHead(Pred(s)) = MaxProcessCount - 1
<1>1. \A i \in Slot : \E s \in Slot : FromHead(s) = i
  <2> SUFFICES ASSUME NEW i \in Slot PROVE \E s \in Slot : FromHead(s) = i
    OBVIOUS
  <2>1. CASE process_queue_head + i < MaxProcessCount
    <3>1. process_queue_head + i \in Slot /\ FromHead(process_queue_head + i) = i
      BY <2>1, SizeAssumption DEF FromHead
    <3> QED BY <3>1
  <2>2. CASE process_queue_head + i >= MaxProcessCount
    <3>1. /\ process_queue_head + i - MaxProcessCount \in Slot
          /\ FromHead(process_queue_head + i - MaxProcessCount) = i
      BY <2>2, SizeAssumption DEF FromHead
    <3> QED BY <3>1
  <2> QED BY <2>1, <2>2, SizeAssumption
<1> QED BY <1>1, SizeAssumption DEF FromHead, Pred

(* When the ring is not full, the distances from head and to tail add up.  *)
LEMMA ToTailFacts ==
  ASSUME TypeOK, RingInv, process_count < MaxProcessCount, NEW s \in Slot
  PROVE  /\ ToTail(s) \in Slot
         /\ FromHead(s) <= process_count => ToTail(s) = process_count - FromHead(s)
         /\ FromHead(s) > process_count => ToTail(s) = MaxProcessCount + process_count - FromHead(s)
  BY SizeAssumption DEF TypeOK, RingInv, ToTail, FromHead
-----------------------------------------------------------------------------
(* dispatch_process: p is put at some distance from the head, entries      *)
(* before it stay and entries after it move by one slot.                   *)
LEMMA InsertedFacts ==
  ASSUME TypeOK, RingInv, process_count < MaxProcessCount,
         NEW p \in Proc, NEW m \in 0 .. process_count,
         NEW s \in Slot, FromHead(s) <= process_count
  PROVE  Inserted(p, m)[s] = IF FromHead(s) < process_count - m THEN process_queue[s]
                             ELSE IF FromHead(s) = process_count - m THEN p
                             ELSE process_queue[Pred(s)]
<1>1. ToTail(s) = process_count - FromHead(s) /\ FromHead(s) \in Slot
  BY ToTailFacts, FromHeadFacts DEF TypeOK
<1> QED BY <1>1, SizeAssumption DEF Inserted, TypeOK

LEMMA InsertRing ==
  ASSUME TypeOK, RingInv, NEW p \in Proc, NEW ttd, Insert(p, ttd)
  PROVE  /\ process_queue' \in [Slot -> Proc \cup {NoProc}]
         /\ process_queue_tail' \in Slot
         /\ process_count' \in 1 .. MaxProcessCount
         /\ RingInv'
<1> USE SizeAssumption
<1>0. /\ process_queue \in [Slot -> Proc \cup {NoProc}]
      /\ process_queue_head \in Slot /\ process_queue_tail \in Slot
      /\ process_count \in 0 .. MaxProcessCount
  BY DEF TypeOK
<1>1. PICK m \in 0 .. process_count : process_queue' = Inserted(p, m)
  BY DEF Insert
<1>2. /\ process_count' = process_count + 1 /\ process_count < MaxProcessCount
      /\ process_queue_tail' = Succ(process_queue_tail)
      /\ process_queue_head' = process_queue_head
  BY DEF Insert
<1>3. process_queue' \in [Slot -> Proc \cup {NoProc}]
  BY <1>0, <1>1, StepTypes DEF Inserted
<1>4. \A s \in Slot : FromHead(s)' = FromHead(s)
  BY <1>2 DEF FromHead
<1>5. ASSUME NEW s \in Slot, FromHead(s) < process_count'
      PROVE  process_queue'[s] \in Proc
  <2>1. /\ FromHead(s) \in Slot /\ Pred(s) \in Slot
        /\ FromHead(s) > 0 => FromHead(Pred(s)) = FromHead(s) - 1
    BY <1>0, FromHeadFacts, StepTypes
  <2>2. FromHead(s) <= process_count
    BY <1>0, <1>2, <1>5, <2>1
  <2>3. FromHead(s) < process_count - m => process_queue[s] \in Proc
    BY <1>0, <2>1 DEF RingInv, Occupied
  <2>4. FromHead(s) > process_count - m => process_queue[Pred(s)] \in Proc
    BY <1>0, <2>1, <2>2 DEF RingInv, Occupied
  <2>5. process_queue'[s] = IF FromHead(s) < process_count - m THEN process_queue[s]
                            ELSE IF FromHead(s) = process_count - m THEN p
                            ELSE process_queue[Pred(s)]
    BY <1>1, <1>2, <2>2, InsertedFacts
  <2> QED BY <1>0, <2>1, <2>3, <2>4, <2>5
<1>6. \A s \in Occupied' : process_queue'[s] \in Proc
  BY <1>4, <1>5 DEF Occupied
<1>7. process_queue_tail' = IF process_queue_head' + process_count' >= MaxProcessCount
                            THEN process_queue_head' + process_count' - MaxProcessCount
                            ELSE process_queue_head' + process_count'
  BY <1>0, <1>2 DEF RingInv, Succ
<1>8. RingInv'
  BY <1>6, <1>7 DEF RingInv
<1>9. process_queue_tail' \in Slot
  BY <1>0, <1>2, StepTypes
<1>10. process_count' \in 1 .. MaxProcessCount
  BY <1>0, <1>2
<1> QED BY <1>3, <1>8, <1>9, <1>10

RingType ==
  /\ process_queue \in [Slot -> Proc \cup {NoProc}]
  /\ process_queue_head \in Slot
  /\ process_queue_tail \in Slot
  /\ process_count \in 0 .. MaxProcessCount

LEMMA UnchangedRing ==
  ASSUME RingType, RingInv, UNCHANGED ring
  PROVE  RingType' /\ RingInv'
  BY DEF RingType, RingInv, ring, Occupied, FromHead

(* Whatever dispatch_process returns, the ring stays a ring.               *)
LEMMA DispatchRing ==
  ASSUME TypeOK, RingInv, NEW p \in Proc, NEW ttd, DispatchProcess(p, ttd) \/ Discard
  PROVE  /\ process_queue' \in [Slot -> Proc \cup {NoProc}]
         /\ process_queue_head' \in Slot
         /\ process_queue_tail' \in Slot
         /\ process_count' \in 0 .. MaxProcessCount
         /\ process_count' >= process_count
         /\ irq' \in BOOLEAN
         /\ RingInv'
<1>1. CASE Discard
  <2>1. RingType /\ UNCHANGED ring /\ irq' = FALSE
    BY <1>1 DEF Discard, TypeOK, RingType
  <2>2. RingType' /\ RingInv'
    BY <2>1, UnchangedRing
  <2>3. process_count' >= process_count
    BY <2>1 DEF ring, RingType
  <2> QED BY <2>1, <2>2, <2>3 DEF RingType
<1>2. CASE Insert(p, ttd)
  <2>1. /\ process_queue_head' = process_queue_head /\ irq' = TRUE
        /\ process_count' = process_count + 1
    BY <1>2 DEF Insert
  <2>2. process_queue_head \in Slot /\ process_count \in 0 .. MaxProcessCount
    BY DEF TypeOK
  <2>3. /\ process_queue' \in [Slot -> Proc \cup {NoProc}]
        /\ process_queue_tail' \in Slot
        /\ process_count' \in 1 .. MaxProcessCount
        /\ RingInv'
    BY <1>2, InsertRing
  <2>4. process_count' \in 0 .. MaxProcessCount /\ process_count' >= process_count
    BY <2>1, <2>2, <2>3
  <2>5. process_queue_head' \in Slot /\ irq' \in BOOLEAN
    BY <2>1, <2>2
  <2> QED BY <2>3, <2>4, <2>5
<1> QED BY <1>1, <1>2 DEF DispatchProcess
-----------------------------------------------------------------------------
(* next_process: the distance from the head of every slot but the old head *)
(* lessens by one, and what is then within the queue was within it before. *)
LEMMA NextRing ==
  ASSUME TypeOK, RingInv, NextProcess
  PROVE  /\ process_queue' \in [Slot -> Proc \cup {NoProc}]
         /\ process_queue_head' \in Slot
         /\ process_count' \in 0 .. MaxProcessCount
         /\ current_process' \in Proc
         /\ RingInv'
<1> USE SizeAssumption
<1>0. /\ process_queue \in [Slot -> Proc \cup {NoProc}]
      /\ process_queue_head \in Slot /\ process_queue_tail \in Slot
      /\ process_count \in 1 .. MaxProcessCount
  BY DEF TypeOK, NextProcess
<1>1. PICK n \in 0 .. process_count :
        /\ process_queue' = MovedUp(n)
        /\ \E s \in Occupied : FromHead(s) = Scanned(n) /\ current_process' = process_queue[s]
  BY DEF NextProcess
<1>2. /\ process_count' = process_count - 1
      /\ process_queue_head' = Succ(process_queue_head)
      /\ process_queue_tail' = process_queue_tail
  BY DEF NextProcess
<1>3. process_queue' \in [Slot -> Proc \cup {NoProc}]
  BY <1>0, <1>1, StepTypes DEF MovedUp
<1>4. \A s \in Slot : FromHead(s)' = IF FromHead(s) = 0 THEN MaxProcessCount - 1
                                     ELSE FromHead(s) - 1
  BY <1>0, <1>2 DEF FromHead, Succ
<1>5. ASSUME NEW s \in Slot, FromHead(s) \in 1 .. process_count - 1
      PROVE  process_queue'[s] \in Proc
  <2>1. /\ Pred(s) \in Slot /\ FromHead(Pred(s)) = FromHead(s) - 1
        /\ Pred(process_queue_head) \in Slot
        /\ FromHead(Pred(process_queue_head)) = MaxProcessCount - 1
    BY <1>0, <1>5, FromHeadFacts, StepTypes
  <2>2. process_queue[s] \in Proc /\ process_queue[Pred(s)] \in Proc
    BY <1>0, <1>5, <2>1 DEF RingInv, Occupied
  <2>3. n = MaxProcessCount => process_queue[Pred(process_queue_head)] \in Proc
    BY <1>0, <2>1 DEF RingInv, Occupied
  <2> QED BY <1>0, <1>1, <1>5, <2>1, <2>2, <2>3 DEF MovedUp
<1>6. \A s \in Occupied' : process_queue'[s] \in Proc
  <2> SUFFICES ASSUME NEW s \in Slot, FromHead(s)' < process_count'
               PROVE  process_queue'[s] \in Proc
    BY DEF Occupied
  <2>0. FromHead(s) \in Slot
    BY <1>0, FromHeadFacts
  <2>1. FromHead(s) \in 1 .. process_count - 1
    BY <1>0, <1>2, <1>4, <2>0
  <2> QED BY <2>1, <1>5
<1>7. process_queue_tail' = IF process_queue_head' + process_count' >= MaxProcessCount
                            THEN process_queue_head' + process_count' - MaxProcessCount
                            ELSE process_queue_head' + process_count'
  BY <1>0, <1>2 DEF RingInv, Succ
<1>8. current_process' \in Proc
  BY <1>1 DEF RingInv
<1>9. RingInv'
  BY <1>6, <1>7 DEF RingInv
<1>10. process_queue_head' \in Slot /\ process_count' \in 0 .. MaxProcessCount
  BY <1>0, <1>2, StepTypes
<1> QED BY <1>3, <1>8, <1>9, <1>10
-----------------------------------------------------------------------------
(* Type correctness *)

LEMMA TimeRange ==
  ASSUME NEW t \in Int
  PROVE  t % TimeMod \in 0 .. TimeMod - 1
  BY SizeAssumption

LEMMA WaitRecordType ==
  /\ NoWait \in WaitData
  /\ [NoWait EXCEPT !.callback = TRUE] \in WaitData
  /\ \A w \in Wait, c \in BOOLEAN : WaitRecord(w, c) \in WaitData
  BY ValueAssumption, ProcAssumption DEF NoWait, WaitData, WaitRecord, Condition

(* The conjuncts of TypeOK that do not speak of the ring. *)
PlainType ==
  /\ current_process \in Proc \cup {NoProc}
  /\ status \in [Proc -> ProcessState]
  /\ return_deadline \in [Proc -> 0 .. TimeMod - 1]
  /\ internal_data \in [Proc -> WaitData]
  /\ memory \in [Variable -> Value]
  /\ now \in 0 .. TimeMod - 1
  /\ irq \in BOOLEAN
  /\ control \in Control
  /\ slice \in 0 .. MaxSlice
  /\ remaining \in [Proc -> Nat]
  /\ control \in {"switch", "process", "dispatch"} => current_process \in Proc
  /\ control = "next" => process_count > 0

LEMMA TypeSplit ==
  /\ TypeOK <=> PlainType /\ RingType
  /\ TypeOK' <=> PlainType' /\ RingType'
  BY DEF TypeOK, PlainType, RingType

LEMMA TypeInit == Init => TypeOK /\ RingInv
<1> SUFFICES ASSUME Init PROVE TypeOK /\ RingInv
  OBVIOUS
<1> USE ProcAssumption, SizeAssumption, ValueAssumption
<1>1. RingType /\ RingInv
  BY DEF Init, RingType, RingInv, Occupied, FromHead, Succ
<1>2. PlainType
  BY WaitRecordType DEF Init, PlainType, Control
<1> QED BY <1>1, <1>2, TypeSplit

LEMMA TypeYield ==
  ASSUME TypeOK, NEW wait \in WaitData, NEW deadline \in 0 .. TimeMod - 1, NEW ticks \in Nat,
         YieldBlocked(wait, deadline, ticks)
  PROVE  PlainType'
  BY DEF TypeOK, PlainType, YieldBlocked, Control, ring
-----------------------------------------------------------------------------
LEMMA TypeStep == TypeOK /\ RingInv /\ [Next]_vars => TypeOK' /\ RingInv'
<1> SUFFICES ASSUME TypeOK, RingInv, [Next]_vars PROVE TypeOK' /\ RingInv'
  OBVIOUS
<1> USE SizeAssumption
<1>0. PlainType /\ RingType
  BY TypeSplit
<1>1. CASE NextProcess
  <2>1. RingType' /\ RingInv'
    <3>1. process_queue_tail' \in Slot
      BY <1>0, <1>1 DEF NextProcess, RingType
    <3> QED BY <1>1, <3>1, NextRing DEF RingType
  <2>2. process_count' >= 0 /\ current_process' \in Proc
    BY <2>1, <1>1, NextRing DEF RingType
  <2>3. status' \in [Proc -> ProcessState] /\ control' \in {"switch", "dispatch"}
    BY <1>0, <1>1 DEF NextProcess, PlainType
  <2> QED BY <1>0, <1>1, <2>1, <2>2, <2>3, TypeSplit DEF NextProcess, PlainType, Control
<1>2. CASE SwitchProcess
  <2>1. PlainType'
    BY <1>0, <1>2, WaitRecordType DEF SwitchProcess, PlainType, Control, ring
  <2> QED BY <1>0, <1>2, <2>1, UnchangedRing, TypeSplit DEF SwitchProcess
<1>3. CASE Yield
  <2>1. \E wait \in WaitData, deadline \in 0 .. TimeMod - 1, ticks \in Nat :
          YieldBlocked(wait, deadline, ticks)
    <3>0. now \in 0 .. TimeMod - 1 /\ Ticks \subseteq Nat
      BY <1>0 DEF PlainType
    <3>1. \A n \in Ticks : n \in Nat /\ (now + n) % TimeMod \in 0 .. TimeMod - 1
      <4> SUFFICES ASSUME NEW n \in Ticks PROVE n \in Nat /\ (now + n) % TimeMod \in 0 .. TimeMod - 1
        OBVIOUS
      <4>1. n \in Nat /\ now + n \in Int
        BY <3>0
      <4> QED BY <4>1, TimeRange
    <3> QED BY <1>3, <3>0, <3>1, WaitRecordType DEF Yield, WaitUntil, WaitUntilOrTimeout, RtosDelay
  <2>2. PlainType' /\ UNCHANGED ring
    BY <2>1, TypeYield DEF YieldBlocked
  <2> QED BY <1>0, <2>2, UnchangedRing, TypeSplit
<1>4. CASE Finish
  <2>1. PlainType'
    BY <1>0, <1>4 DEF Finish, PlainType, Control, ring
  <2> QED BY <1>0, <1>4, <2>1, UnchangedRing, TypeSplit DEF Finish
<1>5. ASSUME NEW q \in Proc, StartProcess(q) PROVE TypeOK' /\ RingInv'
  <2>1. /\ RingType' /\ RingInv' /\ irq' \in BOOLEAN
    BY <1>5, DispatchRing DEF StartProcess, RingType
  <2>2. PlainType'
    BY <1>0, <1>5, <2>1 DEF StartProcess, PlainType, Control
  <2> QED BY <2>1, <2>2, TypeSplit
<1>6. ASSUME NEW v \in Variable, NEW x \in Value, Assign(v, x) PROVE TypeOK' /\ RingInv'
  <2>1. PlainType'
    BY <1>0, <1>6 DEF Assign, PlainType, Control, ring
  <2> QED BY <1>0, <1>6, <2>1, UnchangedRing, TypeSplit DEF Assign
<1>7. CASE RtosMain
  <2>0. current_process \in Proc
    BY <1>0, <1>7 DEF RtosMain, PlainType
  <2>1. /\ RingType' /\ RingInv' /\ irq' \in BOOLEAN
    BY <1>7, <2>0, DispatchRing DEF RtosMain, RingType
  <2>2. PlainType'
    BY <1>0, <1>7, <2>0, <2>1 DEF RtosMain, PlainType, Control
  <2> QED BY <2>1, <2>2, TypeSplit
<1>8. CASE Tick
  <2>1. PlainType'
    <3>1. now' \in 0 .. TimeMod - 1 /\ slice' \in 0 .. MaxSlice
      BY <1>0, <1>8, TimeRange DEF Tick, PlainType
    <3>2. remaining' \in [Proc -> Nat]
      BY <1>0, <1>8 DEF Tick, PlainType
    <3> QED BY <1>0, <1>8, <3>1, <3>2 DEF Tick, PlainType, Control, ring
  <2> QED BY <1>0, <1>8, <2>1, UnchangedRing, TypeSplit DEF Tick
<1>9. ASSUME NEW v \in InterruptVariable, Interrupt(v) PROVE TypeOK' /\ RingInv'
  <2>1. PlainType'
    BY <1>0, <1>9, ValueAssumption, ProcAssumption DEF Interrupt, PlainType, Control, ring
  <2> QED BY <1>0, <1>9, <2>1, UnchangedRing, TypeSplit DEF Interrupt
<1>10. CASE UNCHANGED vars
  <2>1. PlainType'
    BY <1>0, <1>10 DEF vars, PlainType, ring
  <2> QED BY <1>0, <1>10, <2>1, UnchangedRing, TypeSplit DEF vars
<1> QED BY <1>1, <1>2, <1>3, <1>4, <1>5, <1>6, <1>7, <1>8, <1>9, <1>10 DEF Next

(* Whatever the processes do, every scheduler variable keeps to its type:  *)
(* no slot or count leaves the ring, and whenever the scheduler switches   *)
(* to a process, there is one to switch to.                                *)
THEOREM TypeCorrect == Spec => [](TypeOK /\ RingInv)
  BY TypeInit, TypeStep, PTL DEF Spec
-----------------------------------------------------------------------------
(* No process lost. The ring must never be full when next_process moves    *)
(* entries: with fewer processes than slots, and none queued twice, it is  *)
(* not. So "none is queued twice, nor queued and in flight" is the part of *)
(* the invariant that everything else rests on.                            *)

Distinct == \A s, t \in Occupied : process_queue[s] = process_queue[t] => s = t

PoolInv ==
  /\ Distinct
  /\ Queued \cap InFlight = {}
  /\ QueuedWait
  /\ control = "switch" => status[current_process] \in {Ready, Running}
  /\ control = "process" => status[current_process] = Done
  /\ control = "dispatch" => status[current_process] \in {Blocked, Done}

FewProcesses == IsFiniteSet(Proc) /\ Cardinality(Proc) < MaxProcessCount

(* A full ring would hold more distinct processes than there are.          *)
LEMMA NotFull ==
  ASSUME FewProcesses, RingType, RingInv, Distinct
  PROVE  process_count < MaxProcessCount
<1> SUFFICES ASSUME process_count = MaxProcessCount PROVE FALSE
  BY SizeAssumption DEF RingType
<1>1. Occupied = Slot
  <2>1. \A s \in Slot : FromHead(s) \in Slot
    BY FromHeadFacts DEF RingType
  <2> QED BY <2>1, SizeAssumption DEF Occupied
<1>2. process_queue \in [Slot -> Proc]
  BY <1>1 DEF RingInv, RingType
<1>3. IsFiniteSet(Slot) /\ Cardinality(Slot) = MaxProcessCount
  BY SizeAssumption, FS_Interval
<1>4. \E s, t \in Slot : s # t /\ process_queue[s] = process_queue[t]
  BY <1>2, <1>3, FS_PigeonHole DEF FewProcesses
<1> QED BY <1>1, <1>4 DEF Distinct

(* dispatch_process adds p to the queue and changes nothing else of it.    *)
LEMMA InsertPool ==
  ASSUME TypeOK, RingInv, Distinct, NEW p \in Proc, NEW ttd, p \notin Queued, Insert(p, ttd)
  PROVE  Distinct' /\ Queued' = Queued \cup {p}
<1> USE SizeAssumption
<1>0. process_queue_head \in Slot /\ process_count \in 0 .. MaxProcessCount
  BY DEF TypeOK
<1>1. PICK m \in 0 .. process_count : process_queue' = Inserted(p, m)
  BY DEF Insert
<1>2. process_count' = process_count + 1 /\ process_count < MaxProcessCount
      /\ process_queue_head' = process_queue_head
  BY DEF Insert
<1> DEFINE k == process_count - m
           q == process_queue
<1>3. Occupied' = {s \in Slot : FromHead(s) <= process_count}
  <2>1. \A s \in Slot : FromHead(s)' = FromHead(s) /\ FromHead(s) \in Slot
    BY <1>0, <1>2, FromHeadFacts DEF FromHead
  <2> QED BY <1>0, <1>2, <2>1 DEF Occupied
<1>4. \A s \in Occupied' : q'[s] = IF FromHead(s) < k THEN q[s]
                                   ELSE IF FromHead(s) = k THEN p ELSE q[Pred(s)]
  BY <1>1, <1>2, <1>3, InsertedFacts
<1>5. \A s \in Occupied' :
        /\ FromHead(s) \in Slot
        /\ FromHead(s) < k => s \in Occupied
        /\ FromHead(s) > k => Pred(s) \in Occupied /\ FromHead(Pred(s)) = FromHead(s) - 1
  <2> SUFFICES ASSUME NEW s \in Slot, FromHead(s) <= process_count
               PROVE  /\ FromHead(s) \in Slot
                      /\ FromHead(s) < k => s \in Occupied
                      /\ FromHead(s) > k => Pred(s) \in Occupied /\ FromHead(Pred(s)) = FromHead(s) - 1
    BY <1>3
  <2>1. /\ FromHead(s) \in Slot /\ Pred(s) \in Slot /\ k \in 0 .. process_count
        /\ FromHead(s) > 0 => FromHead(Pred(s)) = FromHead(s) - 1
    BY <1>0, FromHeadFacts, StepTypes
  <2> HIDE DEF k
  <2> QED BY <1>0, <2>1 DEF Occupied
<1>6. \A s, t \in Slot : FromHead(s) = FromHead(t) => s = t
  BY <1>0, FromHeadFacts
<1>7. \A s \in Occupied : q[s] # p
  BY DEF Queued
<1>8. Distinct'
  <2> SUFFICES ASSUME NEW s \in Occupied', NEW t \in Occupied', q'[s] = q'[t], s # t PROVE FALSE
    BY DEF Distinct
  <2>1. s \in Slot /\ t \in Slot /\ FromHead(s) # FromHead(t)
    BY <1>3, <1>6
  <2> HIDE DEF q, k
  <2>2. k \in 0 .. process_count
    BY <1>0 DEF k
  <2>3. CASE FromHead(s) = k \/ FromHead(t) = k
    BY <1>4, <1>5, <1>7, <2>1, <2>2, <2>3
  <2>4. CASE FromHead(s) # k /\ FromHead(t) # k
    <3> DEFINE o(x) == IF FromHead(x) < k THEN x ELSE Pred(x)
    <3>1. /\ o(s) \in Occupied /\ o(t) \in Occupied /\ q[o(s)] = q[o(t)]
          /\ FromHead(o(s)) = IF FromHead(s) < k THEN FromHead(s) ELSE FromHead(s) - 1
          /\ FromHead(o(t)) = IF FromHead(t) < k THEN FromHead(t) ELSE FromHead(t) - 1
      BY <1>4, <1>5, <2>2, <2>4
    <3>2. o(s) = o(t)
      BY <3>1 DEF Distinct, q
    <3> QED BY <1>5, <2>1, <2>2, <2>4, <3>1, <3>2
  <2> QED BY <2>3, <2>4
<1>9. Queued' \subseteq Queued \cup {p}
  <2>1. ASSUME NEW s \in Occupied' PROVE q'[s] \in Queued \cup {p}
    <3>1. FromHead(s) \in Int /\ k \in Int
      BY <1>0, <1>5
    <3>2. FromHead(s) < k => q[s] \in Queued
      BY <1>5 DEF Queued
    <3>3. FromHead(s) > k => q[Pred(s)] \in Queued
      BY <1>5 DEF Queued
    <3> HIDE DEF k
    <3> QED BY <1>4, <3>1, <3>2, <3>3
  <2> QED BY <2>1 DEF Queued
<1>10. p \in Queued'
  <2>1. PICK s \in Slot : FromHead(s) = k
    BY <1>0, <1>2, FromHeadFacts
  <2> QED BY <1>0, <1>3, <1>4, <2>1 DEF Queued
<1>11. ASSUME NEW s \in Occupied PROVE q[s] \in Queued'
  <2>1. s \in Slot /\ FromHead(s) \in Slot /\ FromHead(s) < process_count
    BY <1>0, FromHeadFacts DEF Occupied
  <2>2. CASE FromHead(s) < k
    BY <1>0, <1>3, <1>4, <2>1, <2>2 DEF Queued
  <2>3. CASE FromHead(s) >= k
    <3>1. PICK t \in Slot : FromHead(t) = FromHead(s) + 1
      BY <1>0, <1>2, <2>1, FromHeadFacts
    <3>2. t \in Occupied' /\ FromHead(t) > k
      BY <1>0, <1>3, <2>1, <2>3, <3>1
    <3>3. Pred(t) = s
      BY <1>5, <1>6, <2>1, <3>1, <3>2, StepTypes
    <3>4. q'[t] = q[s]
      BY <1>0, <1>4, <2>1, <3>1, <3>2, <3>3
    <3> QED BY <3>2, <3>4 DEF Queued
  <2>4. k \in Int /\ FromHead(s) \in Int
    BY <1>0, <2>1
  <2> HIDE DEF k
  <2> QED BY <2>2, <2>3, <2>4
<1>12. Queued \subseteq Queued'
  BY <1>11 DEF Queued
<1> QED BY <1>8, <1>9, <1>10, <1>12

(* next_process takes one process out of the queue and leaves the others.  *)
LEMMA NextPool ==
  ASSUME TypeOK, RingInv, Distinct, process_count < MaxProcessCount, NextProcess
  PROVE  /\ Distinct'
         /\ current_process' \in Queued
         /\ Queued' = Queued \ {current_process'}
<1> USE SizeAssumption
<1>0. /\ process_queue_head \in Slot /\ process_count \in 1 .. MaxProcessCount
      /\ process_queue \in [Slot -> Proc \cup {NoProc}]
  BY DEF TypeOK, NextProcess
<1>1. PICK n \in 0 .. process_count :
        /\ process_queue' = MovedUp(n)
        /\ \E s \in Occupied : FromHead(s) = Scanned(n) /\ current_process' = process_queue[s]
  BY DEF NextProcess
<1>2. process_count' = process_count - 1 /\ process_queue_head' = Succ(process_queue_head)
  BY DEF NextProcess
<1> DEFINE k == Scanned(n)
           q == process_queue
<1>3. k \in 0 .. process_count - 1 /\ n \in 0 .. process_count /\ (n = k \/ (n = k + 1 /\ n = process_count))
  BY <1>0, <1>1 DEF Scanned
<1>4. PICK c \in Occupied : FromHead(c) = k /\ current_process' = q[c]
  BY <1>1
<1> HIDE DEF k
<1>5. \A s \in Slot : FromHead(s) \in Slot
  BY <1>0, FromHeadFacts
<1>6. Occupied' = {s \in Slot : FromHead(s) \in 1 .. process_count - 1}
  <2>1. \A s \in Slot : FromHead(s)' = IF FromHead(s) = 0 THEN MaxProcessCount - 1
                                       ELSE FromHead(s) - 1
    BY <1>0, <1>2 DEF FromHead, Succ
  <2>2. \A s \in Slot : FromHead(s)' < process_count' <=> FromHead(s) \in 1 .. process_count - 1
    <3> SUFFICES ASSUME NEW s \in Slot
                 PROVE  FromHead(s)' < process_count' <=> FromHead(s) \in 1 .. process_count - 1
      OBVIOUS
    <3>1. FromHead(s) \in Slot /\ process_count \in 1 .. MaxProcessCount
      BY <1>0, <1>5
    <3>2. FromHead(s)' = IF FromHead(s) = 0 THEN MaxProcessCount - 1 ELSE FromHead(s) - 1
      BY <2>1
    <3> QED BY <1>2, <3>1, <3>2
  <2> QED BY <2>2 DEF Occupied
<1>7. \A s \in Occupied' :
        /\ FromHead(s) \in 1 .. process_count - 1
        /\ s \in Occupied
        /\ Pred(s) \in Occupied /\ FromHead(Pred(s)) = FromHead(s) - 1
  <2> SUFFICES ASSUME NEW s \in Slot, FromHead(s) \in 1 .. process_count - 1
               PROVE  /\ s \in Occupied
                      /\ Pred(s) \in Occupied /\ FromHead(Pred(s)) = FromHead(s) - 1
    BY <1>6
  <2>1. Pred(s) \in Slot /\ FromHead(Pred(s)) = FromHead(s) - 1
    BY <1>0, FromHeadFacts, StepTypes
  <2> QED BY <1>0, <2>1 DEF Occupied
<1>8. \A s \in Occupied' : q'[s] = IF FromHead(s) <= k THEN q[Pred(s)] ELSE q[s]
  <2> SUFFICES ASSUME NEW s \in Occupied' PROVE q'[s] = IF FromHead(s) <= k THEN q[Pred(s)] ELSE q[s]
    OBVIOUS
  <2>1. s \in Slot /\ FromHead(s) \in 1 .. process_count - 1
    BY <1>6
  <2> QED BY <1>0, <1>1, <1>3, <2>1 DEF MovedUp
<1>9. \A s, t \in Slot : FromHead(s) = FromHead(t) => s = t
  BY <1>0, FromHeadFacts
<1> DEFINE o(s) == IF FromHead(s) <= k THEN Pred(s) ELSE s
<1>10. \A s \in Occupied' :
         /\ o(s) \in Occupied /\ q'[s] = q[o(s)] /\ FromHead(o(s)) # k
         /\ FromHead(o(s)) = IF FromHead(s) <= k THEN FromHead(s) - 1 ELSE FromHead(s)
  BY <1>3, <1>7, <1>8
<1>11. Distinct'
  <2> SUFFICES ASSUME NEW s \in Occupied', NEW t \in Occupied', q'[s] = q'[t] PROVE s = t
    BY DEF Distinct
  <2>1. o(s) = o(t)
    BY <1>10 DEF Distinct
  <2>2. FromHead(s) = FromHead(t)
    BY <1>3, <1>7, <1>10, <2>1
  <2> QED BY <1>6, <1>9, <2>2
<1>12. current_process' \in Queued
  BY <1>4 DEF Queued
<1>13. Queued' \subseteq Queued \ {current_process'}
  <2>1. ASSUME NEW s \in Occupied' PROVE q'[s] \in Queued /\ q'[s] # q[c]
    <3>1. o(s) # c
      BY <1>4, <1>10
    <3> QED BY <1>4, <1>10, <3>1 DEF Queued, Distinct
  <2> QED BY <1>4, <2>1 DEF Queued
<1>14. ASSUME NEW s \in Occupied, s # c PROVE q[s] \in Queued'
  <2>1. s \in Slot /\ FromHead(s) \in 0 .. process_count - 1 /\ FromHead(s) # k
    <3>1. s \in Slot /\ c \in Slot /\ FromHead(s) < process_count
      BY <1>4, <1>14 DEF Occupied
    <3>2. FromHead(s) \in Slot /\ FromHead(s) # k
      BY <1>4, <1>5, <1>9, <1>14, <3>1
    <3> QED BY <1>0, <3>1, <3>2
  <2>2. CASE FromHead(s) > k
    <3>1. s \in Occupied'
      BY <1>3, <1>6, <2>1, <2>2
    <3>2. q'[s] = q[s]
      BY <1>3, <1>8, <2>1, <2>2, <3>1
    <3> QED BY <3>1, <3>2 DEF Queued
  <2>3. CASE FromHead(s) < k
    <3>1. PICK t \in Slot : FromHead(t) = FromHead(s) + 1
      <4>1. FromHead(s) + 1 \in Slot
        BY <1>0, <1>3, <2>1, <2>3
      <4> QED BY <1>0, <4>1, FromHeadFacts
    <3>2. t \in Occupied' /\ FromHead(t) <= k
      <4>1. FromHead(t) \in 1 .. process_count - 1 /\ FromHead(t) <= k
        BY <1>0, <1>3, <2>1, <2>3, <3>1
      <4> QED BY <1>6, <4>1
    <3>3. Pred(t) = s
      BY <1>7, <1>9, <2>1, <3>1, <3>2, StepTypes
    <3>4. q'[t] = q[s]
      BY <1>8, <3>2, <3>3
    <3> QED BY <3>2, <3>4 DEF Queued
  <2> QED BY <1>3, <2>1, <2>2, <2>3
<1>15. Queued \ {current_process'} \subseteq Queued'
  BY <1>4, <1>14 DEF Queued
<1> QED BY <1>11, <1>12, <1>13, <1>15
-----------------------------------------------------------------------------
IInv == PlainType /\ RingType /\ RingInv /\ PoolInv

AbstractRunning == IF control = "process" THEN current_process ELSE NoProc

(* Steps that leave the ring and the statuses alone.                       *)
LEMMA SameQueue ==
  ASSUME UNCHANGED ring
  PROVE  Queued' = Queued /\ (Distinct => Distinct')
  BY DEF ring, Queued, Occupied, FromHead, Distinct

LEMMA InitQueue == Init => Occupied = {0} /\ Queued = {Main}
  BY SizeAssumption DEF Init, Occupied, Queued, FromHead

LEMMA PoolInit == Init => PoolInv
<1> SUFFICES ASSUME Init PROVE PoolInv
  OBVIOUS
<1> QED BY InitQueue, ProcAssumption DEF Init, PoolInv, Distinct, QueuedWait, InFlight

(* What each kind of step does to the invariant and, seen from outside, to *)
(* the pool: Live and AbstractRunning are the variables of ProcessPool.    *)
LEMMA PoolNextProcess ==
  ASSUME FewProcesses, IInv, NextProcess
  PROVE  PoolInv' /\ Live' = Live /\ AbstractRunning' = AbstractRunning
<1>0. TypeOK
  BY TypeSplit DEF IInv
<1>1. process_count < MaxProcessCount
  BY NotFull DEF IInv, PoolInv
<1>2. Distinct' /\ current_process' \in Queued /\ Queued' = Queued \ {current_process'}
  BY <1>0, <1>1, NextPool DEF IInv, PoolInv
<1>3. /\ current_process' \in Proc
      /\ status' \in [Proc -> ProcessState]
      /\ control = "next" /\ control' \in {"switch", "dispatch"}
      /\ \A p \in Queued' : status'[p] = status[p]
      /\ control' = "switch" => status'[current_process'] \in {Ready, Running}
      /\ control' = "dispatch" => status'[current_process'] = Blocked
  <2>1. PICK n \in 0 .. process_count, s \in Occupied :
          /\ IsBlockedCount(n)
          /\ FromHead(s) = Scanned(n)
          /\ current_process' = process_queue[s]
          /\ status' = IF n < process_count /\ status[process_queue[s]] = Blocked
                       THEN [status EXCEPT ![process_queue[s]] = Running]
                       ELSE status
          /\ control' = IF n < process_count THEN "switch" ELSE "dispatch"
    BY DEF NextProcess
  <2>2. process_queue[s] \in Proc /\ status \in [Proc -> ProcessState] /\ process_count \in Nat
        /\ process_queue[s] \in Queued
    BY DEF IInv, RingInv, PlainType, RingType, Queued
  <2>3. status[process_queue[s]] \in {Ready, Blocked}
    BY <2>2 DEF IInv, PoolInv, QueuedWait
  <2>4. n = process_count => status[process_queue[s]] = Blocked
    <3> SUFFICES ASSUME n = process_count PROVE ~Runnable(process_queue[s])
      BY DEF Runnable
    <3>1. FromHead(s) < n
      BY <2>1, <2>2 DEF Scanned, Occupied
    <3> QED BY <2>1, <3>1 DEF IsBlockedCount
  <2> QED BY <1>2, <2>1, <2>2, <2>3, <2>4 DEF NextProcess
<1>4. InFlight' = {current_process'} /\ InFlight = {}
  BY <1>3 DEF InFlight
<1>5. PoolInv'
  BY <1>2, <1>3, <1>4 DEF PoolInv, QueuedWait, IInv
<1>6. Live = Queued /\ Live' = Queued' \cup {current_process'}
  BY <1>3, <1>4 DEF Live
<1> QED BY <1>2, <1>3, <1>5, <1>6 DEF AbstractRunning

LEMMA PoolSwitch ==
  ASSUME IInv, SwitchProcess
  PROVE  /\ PoolInv' /\ Live' = Live
         /\ AbstractRunning = NoProc /\ AbstractRunning' \in Live
<1>1. Queued' = Queued /\ Distinct'
  BY SameQueue DEF SwitchProcess, IInv, PoolInv
<1>2. /\ control = "switch" /\ control' = "process" /\ current_process' = current_process
      /\ current_process \in Proc
      /\ status \in [Proc -> ProcessState]
      /\ status' = [status EXCEPT ![current_process] = Done]
  BY DEF SwitchProcess, IInv, PlainType
<1>3. InFlight = {current_process} /\ InFlight' = {current_process} /\ current_process \notin Queued
  BY <1>2 DEF InFlight, IInv, PoolInv
<1>4. \A p \in Queued : status'[p] = status[p]
  BY <1>2, <1>3
<1>5. PoolInv'
  BY <1>1, <1>2, <1>3, <1>4 DEF PoolInv, QueuedWait, IInv
<1> QED BY <1>1, <1>2, <1>3, <1>5 DEF Live, AbstractRunning

LEMMA PoolYield ==
  ASSUME IInv, NEW wait, NEW deadline, NEW ticks, YieldBlocked(wait, deadline, ticks)
  PROVE  PoolInv' /\ Live' = Live /\ AbstractRunning # NoProc /\ AbstractRunning' = NoProc
<1>1. Queued' = Queued /\ Distinct'
  BY SameQueue DEF YieldBlocked, IInv, PoolInv
<1>2. /\ control = "process" /\ control' = "dispatch" /\ current_process' = current_process
      /\ current_process \in Proc
      /\ status \in [Proc -> ProcessState]
      /\ status' = [status EXCEPT ![current_process] = Blocked]
  BY DEF YieldBlocked, IInv, PlainType
<1>3. InFlight = {current_process} /\ InFlight' = {current_process} /\ current_process \notin Queued
  BY <1>2 DEF InFlight, IInv, PoolInv
<1>4. status'[current_process] = Blocked /\ \A p \in Queued : status'[p] = status[p]
  BY <1>2, <1>3
<1>5. PoolInv'
  BY <1>1, <1>2, <1>3, <1>4 DEF PoolInv, QueuedWait, IInv
<1> QED BY <1>1, <1>2, <1>3, <1>4, <1>5, ProcAssumption DEF Live, AbstractRunning

LEMMA PoolFinish ==
  ASSUME IInv, Finish
  PROVE  /\ PoolInv'
         /\ AbstractRunning # NoProc /\ AbstractRunning' = NoProc
         /\ Live' = Live \ {AbstractRunning}
<1>1. Queued' = Queued /\ Distinct'
  BY SameQueue DEF Finish, IInv, PoolInv
<1>2. /\ control = "process" /\ control' = "dispatch" /\ current_process' = current_process
      /\ current_process \in Proc /\ status' = status /\ status[current_process] = Done
  BY DEF Finish, IInv, PlainType, PoolInv
<1>3. InFlight = {current_process} /\ InFlight' = {current_process} /\ current_process \notin Queued
  BY <1>2 DEF InFlight, IInv, PoolInv
<1>4. PoolInv'
  BY <1>1, <1>2, <1>3 DEF PoolInv, QueuedWait, IInv
<1> QED BY <1>1, <1>2, <1>3, <1>4, ProcAssumption DEF Live, AbstractRunning

LEMMA PoolStart ==
  ASSUME FewProcesses, IInv, NEW p \in Proc, StartProcess(p)
  PROVE  /\ PoolInv'
         /\ AbstractRunning # NoProc /\ AbstractRunning' = AbstractRunning
         /\ p \notin Live /\ Live' = Live \cup {p}
<1>0. TypeOK /\ process_count < MaxProcessCount /\ process_count \in Nat
  BY TypeSplit, NotFull DEF IInv, PoolInv, RingType
<1>1. Insert(p, 0)
  BY <1>0, SizeAssumption DEF StartProcess, DispatchProcess
<1>2. p \notin Queued /\ p \notin InFlight
  BY DEF StartProcess, Pool
<1>3. Distinct' /\ Queued' = Queued \cup {p}
  BY <1>0, <1>1, <1>2, InsertPool DEF IInv, PoolInv
<1>4. /\ control = "process" /\ control' = "process" /\ current_process' = current_process
      /\ current_process \in Proc
      /\ status \in [Proc -> ProcessState]
      /\ status' = [status EXCEPT ![p] = Ready]
  BY DEF StartProcess, IInv, PlainType
<1>5. InFlight = {current_process} /\ InFlight' = {current_process} /\ p # current_process
  BY <1>2, <1>4 DEF InFlight
<1>6. status'[p] = Ready /\ \A x \in Proc : x # p => status'[x] = status[x]
  BY <1>4
<1>7. Queued \subseteq Proc
  BY DEF IInv, RingInv, Queued
<1>8. PoolInv'
  <2>1. Queued' \cap InFlight' = {}
    BY <1>3, <1>5 DEF IInv, PoolInv
  <2>2. QueuedWait'
    BY <1>3, <1>6, <1>7 DEF IInv, PoolInv, QueuedWait
  <2>3. status'[current_process] = Done
    BY <1>4, <1>5, <1>6 DEF IInv, PoolInv
  <2> QED BY <1>3, <1>4, <2>1, <2>2, <2>3 DEF PoolInv
<1> QED BY <1>2, <1>3, <1>4, <1>5, <1>8, ProcAssumption DEF Live, AbstractRunning

LEMMA PoolMain ==
  ASSUME FewProcesses, IInv, RtosMain
  PROVE  PoolInv' /\ Live' = Live /\ AbstractRunning' = AbstractRunning
<1>0. TypeOK /\ process_count < MaxProcessCount /\ process_count \in Nat
  BY TypeSplit, NotFull DEF IInv, PoolInv, RingType
<1>1. /\ control = "dispatch" /\ control' \in {"next", "halt"}
      /\ current_process \in Proc /\ status' = status
      /\ status[current_process] \in {Blocked, Done}
  BY DEF RtosMain, IInv, PlainType, PoolInv
<1>2. InFlight = {current_process} /\ InFlight' = {} /\ current_process \notin Queued
  BY <1>1 DEF InFlight, IInv, PoolInv
<1>3. CASE status[current_process] = Done
  <2>1. Queued' = Queued /\ Distinct'
    BY <1>3, SameQueue DEF RtosMain, Discard, IInv, PoolInv
  <2>2. PoolInv'
    BY <1>1, <1>2, <2>1 DEF PoolInv, QueuedWait, IInv
  <2> QED BY <1>1, <1>2, <1>3, <2>1, <2>2 DEF Live, AbstractRunning
<1>4. CASE status[current_process] # Done
  <2>1. Insert(current_process, TimeToDeadline(current_process))
    BY <1>0, <1>4, SizeAssumption DEF RtosMain, DispatchProcess
  <2>2. Distinct' /\ Queued' = Queued \cup {current_process}
    BY <1>0, <1>1, <1>2, <2>1, InsertPool DEF IInv, PoolInv
  <2>3. QueuedWait'
    BY <1>1, <1>4, <2>2 DEF IInv, PoolInv, QueuedWait
  <2>4. PoolInv'
    BY <1>1, <1>2, <2>2, <2>3 DEF PoolInv
  <2> QED BY <1>1, <1>2, <1>4, <2>2, <2>4 DEF Live, AbstractRunning
<1> QED BY <1>3, <1>4

LEMMA PoolSame ==
  ASSUME IInv, UNCHANGED <<ring, current_process, status, control>>
  PROVE  PoolInv' /\ Live' = Live /\ AbstractRunning' = AbstractRunning
<1>1. Queued' = Queued /\ Distinct'
  BY SameQueue DEF IInv, PoolInv
<1>2. InFlight' = InFlight
  BY DEF InFlight
<1>3. PoolInv'
  BY <1>1, <1>2 DEF PoolInv, QueuedWait, IInv
<1> QED BY <1>1, <1>2, <1>3 DEF Live, AbstractRunning
-----------------------------------------------------------------------------
LEMMA PoolStep ==
  ASSUME FewProcesses, IInv, [Next]_vars
  PROVE  PoolInv' /\ [Abstract!PoolNext]_<<Live, AbstractRunning>>
<1>1. CASE NextProcess
  BY <1>1, PoolNextProcess
<1>2. CASE SwitchProcess
  <2>1. AbstractRunning' \in Proc
    BY <1>2 DEF SwitchProcess, AbstractRunning, IInv, PlainType
  <2> QED BY <1>2, <2>1, PoolSwitch DEF Abstract!PoolNext, Abstract!Run, AbstractRunning
<1>3. CASE Yield
  <2>1. \E wait, deadline, ticks : YieldBlocked(wait, deadline, ticks)
    BY <1>3 DEF Yield, WaitUntil, WaitUntilOrTimeout, RtosDelay
  <2> QED BY <2>1, PoolYield DEF Abstract!PoolNext, Abstract!Yield, AbstractRunning
<1>4. CASE Finish
  BY <1>4, PoolFinish DEF Abstract!PoolNext, Abstract!Return, AbstractRunning
<1>5. ASSUME NEW q \in Proc, StartProcess(q)
      PROVE  PoolInv' /\ Abstract!PoolNext
  BY <1>5, PoolStart DEF Abstract!PoolNext, Abstract!Start, AbstractRunning
<1>6. ASSUME NEW v \in Variable, NEW x \in Value, Assign(v, x)
      PROVE  PoolInv' /\ UNCHANGED <<Live, AbstractRunning>>
  BY <1>6, PoolSame DEF Assign
<1>7. CASE RtosMain
  BY <1>7, PoolMain
<1>8. CASE Tick
  BY <1>8, PoolSame DEF Tick
<1>9. ASSUME NEW v \in InterruptVariable, Interrupt(v)
      PROVE  PoolInv' /\ UNCHANGED <<Live, AbstractRunning>>
  BY <1>9, PoolSame DEF Interrupt
<1>10. CASE UNCHANGED vars
  BY <1>10, PoolSame DEF vars
<1> QED BY <1>1, <1>2, <1>3, <1>4, <1>5, <1>6, <1>7, <1>8, <1>9, <1>10 DEF Next

(* The ring stays consistent as long as there are fewer processes than     *)
(* slots: no process is queued twice, or queued while it runs.             *)
THEOREM Consistent ==
  ASSUME FewProcesses
  PROVE  Spec => []IInv
<1>1. Init => IInv
  BY TypeInit, TypeSplit, PoolInit DEF IInv
<1>2. IInv /\ [Next]_vars => IInv'
  BY TypeStep, TypeSplit, PoolStep DEF IInv
<1> QED BY <1>1, <1>2, PTL DEF Spec

LEMMA ModOnce ==
  ASSUME NEW x \in Nat, x < 2 * MaxProcessCount
  PROVE  x % MaxProcessCount = IF x >= MaxProcessCount THEN x - MaxProcessCount ELSE x
  BY SizeAssumption

(* The counters of the ring agree, no process is in it twice or both in it *)
(* and running, and no entry of it is running or finished.                 *)
THEOREM RingAndStatus ==
  ASSUME FewProcesses
  PROVE  Spec => [](RingConsistent /\ QueuedWait)
<1>1. IInv => RingConsistent /\ QueuedWait
  <2> SUFFICES ASSUME IInv PROVE RingConsistent /\ QueuedWait
    OBVIOUS
  <2>1. process_queue_head \in Slot /\ process_count \in 0 .. MaxProcessCount
    BY DEF IInv, RingType
  <2>2. /\ process_queue_head + process_count \in Nat
        /\ process_queue_head + process_count < 2 * MaxProcessCount
    BY <2>1, SizeAssumption
  <2>3. process_queue_tail = (process_queue_head + process_count) % MaxProcessCount
    <3> DEFINE x == process_queue_head + process_count
    <3>1. process_queue_tail = IF x >= MaxProcessCount THEN x - MaxProcessCount ELSE x
      <4>1. RingInv
        BY DEF IInv
      <4> QED BY <2>1, <4>1, SizeAssumption DEF RingInv
    <3> HIDE DEF x
    <3>2. x % MaxProcessCount = IF x >= MaxProcessCount THEN x - MaxProcessCount ELSE x
      BY <2>2, ModOnce DEF x
    <3> QED BY <3>1, <3>2 DEF x
  <2>4. NoProc \notin Queued
    BY ProcAssumption DEF IInv, RingInv, Queued
  <2> QED BY <2>3, <2>4 DEF IInv, PoolInv, Distinct, RingConsistent
<1> QED BY <1>1, Consistent, PTL

(* With fewer processes than slots the scheduler implements ProcessPool:   *)
(* it never drops or duplicates a process, whatever the number of          *)
(* processes, the delays and the interleaving of interrupts.               *)
THEOREM Implements ==
  ASSUME FewProcesses
  PROVE  Spec => PoolSpec
<1>1. Init => Abstract!PoolInit
  BY InitQueue DEF Init, Abstract!PoolInit, Live, InFlight
<1>2. IInv /\ [Next]_vars => [Abstract!PoolNext]_<<Live, AbstractRunning>>
  BY PoolStep
<1> QED BY <1>1, <1>2, Consistent, PTL DEF Spec, PoolSpec, Abstract!PoolSpec, AbstractRunning

(* A process that has not returned is never dropped: one that goes is the   *)
(* one that runs.                                                          *)
THEOREM NoneLost ==
  ASSUME FewProcesses
  PROVE  Spec => NoProcessLost
<1>1. ASSUME IInv, [Next]_vars, NEW p \in Proc, p \in Live, p \notin Live'
      PROVE  RunsNow(p)
  <2>1. Abstract!PoolNext BY <1>1, PoolStep
  <2>2. Live' = Live \ {AbstractRunning} /\ AbstractRunning # NoProc
    BY <1>1, <2>1 DEF AbstractRunning, Abstract!PoolNext, Abstract!Start, Abstract!Run,
                      Abstract!Yield, Abstract!Return
  <2>3. p = AbstractRunning BY <1>1, <2>2
  <2> QED BY <2>2, <2>3 DEF AbstractRunning, RunsNow
<1>2. IInv /\ [Next]_vars
        => [\A p \in Proc : p \in Live /\ p \notin Live' => RunsNow(p)]_vars
  BY <1>1
<1> QED BY <1>2, Consistent, PTL DEF Spec, NoProcessLost

(* Interrupts come back: the early return for a full ring, which would take  *)
(* them from a running process, is never taken.                            *)
THEOREM InterruptsReturn ==
  ASSUME FewProcesses
  PROVE  Spec => InterruptsComeBack
<1> DEFINE A == ~irq' => \/ control = "switch" /\ status[current_process] = Ready
                         \/ control = "dispatch" /\ status[current_process] = Done
                         \/ ~irq /\ control' = control /\ ring' = ring
<1>1. ASSUME IInv, Next PROVE A
  <2>0. process_count < MaxProcessCount /\ process_count \in Nat
    BY <1>1, NotFull DEF IInv, PoolInv, RingType
  <2>1. ~(process_count >= MaxProcessCount) BY <2>0, SizeAssumption
  <2>2. CASE NextProcess BY <2>2, Zenon DEF NextProcess
  <2>3. CASE SwitchProcess BY <2>3, Zenon DEF SwitchProcess
  <2>4. CASE Yield BY <2>4 DEF Yield, WaitUntil, WaitUntilOrTimeout, RtosDelay, YieldBlocked
  <2>5. CASE Finish BY <2>5 DEF Finish
  <2>6. ASSUME NEW q \in Proc, StartProcess(q) PROVE A
    BY <2>1, <2>6 DEF StartProcess, DispatchProcess, Insert
  <2>7. CASE RtosMain
    <3>1. \/ status[current_process] = Done
          \/ DispatchProcess(current_process, TimeToDeadline(current_process))
      BY <2>7 DEF RtosMain
    <3>2. DispatchProcess(current_process, TimeToDeadline(current_process)) => irq' = TRUE
      BY <2>1 DEF DispatchProcess, Insert
    <3>3. control = "dispatch" BY <2>7 DEF RtosMain
    <3> QED BY <3>1, <3>2, <3>3
  <2>8. CASE Tick BY <2>8 DEF Tick, ring
  <2>9. ASSUME NEW v \in Variable, NEW x \in Value, Assign(v, x) PROVE A
    BY <2>9 DEF Assign, ring
  <2>10. ASSUME NEW v \in InterruptVariable, Interrupt(v) PROVE A
    BY <2>10 DEF Interrupt, ring
  <2> HIDE DEF A
  <2> QED BY <1>1, <2>2, <2>3, <2>4, <2>5, <2>6, <2>7, <2>8, <2>9, <2>10 DEF Next
<1>2. IInv /\ [Next]_vars => [A]_vars BY <1>1
<1> QED BY <1>2, Consistent, PTL DEF Spec, InterruptsComeBack
-----------------------------------------------------------------------------
(* The timer. Differences of timer values are told apart while they are    *)
(* less than half the timer's range.                                       *)
TimeRegister == 0 .. TimeMod - 1

LEMMA SinceIs ==
  ASSUME NEW a \in TimeRegister, NEW b \in TimeRegister
  PROVE  (a - b) % TimeMod = IF a >= b THEN a - b ELSE a - b + TimeMod
  BY SizeAssumption DEF TimeRegister

LEMMA SignedIs ==
  ASSUME NEW a \in TimeRegister, NEW b \in TimeRegister
  PROVE  /\ Signed(a - b) \in Int
         /\ Signed(a - b) \in {a - b, a - b + TimeMod, a - b - TimeMod}
         /\ 2 * Signed(a - b) < TimeMod /\ -TimeMod <= 2 * Signed(a - b)
<1> DEFINE m == (a - b) % TimeMod
<1>1. m = IF a >= b THEN a - b ELSE a - b + TimeMod
  BY SinceIs
<1>2. Signed(a - b) = IF 2 * m < TimeMod THEN m ELSE m - TimeMod
  BY DEF Signed
<1>3. a \in Int /\ b \in Int /\ 0 <= a /\ 0 <= b /\ a < TimeMod /\ b < TimeMod /\ TimeMod \in Int
  BY SizeAssumption DEF TimeRegister
<1> HIDE DEF m
<1> QED BY <1>1, <1>2, <1>3

(* A difference that is in the range, and right but for turns of the timer,*)
(* is the signed difference.                                               *)
LEMMA SignedUnique ==
  ASSUME NEW a \in TimeRegister, NEW b \in TimeRegister, NEW d \in Int,
         d \in {a - b - TimeMod, a - b, a - b + TimeMod},
         2 * d < TimeMod, -TimeMod < 2 * d
  PROVE  Signed(a - b) = d
<1>1. /\ Signed(a - b) \in Int
      /\ Signed(a - b) \in {a - b, a - b + TimeMod, a - b - TimeMod}
      /\ 2 * Signed(a - b) < TimeMod /\ -TimeMod <= 2 * Signed(a - b)
  BY SignedIs
<1>2. a \in Int /\ b \in Int /\ TimeMod \in Nat \ {0}
  BY SizeAssumption DEF TimeRegister
<1> HIDE DEF Signed
<1> DEFINE x == Signed(a - b)
<1>3. x \in Int /\ x \in {a - b, a - b + TimeMod, a - b - TimeMod}
      /\ 2 * x < TimeMod /\ -TimeMod <= 2 * x
  BY <1>1
<1> HIDE DEF x
<1>4. x = d
  BY <1>2, <1>3
<1> QED BY <1>4 DEF x

LEMMA AfterIs ==
  ASSUME NEW t \in TimeRegister, NEW n \in Nat, n < TimeMod
  PROVE  /\ (t + n) % TimeMod \in TimeRegister
         /\ (t + n) % TimeMod = IF t + n < TimeMod THEN t + n ELSE t + n - TimeMod
  BY SizeAssumption DEF TimeRegister

(* How long p is past its deadline; negative before it. *)
Late(p) == Signed(now - return_deadline[p])

(* No wait is longer, and no process later, than half the timer's range    *)
(* can hold (45 seconds on this processor).                                *)
Horizon(h) ==
  /\ h \in Nat
  /\ \A n \in Ticks : n <= h
  /\ 2 * (h + MaxLate) < TimeMod /\ 2 * (h + MaxSlice) < TimeMod

LEMMA HorizonFacts ==
  ASSUME NEW h, Horizon(h)
  PROVE  h \in Nat /\ h < TimeMod /\ MaxLate \in Nat /\ MaxSlice \in Nat /\ TimeMod \in Nat
         /\ 2 * h < TimeMod /\ 2 * (h + MaxLate) < TimeMod /\ 2 * (h + MaxSlice) < TimeMod
  BY SizeAssumption DEF Horizon

LEMMA LateIs ==
  ASSUME TypeOK, NEW p \in Proc
  PROVE  /\ now \in TimeRegister /\ return_deadline[p] \in TimeRegister
         /\ Late(p) \in Int
         /\ Late(p) \in {now - return_deadline[p], now - return_deadline[p] + TimeMod,
                         now - return_deadline[p] - TimeMod}
         /\ 2 * Late(p) < TimeMod /\ -TimeMod <= 2 * Late(p)
<1>1. now \in TimeRegister /\ return_deadline[p] \in TimeRegister
  BY DEF TypeOK, TimeRegister
<1> QED BY <1>1, SignedIs DEF Late

(* A tick makes everybody one tick later. *)
LEMMA LateTick ==
  ASSUME TypeOK, NEW p \in Proc, 1 < TimeMod, now' = (now + 1) % TimeMod,
         UNCHANGED return_deadline, 2 * (Late(p) + 1) < TimeMod
  PROVE  Late(p)' = Late(p) + 1
<1>1. now \in TimeRegister /\ return_deadline[p] \in TimeRegister /\ TimeMod \in Nat
  BY LateIs, SizeAssumption
<1>2. now' \in TimeRegister /\ now' \in {now + 1, now + 1 - TimeMod}
  BY <1>1, AfterIs
<1>3. /\ Late(p) \in Int
      /\ Late(p) \in {now - return_deadline[p], now - return_deadline[p] + TimeMod,
                      now - return_deadline[p] - TimeMod}
      /\ -TimeMod <= 2 * Late(p)
  BY LateIs
<1> DEFINE d == Late(p) + 1
           b == return_deadline[p]
<1> HIDE DEF Late
<1>4. d \in Int /\ 2 * d < TimeMod /\ -TimeMod < 2 * d
  BY <1>1, <1>3
<1>5. now' \in Int /\ now \in Int /\ b \in Int /\ 0 <= now' /\ now' < TimeMod /\ 0 <= b /\ b < TimeMod
  BY <1>1, <1>2 DEF TimeRegister
<1>6. d \in {now' - b - TimeMod, now' - b, now' - b + TimeMod}
  <2>1. d \in {now + 1 - b, now + 1 - b + TimeMod, now + 1 - b - TimeMod}
    BY <1>1, <1>3, <1>5
  <2> HIDE DEF d, b
  <2> QED BY <1>1, <1>2, <1>4, <1>5, <2>1
<1>7. Signed(now' - b) = d
  <2> HIDE DEF d
  <2> QED BY <1>1, <1>2, <1>4, <1>6, SignedUnique
<1>8. return_deadline' = return_deadline
  OBVIOUS
<1> QED BY <1>7, <1>8 DEF Late

(* A process that yields is early by the length of its wait. *)
LEMMA LateWait ==
  ASSUME NEW t \in TimeRegister, NEW n \in Nat, 2 * n < TimeMod, NEW b, b = (t + n) % TimeMod
  PROVE  Signed(t - b) = -n
<1>1. TimeMod \in Nat /\ n < TimeMod BY SizeAssumption
<1>2. b \in TimeRegister /\ b \in {t + n, t + n - TimeMod}
  BY <1>1, AfterIs
<1>3. -n \in {t - b - TimeMod, t - b, t - b + TimeMod} /\ -n \in Int
  BY <1>1, <1>2 DEF TimeRegister
<1>4. 2 * (-n) < TimeMod /\ -TimeMod < 2 * (-n) BY <1>1
<1> QED BY <1>2, <1>3, <1>4, SignedUnique

(* What dispatch_process compares, and DeadlineOrder, in terms of lateness. *)
LEMMA TimeToDeadlineIs ==
  ASSUME TypeOK, NEW p \in Proc, -TimeMod < 2 * Late(p)
  PROVE  Signed(return_deadline[p] - now) = -Late(p)
<1>1. /\ now \in TimeRegister /\ return_deadline[p] \in TimeRegister /\ TimeMod \in Nat
      /\ now \in Int /\ return_deadline[p] \in Int
      /\ Late(p) \in Int
      /\ Late(p) \in {now - return_deadline[p], now - return_deadline[p] + TimeMod,
                      now - return_deadline[p] - TimeMod}
      /\ 2 * Late(p) < TimeMod
  BY LateIs, SizeAssumption DEF TimeRegister
<1> DEFINE d == -Late(p)
           b == return_deadline[p]
<1>2. /\ d \in Int /\ 2 * d < TimeMod /\ -TimeMod < 2 * d
      /\ d \in {b - now - TimeMod, b - now, b - now + TimeMod}
  <2> HIDE DEF Late
  <2> QED BY <1>1
<1> HIDE DEF d
<1>3. Signed(b - now) = d BY <1>1, <1>2, SignedUnique
<1> QED BY <1>3 DEF d

LEMMA DifferenceIs ==
  ASSUME TypeOK, NEW p \in Proc, NEW q \in Proc,
         2 * (Late(q) - Late(p)) < TimeMod, -TimeMod < 2 * (Late(q) - Late(p))
  PROVE  Signed(return_deadline[p] - return_deadline[q]) = Late(q) - Late(p)
<1> DEFINE a == return_deadline[p]
           b == return_deadline[q]
           d == Late(q) - Late(p)
<1>1. /\ a \in TimeRegister /\ b \in TimeRegister /\ TimeMod \in Nat /\ now \in Int
      /\ a \in Int /\ b \in Int /\ 0 <= a /\ a < TimeMod /\ 0 <= b /\ b < TimeMod
      /\ Late(p) \in Int /\ Late(p) \in {now - a, now - a + TimeMod, now - a - TimeMod}
      /\ Late(q) \in Int /\ Late(q) \in {now - b, now - b + TimeMod, now - b - TimeMod}
  BY LateIs, SizeAssumption DEF TimeRegister
<1>2. d \in Int /\ d \in {a - b - TimeMod, a - b, a - b + TimeMod}
  <2> HIDE DEF Late, a, b
  <2>1. d \in Int /\ d \in {a - b, a - b + TimeMod, a - b - TimeMod, a - b + 2 * TimeMod, a - b - 2 * TimeMod}
    BY <1>1
  <2>2. 2 * d < TimeMod /\ -TimeMod < 2 * d OBVIOUS
  <2> HIDE DEF d
  <2> QED BY <1>1, <2>1, <2>2
<1>3. Signed(a - b) = d
  <2>1. 2 * d < TimeMod /\ -TimeMod < 2 * d OBVIOUS
  <2> HIDE DEF d, a, b
  <2> QED BY <1>1, <1>2, <2>1, SignedUnique
<1> QED BY <1>3
-----------------------------------------------------------------------------
(* dispatch_process keeps the order of the others and puts p behind what is *)
(* due no later and in front of what is due later.                         *)
LEMMA InsertOrder ==
  ASSUME TypeOK, RingInv, NEW p \in Proc, NEW ttd, Insert(p, ttd),
         NEW s \in Occupied', NEW t \in Occupied', FromHead(s)' < FromHead(t)'
  PROVE  \/ \E u, v \in Occupied :
              /\ FromHead(u) < FromHead(v)
              /\ process_queue'[s] = process_queue[u] /\ process_queue'[t] = process_queue[v]
         \/ /\ process_queue'[s] = p
            /\ \E v \in Occupied : /\ process_queue'[t] = process_queue[v]
                                   /\ TimeToDeadline(process_queue[v]) > ttd
         \/ /\ process_queue'[t] = p
            /\ \E u, v \in Occupied : /\ FromHead(u) <= FromHead(v)
                                      /\ process_queue'[s] = process_queue[u]
                                      /\ TimeToDeadline(process_queue[v]) <= ttd
<1> USE SizeAssumption
<1>0. process_queue_head \in Slot /\ process_count \in 0 .. MaxProcessCount
  BY DEF TypeOK
<1>1. PICK m \in 0 .. process_count :
        MovedForDeadline(m, ttd) /\ process_queue' = Inserted(p, m)
  BY DEF Insert
<1>2. process_count' = process_count + 1 /\ process_count < MaxProcessCount
      /\ process_queue_head' = process_queue_head
  BY DEF Insert
<1> DEFINE k == process_count - m
           q == process_queue
<1>3. Occupied' = {x \in Slot : FromHead(x) <= process_count} /\ \A x \in Slot : FromHead(x)' = FromHead(x)
  <2>1. \A x \in Slot : FromHead(x)' = FromHead(x) /\ FromHead(x) \in Slot
    BY <1>0, <1>2, FromHeadFacts DEF FromHead
  <2> QED BY <1>0, <1>2, <2>1 DEF Occupied
<1>4. \A x \in Occupied' : q'[x] = IF FromHead(x) < k THEN q[x]
                                   ELSE IF FromHead(x) = k THEN p ELSE q[Pred(x)]
  BY <1>1, <1>2, <1>3, InsertedFacts
<1>5. k \in 0 .. process_count /\ m = process_count - k
  BY <1>0
<1> HIDE DEF k
<1>6. \A x \in Occupied' :
        /\ FromHead(x) \in Slot
        /\ FromHead(x) < k => x \in Occupied
        /\ FromHead(x) > k => /\ Pred(x) \in Occupied /\ FromHead(Pred(x)) = FromHead(x) - 1
  <2> SUFFICES ASSUME NEW x \in Slot, FromHead(x) <= process_count
               PROVE  /\ FromHead(x) \in Slot
                      /\ FromHead(x) < k => x \in Occupied
                      /\ FromHead(x) > k => Pred(x) \in Occupied /\ FromHead(Pred(x)) = FromHead(x) - 1
    BY <1>3
  <2>1. /\ FromHead(x) \in Slot /\ Pred(x) \in Slot
        /\ FromHead(x) > 0 => FromHead(Pred(x)) = FromHead(x) - 1
    BY <1>0, FromHeadFacts, StepTypes
  <2> QED BY <1>0, <1>5, <2>1 DEF Occupied
<1>7. FromHead(s) < FromHead(t) /\ s \in Slot /\ t \in Slot
  BY <1>3
<1>8. \A x \in Occupied : FromHead(x) \in Slot /\ FromHead(x) < process_count
                          /\ ToTail(x) = process_count - FromHead(x)
  <2> SUFFICES ASSUME NEW x \in Slot, FromHead(x) < process_count
               PROVE  FromHead(x) \in Slot /\ ToTail(x) = process_count - FromHead(x)
    BY DEF Occupied
  <2>1. FromHead(x) \in Slot BY <1>0, FromHeadFacts
  <2>2. FromHead(x) <= process_count BY <1>0, <2>1
  <2> QED BY <1>2, <2>1, <2>2, ToTailFacts
<1>9. CASE FromHead(s) # k /\ FromHead(t) # k
  <2> DEFINE o(x) == IF FromHead(x) < k THEN x ELSE Pred(x)
  <2>1. /\ o(s) \in Occupied /\ q'[s] = q[o(s)]
        /\ FromHead(o(s)) = IF FromHead(s) < k THEN FromHead(s) ELSE FromHead(s) - 1
    BY <1>4, <1>5, <1>6, <1>9
  <2>2. /\ o(t) \in Occupied /\ q'[t] = q[o(t)]
        /\ FromHead(o(t)) = IF FromHead(t) < k THEN FromHead(t) ELSE FromHead(t) - 1
    BY <1>4, <1>5, <1>6, <1>9
  <2>3. FromHead(s) \in Int /\ FromHead(t) \in Int BY <1>6
  <2>4. FromHead(o(s)) < FromHead(o(t))
    <3> HIDE DEF o
    <3> QED BY <1>5, <1>7, <1>9, <2>1, <2>2, <2>3
  <2> QED BY <2>1, <2>2, <2>4
<1>10. CASE FromHead(s) = k
  <2>1. FromHead(t) > k /\ Pred(t) \in Occupied /\ FromHead(Pred(t)) = FromHead(t) - 1
        /\ FromHead(t) \in Int /\ FromHead(t) <= process_count
    BY <1>3, <1>5, <1>6, <1>7, <1>10
  <2>2. q'[s] = p /\ q'[t] = q[Pred(t)] BY <1>4, <1>5, <1>10, <2>1
  <2>3. ToTail(Pred(t)) \in 1 .. m
    BY <1>0, <1>5, <1>8, <2>1
  <2>4. TimeToDeadline(q[Pred(t)]) > ttd BY <1>1, <2>1, <2>3 DEF MovedForDeadline
  <2> QED BY <2>1, <2>2, <2>4
<1>11. CASE FromHead(t) = k
  <2>1. FromHead(s) < k /\ s \in Occupied /\ FromHead(s) \in Slot BY <1>6, <1>7, <1>11
  <2>2. q'[t] = p /\ q'[s] = q[s] BY <1>4, <1>5, <1>11, <2>1
  <2>3. PICK v \in Slot : FromHead(v) = k - 1
    <3>1. k - 1 \in Slot BY <1>0, <1>2, <1>5, <2>1
    <3> QED BY <1>0, <3>1, FromHeadFacts
  <2>4. v \in Occupied BY <1>0, <1>5, <2>3 DEF Occupied
  <2>5. ToTail(v) = m + 1 BY <1>0, <1>5, <1>8, <2>3, <2>4
  <2>6. TimeToDeadline(q[v]) <= ttd BY <1>1, <2>4, <2>5 DEF MovedForDeadline
  <2>7. FromHead(s) <= FromHead(v) BY <1>0, <1>5, <2>1, <2>3
  <2> QED BY <2>1, <2>2, <2>4, <2>6, <2>7
<1> QED BY <1>9, <1>10, <1>11

(* next_process keeps the order of those it leaves in the queue.           *)
LEMMA NextOrder ==
  ASSUME TypeOK, RingInv, process_count < MaxProcessCount, NextProcess,
         NEW s \in Occupied', NEW t \in Occupied', FromHead(s)' < FromHead(t)'
  PROVE  \E u, v \in Occupied :
           /\ FromHead(u) < FromHead(v)
           /\ process_queue'[s] = process_queue[u] /\ process_queue'[t] = process_queue[v]
<1> USE SizeAssumption
<1>0. /\ process_queue_head \in Slot /\ process_count \in 1 .. MaxProcessCount
      /\ process_queue \in [Slot -> Proc \cup {NoProc}]
  BY DEF TypeOK, NextProcess
<1>1. PICK n \in 0 .. process_count : process_queue' = MovedUp(n)
  BY DEF NextProcess
<1>2. process_count' = process_count - 1 /\ process_queue_head' = Succ(process_queue_head)
  BY DEF NextProcess
<1> DEFINE k == Scanned(n)
           q == process_queue
<1>3. k \in 0 .. process_count - 1 /\ n \in 0 .. process_count /\ (n = k \/ (n = k + 1 /\ n = process_count))
  BY <1>0, <1>1 DEF Scanned
<1> HIDE DEF k
<1>4. \A x \in Slot : FromHead(x) \in Slot
  BY <1>0, FromHeadFacts
<1>5. \A x \in Slot : FromHead(x)' = IF FromHead(x) = 0 THEN MaxProcessCount - 1
                                     ELSE FromHead(x) - 1
  BY <1>0, <1>2 DEF FromHead, Succ
<1>6. ASSUME NEW x \in Occupied'
      PROVE  /\ FromHead(x) \in 1 .. process_count - 1 /\ x \in Slot
             /\ x \in Occupied
             /\ Pred(x) \in Occupied /\ FromHead(Pred(x)) = FromHead(x) - 1
             /\ q'[x] = IF FromHead(x) <= k THEN q[Pred(x)] ELSE q[x]
  <2>1. x \in Slot /\ FromHead(x)' < process_count' BY DEF Occupied
  <2>2. FromHead(x) \in 1 .. process_count - 1
    <3>1. FromHead(x) \in Slot BY <1>4, <2>1
    <3>2. FromHead(x)' = IF FromHead(x) = 0 THEN MaxProcessCount - 1 ELSE FromHead(x) - 1
      BY <1>5, <2>1
    <3> QED BY <1>0, <1>2, <2>1, <3>1, <3>2
  <2>3. Pred(x) \in Slot /\ FromHead(Pred(x)) = FromHead(x) - 1
    BY <1>0, <2>1, <2>2, FromHeadFacts, StepTypes
  <2>4. x \in Occupied /\ Pred(x) \in Occupied BY <1>0, <2>1, <2>2, <2>3 DEF Occupied
  <2>5. q'[x] = IF FromHead(x) <= k THEN q[Pred(x)] ELSE q[x]
    BY <1>0, <1>1, <1>3, <2>1, <2>2 DEF MovedUp
  <2> QED BY <2>1, <2>2, <2>3, <2>4, <2>5
<1> DEFINE o(x) == IF FromHead(x) <= k THEN Pred(x) ELSE x
<1>7. ASSUME NEW x \in Occupied'
      PROVE  /\ o(x) \in Occupied /\ q'[x] = q[o(x)] /\ FromHead(x) \in Int
             /\ FromHead(o(x)) = IF FromHead(x) <= k THEN FromHead(x) - 1 ELSE FromHead(x)
  BY <1>6
<1>8. FromHead(s) < FromHead(t)
  <2>1. FromHead(s)' = FromHead(s) - 1 /\ FromHead(t)' = FromHead(t) - 1
    BY <1>5, <1>6
  <2>2. FromHead(s) \in Int /\ FromHead(t) \in Int BY <1>7
  <2> QED BY <2>1, <2>2
<1> HIDE DEF o
<1>9. FromHead(o(s)) < FromHead(o(t))
  BY <1>3, <1>7, <1>8
<1> QED BY <1>7, <1>9
-----------------------------------------------------------------------------
(* The order of the queue, as a relation of processes. *)
Ahead(a, b) == \E s, t \in Occupied : /\ FromHead(s) < FromHead(t)
                                      /\ process_queue[s] = a /\ process_queue[t] = b

LEMMA InsertAhead ==
  ASSUME TypeOK, RingInv, NEW p \in Proc, NEW ttd, Insert(p, ttd),
         NEW a \in Proc, NEW b \in Proc, Ahead(a, b)'
  PROVE  \/ Ahead(a, b)
         \/ a = p /\ b \in Queued /\ TimeToDeadline(b) > ttd
         \/ /\ b = p /\ a \in Queued
            /\ \E c \in Proc : (c = a \/ Ahead(a, c)) /\ TimeToDeadline(c) <= ttd /\ c \in Queued
<1>1. PICK s \in Occupied', t \in Occupied' :
        FromHead(s)' < FromHead(t)' /\ process_queue'[s] = a /\ process_queue'[t] = b
  BY DEF Ahead
<1>2. CASE \E u, v \in Occupied :
             /\ FromHead(u) < FromHead(v)
             /\ process_queue'[s] = process_queue[u] /\ process_queue'[t] = process_queue[v]
  BY <1>1, <1>2 DEF Ahead
<1>3. CASE /\ process_queue'[s] = p
           /\ \E v \in Occupied : /\ process_queue'[t] = process_queue[v]
                                  /\ TimeToDeadline(process_queue[v]) > ttd
  BY <1>1, <1>3 DEF Queued
<1>4. CASE /\ process_queue'[t] = p
           /\ \E u, v \in Occupied : /\ FromHead(u) <= FromHead(v)
                                     /\ process_queue'[s] = process_queue[u]
                                     /\ TimeToDeadline(process_queue[v]) <= ttd
  <2>1. PICK u \in Occupied, v \in Occupied :
               /\ FromHead(u) <= FromHead(v) /\ process_queue[u] = a
               /\ TimeToDeadline(process_queue[v]) <= ttd
    BY <1>1, <1>4
  <2>2. u \in Slot /\ v \in Slot /\ FromHead(u) \in Slot /\ FromHead(v) \in Slot
    BY FromHeadFacts DEF Occupied, TypeOK
  <2>3. process_queue[v] = a \/ Ahead(a, process_queue[v])
    <3>1. CASE FromHead(u) = FromHead(v)
      BY <2>1, <2>2, <3>1, FromHeadFacts DEF TypeOK
    <3>2. CASE FromHead(u) < FromHead(v)
      BY <2>1, <3>2 DEF Ahead
    <3> QED BY <2>1, <2>2, <3>1, <3>2, SizeAssumption
  <2>4. process_queue[v] \in Proc /\ a \in Queued /\ process_queue[v] \in Queued
    BY <2>1 DEF RingInv, Queued
  <2> QED BY <1>1, <1>4, <2>1, <2>3, <2>4
<1> QED BY <1>1, <1>2, <1>3, <1>4, InsertOrder

LEMMA NextAhead ==
  ASSUME TypeOK, RingInv, process_count < MaxProcessCount, NextProcess,
         NEW a, NEW b, Ahead(a, b)'
  PROVE  Ahead(a, b)
<1>1. PICK s \in Occupied', t \in Occupied' :
        FromHead(s)' < FromHead(t)' /\ process_queue'[s] = a /\ process_queue'[t] = b
  BY DEF Ahead
<1>2. \E u, v \in Occupied :
             /\ FromHead(u) < FromHead(v)
             /\ process_queue'[s] = process_queue[u] /\ process_queue'[t] = process_queue[v]
  BY <1>1, NextOrder
<1> QED BY <1>1, <1>2 DEF Ahead

LEMMA AheadQueued ==
  ASSUME NEW a, NEW b, Ahead(a, b)
  PROVE  a \in Queued /\ b \in Queued
  BY DEF Ahead, Queued

(* Only one process is in the queue, or none: there is no order to keep.   *)
LEMMA AheadAlone ==
  ASSUME TypeOK, process_count <= 1, NEW a, NEW b, Ahead(a, b)
  PROVE  FALSE
<1>1. PICK s \in Occupied, t \in Occupied : FromHead(s) < FromHead(t)
  BY DEF Ahead
<1>2. s \in Slot /\ t \in Slot /\ FromHead(s) \in Slot /\ FromHead(t) \in Slot
      /\ FromHead(t) < process_count
  BY FromHeadFacts DEF Occupied, TypeOK
<1> QED BY <1>1, <1>2, SizeAssumption DEF TypeOK
-----------------------------------------------------------------------------
(* The queue in order. A process in it that has run before is early by no  *)
(* more than its wait, late by no more than the longest slice or MaxLate.  *)
InTime(h, p) == -h <= Late(p) /\ (Late(p) <= MaxLate \/ Late(p) <= MaxSlice)

QueuedInTime(h) ==
  ~(control = "next" /\ process_count = 1) =>
    \A p \in Queued : status[p] # Ready => InTime(h, p)

InFlightInTime(h) ==
  control = "dispatch" /\ status[current_process] = Blocked /\ process_count > 0 =>
    /\ -h <= Late(current_process)
    /\ \/ Late(current_process) <= slice
       \/ \E p \in Queued : status[p] # Ready /\ Late(current_process) <= Late(p)

(* Behind a process that is early there is none that has just started.     *)
InOrder ==
  \A a, b \in Proc : Ahead(a, b) /\ status[a] # Ready =>
    IF status[b] = Ready THEN 0 <= Late(a) ELSE Late(b) <= Late(a)

OrderInv(h) == QueuedInTime(h) /\ InFlightInTime(h) /\ InOrder

LEMMA LateSame ==
  ASSUME NEW p, now' = now, return_deadline'[p] = return_deadline[p]
  PROVE  Late(p)' = Late(p)
  BY DEF Late

LEMMA IInvFacts ==
  ASSUME IInv
  PROVE  /\ TypeOK /\ RingInv /\ Distinct /\ QueuedWait
         /\ process_count \in Nat /\ slice \in Nat /\ slice <= MaxSlice
         /\ Queued \subseteq Proc
         /\ status \in [Proc -> ProcessState]
         /\ return_deadline \in [Proc -> 0 .. TimeMod - 1]
         /\ \A p \in Proc : Late(p) \in Int
<1>1. TypeOK BY TypeSplit DEF IInv
<1>2. \A p \in Proc : Late(p) \in Int BY <1>1, LateIs
<1>3. Queued \subseteq Proc BY DEF IInv, RingInv, Queued
<1> QED BY <1>1, <1>2, <1>3, SizeAssumption DEF IInv, PoolInv, TypeOK

LEMMA AloneInOrder == TypeOK /\ process_count <= 1 => InOrder
  BY AheadAlone DEF InOrder

LEMMA AloneStaysInOrder == (TypeOK /\ process_count <= 1)' => InOrder'
  BY AloneInOrder, PTL

(* What dispatch_process compares, while everybody is in time. *)
LEMMA InTimeDeadline ==
  ASSUME IInv, NEW h, Horizon(h), NEW p \in Proc, -h <= Late(p)
  PROVE  TimeToDeadline(p) = IF status[p] = Ready THEN 0 ELSE -Late(p)
<1>1. -TimeMod < 2 * Late(p)
  <2>1. Late(p) \in Int /\ TimeMod \in Nat /\ h \in Nat /\ 2 * h < TimeMod
    BY IInvFacts, HorizonFacts
  <2> QED BY <2>1
<1>2. Signed(return_deadline[p] - now) = -Late(p)
  BY <1>1, IInvFacts, TimeToDeadlineIs
<1> QED BY <1>2 DEF TimeToDeadline

LEMMA OrderInit == ASSUME NEW h, Horizon(h) PROVE Init => OrderInv(h)
<1> SUFFICES ASSUME Init PROVE OrderInv(h)
  OBVIOUS
<1>1. TypeOK /\ process_count = 1 /\ control = "next"
  BY TypeInit DEF Init
<1>2. InOrder BY <1>1, AheadAlone DEF InOrder
<1> QED BY <1>1, <1>2 DEF OrderInv, QueuedInTime, InFlightInTime

LEMMA OrderNext ==
  ASSUME FewProcesses, IInv, NEW h, Horizon(h), OrderInv(h), NextProcess
  PROVE  OrderInv(h)'
<1>1. process_count < MaxProcessCount BY NotFull DEF IInv, PoolInv
<1>2. current_process' \in Queued /\ Queued' = Queued \ {current_process'}
  BY <1>1, IInvFacts, NextPool
<1>3. /\ control = "next" /\ control' \in {"switch", "dispatch"} /\ process_count' = process_count - 1
      /\ now' = now /\ return_deadline' = return_deadline /\ slice' = 0
  BY DEF NextProcess
<1>4. \A p : Late(p)' = Late(p) BY <1>3, LateSame
<1>5. \A p \in Queued' : status'[p] = status[p]
  <2>1. \/ status' = status
        \/ status' = [status EXCEPT ![current_process'] = Running]
    BY DEF NextProcess
  <2> QED BY <1>2, <2>1, IInvFacts
<1>6. QueuedInTime(h)'
  <2> SUFFICES ASSUME NEW p \in Queued', status'[p] # Ready
               PROVE  InTime(h, p)'
    BY DEF QueuedInTime
  <2>1. process_count # 1
    <3> SUFFICES ASSUME process_count = 1 PROVE FALSE
      OBVIOUS
    <3>1. process_count' = 0 BY <1>3
    <3>2. process_queue_head' \in Slot BY IInvFacts, NextRing
    <3>3. Occupied' = {}
      <4>1. process_queue_head \in Slot /\ \A s \in Slot : FromHead(s) \in Slot
        BY IInvFacts, FromHeadFacts DEF TypeOK
      <4>2. process_queue_head' = Succ(process_queue_head) BY DEF NextProcess
      <4>3. \A s \in Slot : FromHead(s)' = IF FromHead(s) = 0 THEN MaxProcessCount - 1
                                           ELSE FromHead(s) - 1
        BY <4>1, <4>2, SizeAssumption DEF FromHead, Succ
      <4>4. \A s \in Slot : ~(FromHead(s)' < 0)
        BY <4>1, <4>3, SizeAssumption
      <4> QED BY <3>1, <4>4 DEF Occupied
    <3> QED BY <3>3 DEF Queued
  <2>2. InTime(h, p)
    BY <1>2, <1>5, <2>1 DEF OrderInv, QueuedInTime
  <2> QED BY <1>4, <2>2 DEF InTime
<1>7. InOrder'
  <2> SUFFICES ASSUME NEW a \in Proc, NEW b \in Proc, Ahead(a, b)', status'[a] # Ready
               PROVE  IF status'[b] = Ready THEN 0 <= Late(a)' ELSE Late(b)' <= Late(a)'
    BY DEF InOrder
  <2>1. Ahead(a, b) BY <1>1, IInvFacts, NextAhead
  <2>2. a \in Queued' /\ b \in Queued' BY DEF Ahead, Queued
  <2>3. status'[a] = status[a] /\ status'[b] = status[b] BY <1>5, <2>2
  <2> QED BY <1>4, <2>1, <2>3 DEF OrderInv, InOrder
<1>8. InFlightInTime(h)'
  <2> SUFFICES ASSUME control' = "dispatch", process_count' > 0
               PROVE  /\ -h <= Late(current_process)'
                      /\ \E p \in Queued' : status'[p] # Ready /\ Late(current_process)' <= Late(p)'
    BY DEF InFlightInTime
  <2>1. process_count > 1 BY <1>3, IInvFacts
  <2>2. PICK n \in 0 .. process_count, s \in Occupied :
          IsBlockedCount(n) /\ FromHead(s) = Scanned(n) /\ current_process' = process_queue[s]
          /\ n = process_count
    BY <1>3, IInvFacts DEF NextProcess
  <2>3. \A t \in Occupied : process_queue[t] \in Proc /\ status[process_queue[t]] = Blocked
    BY <2>2, IInvFacts DEF IsBlockedCount, Runnable, Occupied, RingInv
  <2>4. PICK t \in Occupied : FromHead(t) = 0
    <3>1. process_queue_head \in Slot BY IInvFacts DEF TypeOK
    <3> QED BY <2>1, <3>1, FromHeadFacts, IInvFacts DEF Occupied
  <2>5. FromHead(t) < FromHead(s) /\ s # t BY <2>1, <2>2, <2>4, IInvFacts DEF Scanned
  <2>6. PICK a \in Proc, c \in Proc : a = process_queue[t] /\ c = process_queue[s]
    BY <2>3
  <2>7. Ahead(a, c) /\ status[a] # Ready /\ status[c] # Ready
    BY <2>3, <2>5, <2>6 DEF Ahead
  <2>8. Late(c) <= Late(a) BY <2>7 DEF OrderInv, InOrder
  <2>9. a # c BY <2>5, <2>6, IInvFacts DEF Distinct
  <2>10. a \in Queued' BY <1>2, <2>2, <2>6, <2>9 DEF Queued
  <2>11. InTime(h, c) BY <2>1, <2>7, AheadQueued DEF OrderInv, QueuedInTime
  <2>12. Late(current_process)' = Late(c) BY <1>3, <2>2, <2>6 DEF Late
  <2>13. Late(a)' = Late(a) /\ status'[a] = status[a] BY <1>4, <1>5, <2>10
  <2> QED BY <2>7, <2>8, <2>10, <2>11, <2>12, <2>13 DEF InTime
<1> QED BY <1>6, <1>7, <1>8 DEF OrderInv

(* A process added to the queue keeps the order, whoever it is.            *)
LEMMA OrderInsert ==
  ASSUME FewProcesses, IInv, NEW h, Horizon(h), QueuedInTime(h), InOrder,
         control # "next" \/ process_count # 1,
         NEW p \in Proc, NEW ttd, Insert(p, ttd), now' = now, p \notin Queued,
         \A x \in Proc : x # p => status'[x] = status[x] /\ return_deadline'[x] = return_deadline[x],
         status'[p] = Ready => ttd = 0,
         status'[p] # Ready => /\ -h <= Late(p)' /\ Late(p)' \in Int /\ ttd = -Late(p)'
  PROVE  InOrder'
<1> SUFFICES ASSUME NEW a \in Proc, NEW b \in Proc, Ahead(a, b)', status'[a] # Ready
             PROVE  IF status'[b] = Ready THEN 0 <= Late(a)' ELSE Late(b)' <= Late(a)'
  BY DEF InOrder
<1>1. \A x \in Proc : x # p => status'[x] = status[x] /\ Late(x)' = Late(x)
  BY DEF Late
<1>2. ASSUME NEW x \in Queued, status[x] # Ready
      PROVE  TimeToDeadline(x) = -Late(x) /\ Late(x) \in Int
  <2>1. -h <= Late(x) /\ x \in Proc BY <1>2, IInvFacts DEF QueuedInTime, InTime
  <2> QED BY <1>2, <2>1, InTimeDeadline, IInvFacts
<1>3. \A x \in Queued : status[x] = Ready => TimeToDeadline(x) = 0 BY DEF TimeToDeadline
<1>4. CASE Ahead(a, b)
  <2>1. a # p /\ b # p BY <1>4, AheadQueued
  <2> QED BY <1>1, <1>4, <2>1 DEF InOrder
<1>5. CASE a = p /\ b \in Queued /\ TimeToDeadline(b) > ttd
  <2>1. b # p /\ ttd = -Late(a)' /\ Late(a)' \in Int BY <1>5
  <2>2. CASE status[b] = Ready
    <3>1. 0 > ttd BY <1>3, <1>5, <2>2
    <3> QED BY <1>1, <2>1, <2>2, <3>1
  <2>3. CASE status[b] # Ready
    <3>1. -Late(b) > ttd /\ Late(b) \in Int BY <1>2, <1>5, <2>3
    <3>2. Late(b) <= Late(a)' BY <2>1, <3>1
    <3> QED BY <1>1, <2>1, <2>3, <3>2
  <2> QED BY <2>2, <2>3
<1>6. CASE /\ b = p /\ a \in Queued
           /\ \E c \in Proc : (c = a \/ Ahead(a, c)) /\ TimeToDeadline(c) <= ttd /\ c \in Queued
  <2>1. PICK c \in Proc : (c = a \/ Ahead(a, c)) /\ TimeToDeadline(c) <= ttd /\ c \in Queued
    BY <1>6
  <2>2. a # p /\ Late(a)' = Late(a) /\ status[a] # Ready /\ Late(a) \in Int
    BY <1>1, <1>6, IInvFacts
  <2>3. CASE status[c] = Ready
    <3>1. 0 <= Late(a) BY <2>1, <2>2, <2>3 DEF InOrder
    <3>2. 0 <= ttd BY <1>3, <2>1, <2>3
    <3>3. status'[b] # Ready => Late(b)' <= Late(a) BY <1>6, <2>2, <3>1, <3>2
    <3> QED BY <2>2, <3>1, <3>3
  <2>4. CASE status[c] # Ready
    <3>1. Late(c) <= Late(a) /\ Late(c) \in Int
      BY <2>1, <2>2, <2>4, IInvFacts DEF InOrder
    <3>2. -Late(c) <= ttd BY <1>2, <2>1, <2>4
    <3>3. status'[b] = Ready => 0 <= Late(a) BY <1>6, <2>2, <3>1, <3>2
    <3>4. status'[b] # Ready => Late(b)' <= Late(a) BY <1>6, <2>2, <3>1, <3>2
    <3> QED BY <2>2, <3>3, <3>4
  <2> QED BY <2>3, <2>4
<1> QED BY <1>4, <1>5, <1>6, IInvFacts, InsertAhead

LEMMA OrderStart ==
  ASSUME FewProcesses, IInv, NEW h, Horizon(h), OrderInv(h), NEW p \in Proc, StartProcess(p)
  PROVE  OrderInv(h)'
<1>1. /\ control = "process" /\ control' = "process" /\ now' = now /\ p \notin Queued
      /\ status' = [status EXCEPT ![p] = Ready] /\ DispatchProcess(p, 0)
      /\ return_deadline' = [return_deadline EXCEPT ![p] = now]
  BY DEF StartProcess, Pool
<1>2. process_count < MaxProcessCount BY NotFull DEF IInv, PoolInv
<1>3. Insert(p, 0) BY <1>1, <1>2, IInvFacts, SizeAssumption DEF DispatchProcess
<1>4. /\ status'[p] = Ready
      /\ \A x \in Proc : x # p => status'[x] = status[x] /\ return_deadline'[x] = return_deadline[x]
  BY <1>1, IInvFacts
<1>5. InOrder' BY <1>1, <1>3, <1>4, OrderInsert DEF OrderInv
<1>6. Queued' = Queued \cup {p} BY <1>1, <1>3, IInvFacts, InsertPool
<1>7. \A x \in Proc : x # p => Late(x)' = Late(x) BY <1>1, <1>4 DEF Late
<1>8. QueuedInTime(h)'
  <2> SUFFICES ASSUME NEW x \in Queued', status'[x] # Ready PROVE InTime(h, x)'
    BY DEF QueuedInTime
  <2>1. x # p /\ x \in Queued /\ x \in Proc BY <1>4, <1>6, IInvFacts
  <2>2. InTime(h, x) BY <1>1, <1>4, <2>1 DEF OrderInv, QueuedInTime
  <2> QED BY <1>7, <2>1, <2>2 DEF InTime
<1> QED BY <1>1, <1>5, <1>8 DEF OrderInv, InFlightInTime

LEMMA OrderMain ==
  ASSUME FewProcesses, IInv, NEW h, Horizon(h), OrderInv(h), RtosMain
  PROVE  OrderInv(h)'
<1> DEFINE c == current_process
<1>1. /\ control = "dispatch" /\ control' \in {"next", "halt"} /\ now' = now
      /\ c \in Proc /\ status' = status /\ return_deadline' = return_deadline
      /\ status[c] \in {Blocked, Done} /\ c \notin Queued
  BY DEF RtosMain, IInv, PlainType, PoolInv, InFlight
<1>2. process_count < MaxProcessCount BY NotFull DEF IInv, PoolInv
<1>3. \A x : Late(x)' = Late(x) BY <1>1, LateSame
<1>4. InFlightInTime(h)' BY <1>1 DEF InFlightInTime
<1>5. CASE status[c] = Done
  <2>1. UNCHANGED ring BY <1>5 DEF RtosMain, Discard
  <2>2. Queued' = Queued /\ \A a, b : Ahead(a, b)' <=> Ahead(a, b)
    BY <2>1 DEF ring, Queued, Ahead, Occupied, FromHead
  <2>3. InOrder' BY <1>1, <1>3, <2>2 DEF OrderInv, InOrder
  <2>4. QueuedInTime(h)'
    <3>1. \A x \in Queued : status[x] # Ready => InTime(h, x) BY <1>1 DEF OrderInv, QueuedInTime
    <3> QED BY <1>1, <1>3, <2>2, <3>1 DEF QueuedInTime, InTime
  <2> QED BY <1>4, <2>3, <2>4 DEF OrderInv
<1>6. CASE status[c] = Blocked
  <2>1. Insert(c, TimeToDeadline(c))
    BY <1>2, <1>6, IInvFacts, SizeAssumption DEF RtosMain, DispatchProcess
  <2>2. Queued' = Queued \cup {c} /\ process_count' = process_count + 1
    BY <1>1, <2>1, IInvFacts, InsertPool DEF Insert
  <2>3. \A x \in Queued : status[x] # Ready => InTime(h, x) BY <1>1 DEF OrderInv, QueuedInTime
  <2>4. CASE process_count = 0
    <3>1. process_count' = 1 BY <2>2, <2>4
    <3>2. TypeOK' BY TypeStep, IInvFacts DEF Next
    <3>3. InOrder' BY <3>1, <3>2, AloneStaysInOrder
    <3>4. QueuedInTime(h)' BY <1>1, <3>1 DEF QueuedInTime, RtosMain
    <3> QED BY <1>4, <3>3, <3>4 DEF OrderInv
  <2>5. CASE process_count > 0
    <3>1. /\ -h <= Late(c)
          /\ \/ Late(c) <= slice
             \/ \E x \in Queued : status[x] # Ready /\ Late(c) <= Late(x)
      BY <1>1, <1>6, <2>5 DEF OrderInv, InFlightInTime
    <3>2. PICK p \in Proc : p = c BY <1>1
    <3>3. InTime(h, p)
      <4>1. CASE Late(p) <= slice
        <5>1. slice \in Nat /\ slice <= MaxSlice /\ Late(p) \in Int /\ MaxSlice \in Nat
          BY <3>2, IInvFacts, SizeAssumption
        <5> QED BY <3>1, <3>2, <4>1, <5>1 DEF InTime
      <4>2. ASSUME NEW x \in Queued, status[x] # Ready, Late(p) <= Late(x)
            PROVE  InTime(h, p)
        <5>1. InTime(h, x) /\ Late(x) \in Int /\ Late(p) \in Int /\ MaxSlice \in Nat /\ MaxLate \in Nat
          BY <2>3, <3>2, <4>2, IInvFacts, SizeAssumption
        <5> QED BY <3>1, <3>2, <4>2, <5>1 DEF InTime
      <4> QED BY <3>1, <3>2, <4>1, <4>2
    <3>4. TimeToDeadline(p) = -Late(p) BY <1>6, <3>1, <3>2, InTimeDeadline
    <3>5. Late(p)' = Late(p) /\ Late(p) \in Int BY <1>3, IInvFacts
    <3>6. InOrder'
      <4>1. Insert(p, TimeToDeadline(p)) BY <2>1, <3>2
      <4>2. status'[p] # Ready BY <1>1, <1>6, <3>2
      <4>3. -h <= Late(p)' /\ Late(p)' \in Int /\ TimeToDeadline(p) = -Late(p)'
        BY <3>1, <3>2, <3>4, <3>5
      <4> QED BY <1>1, <3>2, <4>1, <4>2, <4>3, OrderInsert DEF OrderInv
    <3>7. QueuedInTime(h)'
      <4> SUFFICES ASSUME NEW x \in Queued', status'[x] # Ready PROVE InTime(h, x)'
        BY DEF QueuedInTime
      <4>1. InTime(h, x) BY <1>1, <2>2, <2>3, <3>2, <3>3
      <4> QED BY <1>3, <4>1 DEF InTime
    <3> QED BY <1>4, <3>6, <3>7 DEF OrderInv
  <2> QED BY <2>4, <2>5, IInvFacts
<1> QED BY <1>1, <1>5, <1>6

(* Steps that leave the queue and what it is ordered by alone.             *)
LEMMA OrderSame ==
  ASSUME IInv, NEW h, OrderInv(h), UNCHANGED <<ring, now>>,
         control' = "next" <=> control = "next",
         \A x \in Queued : status'[x] = status[x] /\ return_deadline'[x] = return_deadline[x]
  PROVE  QueuedInTime(h)' /\ InOrder'
<1>1. Queued' = Queued /\ process_count' = process_count /\ \A a, b : Ahead(a, b)' <=> Ahead(a, b)
  BY DEF ring, Queued, Ahead, Occupied, FromHead
<1>2. \A x \in Queued : status'[x] = status[x] /\ Late(x)' = Late(x)
  BY DEF Late
<1>3. QueuedInTime(h)' BY <1>1, <1>2 DEF OrderInv, QueuedInTime, InTime
<1>4. \A a, b : Ahead(a, b) => a \in Queued /\ b \in Queued BY AheadQueued
<1>5. InOrder' BY <1>1, <1>2, <1>4 DEF OrderInv, InOrder
<1> QED BY <1>3, <1>5

LEMMA OrderSwitch ==
  ASSUME IInv, NEW h, OrderInv(h), SwitchProcess
  PROVE  OrderInv(h)'
<1>1. /\ control = "switch" /\ control' = "process" /\ UNCHANGED <<ring, now, return_deadline>>
      /\ status' = [status EXCEPT ![current_process] = Done] /\ current_process \notin Queued
  BY DEF SwitchProcess, IInv, PoolInv, InFlight
<1>2. \A x \in Queued : status'[x] = status[x] BY <1>1, IInvFacts
<1>3. QueuedInTime(h)' /\ InOrder' BY <1>1, <1>2, OrderSame
<1> QED BY <1>1, <1>3 DEF OrderInv, InFlightInTime

(* The three ways to yield: with a deadline that is a wait from now, and a *)
(* wait record of the program or none.                                     *)
YieldsWith(r, d, n) ==
  /\ n \in {0} \cup Ticks /\ d = (now + n) % TimeMod
  /\ r.condition # "None" => \E w \in Wait : r = WaitRecord(w, r.callback)
  /\ YieldBlocked(r, d, n)

LEMMA YieldIs ==
  ASSUME TypeOK, Yield
  PROVE  \E r, d, n : YieldsWith(r, d, n)
<1>1. 0 \in {0} \cup Ticks /\ now = (now + 0) % TimeMod
  <2>1. now \in Int /\ 0 <= now /\ now < TimeMod /\ TimeMod \in Nat
    BY SizeAssumption DEF TypeOK
  <2>2. now + 0 = now BY <2>1
  <2>3. now % TimeMod = now BY <2>1
  <2> QED BY <2>2, <2>3
<1>2. ASSUME NEW w \in Wait, NEW c
      PROVE  WaitRecord(w, c) = WaitRecord(w, WaitRecord(w, c).callback)
  BY DEF WaitRecord
<1>3. ASSUME NEW w \in Wait, WaitUntil(w) PROVE YieldsWith(WaitRecord(w, FALSE), now, 0)
  BY <1>1, <1>2, <1>3, Zenon DEF WaitUntil, YieldsWith
<1>4. ASSUME NEW w \in Wait, NEW n \in Ticks, WaitUntilOrTimeout(w, n)
      PROVE  YieldsWith(WaitRecord(w, TRUE), (now + n) % TimeMod, n)
  BY <1>2, <1>4, Zenon DEF WaitUntilOrTimeout, YieldsWith
<1>5. ASSUME NEW n \in Ticks, RtosDelay(n)
      PROVE  YieldsWith([NoWait EXCEPT !.callback = TRUE], (now + n) % TimeMod, n)
  <2>1. [NoWait EXCEPT !.callback = TRUE].condition = "None" BY DEF NoWait
  <2> QED BY <1>5, <2>1, Zenon DEF RtosDelay, YieldsWith
<1> QED BY <1>3, <1>4, <1>5, Zenon DEF Yield

LEMMA OrderYield ==
  ASSUME IInv, NEW h, Horizon(h), OrderInv(h), Yield
  PROVE  OrderInv(h)'
<1>1. PICK r, d, n : n \in {0} \cup Ticks /\ d = (now + n) % TimeMod /\ YieldBlocked(r, d, n)
  BY IInvFacts, YieldIs DEF YieldsWith
<1>2. n \in Nat /\ n <= h /\ 2 * n < TimeMod
  BY <1>1, HorizonFacts, SizeAssumption DEF Horizon
<1>3. /\ control = "process" /\ control' = "dispatch" /\ UNCHANGED <<ring, now, slice>>
      /\ current_process' = current_process /\ current_process \in Proc
      /\ current_process \notin Queued
      /\ status' = [status EXCEPT ![current_process] = Blocked]
      /\ return_deadline' = [return_deadline EXCEPT ![current_process] = d]
  BY <1>1 DEF YieldBlocked, IInv, PlainType, PoolInv, InFlight
<1>4. \A x \in Queued : status'[x] = status[x] /\ return_deadline'[x] = return_deadline[x]
  BY <1>3, IInvFacts
<1>5. QueuedInTime(h)' /\ InOrder' BY <1>3, <1>4, OrderSame
<1>6. Late(current_process)' = -n
  <2>1. return_deadline'[current_process] = d BY <1>3, IInvFacts
  <2>2. Signed(now - d) = -n
    <3>1. now \in TimeRegister BY IInvFacts DEF TypeOK, TimeRegister
    <3> QED BY <1>1, <1>2, <3>1, LateWait
  <2> QED BY <1>3, <2>1, <2>2 DEF Late
<1>7. InFlightInTime(h)'
  <2>1. slice' = slice /\ slice \in Nat /\ h \in Nat BY <1>3, IInvFacts, HorizonFacts
  <2>2. -h <= -n /\ -n <= slice BY <1>2, <2>1
  <2> QED BY <1>6, <2>1, <2>2 DEF InFlightInTime
<1> QED BY <1>5, <1>7 DEF OrderInv

LEMMA OrderTick ==
  ASSUME IInv, NEW h, Horizon(h), OrderInv(h), Tick
  PROVE  OrderInv(h)'
<1>1. /\ slice < MaxSlice /\ slice' = slice + 1 /\ now' = (now + 1) % TimeMod
      /\ \A p \in Queued : status[p] # Ready => Late(p) < MaxLate
      /\ UNCHANGED <<ring, current_process, status, return_deadline, control>>
  BY DEF Tick, Late
<1>2. /\ slice \in Nat /\ MaxSlice \in Nat /\ MaxLate \in Nat /\ TimeMod \in Nat /\ h \in Nat
      /\ 2 * (h + MaxLate) < TimeMod /\ 2 * (h + MaxSlice) < TimeMod /\ 1 < TimeMod
  <2>1. /\ slice \in Nat /\ MaxSlice \in Nat /\ MaxLate \in Nat /\ TimeMod \in Nat /\ h \in Nat
        /\ 2 * (h + MaxLate) < TimeMod /\ 2 * (h + MaxSlice) < TimeMod
    BY IInvFacts, HorizonFacts
  <2> QED BY <1>1, <2>1
<1>3. ASSUME NEW p \in Proc, Late(p) < MaxLate \/ Late(p) < MaxSlice
      PROVE  Late(p)' = Late(p) + 1 /\ Late(p) \in Int
  <2>1. Late(p) \in Int BY IInvFacts
  <2>2. 2 * (Late(p) + 1) < TimeMod BY <1>2, <1>3, <2>1
  <2> QED BY <1>1, <1>2, <2>1, <2>2, IInvFacts, LateTick
<1>4. \A p \in Queued : status[p] # Ready => Late(p)' = Late(p) + 1 /\ Late(p) \in Int /\ Late(p) < MaxLate
  BY <1>1, <1>3, IInvFacts
<1>5. Queued' = Queued /\ process_count' = process_count /\ \A a, b : Ahead(a, b)' <=> Ahead(a, b)
  BY <1>1 DEF ring, Queued, Ahead, Occupied, FromHead
<1>6. QueuedInTime(h)'
  <2> SUFFICES ASSUME ~(control = "next" /\ process_count = 1), NEW p \in Queued, status[p] # Ready
               PROVE  InTime(h, p)'
    BY <1>1, <1>5 DEF QueuedInTime
  <2>1. -h <= Late(p) BY DEF OrderInv, QueuedInTime, InTime
  <2> QED BY <1>2, <1>4, <2>1 DEF InTime
<1>7. InOrder'
  <2> SUFFICES ASSUME NEW a \in Proc, NEW b \in Proc, Ahead(a, b), status[a] # Ready
               PROVE  IF status[b] = Ready THEN 0 <= Late(a)' ELSE Late(b)' <= Late(a)'
    BY <1>1, <1>5 DEF InOrder
  <2>1. a \in Queued /\ b \in Queued BY AheadQueued
  <2>2. IF status[b] = Ready THEN 0 <= Late(a) ELSE Late(b) <= Late(a)
    BY DEF OrderInv, InOrder
  <2> QED BY <1>4, <2>1, <2>2
<1>8. InFlightInTime(h)'
  <2> SUFFICES ASSUME control = "dispatch", status[current_process] = Blocked, process_count > 0
               PROVE  /\ -h <= Late(current_process)'
                      /\ \/ Late(current_process)' <= slice'
                         \/ \E p \in Queued : status[p] # Ready /\ Late(current_process)' <= Late(p)'
    BY <1>1, <1>5 DEF InFlightInTime
  <2>1. PICK c \in Proc : c = current_process
    BY DEF IInv, PlainType
  <2>2. /\ -h <= Late(c)
        /\ \/ Late(c) <= slice
           \/ \E p \in Queued : status[p] # Ready /\ Late(c) <= Late(p)
    BY <2>1 DEF OrderInv, InFlightInTime
  <2>3. Late(current_process)' = Late(c)' BY <1>1, <2>1 DEF Late
  <2>4. Late(c) \in Int BY IInvFacts
  <2>5. CASE Late(c) <= slice
    <3>1. Late(c)' = Late(c) + 1
      <4>1. Late(c) < MaxSlice BY <1>1, <1>2, <2>4, <2>5
      <4> QED BY <1>3, <4>1
    <3> QED BY <1>1, <1>2, <2>2, <2>3, <2>4, <2>5, <3>1
  <2>6. ASSUME NEW p \in Queued, status[p] # Ready, Late(c) <= Late(p)
        PROVE  -h <= Late(c)' /\ Late(c)' <= Late(p)'
    <3>1. Late(p)' = Late(p) + 1 /\ Late(p) \in Int /\ Late(p) < MaxLate BY <1>4, <2>6
    <3>2. Late(c)' = Late(c) + 1
      <4>1. Late(c) < MaxLate BY <1>2, <2>4, <2>6, <3>1
      <4> QED BY <1>3, <4>1
    <3> QED BY <1>2, <2>2, <2>4, <2>6, <3>1, <3>2
  <2> QED BY <2>2, <2>3, <2>5, <2>6
<1> QED BY <1>6, <1>7, <1>8 DEF OrderInv

LEMMA OrderStep ==
  ASSUME FewProcesses, IInv, NEW h, Horizon(h), OrderInv(h), [Next]_vars
  PROVE  OrderInv(h)'
<1>1. ASSUME UNCHANGED <<ring, now, status, return_deadline, current_process>>,
             control' = "dispatch" => slice' = slice /\ (control = "dispatch" \/ status[current_process] = Done),
             control' = "next" <=> control = "next"
      PROVE  OrderInv(h)'
  <2>1. QueuedInTime(h)' /\ InOrder' BY <1>1, OrderSame
  <2>2. Queued' = Queued /\ process_count' = process_count
    BY <1>1 DEF ring, Queued, Occupied, FromHead
  <2>3. \A x : Late(x)' = Late(x) BY <1>1 DEF Late
  <2>4. Late(current_process)' = Late(current_process) BY <1>1 DEF Late
  <2>5. InFlightInTime(h)'
    BY <1>1, <2>2, <2>3, <2>4 DEF OrderInv, InFlightInTime
  <2> QED BY <2>1, <2>5 DEF OrderInv
<1>2. CASE Finish
  <2>1. status[current_process] = Done BY <1>2 DEF Finish, IInv, PoolInv
  <2> QED BY <1>1, <1>2, <2>1 DEF Finish
<1>3. ASSUME NEW v \in Variable, NEW x \in Value, Assign(v, x) PROVE OrderInv(h)'
  BY <1>1, <1>3 DEF Assign
<1>4. ASSUME NEW v \in InterruptVariable, Interrupt(v) PROVE OrderInv(h)'
  BY <1>1, <1>4 DEF Interrupt
<1>5. CASE UNCHANGED vars
  BY <1>1, <1>5 DEF vars
<1> QED BY <1>2, <1>3, <1>4, <1>5, OrderNext, OrderSwitch, OrderYield, OrderStart, OrderMain, OrderTick
    DEF Next

(* The queue is in the order of its deadlines, although the comparisons    *)
(* are of a timer that wraps, processes that are started jump in front and *)
(* a process keeps its place while it is passed over: as long as nobody    *)
(* waits or is late for more than half the timer's range.                  *)
THEOREM DeadlinesInOrder ==
  ASSUME FewProcesses, NEW h, Horizon(h)
  PROVE  Spec => []DeadlineOrder
<1>1. IInv /\ OrderInv(h) => DeadlineOrder
  <2> SUFFICES ASSUME IInv, OrderInv(h), NEW s \in Occupied, NEW t \in Occupied,
                      FromHead(s) < FromHead(t),
                      Ready \notin {status[process_queue[s]], status[process_queue[t]]}
               PROVE  Signed(return_deadline[process_queue[s]] - return_deadline[process_queue[t]]) <= 0
    BY DEF DeadlineOrder
  <2>1. PICK a \in Proc, b \in Proc : a = process_queue[s] /\ b = process_queue[t]
    BY DEF IInv, RingInv
  <2>2. Ahead(a, b) /\ status[a] # Ready /\ status[b] # Ready
    BY <2>1 DEF Ahead
  <2>3. ~(control = "next" /\ process_count = 1)
    <3> SUFFICES ASSUME process_count = 1 PROVE FALSE
      OBVIOUS
    <3> QED BY <2>2, AheadAlone, IInvFacts
  <2>4. InTime(h, a) /\ InTime(h, b) /\ Late(b) <= Late(a)
    BY <2>2, <2>3, AheadQueued DEF OrderInv, QueuedInTime, InOrder
  <2>5. /\ Late(a) \in Int /\ Late(b) \in Int /\ h \in Nat /\ TimeMod \in Nat
        /\ MaxSlice \in Nat /\ MaxLate \in Nat
        /\ 2 * (h + MaxLate) < TimeMod /\ 2 * (h + MaxSlice) < TimeMod
    BY IInvFacts, HorizonFacts
  <2>6. 2 * (Late(b) - Late(a)) < TimeMod /\ -TimeMod < 2 * (Late(b) - Late(a))
    BY <2>4, <2>5 DEF InTime
  <2>7. Signed(return_deadline[a] - return_deadline[b]) = Late(b) - Late(a)
    BY <2>6, IInvFacts, DifferenceIs
  <2>8. Late(b) - Late(a) <= 0 BY <2>4, <2>5
  <2> QED BY <2>1, <2>7, <2>8
<1>2. Init => OrderInv(h) BY OrderInit
<1>3. IInv /\ OrderInv(h) /\ [Next]_vars => OrderInv(h)' BY OrderStep
<1> QED BY <1>1, <1>2, <1>3, Consistent, PTL DEF Spec
-----------------------------------------------------------------------------
(* Why a process goes on. Only next_process picks one, and until it runs   *)
(* there are only ticks and interrupts.                                    *)

(* What next_process finds out about the process it resumes. *)
LEMMA Resumed ==
  ASSUME FewProcesses, IInv, NextProcess, control' = "switch", status'[current_process'] = Running
  PROVE  \E c \in Proc :
           /\ c = current_process' /\ c \in Queued /\ status[c] = Blocked
           /\ CallbackReleases(c) \/ ConditionHolds(internal_data[c])
           /\ status' = [status EXCEPT ![c] = Running]
           /\ Pool' = Queued
<1>1. process_count < MaxProcessCount BY NotFull DEF IInv, PoolInv
<1>2. current_process' \in Queued /\ Queued' = Queued \ {current_process'}
  BY <1>1, IInvFacts, NextPool
<1>3. PICK n \in 0 .. process_count, s \in Occupied :
        /\ IsBlockedCount(n) /\ FromHead(s) = Scanned(n)
        /\ current_process' = process_queue[s]
        /\ status' = IF n < process_count /\ status[process_queue[s]] = Blocked
                     THEN [status EXCEPT ![process_queue[s]] = Running] ELSE status
        /\ control' = IF n < process_count THEN "switch" ELSE "dispatch"
  BY DEF NextProcess
<1>4. PICK c \in Proc : c = process_queue[s]
  BY DEF IInv, RingInv
<1>5. status[c] \in {Ready, Blocked} BY <1>2, <1>3, <1>4 DEF IInv, PoolInv, QueuedWait
<1>6. n < process_count /\ status[c] = Blocked /\ status' = [status EXCEPT ![c] = Running]
  BY <1>3, <1>4, <1>5
<1>7. Runnable(c)
  BY <1>3, <1>4, <1>6, IInvFacts DEF IsBlockedCount, Scanned
<1>8. Pool' = Queued
  BY <1>2 DEF Pool, InFlight
<1> QED BY <1>2, <1>3, <1>4, <1>6, <1>7, <1>8 DEF Runnable

LEMMA JoinStep ==
  ASSUME FewProcesses, IInv, JoinAfterReturn, [Next]_vars
  PROVE  JoinAfterReturn'
<1>1. CASE NextProcess
  <2> SUFFICES ASSUME control' = "switch", status'[current_process'] = Running,
                      NEW w, w = internal_data'[current_process'],
                      w.variable \in Proc, w.condition = "Equal", w.value = Done, ~w.callback
               PROVE  w.variable \notin Pool'
    BY DEF JoinAfterReturn
  <2>1. PICK c \in Proc :
           /\ c = current_process'
           /\ CallbackReleases(c) \/ ConditionHolds(internal_data[c])
           /\ Pool' = Queued
    BY <1>1, Resumed
  <2>2. w = internal_data[c] BY <1>1, <2>1 DEF NextProcess
  <2>3. status[w.variable] = Done
    BY <2>1, <2>2 DEF CallbackReleases, ConditionHolds, Satisfies
  <2> QED BY <2>1, <2>3 DEF IInv, PoolInv, QueuedWait
<1>2. ASSUME UNCHANGED <<ring, current_process, status, internal_data, control>>
      PROVE  JoinAfterReturn'
  <2>1. Pool' = Pool BY <1>2 DEF ring, Pool, Queued, Occupied, FromHead, InFlight
  <2> QED BY <1>2, <2>1 DEF JoinAfterReturn
<1>3. ASSUME control' # "switch" PROVE JoinAfterReturn'
  BY <1>3 DEF JoinAfterReturn
<1>4. CASE Yield
  BY <1>3, <1>4 DEF Yield, WaitUntil, WaitUntilOrTimeout, RtosDelay, YieldBlocked
<1>5. CASE SwitchProcess \/ Finish \/ RtosMain
  BY <1>3, <1>5 DEF SwitchProcess, Finish, RtosMain
<1>6. ASSUME NEW q \in Proc, StartProcess(q) PROVE JoinAfterReturn'
  BY <1>3, <1>6 DEF StartProcess
<1>7. ASSUME NEW v \in Variable, NEW x \in Value, Assign(v, x) PROVE JoinAfterReturn'
  BY <1>3, <1>7 DEF Assign
<1>8. CASE Tick
  BY <1>2, <1>8 DEF Tick
<1>9. ASSUME NEW v \in InterruptVariable, Interrupt(v) PROVE JoinAfterReturn'
  BY <1>2, <1>9 DEF Interrupt
<1>10. CASE UNCHANGED vars
  BY <1>2, <1>10 DEF vars
<1> QED BY <1>1, <1>4, <1>5, <1>6, <1>7, <1>8, <1>9, <1>10 DEF Next

(* A process that joins another goes on only when that one has returned    *)
(* and left the scheduler: although a process reads Done while it runs.    *)
THEOREM JoinWaitsForReturn ==
  ASSUME FewProcesses
  PROVE  Spec => []JoinAfterReturn
<1>1. Init => JoinAfterReturn BY DEF Init, JoinAfterReturn
<1>2. IInv /\ JoinAfterReturn /\ [Next]_vars => JoinAfterReturn' BY JoinStep
<1> QED BY <1>1, <1>2, Consistent, PTL DEF Spec
-----------------------------------------------------------------------------
(* Waits that stay satisfied between next_process and the process: what an *)
(* interrupt sets is what is waited for, and a process that waits on a     *)
(* status does not wait for one that next_process takes away. The waits of *)
(* the program do: flags are waited for to be set, and join_process and    *)
(* wait_until_started for Done and not Ready.                              *)
StableWaits ==
  \A w \in Wait :
    /\ w.variable \in InterruptVariable => Satisfies(1, w.condition, w.value)
    /\ w.variable \in Proc /\ Satisfies(Blocked, w.condition, w.value)
         => Satisfies(Running, w.condition, w.value)

ShortTicks == \A n \in Ticks : 2 * n < TimeMod

(* What is left of a delay is what the timer says, as long as there is any.*)
Remains ==
  \A p \in Proc :
    status[p] \in {Blocked, Running} /\ internal_data[p].callback /\ remaining[p] > 0
      => Late(p) = -remaining[p] /\ 2 * remaining[p] < TimeMod

WaitsKnown ==
  \A p \in Proc : LET r == internal_data[p]
                  IN  r.condition # "None" => \E w \in Wait : r = WaitRecord(w, r.callback)

ResumeInv == Remains /\ WaitsKnown /\ NoEarlyResume

LEMMA RemainsNotReleased ==
  ASSUME IInv, Remains, NEW p \in Proc, status[p] = Blocked, CallbackReleases(p)
  PROVE  internal_data[p].callback /\ remaining[p] = 0
<1>1. internal_data[p].callback /\ Signed(return_deadline[p] - now) <= 0
  BY DEF CallbackReleases
<1>2. remaining[p] \in Nat /\ TimeMod \in Nat BY SizeAssumption DEF IInv, PlainType
<1>3. ASSUME remaining[p] > 0 PROVE FALSE
  <2>1. Late(p) = -remaining[p] /\ 2 * remaining[p] < TimeMod
    BY <1>1, <1>3 DEF Remains
  <2>2. -TimeMod < 2 * Late(p) BY <1>2, <2>1
  <2>3. Signed(return_deadline[p] - now) = -Late(p)
    BY <2>2, IInvFacts, TimeToDeadlineIs
  <2>4. -Late(p) = remaining[p] BY <1>2, <2>1
  <2> QED BY <1>1, <1>2, <1>3, <2>3, <2>4
<1> QED BY <1>1, <1>2, <1>3

LEMMA KnownWaitHolds ==
  ASSUME StableWaits, NEW r \in WaitData, NEW w \in Wait, r = WaitRecord(w, r.callback)
  PROVE  /\ r.variable \in Variable \cup Proc /\ r.condition # "None"
         /\ r.variable \in InterruptVariable => Satisfies(1, r.condition, r.value)
         /\ r.variable \in Proc /\ Satisfies(Blocked, r.condition, r.value)
              => Satisfies(Running, r.condition, r.value)
<1>1. r.variable = w.variable /\ r.condition = w.condition /\ r.value = w.value
  BY DEF WaitRecord
<1>2. w.variable \in Variable \cup Proc /\ w.condition \in Condition BY ValueAssumption
<1> QED BY <1>1, <1>2 DEF StableWaits, Condition

LEMMA ResumeNext ==
  ASSUME FewProcesses, StableWaits, IInv, ResumeInv, NextProcess
  PROVE  ResumeInv'
<1>1. UNCHANGED <<now, return_deadline, internal_data, memory, remaining>>
      /\ control' \in {"switch", "dispatch"}
  BY DEF NextProcess
<1>2. WaitsKnown' BY <1>1 DEF ResumeInv, WaitsKnown
<1>3. Remains'
  <2>1. \A p \in Proc : status'[p] \in {Blocked, Running} => status[p] \in {Blocked, Running}
    <3>1. \/ status' = status
          \/ \E c \in Proc : status[c] = Blocked /\ status' = [status EXCEPT ![c] = Running]
      BY DEF NextProcess, IInv, RingInv
    <3> QED BY <3>1, IInvFacts
  <2>2. \A p : Late(p)' = Late(p) BY <1>1 DEF Late
  <2> QED BY <1>1, <2>1, <2>2 DEF ResumeInv, Remains
<1>4. NoEarlyResume'
  <2> SUFFICES ASSUME control' = "switch", status'[current_process'] = Running
               PROVE  \/ ConditionHolds(internal_data[current_process])'
                      \/ internal_data'[current_process'].callback /\ remaining'[current_process'] = 0
    BY DEF NoEarlyResume
  <2>1. PICK c \in Proc :
           /\ c = current_process' /\ c \in Queued /\ status[c] = Blocked
           /\ CallbackReleases(c) \/ ConditionHolds(internal_data[c])
           /\ status' = [status EXCEPT ![c] = Running]
    BY Resumed
  <2>2. CASE CallbackReleases(c)
    BY <1>1, <2>1, <2>2, RemainsNotReleased DEF ResumeInv
  <2>3. CASE ConditionHolds(internal_data[c])
    <3> DEFINE r == internal_data[c]
    <3>1. r \in WaitData /\ r.condition # "None" BY <2>3 DEF IInv, PlainType, ConditionHolds
    <3>2. PICK w \in Wait : r = WaitRecord(w, r.callback) BY <3>1 DEF ResumeInv, WaitsKnown
    <3>3. /\ r.variable \in Variable \cup Proc
          /\ r.variable \in Proc /\ Satisfies(Blocked, r.condition, r.value)
               => Satisfies(Running, r.condition, r.value)
      BY <3>1, <3>2, KnownWaitHolds
    <3>4. internal_data'[current_process'] = r BY <1>1, <2>1
    <3>5. ConditionHolds(internal_data[current_process])'
            = (/\ r.condition # "None"
               /\ Satisfies(IF r.variable \in Proc THEN status'[r.variable] ELSE memory[r.variable],
                            r.condition, r.value))
      BY <1>1, <3>4 DEF ConditionHolds, Satisfies
    <3>6. CASE r.variable = c
      <4>1. status'[c] = Running BY <2>1, IInvFacts
      <4> QED BY <2>1, <2>3, <3>3, <3>5, <3>6, <4>1 DEF ConditionHolds
    <3>7. CASE r.variable # c
      <4>1. r.variable \in Proc => status'[r.variable] = status[r.variable] BY <2>1, <3>7, IInvFacts
      <4> QED BY <2>3, <3>5, <4>1 DEF ConditionHolds
    <3> QED BY <3>6, <3>7
  <2> QED BY <2>1, <2>2, <2>3
<1> QED BY <1>2, <1>3, <1>4 DEF ResumeInv

LEMMA ResumeYield ==
  ASSUME ShortTicks, IInv, ResumeInv, Yield
  PROVE  ResumeInv'
<1>1. PICK r, d, n :
        /\ n \in {0} \cup Ticks /\ d = (now + n) % TimeMod
        /\ r.condition # "None" => \E w \in Wait : r = WaitRecord(w, r.callback)
        /\ YieldBlocked(r, d, n)
  BY IInvFacts, YieldIs DEF YieldsWith
<1>2. n \in Nat /\ 2 * n < TimeMod BY <1>1, SizeAssumption DEF ShortTicks
<1>3. PICK c \in Proc :
        /\ c = current_process /\ control' = "dispatch" /\ now' = now
        /\ internal_data' = [internal_data EXCEPT ![c] = r]
        /\ return_deadline' = [return_deadline EXCEPT ![c] = d]
        /\ remaining' = [remaining EXCEPT ![c] = n]
        /\ status' = [status EXCEPT ![c] = Blocked]
  BY <1>1 DEF YieldBlocked, IInv, PlainType
<1>4. /\ internal_data \in [Proc -> WaitData] /\ remaining \in [Proc -> Nat] /\ status \in [Proc -> ProcessState]
      /\ return_deadline \in [Proc -> 0 .. TimeMod - 1] /\ now \in TimeRegister
  BY DEF IInv, PlainType, TimeRegister
<1>5. Remains'
  <2> SUFFICES ASSUME NEW p \in Proc, status'[p] \in {Blocked, Running}, internal_data'[p].callback,
                      remaining'[p] > 0
               PROVE  Late(p)' = -remaining'[p] /\ 2 * remaining'[p] < TimeMod
    BY DEF Remains
  <2>1. CASE p = c
    <3>1. n # 0 /\ remaining'[p] = n /\ return_deadline'[p] = d BY <1>3, <1>4, <2>1
    <3>2. Signed(now - d) = -n BY <1>1, <1>2, <1>4, <3>1, LateWait
    <3> QED BY <1>2, <1>3, <3>1, <3>2 DEF Late
  <2>2. CASE p # c
    <3>1. /\ remaining'[p] = remaining[p] /\ return_deadline'[p] = return_deadline[p]
          /\ status'[p] = status[p] /\ internal_data'[p] = internal_data[p]
      BY <1>3, <1>4, <2>2
    <3>2. Late(p)' = Late(p) BY <1>3, <3>1, LateSame
    <3> QED BY <3>1, <3>2 DEF ResumeInv, Remains
  <2> QED BY <2>1, <2>2
<1>6. WaitsKnown'
  <2>1. \A p \in Proc : internal_data'[p] = IF p = c THEN r ELSE internal_data[p] BY <1>3, <1>4
  <2> QED BY <1>1, <2>1 DEF ResumeInv, WaitsKnown
<1>7. NoEarlyResume' BY <1>3 DEF NoEarlyResume
<1> QED BY <1>5, <1>6, <1>7 DEF ResumeInv

(* A process that leaves the processor without a wait, and one that is     *)
(* started: neither can resume.                                            *)
LEMMA ResumeNone ==
  ASSUME IInv, ResumeInv, NEW p \in Proc, control' # "switch", UNCHANGED <<now, remaining>>,
         \A x \in Proc : x # p => /\ status'[x] = status[x] /\ internal_data'[x] = internal_data[x]
                                  /\ return_deadline'[x] = return_deadline[x],
         status'[p] \notin {Blocked, Running},
         internal_data'[p] \in {internal_data[p], NoWait}
  PROVE  ResumeInv'
<1>1. NoEarlyResume' BY DEF NoEarlyResume
<1>2. Remains'
  <2>1. \A x \in Proc : x # p => Late(x)' = Late(x) BY DEF Late
  <2> QED BY <2>1 DEF ResumeInv, Remains
<1>3. WaitsKnown' BY DEF ResumeInv, WaitsKnown, NoWait
<1> QED BY <1>1, <1>2, <1>3 DEF ResumeInv

LEMMA ResumeSame ==
  ASSUME IInv, ResumeInv, control' # "switch",
         UNCHANGED <<status, internal_data, return_deadline, now, remaining>>
  PROVE  ResumeInv'
<1>1. NoEarlyResume' BY DEF NoEarlyResume
<1>2. \A x : Late(x)' = Late(x) BY DEF Late
<1>3. Remains' /\ WaitsKnown' BY <1>2 DEF ResumeInv, Remains, WaitsKnown
<1> QED BY <1>1, <1>3 DEF ResumeInv

LEMMA ResumeTick ==
  ASSUME IInv, ResumeInv, Tick
  PROVE  ResumeInv'
<1>1. /\ UNCHANGED <<status, internal_data, return_deadline, memory, control, current_process>>
      /\ now' = (now + 1) % TimeMod
      /\ remaining' = [p \in Proc |-> IF remaining[p] > 0 THEN remaining[p] - 1 ELSE 0]
  BY DEF Tick
<1>2. remaining \in [Proc -> Nat] /\ TimeMod \in Nat BY SizeAssumption DEF IInv, PlainType
<1>3. Remains'
  <2> SUFFICES ASSUME NEW p \in Proc, status[p] \in {Blocked, Running}, internal_data[p].callback,
                      remaining'[p] > 0
               PROVE  Late(p)' = -remaining'[p] /\ 2 * remaining'[p] < TimeMod
    BY <1>1 DEF Remains
  <2>1. remaining[p] > 1 /\ remaining'[p] = remaining[p] - 1 /\ remaining[p] \in Nat
    BY <1>1, <1>2
  <2>2. Late(p) = -remaining[p] /\ 2 * remaining[p] < TimeMod
    BY <2>1 DEF ResumeInv, Remains
  <2>3. 1 < TimeMod /\ 2 * (Late(p) + 1) < TimeMod BY <1>2, <2>1, <2>2
  <2>4. Late(p)' = Late(p) + 1 BY <1>1, <2>3, IInvFacts, LateTick
  <2> QED BY <1>2, <2>1, <2>2, <2>4
<1>4. WaitsKnown' BY <1>1 DEF ResumeInv, WaitsKnown
<1>5. NoEarlyResume'
  <2> SUFFICES ASSUME control = "switch", status[current_process] = Running
               PROVE  \/ ConditionHolds(internal_data[current_process])'
                      \/ internal_data[current_process].callback /\ remaining'[current_process] = 0
    BY <1>1 DEF NoEarlyResume
  <2>1. CASE ConditionHolds(internal_data[current_process])
    BY <1>1, <2>1 DEF ConditionHolds, Satisfies
  <2>2. CASE internal_data[current_process].callback /\ remaining[current_process] = 0
    <3>1. current_process \in Proc BY DEF IInv, PlainType
    <3> QED BY <1>1, <1>2, <2>2, <3>1
  <2> QED BY <2>1, <2>2 DEF ResumeInv, NoEarlyResume
<1> QED BY <1>3, <1>4, <1>5 DEF ResumeInv

(* An interrupt between next_process and the process it resumes sets a     *)
(* flag: this does not undo the condition the process was resumed for.     *)
LEMMA ResumeInterrupt ==
  ASSUME StableWaits, IInv, ResumeInv, NEW v \in InterruptVariable, Interrupt(v)
  PROVE  ResumeInv'
<1>1. /\ UNCHANGED <<status, internal_data, return_deadline, now, remaining, control, current_process>>
      /\ memory' = [memory EXCEPT ![v] = 1]
  BY DEF Interrupt
<1>2. \A x : Late(x)' = Late(x) BY <1>1 DEF Late
<1>3. Remains' /\ WaitsKnown' BY <1>1, <1>2 DEF ResumeInv, Remains, WaitsKnown
<1>4. NoEarlyResume'
  <2> SUFFICES ASSUME control = "switch", status[current_process] = Running,
                      ConditionHolds(internal_data[current_process])
               PROVE  ConditionHolds(internal_data[current_process])'
    BY <1>1 DEF ResumeInv, NoEarlyResume
  <2>1. PICK r \in WaitData : r = internal_data[current_process]
    BY DEF IInv, PlainType
  <2>2. r.condition # "None" BY <2>1 DEF ConditionHolds
  <2>3. PICK w \in Wait : r = WaitRecord(w, r.callback)
    BY <2>1, <2>2 DEF ResumeInv, WaitsKnown, IInv, PlainType
  <2>4. /\ r.variable \in Variable \cup Proc
        /\ r.variable \in InterruptVariable => Satisfies(1, r.condition, r.value)
    BY <2>3, KnownWaitHolds
  <2>5. ConditionHolds(internal_data[current_process])'
          = (/\ r.condition # "None"
             /\ Satisfies(IF r.variable \in Proc THEN status[r.variable] ELSE memory'[r.variable],
                          r.condition, r.value))
    BY <1>1, <2>1 DEF ConditionHolds, Satisfies
  <2>6. memory \in [Variable -> Value] BY DEF IInv, PlainType
  <2>7. CASE r.variable = v
    <3>1. memory'[r.variable] = 1 /\ r.variable \notin Proc
      BY <1>1, <2>6, <2>7, ProcAssumption
    <3> QED BY <2>2, <2>4, <2>5, <2>7, <3>1
  <2>8. CASE r.variable # v
    <3>1. r.variable \notin Proc => memory'[r.variable] = memory[r.variable]
      BY <1>1, <2>4, <2>6, <2>8
    <3> QED BY <2>1, <2>5, <3>1 DEF ConditionHolds
  <2> QED BY <2>7, <2>8
<1> QED BY <1>3, <1>4 DEF ResumeInv

LEMMA ResumeStep ==
  ASSUME FewProcesses, StableWaits, ShortTicks, IInv, ResumeInv, [Next]_vars
  PROVE  ResumeInv'
<1>1. CASE SwitchProcess
  <2>1. PICK c \in Proc :
          /\ c = current_process /\ control' = "process" /\ UNCHANGED <<now, remaining, return_deadline>>
          /\ status' = [status EXCEPT ![c] = Done]
          /\ internal_data' = [internal_data EXCEPT ![c] = NoWait]
    BY <1>1 DEF SwitchProcess, IInv, PlainType
  <2>2. status \in [Proc -> ProcessState] /\ internal_data \in [Proc -> WaitData]
    BY DEF IInv, PlainType
  <2>3. /\ status'[c] = Done /\ internal_data'[c] = NoWait
        /\ \A x \in Proc : x # c => status'[x] = status[x] /\ internal_data'[x] = internal_data[x]
    BY <2>1, <2>2
  <2> QED BY <2>1, <2>3, ResumeNone
<1>2. ASSUME NEW q \in Proc, StartProcess(q) PROVE ResumeInv'
  <2>1. /\ control' = "process" /\ UNCHANGED <<now, remaining, internal_data>>
        /\ status' = [status EXCEPT ![q] = Ready]
        /\ return_deadline' = [return_deadline EXCEPT ![q] = now]
    BY <1>2 DEF StartProcess
  <2>2. /\ status'[q] = Ready
        /\ \A x \in Proc : x # q => status'[x] = status[x] /\ return_deadline'[x] = return_deadline[x]
    BY <2>1, IInvFacts
  <2> QED BY <2>1, <2>2, ResumeNone
<1>3. CASE Finish \/ RtosMain
  BY <1>3, ResumeSame DEF Finish, RtosMain
<1>4. ASSUME NEW v \in Variable, NEW x \in Value, Assign(v, x) PROVE ResumeInv'
  BY <1>4, ResumeSame DEF Assign
<1>5. CASE UNCHANGED vars
  <2>1. /\ UNCHANGED <<status, internal_data, return_deadline, memory, now, remaining,
                       control, current_process>>
    BY <1>5 DEF vars
  <2>2. \A x : Late(x)' = Late(x) BY <2>1 DEF Late
  <2>3. Remains' /\ WaitsKnown' BY <2>1, <2>2 DEF ResumeInv, Remains, WaitsKnown
  <2>4. NoEarlyResume' BY <2>1 DEF ResumeInv, NoEarlyResume, ConditionHolds, Satisfies
  <2> QED BY <2>3, <2>4 DEF ResumeInv
<1> QED BY <1>1, <1>2, <1>3, <1>4, <1>5, ResumeNext, ResumeYield, ResumeTick, ResumeInterrupt DEF Next

(* A wait ends only for its reason: the condition holds when the process   *)
(* goes on, or its delay has elapsed in real ticks, whatever the timer     *)
(* register has wrapped to, for every delay below half its range.          *)
THEOREM ResumesForItsReason ==
  ASSUME FewProcesses, StableWaits, ShortTicks
  PROVE  Spec => []NoEarlyResume
<1>1. Init => ResumeInv
  BY DEF Init, ResumeInv, Remains, WaitsKnown, NoEarlyResume, NoWait
<1>2. IInv /\ ResumeInv /\ [Next]_vars => ResumeInv' BY ResumeStep
<1>3. ResumeInv => NoEarlyResume BY DEF ResumeInv
<1> QED BY <1>1, <1>2, <1>3, Consistent, PTL DEF Spec
=============================================================================
