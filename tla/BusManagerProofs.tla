-------------------------- MODULE BusManagerProofs --------------------------
(***************************************************************************)
(* Theorems about BusManager, for every set of requests and devices, every *)
(* length of the queue and all busy times, and that it implements          *)
(* BusService.                                                             *)
(***************************************************************************)
EXTENDS BusManager, TLAPS

(* A slow device can be busy after a call of its request processor. *)
Slow(d) == \E o \in Operation[d] : o.calls # 1 \/ o.ends_busy

(* This program's bus: the EEPROM beside the IMU.  With two, complete      *)
(* requests are marked again (TwoSlowDevices in MCBusManager).             *)
AtMostOneSlow == \A d, e \in Device : Slow(d) /\ Slow(e) => d = e

(* Types alone are not inductive: occupied slots must hold requests, and   *)
(* the head, the tail and the count must agree.                            *)
QueueInv ==
  /\ request_queue_tail = SlotAfter(request_queue_head, request_count)
  /\ \A i \in 0 .. request_count - 1 : QueueAt(i) \in Request

Distinct == \A i, j \in 0 .. request_count - 1 : QueueAt(i) = QueueAt(j) => i = j

(* A request is queued from its push until it is done with. *)
ClientInv ==
  \A r \in Request :
    /\ client[r] = "waiting" => (r \in InQueue <=> status[r] # "CompleteNotBusy")
    /\ client[r] # "waiting" => r \notin InQueue /\ status[r] # "Complete"
    /\ client[r] = "full" => status[r] = "Ready"

OperationInv ==
  \A r \in Request :
    ~Slow(DeviceOf[r]) => operation[r].calls <= 1 /\ ~operation[r].ends_busy

(* Requests of the slow device are served in order and the others are      *)
(* never blocked, so the one that left its device busy is at the head.     *)
BusyInv ==
  \A r \in Request :
    busy[r] => request_count > 0 /\ r = QueueAt(0) /\ Slow(DeviceOf[r])

StatusInv ==
  \A i \in 0 .. request_count - 1 :
    /\ status[QueueAt(i)] = "Blocked" =>
         i > 0 /\ busy[QueueAt(0)] /\ DeviceOf[QueueAt(i)] = DeviceOf[QueueAt(0)]
    /\ status[QueueAt(i)] = "Complete" =>
         \/ busy[QueueAt(i)]
         \/ control \in {"execute", "clear"} /\ i = blocked_count

(* The scan passes the head only if it is busy, and has then blocked all   *)
(* others of the slow device.                                              *)
ScanInv ==
  /\ control = "scan" /\ blocked_count > 0 =>
       /\ busy[QueueAt(0)]
       /\ \A i \in 1 .. request_count - 1 :
            DeviceOf[QueueAt(i)] = DeviceOf[QueueAt(0)] => status[QueueAt(i)] = "Blocked"
  /\ control \in {"execute", "transfer", "clear"} /\ blocked_count > 0 =>
       ~Slow(DeviceOf[current_request])
  /\ control \in {"execute", "transfer"} => ~busy[current_request]

(* While a device is busy a request in the queue says so, for as long.     *)
DeviceInv ==
  \A d \in Device :
    device_busy[d] > 0 =>
      /\ request_count > 0
      /\ busy[QueueAt(0)] /\ DeviceOf[QueueAt(0)] = d
      /\ device_busy[d] <= busy_until[QueueAt(0)]

ServiceInv == Distinct /\ ClientInv /\ OperationInv /\ BusyInv /\ StatusInv /\ ScanInv /\ DeviceInv

IInv == TypeOK /\ QueueInv /\ ServiceInv

(* The manager passes over requests of the device at the head only, and    *)
(* the request it takes from behind them is for another device.            *)
PassedInv ==
  /\ control \in {"scan", "execute", "transfer", "clear"} =>
       \A i \in 0 .. blocked_count - 1 : DeviceOf[QueueAt(i)] = DeviceOf[QueueAt(0)]
  /\ control \in {"execute", "transfer", "clear"} /\ blocked_count > 0 =>
       DeviceOf[current_request] # DeviceOf[QueueAt(0)]
-----------------------------------------------------------------------------
(* Arithmetic of the ring *)

LEMMA SlotFacts ==
  ASSUME NEW h \in Slot
  PROVE  /\ \A i \in 0 .. QueueLength : SlotAfter(h, i) \in Slot
         /\ \A i, j \in 0 .. QueueLength - 1 : SlotAfter(h, i) = SlotAfter(h, j) => i = j
         /\ \A i \in 0 .. QueueLength - 1 : SlotAfter(SlotAfter(h, 1), i) = SlotAfter(h, i + 1)
         /\ \A i \in 0 .. QueueLength - 1 : SlotAfter(SlotAfter(h, i), 1) = SlotAfter(h, i + 1)
         /\ \A i \in 1 .. QueueLength - 1 :
              SlotAfter(SlotAfter(h, i), QueueLength - 1) = SlotAfter(h, i - 1)
         /\ SlotAfter(h, 0) = h
  BY BusSizeAssumption DEF Slot, SlotAfter

LEMMA SameQueue ==
  ASSUME UNCHANGED queue
  PROVE  /\ \A i : QueueAt(i)' = QueueAt(i)
         /\ InQueue' = InQueue
         /\ UNCHANGED <<request_queue, request_queue_head, request_queue_tail, request_count>>
         /\ QueueInv => QueueInv'
         /\ Distinct => Distinct'
  BY DEF queue, QueueAt, InQueue, QueueInv, Distinct

(* The entries keep their places and the new one comes behind them. *)
LEMMA PushFacts ==
  ASSUME TypeOK, QueueInv, NEW r \in Request, request_count < QueueLength, Push(r)
  PROVE  /\ request_count' = request_count + 1
         /\ \A i \in 0 .. request_count - 1 : QueueAt(i)' = QueueAt(i)
         /\ QueueAt(request_count - 1)' = r
         /\ request_queue' \in [Slot -> Request \cup {NoRequest}]
         /\ request_queue_head' = request_queue_head
         /\ request_queue_tail' \in Slot
         /\ QueueInv'
<1> USE BusSizeAssumption
<1>0. /\ request_queue_head \in Slot /\ request_queue_tail \in Slot
      /\ request_count \in 0 .. QueueLength - 1
      /\ request_queue \in [Slot -> Request \cup {NoRequest}]
      /\ request_queue_tail = SlotAfter(request_queue_head, request_count)
  BY DEF TypeOK, QueueInv
<1>1. /\ request_count' = request_count + 1
      /\ request_queue_head' = request_queue_head
      /\ request_queue_tail' = SlotAfter(request_queue_tail, 1)
      /\ request_queue' = [request_queue EXCEPT ![request_queue_tail] = r]
  BY DEF Push
<1>2. request_queue_tail' = SlotAfter(request_queue_head, request_count + 1)
  BY <1>0, <1>1, SlotFacts
<1>3. request_queue_tail' \in Slot
  BY <1>0, <1>2, SlotFacts
<1>4. QueueAt(request_count - 1)' = r
  <2>1. request_count' - 1 = request_count
    BY <1>0, <1>1
  <2> QED
    BY <1>0, <1>1, <2>1 DEF QueueAt
<1>5. ASSUME NEW i \in 0 .. request_count - 1 PROVE QueueAt(i)' = QueueAt(i)
  <2>1. SlotAfter(request_queue_head, i) \in Slot
    BY <1>0, SlotFacts
  <2>2. SlotAfter(request_queue_head, i) # request_queue_tail
    <3>1. i \in 0 .. QueueLength - 1 /\ request_count \in 0 .. QueueLength - 1 /\ i # request_count
      BY <1>0
    <3> QED
      BY <1>0, <3>1, SlotFacts
  <2> QED
    BY <1>0, <1>1, <2>1, <2>2 DEF QueueAt
<1>6. \A i \in 0 .. request_count' - 1 : QueueAt(i)' \in Request
  <2> SUFFICES ASSUME NEW i \in 0 .. request_count PROVE QueueAt(i)' \in Request
    BY <1>0, <1>1
  <2>1. CASE i = request_count
    <3>1. i = request_count' - 1
      BY <1>0, <1>1, <2>1
    <3> QED
      BY <1>4, <3>1
  <2>2. CASE i \in 0 .. request_count - 1
    BY <1>5, <2>2 DEF QueueInv
  <2> QED
    BY <1>0, <2>1, <2>2
<1>7. QueueInv'
  BY <1>1, <1>2, <1>6 DEF QueueInv
<1> QED
  BY <1>0, <1>1, <1>3, <1>4, <1>5, <1>7

(* What closing the gap leaves: the entries before it keep their places,   *)
(* counted from the new head, and those behind it come one nearer.         *)
LEMMA RemoveFacts ==
  ASSUME TypeOK, QueueInv, blocked_count < request_count,
         request_queue' = QueueMovedUp, request_count' = request_count - 1,
         request_queue_head' = SlotAfter(request_queue_head, 1),
         UNCHANGED request_queue_tail
  PROVE  /\ \A i \in 0 .. request_count - 2 :
              QueueAt(i)' = IF i < blocked_count THEN QueueAt(i) ELSE QueueAt(i + 1)
         /\ request_queue' \in [Slot -> Request \cup {NoRequest}]
         /\ request_queue_head' \in Slot
         /\ QueueInv'
<1> USE BusSizeAssumption
<1>0. /\ request_queue_head \in Slot /\ request_queue_tail \in Slot
      /\ request_count \in 1 .. QueueLength
      /\ blocked_count \in 0 .. request_count - 1
      /\ request_queue \in [Slot -> Request \cup {NoRequest}]
      /\ request_queue_tail = SlotAfter(request_queue_head, request_count)
  BY DEF TypeOK, QueueInv
<1>1. request_queue_head' \in Slot
  BY <1>0, SlotFacts
<1>2. ASSUME NEW i \in 0 .. request_count - 2
      PROVE  QueueAt(i)' = IF i < blocked_count THEN QueueAt(i) ELSE QueueAt(i + 1)
  <2> DEFINE s == SlotAfter(request_queue_head, i + 1)
  <2>1. i \in 0 .. QueueLength - 1 /\ i + 1 \in 1 .. QueueLength - 1 /\ i + 1 \in 0 .. QueueLength - 1
    BY <1>0
  <2>2. s \in Slot /\ SlotAfter(request_queue_head', i) = s
    BY <1>0, <2>1, SlotFacts
  <2>3. QueueAt(i)' = QueueMovedUp[s]
    BY <2>2 DEF QueueAt
  <2>4. SlotAfter(s, QueueLength - 1) = SlotAfter(request_queue_head, i)
    BY <1>0, <2>1, SlotFacts
  <2>5. (\E j \in 1 .. blocked_count : s = SlotAfter(request_queue_head, j)) <=> i < blocked_count
    <3>1. ASSUME NEW j \in 1 .. blocked_count, s = SlotAfter(request_queue_head, j) PROVE i < blocked_count
      <4>1. j \in 0 .. QueueLength - 1
        BY <1>0
      <4>2. j = i + 1
        BY <1>0, <2>1, <3>1, <4>1, SlotFacts
      <4> QED
        BY <1>0, <4>2
    <3>2. i < blocked_count => i + 1 \in 1 .. blocked_count
      BY <1>0
    <3> QED
      BY <3>1, <3>2
  <2> QED
    BY <2>2, <2>3, <2>4, <2>5 DEF QueueMovedUp, QueueAt
<1>3. request_queue' \in [Slot -> Request \cup {NoRequest}]
  <2>1. \A s \in Slot : SlotAfter(s, QueueLength - 1) \in Slot
    BY SlotFacts
  <2> QED
    BY <1>0, <2>1 DEF QueueMovedUp
<1>4. request_queue_tail' = SlotAfter(request_queue_head', request_count')
  <2>1. request_count - 1 \in 0 .. QueueLength - 1 /\ (request_count - 1) + 1 = request_count
    BY <1>0
  <2> QED
    BY <1>0, <2>1, SlotFacts
<1>5. \A i \in 0 .. request_count' - 1 : QueueAt(i)' \in Request
  BY <1>0, <1>2 DEF QueueInv
<1> QED
  BY <1>1, <1>2, <1>3, <1>4, <1>5 DEF QueueInv
-----------------------------------------------------------------------------
(* Types *)

LEMMA OperationTypes ==
  /\ NoOperation \in OperationType
  /\ \A d \in Device : \A o \in Operation[d] : o \in OperationType /\ o.calls > 0
  BY BusAssumption DEF NoOperation, OperationType

LEMMA CurrentFacts ==
  ASSUME TypeOK, QueueInv, control \in {"execute", "transfer", "clear"}
  PROVE  /\ blocked_count \in 0 .. request_count - 1
         /\ request_count \in 1 .. QueueLength
         /\ current_request = QueueAt(blocked_count)
         /\ current_request \in Request
  BY BusSizeAssumption DEF TypeOK, QueueInv

(* A call of a request processor concerns one request and its device. It   *)
(* leaves the device busy, or it was the last one.                         *)
LEMMA ProcessorFacts ==
  ASSUME TypeOK, NEW r \in Request, ProcessorReturns(r)
  PROVE  /\ control' = "clear"
         /\ operation' \in [Request -> OperationType]
         /\ status' \in [Request -> RequestStatus]
         /\ busy' \in [Request -> BOOLEAN]
         /\ busy_until' \in [Request -> Nat]
         /\ device_busy' \in [Device -> Nat]
         /\ \A x \in Request \ {r} : busy'[x] = busy[x] /\ status'[x] = status[x]
                                     /\ busy_until'[x] = busy_until[x]
                                     /\ operation'[x] = operation[x]
         /\ operation'[r].calls <= operation[r].calls
         /\ operation'[r].ends_busy = operation[r].ends_busy
         /\ status'[r] \in {"Complete", status[r]}
         /\ \/ /\ operation[r].calls > 1 \/ operation[r].ends_busy
               /\ busy'[r]
               /\ device_busy'[DeviceOf[r]] = busy_until'[r]
               /\ \A d \in Device \ {DeviceOf[r]} : device_busy'[d] = device_busy[d]
            \/ /\ status'[r] = "Complete"
               /\ UNCHANGED <<busy, busy_until, device_busy>>
<1> DEFINE last == operation[r].calls <= 1
<1>0. /\ operation \in [Request -> OperationType]
      /\ status \in [Request -> RequestStatus]
      /\ busy \in [Request -> BOOLEAN]
      /\ busy_until \in [Request -> Nat]
      /\ device_busy \in [Device -> Nat]
      /\ DeviceOf[r] \in Device
  BY BusAssumption DEF TypeOK
<1>1. /\ operation[r].calls \in Nat /\ operation[r].ends_busy \in BOOLEAN
  BY <1>0 DEF OperationType
<1>2. operation' = [operation EXCEPT ![r] = RestOf(operation[r])]
  BY DEF ProcessorReturns
<1>3. /\ operation' \in [Request -> OperationType]
      /\ \A x \in Request \ {r} : operation'[x] = operation[x]
      /\ operation'[r].calls <= operation[r].calls
      /\ operation'[r].ends_busy = operation[r].ends_busy
  <2>1. /\ RestOf(operation[r]) \in OperationType
        /\ RestOf(operation[r]).calls <= operation[r].calls
        /\ RestOf(operation[r]).ends_busy = operation[r].ends_busy
    BY <1>1 DEF RestOf, OperationType
  <2> QED
    BY <1>0, <1>2, <2>1
<1>4. /\ status' = IF last THEN [status EXCEPT ![r] = "Complete"] ELSE status
      /\ control' = "clear"
  BY DEF ProcessorReturns
<1>5. CASE ~last \/ operation[r].ends_busy
  <2>1. PICK t \in BusyTime : /\ busy_until' = [busy_until EXCEPT ![r] = t]
                              /\ device_busy' = [device_busy EXCEPT ![DeviceOf[r]] = t]
    BY <1>5 DEF ProcessorReturns
  <2>2. busy' = [busy EXCEPT ![r] = TRUE]
    BY <1>5 DEF ProcessorReturns
  <2>3. t \in Nat
    BY BusSizeAssumption
  <2> QED
    BY <1>0, <1>1, <1>3, <1>4, <1>5, <2>1, <2>2, <2>3 DEF RequestStatus
<1>6. CASE ~(~last \/ operation[r].ends_busy)
  <2>1. UNCHANGED <<busy, busy_until, device_busy>>
    BY <1>6 DEF ProcessorReturns
  <2> QED
    BY <1>0, <1>1, <1>3, <1>4, <1>6, <2>1 DEF RequestStatus
<1> QED
  BY <1>5, <1>6

LEMMA InitTypes == Init => TypeOK /\ QueueInv
<1> SUFFICES ASSUME Init PROVE TypeOK /\ QueueInv
  OBVIOUS
<1> USE BusSizeAssumption
<1>1. 0 \in Slot /\ 0 \in 0 .. QueueLength /\ 0 \in 0 .. 0
  BY DEF Slot
<1>2. TypeOK
  BY <1>1, OperationTypes DEF Init, TypeOK, RequestStatus, Waiting
<1>3. QueueInv
  BY DEF Init, QueueInv, SlotAfter
<1> QED
  BY <1>2, <1>3

LEMMA RequestTypes ==
  ASSUME TypeOK, QueueInv, NEW r \in Request,
         RequestTransaction(r) \/ RetryPush(r) \/ WaitUntilDone(r)
  PROVE  TypeOK' /\ QueueInv'
<1> USE DEF queue, fields, manager
<1>0. control' = control /\ blocked_count' = blocked_count /\ current_request' = current_request
      /\ old_count' = old_count /\ busy_until' = busy_until /\ device_busy' = device_busy
      /\ control \in Waiting
  BY DEF RequestTransaction, RetryPush, WaitUntilDone
<1>1. /\ status' \in [Request -> RequestStatus]
      /\ busy' \in [Request -> BOOLEAN]
      /\ operation' \in [Request -> OperationType]
  <2>1. CASE RequestTransaction(r)
    <3>1. PICK o \in Operation[DeviceOf[r]] : operation' = [operation EXCEPT ![r] = o]
      BY <2>1 DEF RequestTransaction
    <3>2. o \in OperationType
      BY BusAssumption, OperationTypes
    <3> QED
      BY <2>1, <3>1, <3>2 DEF RequestTransaction, TypeOK, RequestStatus
  <2>2. CASE RetryPush(r) \/ WaitUntilDone(r)
    BY <2>2 DEF RetryPush, WaitUntilDone, TypeOK
  <2> QED
    BY <2>1, <2>2
<1>2. CASE request_count < QueueLength /\ Push(r)
  <2>1. /\ request_count' = request_count + 1
        /\ \A i \in 0 .. request_count - 1 : QueueAt(i)' = QueueAt(i)
        /\ request_queue' \in [Slot -> Request \cup {NoRequest}]
        /\ request_queue_head' = request_queue_head
        /\ request_queue_tail' \in Slot
        /\ QueueInv'
    BY <1>2, PushFacts
  <2>2. request_count' \in 0 .. QueueLength /\ blocked_count' \in 0 .. request_count'
    BY <1>0, <1>2, <2>1, BusSizeAssumption DEF TypeOK
  <2>3. control' \in {"execute", "transfer", "clear"} =>
          blocked_count' < request_count' /\ current_request' = QueueAt(blocked_count)'
    BY <1>0, <2>1, BusSizeAssumption DEF TypeOK
  <2>4. client' \in [Request -> {"idle", "full", "waiting"}]
    BY <1>2 DEF Push, TypeOK
  <2> QED
    BY <1>0, <1>1, <2>1, <2>2, <2>3, <2>4 DEF TypeOK
<1>3. CASE UNCHANGED queue /\ client' \in [Request -> {"idle", "full", "waiting"}]
  <2>1. /\ QueueAt(blocked_count)' = QueueAt(blocked_count)
        /\ UNCHANGED <<request_queue, request_queue_head, request_queue_tail, request_count>>
        /\ QueueInv'
    BY <1>0, <1>3, SameQueue DEF QueueAt
  <2> QED
    BY <1>0, <1>1, <1>3, <2>1 DEF TypeOK
<1>4. \/ request_count < QueueLength /\ Push(r)
      \/ UNCHANGED queue /\ client' \in [Request -> {"idle", "full", "waiting"}]
  BY BusSizeAssumption DEF RequestTransaction, RetryPush, WaitUntilDone, PushOrWait, TypeOK
<1> QED
  BY <1>2, <1>3, <1>4

LEMMA ClearTypes ==
  ASSUME TypeOK, QueueInv, ClearRequest
  PROVE  TypeOK' /\ QueueInv'
<1> USE BusSizeAssumption
<1>0. blocked_count < request_count /\ current_request \in Request
      /\ request_count \in 1 .. QueueLength /\ blocked_count \in 0 .. request_count - 1
  BY CurrentFacts DEF ClearRequest
<1>1. control' = "loop"
  BY DEF ClearRequest
<1>2. CASE Cleared
  <2>1. /\ request_queue' = QueueMovedUp /\ request_count' = request_count - 1
        /\ request_queue_head' = SlotAfter(request_queue_head, 1)
        /\ blocked_count' = 0
        /\ status' = [status EXCEPT ![current_request] = "CompleteNotBusy"]
        /\ UNCHANGED <<request_queue_tail, busy, busy_until, operation, current_request,
                 old_count, client, device_busy>>
    BY <1>2 DEF ClearRequest
  <2>2. /\ request_queue' \in [Slot -> Request \cup {NoRequest}]
        /\ request_queue_head' \in Slot
        /\ QueueInv'
    BY <1>0, <2>1, RemoveFacts
  <2>3. request_count' \in 0 .. QueueLength /\ blocked_count' \in 0 .. request_count'
    BY <1>0, <2>1
  <2> QED
    BY <1>1, <2>1, <2>2, <2>3 DEF TypeOK, RequestStatus
<1>3. CASE ~Cleared
  <2>1. UNCHANGED <<request_queue, request_queue_head, request_queue_tail, request_count>>
        /\ UNCHANGED <<status, blocked_count, busy, busy_until, operation, current_request,
                       old_count, client, device_busy>>
    BY <1>3 DEF ClearRequest
  <2> QED
    BY <1>1, <2>1, SameQueue DEF TypeOK, queue
<1> QED
  BY <1>2, <1>3

(* Marking gives the marked requests the mark and leaves the others alone. *)
LEMMA SetMatchingTypes ==
  ASSUME TypeOK, NEW s \in Slot, NEW r \in Request, NEW st \in RequestStatus
  PROVE  SetMatching(s, r, st) \in [Request -> RequestStatus]
  BY DEF SetMatching, TypeOK

(* A turn of the scan, by what it finds. *)
LEMMA ScanFacts ==
  ASSUME TypeOK, QueueInv, ScanRequest, NEW r, r = QueueAt(blocked_count)
  PROVE  /\ request_count \in 1 .. QueueLength /\ blocked_count \in 0 .. request_count - 1
         /\ r \in Request
         /\ current_request' = r
         /\ UNCHANGED <<queue, busy_until, operation, old_count, client, device_busy>>
         /\ \/ /\ ~busy[r] /\ status[r] = "Ready"
               /\ control' = "execute" /\ UNCHANGED <<status, busy, blocked_count>>
            \/ /\ ~busy[r] /\ status[r] # "Ready"
               /\ blocked_count' = blocked_count + 1 /\ UNCHANGED <<status, busy, control>>
            \/ /\ busy[r] /\ Expired(r)
               /\ busy' = [busy EXCEPT ![r] = FALSE]
               /\ status' = SetMatching(SlotAfter(request_queue_head, blocked_count), r, "Ready")
               /\ control' = "execute" /\ UNCHANGED blocked_count
            \/ /\ busy[r] /\ ~Expired(r)
               /\ status' = SetMatching(SlotAfter(request_queue_head, blocked_count), r, "Blocked")
               /\ blocked_count' = blocked_count + 1 /\ UNCHANGED <<busy, control>>
<1>1. request_count \in 1 .. QueueLength /\ blocked_count \in 0 .. request_count - 1
  BY BusSizeAssumption DEF ScanRequest, TypeOK
<1>2. r = request_queue[SlotAfter(request_queue_head, blocked_count)]
  BY DEF QueueAt
<1>3. r \in Request
  BY <1>1 DEF QueueInv
<1> QED
  BY <1>1, <1>2, <1>3 DEF ScanRequest

LEMMA ScanTypes ==
  ASSUME TypeOK, QueueInv, ScanRequest
  PROVE  TypeOK' /\ QueueInv'
<1> USE BusSizeAssumption
<1> DEFINE r == QueueAt(blocked_count)
           s == SlotAfter(request_queue_head, blocked_count)
<1>0. control = "scan"
  BY DEF ScanRequest
<1>1. request_count \in 1 .. QueueLength /\ blocked_count \in 0 .. request_count - 1
      /\ r \in Request /\ current_request' = r
      /\ UNCHANGED <<queue, busy_until, operation, old_count, client, device_busy>>
  BY ScanFacts
<1>2. /\ UNCHANGED <<request_queue, request_queue_head, request_queue_tail, request_count>>
      /\ \A i : QueueAt(i)' = QueueAt(i)
      /\ QueueInv'
  BY <1>1, SameQueue
<1>3. s \in Slot
  BY <1>1, SlotFacts DEF TypeOK
<1>4. /\ SetMatching(s, r, "Ready") \in [Request -> RequestStatus]
      /\ SetMatching(s, r, "Blocked") \in [Request -> RequestStatus]
  BY <1>1, <1>3, SetMatchingTypes DEF RequestStatus
<1>5. /\ status' \in [Request -> RequestStatus]
      /\ busy' \in [Request -> BOOLEAN]
      /\ \/ control' = "execute" /\ blocked_count' = blocked_count
         \/ control' = "scan" /\ blocked_count' = blocked_count + 1
  BY <1>0, <1>1, <1>4, ScanFacts DEF TypeOK
<1>6. blocked_count' \in 0 .. request_count'
      /\ (control' \in {"execute", "transfer", "clear"} =>
            blocked_count' < request_count' /\ current_request' = QueueAt(blocked_count)')
  <2>1. control' = "execute" => QueueAt(blocked_count)' = r
    BY <1>2, <1>5 DEF QueueAt
  <2> QED
    BY <1>1, <1>2, <1>5, <2>1
<1> QED
  BY <1>1, <1>2, <1>5, <1>6 DEF TypeOK

LEMMA ExecuteTypes ==
  ASSUME TypeOK, QueueInv, ExecuteRequest \/ EndTransfer
  PROVE  TypeOK' /\ QueueInv'
<1>0. control \in {"execute", "transfer"}
      /\ UNCHANGED <<queue, blocked_count, current_request, old_count, client>>
  BY DEF ExecuteRequest, EndTransfer
<1>1. current_request \in Request /\ current_request = QueueAt(blocked_count)
      /\ blocked_count < request_count
  BY <1>0, CurrentFacts
<1>2. /\ UNCHANGED <<request_queue, request_queue_head, request_queue_tail, request_count>>
      /\ QueueAt(blocked_count)' = QueueAt(blocked_count)
      /\ QueueInv'
  BY <1>0, SameQueue DEF QueueAt
<1>3. /\ operation' \in [Request -> OperationType]
      /\ status' \in [Request -> RequestStatus]
      /\ busy' \in [Request -> BOOLEAN]
      /\ busy_until' \in [Request -> Nat]
      /\ device_busy' \in [Device -> Nat]
      /\ control' \in {"clear", "transfer"}
  <2>1. CASE ProcessorReturns(current_request)
    BY <1>1, <2>1, ProcessorFacts
  <2>2. CASE UNCHANGED <<fields, device_busy>> /\ control' \in {"clear", "transfer"}
    BY <2>2 DEF fields, TypeOK
  <2> QED
    BY <2>1, <2>2 DEF ExecuteRequest, EndTransfer
<1> QED
  BY <1>0, <1>1, <1>2, <1>3 DEF TypeOK, Waiting

LEMMA LoopTypes ==
  ASSUME TypeOK, QueueInv, MessageLoop \/ AllBlocked \/ Unblock
  PROVE  TypeOK' /\ QueueInv'
<1>1. UNCHANGED queue /\ UNCHANGED <<status, busy, busy_until, operation, client, device_busy>>
  BY DEF MessageLoop, AllBlocked, Unblock, fields
<1>2. QueueInv' /\ UNCHANGED <<request_queue, request_queue_head, request_queue_tail, request_count>>
  BY <1>1, SameQueue
<1>3. /\ control' \in {"loop", "scan", "wait_request", "wait_unblocked"}
      /\ blocked_count' \in 0 .. request_count'
      /\ current_request' \in Request \cup {NoRequest}
      /\ old_count' \in 0 .. QueueLength
  BY <1>2, BusSizeAssumption DEF MessageLoop, AllBlocked, Unblock, TypeOK
<1> QED
  BY <1>1, <1>2, <1>3 DEF TypeOK, Waiting

LEMMA TickTypes ==
  ASSUME TypeOK, QueueInv, Tick
  PROVE  TypeOK' /\ QueueInv'
<1>1. UNCHANGED queue /\ UNCHANGED manager /\ UNCHANGED <<status, busy, operation, client>>
  BY DEF Tick
<1>2. /\ QueueInv' /\ QueueAt(blocked_count)' = QueueAt(blocked_count)
      /\ UNCHANGED <<request_queue, request_queue_head, request_queue_tail, request_count>>
  BY <1>1, SameQueue DEF manager, QueueAt
<1>3. busy_until' \in [Request -> Nat] /\ device_busy' \in [Device -> Nat]
  BY DEF Tick, TicksLeft, TypeOK
<1> QED
  BY <1>1, <1>2, <1>3 DEF TypeOK, manager

LEMMA NextTypes ==
  ASSUME TypeOK, QueueInv, [Next]_vars
  PROVE  TypeOK' /\ QueueInv'
<1>1. CASE UNCHANGED vars
  <2>1. UNCHANGED <<queue, fields, manager, client, device_busy>>
    BY <1>1 DEF vars
  <2>2. QueueInv' /\ QueueAt(blocked_count)' = QueueAt(blocked_count)
    BY <2>1, SameQueue DEF manager, QueueAt
  <2> QED
    BY <2>1, <2>2 DEF TypeOK, queue, fields, manager
<1> QED
  BY <1>1, RequestTypes, ClearTypes, ScanTypes, ExecuteTypes, LoopTypes, TickTypes
     DEF Next, Manager

(* The ring's indices stay inside it, and the manager only ever takes      *)
(* requests from it, whatever clients push meanwhile.                      *)
THEOREM TypeCorrect == Spec => [](TypeOK /\ QueueInv)
<1>1. (TypeOK /\ QueueInv) /\ [Next]_vars => (TypeOK /\ QueueInv)'
  BY NextTypes
<1> QED
  BY <1>1, InitTypes, PTL DEF Spec
-----------------------------------------------------------------------------
(* One slow device: requests, waiting and ticks *)

LEMMA InitService == Init => ServiceInv
<1> SUFFICES ASSUME Init PROVE ServiceInv
  OBVIOUS
<1>1. InQueue = {}
  BY DEF Init, InQueue
<1>2. ClientInv /\ OperationInv /\ BusyInv
  BY <1>1, BusAssumption DEF Init, ClientInv, OperationInv, BusyInv, NoOperation
<1>3. Distinct /\ StatusInv /\ ScanInv /\ DeviceInv
  BY BusAssumption DEF Init, Distinct, StatusInv, ScanInv, DeviceInv
<1> QED
  BY <1>2, <1>3 DEF ServiceInv

(* A request that is not queued is pushed: those in front do not notice. *)
LEMMA PushService ==
  ASSUME TypeOK, QueueInv, ServiceInv, NEW r \in Request,
         request_count < QueueLength, Push(r), r \notin InQueue,
         control \in Waiting, UNCHANGED <<control, blocked_count, current_request, busy_until, device_busy>>,
         status'[r] = "Ready", ~busy'[r], OperationInv',
         \A x \in Request \ {r} : status'[x] = status[x] /\ busy'[x] = busy[x]
  PROVE  ServiceInv'
<1>0. /\ request_count \in 0 .. QueueLength - 1
      /\ client \in [Request -> {"idle", "full", "waiting"}]
      /\ \A i \in 0 .. request_count - 1 : QueueAt(i) \in Request \ {r} /\ QueueAt(i) \in InQueue
  BY BusSizeAssumption DEF TypeOK, QueueInv, InQueue
<1>1. /\ request_count' = request_count + 1
      /\ \A i \in 0 .. request_count - 1 : QueueAt(i)' = QueueAt(i)
  BY PushFacts
<1>2. \A i \in 0 .. request_count : i = request_count => QueueAt(i)' = r
  <2>1. QueueAt(request_count - 1)' = r
    BY PushFacts
  <2>2. request_count' - 1 = request_count
    BY <1>0, <1>1
  <2> QED
    BY <2>1, <2>2
<1>3. \A i \in 0 .. request_count' - 1 : i \in 0 .. request_count - 1 \/ i = request_count
  BY <1>0, <1>1
<1>4. request_count > 0 => QueueAt(0)' = QueueAt(0) /\ QueueAt(0) \in Request \ {r}
  BY <1>0, <1>1
<1>5. Distinct'
  <2> SUFFICES ASSUME NEW i \in 0 .. request_count' - 1, NEW j \in 0 .. request_count' - 1,
                      QueueAt(i)' = QueueAt(j)'
               PROVE  i = j
    BY DEF Distinct
  <2>1. CASE i \in 0 .. request_count - 1 /\ j \in 0 .. request_count - 1
    BY <1>1, <2>1 DEF ServiceInv, Distinct
  <2>2. CASE i = request_count \/ j = request_count
    BY <1>0, <1>1, <1>2, <1>3, <2>2
  <2> QED
    BY <1>3, <2>1, <2>2
<1>6. InQueue' = InQueue \cup {r}
  <2>1. ASSUME NEW x \in InQueue PROVE x \in InQueue'
    <3>1. PICK i \in 0 .. request_count - 1 : x = QueueAt(i)
      BY DEF InQueue
    <3>2. i \in 0 .. request_count' - 1 /\ x = QueueAt(i)'
      BY <1>0, <1>1, <3>1
    <3> QED
      BY <3>2 DEF InQueue
  <2>2. r \in InQueue'
    <3>1. request_count \in 0 .. request_count' - 1 /\ request_count \in 0 .. request_count
      BY <1>0, <1>1
    <3>2. \E i \in 0 .. request_count' - 1 : QueueAt(i)' = r
      BY <1>2, <3>1
    <3> QED
      BY <3>2 DEF InQueue
  <2>3. ASSUME NEW x \in InQueue' PROVE x \in InQueue \cup {r}
    <3>1. PICK i \in 0 .. request_count' - 1 : x = QueueAt(i)'
      BY DEF InQueue
    <3> QED
      BY <1>0, <1>1, <1>2, <1>3, <3>1
  <2> QED
    BY <2>1, <2>2, <2>3
<1>7. ClientInv'
  <2>1. client' = [client EXCEPT ![r] = "waiting"]
    BY DEF Push
  <2> QED
    BY <1>0, <1>6, <2>1 DEF ServiceInv, ClientInv
<1>8. BusyInv'
  BY <1>0, <1>1, <1>4 DEF ServiceInv, BusyInv
<1>9. StatusInv'
  <2> SUFFICES ASSUME NEW i \in 0 .. request_count' - 1
               PROVE  /\ status'[QueueAt(i)'] = "Blocked" =>
                           i > 0 /\ busy'[QueueAt(0)'] /\ DeviceOf[QueueAt(i)'] = DeviceOf[QueueAt(0)']
                      /\ status'[QueueAt(i)'] = "Complete" => busy'[QueueAt(i)']
    BY DEF StatusInv
  <2>1. CASE i = request_count
    BY <1>0, <1>2, <2>1
  <2>2. CASE i \in 0 .. request_count - 1
    BY <1>0, <1>1, <1>4, <2>2 DEF ServiceInv, StatusInv, Waiting
  <2> QED
    BY <1>3, <2>1, <2>2
<1>10. ScanInv'
  <2>1. control = "transfer" => current_request \in Request
    BY CurrentFacts
  <2> QED
    BY <2>1 DEF ServiceInv, ScanInv, Waiting
<1>11. DeviceInv'
  BY <1>0, <1>1, <1>4 DEF ServiceInv, DeviceInv
<1> QED
  BY <1>5, <1>7, <1>8, <1>9, <1>10, <1>11 DEF ServiceInv

LEMMA RequestService ==
  ASSUME TypeOK, QueueInv, ServiceInv, NEW r \in Request,
         RequestTransaction(r) \/ RetryPush(r) \/ WaitUntilDone(r)
  PROVE  ServiceInv'
<1> USE DEF queue, fields, manager
<1>0. /\ control \in Waiting
      /\ UNCHANGED <<control, blocked_count, current_request, busy_until, device_busy>>
      /\ client \in [Request -> {"idle", "full", "waiting"}]
      /\ status \in [Request -> RequestStatus]
      /\ busy \in [Request -> BOOLEAN]
      /\ operation \in [Request -> OperationType]
  BY DEF RequestTransaction, RetryPush, WaitUntilDone, TypeOK
<1>1. CASE RequestTransaction(r) \/ RetryPush(r)
  <2>1. /\ client[r] # "waiting"
        /\ r \notin InQueue
        /\ status'[r] = "Ready"
        /\ \A x \in Request \ {r} : status'[x] = status[x] /\ busy'[x] = busy[x]
                                    /\ operation'[x] = operation[x]
    BY <1>0, <1>1 DEF RequestTransaction, RetryPush, ServiceInv, ClientInv
  <2>2. busy[r] => request_count > 0 /\ r = QueueAt(0)
    BY DEF ServiceInv, BusyInv
  <2>3. request_count > 0 => QueueAt(0) \in InQueue
    BY BusSizeAssumption DEF TypeOK, InQueue
  <2>4. ~busy'[r]
    BY <1>0, <1>1, <2>1, <2>2, <2>3 DEF RequestTransaction, RetryPush
  <2>5. OperationInv'
    <3>1. CASE RequestTransaction(r)
      <4>1. PICK o \in Operation[DeviceOf[r]] : operation' = [operation EXCEPT ![r] = o]
        BY <3>1 DEF RequestTransaction
      <4>2. o \in OperationType
        BY BusAssumption, OperationTypes
      <4>3. ~Slow(DeviceOf[r]) => o.calls <= 1 /\ ~o.ends_busy
        BY <4>1, <4>2 DEF Slow, OperationType
      <4> QED
        BY <1>0, <4>1, <4>3 DEF ServiceInv, OperationInv
    <3>2. CASE RetryPush(r)
      BY <3>2 DEF RetryPush, ServiceInv, OperationInv
    <3> QED
      BY <1>1, <3>1, <3>2
  <2>6. CASE request_count < QueueLength /\ Push(r)
    BY <1>0, <2>1, <2>4, <2>5, <2>6, PushService
  <2>7. CASE UNCHANGED queue /\ client' = [client EXCEPT ![r] = "full"]
    <3>1. /\ InQueue' = InQueue /\ Distinct' /\ QueueAt(0)' = QueueAt(0)
          /\ request_count' = request_count /\ \A i : QueueAt(i)' = QueueAt(i)
      BY <2>7, SameQueue DEF ServiceInv
    <3>2. \A i \in 0 .. request_count - 1 : QueueAt(i) \in Request \ {r}
      BY <2>1 DEF InQueue, QueueInv
    <3>3. request_count > 0 => QueueAt(0) \in Request \ {r}
      BY <3>2, BusSizeAssumption DEF TypeOK
    <3>4. ClientInv'
      BY <1>0, <2>1, <2>7, <3>1 DEF ServiceInv, ClientInv
    <3>5. BusyInv'
      BY <2>1, <2>4, <3>1 DEF ServiceInv, BusyInv
    <3>6. StatusInv'
      <4> SUFFICES ASSUME NEW i \in 0 .. request_count - 1
                   PROVE  /\ status'[QueueAt(i)] = "Blocked" =>
                               i > 0 /\ busy'[QueueAt(0)] /\ DeviceOf[QueueAt(i)] = DeviceOf[QueueAt(0)]
                          /\ status'[QueueAt(i)] = "Complete" => busy'[QueueAt(i)]
        BY <3>1 DEF StatusInv
      <4>1. QueueAt(i) \in Request \ {r} /\ QueueAt(0) \in Request \ {r}
        BY <3>2, <3>3, BusSizeAssumption DEF TypeOK
      <4> QED
        BY <1>0, <2>1, <4>1 DEF ServiceInv, StatusInv, Waiting
    <3>7. ScanInv'
      <4>1. control = "transfer" => current_request \in Request
        BY CurrentFacts
      <4> QED
        BY <1>0, <2>1, <2>4, <4>1 DEF ServiceInv, ScanInv, Waiting
    <3>8. DeviceInv'
      BY <1>0, <2>1, <3>1, <3>3 DEF ServiceInv, DeviceInv
    <3> QED
      BY <2>5, <3>1, <3>4, <3>5, <3>6, <3>7, <3>8 DEF ServiceInv
  <2>8. (request_count < QueueLength /\ Push(r)) \/ (UNCHANGED queue /\ client' = [client EXCEPT ![r] = "full"])
    BY <1>1, BusSizeAssumption DEF RequestTransaction, RetryPush, PushOrWait, TypeOK
  <2> QED
    BY <2>6, <2>7, <2>8
<1>2. CASE WaitUntilDone(r)
  <2>1. /\ UNCHANGED <<queue, status, busy, operation>>
        /\ client' = [client EXCEPT ![r] = "idle"]
        /\ client[r] = "waiting" /\ status[r] = "CompleteNotBusy"
    BY <1>2 DEF WaitUntilDone
  <2>2. InQueue' = InQueue /\ Distinct' /\ request_count' = request_count /\ \A i : QueueAt(i)' = QueueAt(i)
    BY <2>1, SameQueue DEF ServiceInv
  <2>3. ClientInv'
    BY <1>0, <2>1, <2>2 DEF ServiceInv, ClientInv
  <2>4. OperationInv' /\ BusyInv' /\ StatusInv' /\ ScanInv' /\ DeviceInv'
    BY <1>0, <2>1, <2>2 DEF ServiceInv, OperationInv, BusyInv, StatusInv, ScanInv, DeviceInv
  <2> QED
    BY <2>2, <2>3, <2>4 DEF ServiceInv
<1> QED
  BY <1>1, <1>2

LEMMA LoopService ==
  ASSUME TypeOK, QueueInv, ServiceInv, MessageLoop \/ AllBlocked \/ Unblock
  PROVE  ServiceInv'
<1>1. /\ UNCHANGED <<queue, status, busy, busy_until, operation, client, device_busy>>
      /\ control \notin {"execute", "transfer", "clear"}
      /\ control' \in {"loop", "scan", "wait_request", "wait_unblocked"}
      /\ control' = "scan" => blocked_count' = 0
  BY DEF MessageLoop, AllBlocked, Unblock, fields
<1>2. InQueue' = InQueue /\ Distinct' /\ request_count' = request_count /\ \A i : QueueAt(i)' = QueueAt(i)
  BY <1>1, SameQueue DEF ServiceInv
<1>3. ClientInv' /\ OperationInv' /\ BusyInv' /\ DeviceInv'
  BY <1>1, <1>2 DEF ServiceInv, ClientInv, OperationInv, BusyInv, DeviceInv
<1>4. StatusInv' /\ ScanInv'
  BY <1>1, <1>2 DEF ServiceInv, StatusInv, ScanInv
<1> QED
  BY <1>2, <1>3, <1>4 DEF ServiceInv

LEMMA TickService ==
  ASSUME TypeOK, QueueInv, ServiceInv, Tick
  PROVE  ServiceInv'
<1>1. UNCHANGED <<queue, status, busy, operation, client, control, blocked_count, current_request>>
  BY DEF Tick, manager
<1>2. InQueue' = InQueue /\ Distinct' /\ request_count' = request_count /\ \A i : QueueAt(i)' = QueueAt(i)
  BY <1>1, SameQueue DEF ServiceInv
<1>3. ClientInv' /\ OperationInv' /\ BusyInv' /\ StatusInv' /\ ScanInv'
  BY <1>1, <1>2 DEF ServiceInv, ClientInv, OperationInv, BusyInv, StatusInv, ScanInv
<1>4. DeviceInv'
  <2> SUFFICES ASSUME NEW d \in Device, device_busy'[d] > 0
               PROVE  /\ request_count > 0 /\ busy[QueueAt(0)] /\ DeviceOf[QueueAt(0)] = d
                      /\ device_busy'[d] <= busy_until'[QueueAt(0)]
    BY <1>1, <1>2 DEF DeviceInv
  <2>1. device_busy[d] \in Nat /\ device_busy[d] > 0 /\ device_busy'[d] = device_busy[d] - 1
    BY DEF Tick, TicksLeft, TypeOK
  <2>2. /\ request_count > 0 /\ busy[QueueAt(0)] /\ DeviceOf[QueueAt(0)] = d
        /\ device_busy[d] <= busy_until[QueueAt(0)]
    BY <2>1 DEF ServiceInv, DeviceInv
  <2>3. QueueAt(0) \in Request
    BY <2>2 DEF QueueInv, TypeOK
  <2>4. busy_until[QueueAt(0)] \in Nat /\ busy_until'[QueueAt(0)] = busy_until[QueueAt(0)] - 1
    BY <2>1, <2>2, <2>3 DEF Tick, TicksLeft, TypeOK
  <2> QED
    BY <2>1, <2>2, <2>4
<1> QED
  BY <1>2, <1>3, <1>4 DEF ServiceInv
-----------------------------------------------------------------------------
(* One slow device: the manager *)

(* From the head the walk of SetMatching meets each request behind once.   *)
LEMMA MatchingAtHead ==
  ASSUME TypeOK, NEW r \in Request, NEW st, NEW x \in Request
  PROVE  SetMatching(SlotAfter(request_queue_head, 0), r, st)[x] =
           IF DeviceOf[x] = DeviceOf[r] /\ \E n \in 1 .. request_count - 1 : QueueAt(n) = x
           THEN st ELSE status[x]
<1>1. SlotAfter(request_queue_head, 0) = request_queue_head
  BY SlotFacts DEF TypeOK
<1> QED
  BY <1>1 DEF SetMatching, QueueAt

(* What the invariant says of the request the scan looks at.               *)
LEMMA ScannedFacts ==
  ASSUME TypeOK, QueueInv, ServiceInv, control = "scan", blocked_count < request_count
  PROVE  /\ busy[QueueAt(blocked_count)] => blocked_count = 0
         /\ ~busy[QueueAt(blocked_count)] =>
              \/ status[QueueAt(blocked_count)] = "Ready"
              \/ status[QueueAt(blocked_count)] = "Blocked" /\ blocked_count > 0
<1>1. /\ blocked_count \in 0 .. request_count - 1 /\ 0 \in 0 .. request_count - 1
      /\ QueueAt(blocked_count) \in Request /\ QueueAt(blocked_count) \in InQueue
      /\ client \in [Request -> {"idle", "full", "waiting"}]
      /\ status \in [Request -> RequestStatus]
  BY BusSizeAssumption DEF TypeOK, QueueInv, InQueue
<1>2. busy[QueueAt(blocked_count)] => blocked_count = 0
  BY <1>1 DEF ServiceInv, BusyInv, Distinct
<1>3. status[QueueAt(blocked_count)] # "CompleteNotBusy"
  BY <1>1 DEF ServiceInv, ClientInv
<1> QED
  BY <1>1, <1>2, <1>3 DEF ServiceInv, StatusInv, RequestStatus

LEMMA ScanService ==
  ASSUME AtMostOneSlow, TypeOK, QueueInv, ServiceInv, ScanRequest
  PROVE  ServiceInv'
<1> DEFINE r == QueueAt(blocked_count)
<1>0. /\ request_count \in 1 .. QueueLength /\ blocked_count \in 0 .. request_count - 1
      /\ r \in Request /\ current_request' = r
      /\ UNCHANGED <<queue, busy_until, operation, old_count, client, device_busy>>
      /\ control = "scan"
      /\ status \in [Request -> RequestStatus] /\ busy \in [Request -> BOOLEAN]
      /\ DeviceOf \in [Request -> Device]
  BY ScanFacts, BusAssumption DEF ScanRequest, TypeOK
<1>1. InQueue' = InQueue /\ Distinct' /\ request_count' = request_count /\ \A i : QueueAt(i)' = QueueAt(i)
  BY <1>0, SameQueue DEF ServiceInv
<1>2. OperationInv'
  BY <1>0 DEF ServiceInv, OperationInv
<1>3. /\ \A i \in 0 .. request_count - 1 : QueueAt(i) \in Request /\ QueueAt(i) \in InQueue
      /\ QueueAt(0) \in Request
  BY <1>0 DEF QueueInv, InQueue
<1>4. CASE ~busy[r] /\ status[r] = "Ready"
  <2>1. control' = "execute" /\ UNCHANGED <<status, busy, blocked_count>>
    BY <1>4, ScanFacts
  <2>2. blocked_count > 0 => ~Slow(DeviceOf[r])
    <3> SUFFICES ASSUME blocked_count > 0, Slow(DeviceOf[r]) PROVE FALSE
      OBVIOUS
    <3>1. busy[QueueAt(0)] /\ (DeviceOf[r] = DeviceOf[QueueAt(0)] => status[r] = "Blocked")
      BY <1>0 DEF ServiceInv, ScanInv
    <3>2. Slow(DeviceOf[QueueAt(0)])
      BY <1>3, <3>1 DEF ServiceInv, BusyInv
    <3> QED
      BY <1>0, <1>3, <1>4, <3>1, <3>2 DEF AtMostOneSlow
  <2>3. ClientInv' /\ BusyInv' /\ DeviceInv'
    BY <1>0, <1>1, <2>1 DEF ServiceInv, ClientInv, BusyInv, DeviceInv
  <2>4. StatusInv'
    BY <1>0, <1>1, <2>1 DEF ServiceInv, StatusInv
  <2>5. ScanInv'
    BY <1>0, <1>1, <1>4, <2>1, <2>2 DEF ScanInv
  <2> QED
    BY <1>1, <1>2, <2>3, <2>4, <2>5 DEF ServiceInv
<1>5. CASE ~busy[r] /\ status[r] # "Ready"
  <2>1. blocked_count' = blocked_count + 1 /\ UNCHANGED <<status, busy, control>>
    BY <1>5, ScanFacts
  <2>2. blocked_count > 0
    BY <1>0, <1>5, ScannedFacts
  <2>3. ClientInv' /\ BusyInv' /\ DeviceInv'
    BY <1>0, <1>1, <2>1 DEF ServiceInv, ClientInv, BusyInv, DeviceInv
  <2>4. StatusInv' /\ ScanInv'
    BY <1>0, <1>1, <2>1, <2>2 DEF ServiceInv, StatusInv, ScanInv
  <2> QED
    BY <1>1, <1>2, <2>3, <2>4 DEF ServiceInv
<1>6. CASE busy[r]
  <2>1. blocked_count = 0 /\ r = QueueAt(0) /\ Slow(DeviceOf[r])
    BY <1>0, <1>6, ScannedFacts DEF ServiceInv, BusyInv
  <2> DEFINE Marked(x) == DeviceOf[x] = DeviceOf[r] /\ \E n \in 1 .. request_count - 1 : QueueAt(n) = x
  <2>2. \A st : \A x \in Request :
          SetMatching(SlotAfter(request_queue_head, blocked_count), r, st)[x] =
            IF Marked(x) THEN st ELSE status[x]
    BY <1>0, <2>1, MatchingAtHead
  <2>3. ~Marked(r)
    BY <1>0, <2>1 DEF ServiceInv, Distinct
  <2>4. \A x \in Request : Marked(x) => x \in InQueue
    BY <1>0, <1>3
  <2>5. \A i \in 1 .. request_count - 1 : Marked(QueueAt(i)) <=> DeviceOf[QueueAt(i)] = DeviceOf[r]
    OBVIOUS
  <2>6. \A i \in 0 .. request_count - 1 : i = 0 \/ i \in 1 .. request_count - 1
    BY <1>0
  <2>7. \A i \in 1 .. request_count - 1 :
          QueueAt(i) \in Request /\ ~busy[QueueAt(i)] /\ status[QueueAt(i)] # "Complete"
    <3> TAKE i \in 1 .. request_count - 1
    <3>1. QueueAt(i) \in Request /\ i \in 0 .. request_count - 1 /\ 0 \in 0 .. request_count - 1 /\ i # 0
      BY <1>0, <1>3
    <3>2. ~busy[QueueAt(i)]
      BY <3>1 DEF ServiceInv, BusyInv, Distinct
    <3> QED
      BY <1>0, <3>1, <3>2 DEF ServiceInv, StatusInv
  <2> HIDE DEF Marked
  <2>8. CASE Expired(r)
    <3>1. /\ busy' = [busy EXCEPT ![r] = FALSE]
          /\ \A x \in Request : status'[x] = IF Marked(x) THEN "Ready" ELSE status[x]
          /\ control' = "execute" /\ UNCHANGED blocked_count
      BY <1>6, <2>2, <2>8, ScanFacts
    <3>2. ClientInv'
      BY <1>0, <1>1, <2>4, <3>1 DEF ServiceInv, ClientInv
    <3>3. \A x \in Request : ~busy'[x]
      BY <1>0, <2>1, <3>1 DEF ServiceInv, BusyInv
    <3>4. StatusInv'
      <4> SUFFICES ASSUME NEW i \in 0 .. request_count - 1
                   PROVE  /\ status'[QueueAt(i)] # "Blocked"
                          /\ status'[QueueAt(i)] = "Complete" => i = 0
        BY <1>1, <2>1, <3>1 DEF StatusInv
      <4>1. status[QueueAt(0)] # "Blocked"
        BY <1>0 DEF ServiceInv, StatusInv
      <4>2. CASE i = 0
        BY <1>0, <2>1, <2>3, <3>1, <4>1, <4>2
      <4>3. CASE i \in 1 .. request_count - 1
        <5>1. status[QueueAt(i)] = "Blocked" => DeviceOf[QueueAt(i)] = DeviceOf[r]
          BY <2>1 DEF ServiceInv, StatusInv
        <5> QED
          BY <2>5, <2>7, <3>1, <4>3, <5>1
      <4> QED
        BY <2>6, <4>2, <4>3
    <3>5. BusyInv' /\ ScanInv'
      BY <1>0, <1>1, <2>1, <3>1, <3>3 DEF BusyInv, ScanInv
    <3>6. \A d \in Device : ~(device_busy[d] > 0)
      BY <1>0, <2>1, <2>8 DEF ServiceInv, DeviceInv, Expired, TypeOK
    <3>7. DeviceInv'
      BY <1>0, <3>6 DEF DeviceInv
    <3> QED
      BY <1>1, <1>2, <3>2, <3>4, <3>5, <3>7 DEF ServiceInv
  <2>9. CASE ~Expired(r)
    <3>1. /\ \A x \in Request : status'[x] = IF Marked(x) THEN "Blocked" ELSE status[x]
          /\ blocked_count' = blocked_count + 1 /\ UNCHANGED <<busy, control>>
      BY <1>6, <2>2, <2>9, ScanFacts
    <3>2. ClientInv'
      BY <1>0, <1>1, <2>4, <3>1 DEF ServiceInv, ClientInv
    <3>3. BusyInv' /\ DeviceInv'
      BY <1>0, <1>1, <3>1 DEF ServiceInv, BusyInv, DeviceInv
    <3>4. StatusInv'
      <4> SUFFICES ASSUME NEW i \in 0 .. request_count - 1
                   PROVE  /\ status'[QueueAt(i)] = "Blocked" =>
                               i > 0 /\ DeviceOf[QueueAt(i)] = DeviceOf[QueueAt(0)]
                          /\ status'[QueueAt(i)] = "Complete" => busy[QueueAt(i)]
        BY <1>1, <1>6, <2>1, <3>1 DEF StatusInv
      <4>1. CASE i = 0
        BY <1>0, <1>6, <2>1, <2>3, <3>1, <4>1 DEF ServiceInv, StatusInv
      <4>2. CASE i \in 1 .. request_count - 1
        <5>1. status[QueueAt(i)] = "Blocked" => DeviceOf[QueueAt(i)] = DeviceOf[QueueAt(0)]
          BY DEF ServiceInv, StatusInv
        <5> QED
          BY <2>1, <2>5, <2>7, <3>1, <4>2, <5>1
      <4> QED
        BY <2>6, <4>1, <4>2
    <3>5. ScanInv'
      BY <1>0, <1>1, <1>6, <2>1, <2>5, <2>7, <3>1 DEF ScanInv
    <3> QED
      BY <1>1, <1>2, <3>2, <3>3, <3>4, <3>5 DEF ServiceInv
  <2> QED
    BY <2>8, <2>9
<1> QED
  BY <1>4, <1>5, <1>6

(* Only the slow device's request is left busy, and it is at the head.     *)
LEMMA ProcessorService ==
  ASSUME TypeOK, QueueInv, ServiceInv, control \in {"execute", "transfer"},
         ProcessorReturns(current_request),
         UNCHANGED <<queue, blocked_count, current_request, old_count, client>>
  PROVE  ServiceInv'
<1> DEFINE r == current_request
<1>0. /\ blocked_count \in 0 .. request_count - 1 /\ request_count \in 1 .. QueueLength
      /\ r \in Request /\ r = QueueAt(blocked_count) /\ r \in InQueue
      /\ ~busy[r]
      /\ blocked_count > 0 => ~Slow(DeviceOf[r])
  BY CurrentFacts DEF InQueue, ServiceInv, ScanInv
<1>1. InQueue' = InQueue /\ Distinct' /\ request_count' = request_count /\ \A i : QueueAt(i)' = QueueAt(i)
  BY SameQueue DEF ServiceInv
<1>2. /\ control' = "clear"
      /\ \A x \in Request \ {r} : busy'[x] = busy[x] /\ status'[x] = status[x]
                                /\ busy_until'[x] = busy_until[x] /\ operation'[x] = operation[x]
      /\ operation'[r].calls <= operation[r].calls
      /\ operation'[r].ends_busy = operation[r].ends_busy
      /\ status'[r] \in {"Complete", status[r]}
      /\ operation' \in [Request -> OperationType]
  BY <1>0, ProcessorFacts
<1>3. OperationInv'
  <2>1. operation[r].calls \in Nat /\ operation'[r].calls \in Nat
    BY <1>0, <1>2 DEF TypeOK, OperationType
  <2> QED
    BY <1>0, <1>2, <2>1 DEF ServiceInv, OperationInv
<1>4. ClientInv'
  BY <1>0, <1>1, <1>2 DEF ServiceInv, ClientInv
<1>5. \A i \in 0 .. request_count - 1 : QueueAt(i) \in Request /\ (QueueAt(i) = r <=> i = blocked_count)
  BY <1>0 DEF QueueInv, ServiceInv, Distinct
<1>6. QueueAt(0) \in Request
  BY <1>0, <1>5
<1>7. CASE UNCHANGED <<busy, busy_until, device_busy>> /\ status'[r] = "Complete"
  <2>1. BusyInv' /\ DeviceInv'
    BY <1>1, <1>7 DEF ServiceInv, BusyInv, DeviceInv
  <2>2. StatusInv'
    <3> SUFFICES ASSUME NEW i \in 0 .. request_count - 1
                 PROVE  /\ status'[QueueAt(i)] = "Blocked" =>
                             i > 0 /\ busy[QueueAt(0)] /\ DeviceOf[QueueAt(i)] = DeviceOf[QueueAt(0)]
                        /\ status'[QueueAt(i)] = "Complete" => busy[QueueAt(i)] \/ i = blocked_count
      BY <1>1, <1>2, <1>7 DEF StatusInv
    <3> QED
      BY <1>2, <1>5, <1>7 DEF ServiceInv, StatusInv
  <2>3. ScanInv'
    BY <1>0, <1>2 DEF ScanInv
  <2> QED
    BY <1>1, <1>3, <1>4, <2>1, <2>2, <2>3 DEF ServiceInv
<1>8. CASE /\ operation[r].calls > 1 \/ operation[r].ends_busy
           /\ busy'[r]
           /\ device_busy'[DeviceOf[r]] = busy_until'[r]
           /\ \A d \in Device \ {DeviceOf[r]} : device_busy'[d] = device_busy[d]
  <2>1. Slow(DeviceOf[r])
    <3>1. operation[r].calls \in Nat
      BY <1>0 DEF TypeOK, OperationType
    <3> QED
      BY <1>0, <1>8, <3>1 DEF ServiceInv, OperationInv
  <2>2. blocked_count = 0 /\ r = QueueAt(0)
    BY <1>0, <2>1
  <2>3. BusyInv'
    BY <1>0, <1>1, <1>2, <2>1, <2>2 DEF ServiceInv, BusyInv
  <2>4. \A i \in 0 .. request_count - 1 : status[QueueAt(i)] # "Blocked"
    BY <1>0, <2>2 DEF ServiceInv, StatusInv
  <2>5. \A i \in 0 .. request_count - 1 : status[QueueAt(i)] = "Complete" => i = 0
    <3>1. \A x \in Request : ~busy[x]
      BY <1>0, <2>2 DEF ServiceInv, BusyInv
    <3> QED
      BY <1>5, <2>2, <3>1 DEF ServiceInv, StatusInv
  <2>6. StatusInv'
    BY <1>1, <1>2, <1>5, <1>8, <2>2, <2>4, <2>5 DEF StatusInv
  <2>7. ScanInv'
    BY <1>0, <1>2, <2>2 DEF ScanInv
  <2>8. \A d \in Device \ {DeviceOf[r]} : ~(device_busy[d] > 0)
    BY <1>0, <2>2 DEF ServiceInv, DeviceInv
  <2>9. busy_until'[r] \in Nat
    BY <1>0, ProcessorFacts
  <2>10. DeviceInv'
    BY <1>0, <1>1, <1>8, <2>2, <2>8, <2>9 DEF DeviceInv
  <2> QED
    BY <1>1, <1>3, <1>4, <2>3, <2>6, <2>7, <2>10 DEF ServiceInv
<1> QED
  BY <1>0, <1>7, <1>8, ProcessorFacts

LEMMA ExecuteService ==
  ASSUME TypeOK, QueueInv, ServiceInv, ExecuteRequest \/ EndTransfer
  PROVE  ServiceInv'
<1>0. control \in {"execute", "transfer"}
      /\ UNCHANGED <<queue, blocked_count, current_request, old_count, client>>
  BY DEF ExecuteRequest, EndTransfer
<1>1. CASE ProcessorReturns(current_request)
  BY <1>0, <1>1, ProcessorService
<1>2. CASE /\ UNCHANGED <<fields, device_busy>> /\ control = "execute"
           /\ \/ status[current_request] = "Complete" /\ control' = "clear"
              \/ status[current_request] # "Complete" /\ control' = "transfer"
  <2>1. InQueue' = InQueue /\ Distinct' /\ request_count' = request_count /\ \A i : QueueAt(i)' = QueueAt(i)
    BY <1>0, SameQueue DEF ServiceInv
  <2>2. UNCHANGED <<status, busy, busy_until, operation, client, blocked_count, current_request, device_busy>>
    BY <1>0, <1>2 DEF fields
  <2>3. ClientInv' /\ OperationInv' /\ BusyInv' /\ DeviceInv' /\ ScanInv'
    BY <1>2, <2>1, <2>2 DEF ServiceInv, ClientInv, OperationInv, BusyInv, DeviceInv, ScanInv
  <2>4. current_request = QueueAt(blocked_count)
    BY <1>0, CurrentFacts
  <2>5. StatusInv'
    BY <1>2, <2>1, <2>2, <2>4 DEF ServiceInv, StatusInv
  <2> QED
    BY <2>1, <2>3, <2>5 DEF ServiceInv
<1> QED
  BY <1>1, <1>2 DEF ExecuteRequest, EndTransfer

(* Taking out the head, which is then not busy, or a request of another    *)
(* device behind a busy head.                                              *)
LEMMA ClearService ==
  ASSUME TypeOK, QueueInv, ServiceInv, ClearRequest
  PROVE  ServiceInv'
<1> DEFINE r == current_request
<1>0. /\ control = "clear" /\ control' = "loop"
      /\ UNCHANGED <<request_queue_tail, busy, busy_until, operation, current_request,
                     old_count, client, device_busy>>
      /\ blocked_count \in 0 .. request_count - 1 /\ request_count \in 1 .. QueueLength
      /\ r \in Request /\ r = QueueAt(blocked_count) /\ r \in InQueue
      /\ status \in [Request -> RequestStatus]
      /\ client \in [Request -> {"idle", "full", "waiting"}]
  BY CurrentFacts DEF ClearRequest, InQueue, TypeOK
<1>1. OperationInv'
  BY <1>0 DEF ServiceInv, OperationInv
<1>2. \A i \in 0 .. request_count - 1 : QueueAt(i) \in Request /\ (QueueAt(i) = r <=> i = blocked_count)
  BY <1>0 DEF QueueInv, ServiceInv, Distinct
<1>3. CASE Cleared
  <2>1. /\ request_queue' = QueueMovedUp /\ request_count' = request_count - 1
        /\ request_queue_head' = SlotAfter(request_queue_head, 1)
        /\ status' = [status EXCEPT ![r] = "CompleteNotBusy"]
        /\ ~busy[r]
    BY <1>3 DEF ClearRequest, Cleared
  <2> DEFINE Old(i) == IF i < blocked_count THEN i ELSE i + 1
  <2>2. \A i \in 0 .. request_count - 2 :
          /\ QueueAt(i)' = QueueAt(Old(i))
          /\ Old(i) \in 0 .. request_count - 1 /\ Old(i) # blocked_count
          /\ QueueAt(Old(i)) \in Request \ {r}
    <3>1. \A i \in 0 .. request_count - 2 :
            QueueAt(i)' = IF i < blocked_count THEN QueueAt(i) ELSE QueueAt(i + 1)
      BY <1>0, <2>1, RemoveFacts
    <3>2. \A i \in 0 .. request_count - 2 : Old(i) \in 0 .. request_count - 1 /\ Old(i) # blocked_count
      BY <1>0
    <3> QED
      BY <1>2, <3>1, <3>2
  <2>3. \A k \in 0 .. request_count - 1 :
          k # blocked_count => \E i \in 0 .. request_count - 2 : k = Old(i)
    <3> TAKE k \in 0 .. request_count - 1
    <3>1. CASE k < blocked_count
      <4>1. k \in 0 .. request_count - 2 /\ k = Old(k)
        BY <1>0, <3>1
      <4> QED
        BY <4>1
    <3>2. CASE k > blocked_count
      <4>1. k - 1 \in 0 .. request_count - 2 /\ k = Old(k - 1)
        BY <1>0, <3>2
      <4> QED
        BY <4>1
    <3> QED
      BY <1>0, <3>1, <3>2
  <2>4. \A i, j \in 0 .. request_count - 2 : Old(i) = Old(j) => i = j
    BY <1>0
  <2>5. \A i \in 0 .. request_count - 2 : Old(i) = 0 => i = 0
    BY <1>0
  <2>6. blocked_count > 0 => 0 \in 0 .. request_count - 2 /\ Old(0) = 0
    BY <1>0
  <2> HIDE DEF Old
  <2>7. Distinct'
    <3> SUFFICES ASSUME NEW i \in 0 .. request_count - 2, NEW j \in 0 .. request_count - 2,
                        QueueAt(Old(i)) = QueueAt(Old(j))
                 PROVE  i = j
      BY <1>0, <2>1, <2>2 DEF Distinct
    <3> QED
      BY <2>2, <2>4 DEF ServiceInv, Distinct
  <2>8. InQueue' = InQueue \ {r}
    <3>1. ASSUME NEW x \in InQueue' PROVE x \in InQueue \ {r}
      <4>1. PICK i \in 0 .. request_count - 2 : x = QueueAt(i)'
        BY <1>0, <2>1 DEF InQueue
      <4>2. x = QueueAt(Old(i)) /\ Old(i) \in 0 .. request_count - 1 /\ x # r
        BY <2>2, <4>1
      <4> QED
        BY <4>2 DEF InQueue
    <3>2. ASSUME NEW x \in InQueue \ {r} PROVE x \in InQueue'
      <4>1. PICK k \in 0 .. request_count - 1 : x = QueueAt(k)
        BY DEF InQueue
      <4>2. PICK i \in 0 .. request_count - 2 : k = Old(i)
        BY <1>2, <2>3, <4>1
      <4>3. x = QueueAt(i)' /\ i \in 0 .. request_count' - 1
        BY <1>0, <2>1, <2>2, <4>1, <4>2
      <4> QED
        BY <4>3 DEF InQueue
    <3> QED
      BY <3>1, <3>2
  <2>9. ClientInv'
    <3>1. client[r] = "waiting"
      BY <1>0 DEF ServiceInv, ClientInv
    <3> QED
      BY <1>0, <2>1, <2>8, <3>1 DEF ServiceInv, ClientInv
  <2>10. CASE blocked_count = 0
    <3>1. \A x \in Request : ~busy[x]
      BY <1>0, <2>1, <2>10 DEF ServiceInv, BusyInv
    <3>2. QueueAt(0) = r
      BY <1>0, <2>10
    <3>3. BusyInv'
      BY <1>0, <3>1 DEF BusyInv
    <3>4. DeviceInv'
      <4>1. \A d \in Device : ~(device_busy[d] > 0)
        BY <1>0, <3>1, <3>2 DEF ServiceInv, DeviceInv
      <4> QED
        BY <1>0, <4>1 DEF DeviceInv
    <3>5. StatusInv'
      <4> SUFFICES ASSUME NEW i \in 0 .. request_count - 2
                   PROVE  status[QueueAt(Old(i))] \notin {"Blocked", "Complete"}
        BY <1>0, <2>1, <2>2 DEF StatusInv
      <4>1. Old(i) \in 0 .. request_count - 1 /\ Old(i) # blocked_count /\ QueueAt(Old(i)) \in Request
        BY <2>2
      <4> QED
        BY <1>0, <3>1, <3>2, <4>1 DEF ServiceInv, StatusInv
    <3>6. ScanInv'
      BY <1>0 DEF ScanInv
    <3> QED
      BY <1>1, <2>7, <2>9, <3>3, <3>4, <3>5, <3>6 DEF ServiceInv
  <2>11. CASE blocked_count > 0
    <3>1. /\ request_count' > 0
          /\ QueueAt(0)' = QueueAt(0)
          /\ QueueAt(0) \in Request \ {r}
      BY <1>0, <2>1, <2>2, <2>6, <2>11
    <3>2. BusyInv'
      BY <1>0, <3>1 DEF ServiceInv, BusyInv
    <3>3. DeviceInv'
      BY <1>0, <3>1 DEF ServiceInv, DeviceInv
    <3>4. StatusInv'
      <4> SUFFICES ASSUME NEW i \in 0 .. request_count - 2
                   PROVE  /\ status[QueueAt(Old(i))] = "Blocked" =>
                               i > 0 /\ busy[QueueAt(0)] /\ DeviceOf[QueueAt(Old(i))] = DeviceOf[QueueAt(0)]
                          /\ status[QueueAt(Old(i))] = "Complete" => busy[QueueAt(Old(i))]
        BY <1>0, <2>1, <2>2, <3>1 DEF StatusInv
      <4>1. Old(i) \in 0 .. request_count - 1 /\ Old(i) # blocked_count /\ (i = 0 => Old(i) = 0)
        BY <2>2, <2>6, <2>11
      <4>2. i > 0 \/ i = 0
        OBVIOUS
      <4> QED
        BY <4>1, <4>2 DEF ServiceInv, StatusInv
    <3>5. ScanInv'
      BY <1>0 DEF ScanInv
    <3> QED
      BY <1>1, <2>7, <2>9, <3>2, <3>3, <3>4, <3>5 DEF ServiceInv
  <2> QED
    BY <1>0, <2>10, <2>11
<1>4. CASE ~Cleared
  <2>1. UNCHANGED <<queue, status>>
    BY <1>0, <1>4 DEF ClearRequest, queue
  <2>2. InQueue' = InQueue /\ Distinct' /\ request_count' = request_count /\ \A i : QueueAt(i)' = QueueAt(i)
    BY <2>1, SameQueue DEF ServiceInv
  <2>3. ClientInv' /\ BusyInv' /\ DeviceInv' /\ ScanInv'
    BY <1>0, <2>1, <2>2 DEF ServiceInv, ClientInv, BusyInv, DeviceInv, ScanInv
  <2>4. StatusInv'
    <3> SUFFICES ASSUME NEW i \in 0 .. request_count - 1, status[QueueAt(i)] = "Complete"
                 PROVE  busy[QueueAt(i)]
      BY <1>0, <2>1, <2>2 DEF ServiceInv, StatusInv
    <3>1. CASE i = blocked_count
      BY <1>0, <1>4, <3>1 DEF Cleared
    <3> QED
      BY <3>1 DEF ServiceInv, StatusInv
  <2> QED
    BY <1>1, <2>2, <2>3, <2>4 DEF ServiceInv
<1> QED
  BY <1>3, <1>4

LEMMA StutterService ==
  ASSUME ServiceInv, UNCHANGED vars
  PROVE  ServiceInv'
<1>1. UNCHANGED <<queue, status, busy, busy_until, operation, control, blocked_count,
                  current_request, client, device_busy>>
  BY DEF vars, fields, manager
<1>2. InQueue' = InQueue /\ Distinct' /\ request_count' = request_count /\ \A i : QueueAt(i)' = QueueAt(i)
  BY <1>1, SameQueue DEF ServiceInv
<1>3. ClientInv' /\ OperationInv' /\ BusyInv' /\ DeviceInv'
  BY <1>1, <1>2 DEF ServiceInv, ClientInv, OperationInv, BusyInv, DeviceInv
<1>4. StatusInv' /\ ScanInv'
  BY <1>1, <1>2 DEF ServiceInv, StatusInv, ScanInv
<1> QED
  BY <1>2, <1>3, <1>4 DEF ServiceInv

LEMMA Invariant ==
  ASSUME AtMostOneSlow
  PROVE  Spec => []IInv
<1>1. Init => IInv
  BY InitTypes, InitService DEF IInv
<1>2. IInv /\ [Next]_vars => IInv'
  <2> SUFFICES ASSUME IInv, [Next]_vars PROVE IInv'
    OBVIOUS
  <2>1. TypeOK' /\ QueueInv'
    BY NextTypes DEF IInv
  <2>2. ServiceInv'
    BY RequestService, LoopService, TickService, ScanService, ExecuteService, ClearService,
       StutterService DEF IInv, Next, Manager
  <2> QED
    BY <2>1, <2>2 DEF IInv
<1> QED
  BY <1>1, <1>2, PTL DEF Spec
-----------------------------------------------------------------------------
(* With at most one slow device on the bus no request is queued twice, no  *)
(* waiting client is forgotten, and no device is spoken to while busy.     *)
THEOREM Exclusion ==
  ASSUME AtMostOneSlow
  PROVE  Spec => [](QueueConsistent /\ NoWaiterForgotten /\ NoTransferWhileBusy)
<1>1. IInv => QueueConsistent
  BY DEF IInv, QueueInv, ServiceInv, Distinct, QueueConsistent, InQueue
<1>2. IInv => NoWaiterForgotten
  BY DEF IInv, ServiceInv, ClientInv, NoWaiterForgotten
<1>3. IInv => NoTransferWhileBusy
  <2> SUFFICES ASSUME IInv, control \in {"execute", "transfer"}
               PROVE  device_busy[DeviceOf[current_request]] = 0
    BY DEF NoTransferWhileBusy
  <2>1. /\ current_request \in Request /\ ~busy[current_request]
        /\ current_request = QueueAt(blocked_count) /\ blocked_count \in 0 .. request_count - 1
        /\ blocked_count > 0 => ~Slow(DeviceOf[current_request])
    BY CurrentFacts DEF IInv, ServiceInv, ScanInv
  <2>2. DeviceOf[current_request] \in Device /\ device_busy[DeviceOf[current_request]] \in Nat
    BY <2>1, BusAssumption DEF IInv, TypeOK
  <2>3. ASSUME device_busy[DeviceOf[current_request]] > 0 PROVE FALSE
    <3>1. /\ request_count > 0 /\ busy[QueueAt(0)]
          /\ DeviceOf[QueueAt(0)] = DeviceOf[current_request]
      BY <2>2, <2>3 DEF IInv, ServiceInv, DeviceInv
    <3>2. QueueAt(0) \in Request
      BY <3>1 DEF IInv, QueueInv, TypeOK
    <3>3. Slow(DeviceOf[current_request])
      BY <3>1, <3>2 DEF IInv, ServiceInv, BusyInv
    <3> QED
      BY <2>1, <3>1, <3>3
  <2> QED
    BY <2>2, <2>3
<1> QED
  BY <1>1, <1>2, <1>3, Invariant, PTL

(* ... a request is reported done only when its device is ready again.     *)
THEOREM Release ==
  ASSUME AtMostOneSlow
  PROVE  Spec => ReleasedWhenIdle
<1>1. ASSUME IInv, [Next]_vars
      PROVE  \A r \in Request : status[r] # "CompleteNotBusy" /\ status'[r] = "CompleteNotBusy"
               => device_busy[DeviceOf[r]] = 0
  <2> SUFFICES ASSUME NEW r \in Request,
                      status[r] # "CompleteNotBusy", status'[r] = "CompleteNotBusy"
               PROVE  device_busy[DeviceOf[r]] = 0
    OBVIOUS
  <2>1. ClearRequest /\ Cleared /\ r = current_request
    <3>1. CASE ScanRequest
      BY <1>1, <3>1, ScanFacts DEF IInv, SetMatching, TypeOK
    <3>2. CASE ExecuteRequest \/ EndTransfer
      <4>1. current_request \in Request
        BY <1>1, <3>2, CurrentFacts DEF IInv, ExecuteRequest, EndTransfer
      <4> QED
        BY <1>1, <3>2, <4>1, ProcessorFacts DEF IInv, ExecuteRequest, EndTransfer, fields
    <3>3. CASE ClearRequest
      BY <1>1, <3>3 DEF ClearRequest, IInv, TypeOK
    <3>4. CASE \E x \in Request : RequestTransaction(x) \/ RetryPush(x) \/ WaitUntilDone(x)
      BY <1>1, <3>4 DEF RequestTransaction, RetryPush, WaitUntilDone, fields, IInv, TypeOK
    <3>5. CASE MessageLoop \/ AllBlocked \/ Unblock \/ Tick \/ UNCHANGED vars
      BY <3>5 DEF MessageLoop, AllBlocked, Unblock, Tick, vars, fields
    <3> QED
      BY <1>1, <3>1, <3>2, <3>3, <3>4, <3>5 DEF Next, Manager
  <2>2. /\ r = QueueAt(blocked_count) /\ blocked_count \in 0 .. request_count - 1
        /\ ~busy[r] /\ (blocked_count > 0 => ~Slow(DeviceOf[r]))
    BY <1>1, <2>1, CurrentFacts DEF ClearRequest, Cleared, IInv, ServiceInv, ScanInv
  <2>3. DeviceOf[r] \in Device /\ device_busy[DeviceOf[r]] \in Nat
    BY <1>1, BusAssumption DEF IInv, TypeOK
  <2>4. ASSUME device_busy[DeviceOf[r]] > 0 PROVE FALSE
    <3>1. request_count > 0 /\ busy[QueueAt(0)] /\ DeviceOf[QueueAt(0)] = DeviceOf[r]
      BY <1>1, <2>3, <2>4 DEF IInv, ServiceInv, DeviceInv
    <3>2. QueueAt(0) \in Request
      BY <1>1, <3>1 DEF IInv, QueueInv, TypeOK
    <3>3. Slow(DeviceOf[r])
      BY <1>1, <3>1, <3>2 DEF IInv, ServiceInv, BusyInv
    <3> QED
      BY <2>2, <3>1, <3>3
  <2> QED
    BY <2>3, <2>4
<1> QED
  BY <1>1, Invariant, PTL DEF Spec, ReleasedWhenIdle

(* What is marked is queued and not complete.                               *)
LEMMA Marked ==
  ASSUME AtMostOneSlow, IInv, control = "scan", [Next]_vars, NEW x \in Request, status'[x] # status[x]
  PROVE  x \in InQueue /\ status[x] # "Complete"
<1>1. ScanRequest
  <2>1. ~(MessageLoop \/ Unblock \/ ExecuteRequest \/ EndTransfer \/ ClearRequest)
    BY DEF MessageLoop, Unblock, ExecuteRequest, EndTransfer, ClearRequest
  <2>2. ~\E r \in Request : RequestTransaction(r) \/ RetryPush(r) \/ WaitUntilDone(r)
    BY DEF RequestTransaction, RetryPush, WaitUntilDone, Waiting
  <2>3. ~(AllBlocked \/ Tick \/ UNCHANGED vars)
    BY DEF AllBlocked, Tick, vars, fields
  <2> QED
    BY <2>1, <2>2, <2>3 DEF Next, Manager
<1> DEFINE r == QueueAt(blocked_count)
<1>2. busy[r] /\ r \in Request /\ \E st : status' = SetMatching(SlotAfter(request_queue_head, blocked_count), r, st)
  BY <1>1, ScanFacts DEF IInv
<1>3. blocked_count = 0
  BY <1>1, <1>2, ScannedFacts DEF IInv, ScanRequest
<1>4. PICK n \in 1 .. request_count - 1 : QueueAt(n) = x
  BY <1>2, <1>3, MatchingAtHead DEF IInv
<1>5. n \in 0 .. request_count - 1 /\ 0 \in 0 .. request_count - 1 /\ n # 0
  BY DEF IInv, TypeOK
<1>6. ~busy[x]
  BY <1>4, <1>5 DEF IInv, ServiceInv, BusyInv, Distinct
<1> QED
  BY <1>4, <1>5, <1>6 DEF IInv, ServiceInv, StatusInv, InQueue

(* ... and marking requests touches queued ones only ...                    *)
THEOREM MarksQueued ==
  ASSUME AtMostOneSlow
  PROVE  Spec => MarksOnlyQueued
<1>1. ASSUME IInv, [Next]_vars
      PROVE  control = "scan" => \A r \in Request \ InQueue : status'[r] = status[r]
  BY <1>1, Marked
<1> QED
  BY <1>1, Invariant, PTL DEF Spec, MarksOnlyQueued

(* ... none of them complete.                                               *)
THEOREM Marking ==
  ASSUME AtMostOneSlow
  PROVE  Spec => TransfersFinished
<1>1. ASSUME IInv, [Next]_vars
      PROVE  \A r \in Request : status[r] = "Complete" => status'[r] \in {"Complete", "CompleteNotBusy"}
  <2> SUFFICES ASSUME NEW r \in Request, status[r] = "Complete"
               PROVE  status'[r] \in {"Complete", "CompleteNotBusy"}
    OBVIOUS
  <2>1. CASE control = "scan"
    BY <1>1, <2>1, Marked
  <2>2. CASE ExecuteRequest \/ EndTransfer
    <3>1. current_request \in Request
      BY <1>1, <2>2, CurrentFacts DEF IInv, ExecuteRequest, EndTransfer
    <3> QED
      BY <1>1, <2>2, <3>1, ProcessorFacts DEF IInv, ExecuteRequest, EndTransfer, fields
  <2>3. CASE ClearRequest
    BY <1>1, <2>3 DEF ClearRequest, IInv, TypeOK
  <2>4. CASE \E x \in Request : RequestTransaction(x) \/ RetryPush(x) \/ WaitUntilDone(x)
    <3>1. PICK x \in Request : RequestTransaction(x) \/ RetryPush(x) \/ WaitUntilDone(x)
      BY <2>4
    <3>2. CASE RequestTransaction(x)
      <4>1. client[x] # "waiting"
        BY <3>2 DEF RequestTransaction
      <4>2. x # r
        BY <1>1, <4>1 DEF IInv, ServiceInv, ClientInv
      <4> QED
        BY <1>1, <3>2, <4>2 DEF RequestTransaction, IInv, TypeOK
    <3>3. CASE RetryPush(x) \/ WaitUntilDone(x)
      BY <3>3 DEF RetryPush, WaitUntilDone, fields
    <3> QED
      BY <3>1, <3>2, <3>3
  <2>5. CASE MessageLoop \/ AllBlocked \/ Unblock \/ Tick \/ UNCHANGED vars
    BY <2>5 DEF MessageLoop, AllBlocked, Unblock, Tick, vars, fields
  <2>6. ScanRequest => control = "scan"
    BY DEF ScanRequest
  <2> QED
    BY <1>1, <2>1, <2>2, <2>3, <2>4, <2>5, <2>6 DEF Next, Manager
<1> QED
  BY <1>1, Invariant, PTL DEF Spec, TransfersFinished
-----------------------------------------------------------------------------
(* First in, first out for each device *)

LEMMA InitPassed == Init => PassedInv
BY DEF Init, PassedInv

(* What a client's step does to the queue. *)
LEMMA ClientStep ==
  ASSUME IInv, NEW r \in Request, RequestTransaction(r) \/ RetryPush(r) \/ WaitUntilDone(r)
  PROVE  /\ UNCHANGED <<control, blocked_count, current_request>>
         /\ \A x \in InQueue : status'[x] = status[x]
         /\ \/ UNCHANGED queue
            \/ r \notin InQueue /\ request_count < QueueLength /\ Push(r)
<1>1. client[r] # "waiting" => r \notin InQueue
  BY DEF IInv, ServiceInv, ClientInv
<1>2. InQueue \subseteq Request
  BY DEF IInv, QueueInv, InQueue
<1>3. CASE RequestTransaction(r)
  BY <1>1, <1>2, <1>3 DEF RequestTransaction, PushOrWait, manager, IInv, TypeOK
<1>4. CASE RetryPush(r)
  <2>1. request_count < QueueLength
    BY <1>4, BusSizeAssumption DEF RetryPush, IInv, TypeOK
  <2> QED
    BY <1>1, <1>4, <2>1 DEF RetryPush, manager, fields
<1>5. CASE WaitUntilDone(r)
  BY <1>5 DEF WaitUntilDone, manager, fields
<1> QED
  BY <1>3, <1>4, <1>5

LEMMA PassedKept ==
  ASSUME PassedInv, UNCHANGED <<queue, control, blocked_count, current_request>>
  PROVE  PassedInv'
<1>1. \A i : QueueAt(i)' = QueueAt(i)
  BY SameQueue
<1> QED
  BY <1>1 DEF PassedInv

LEMMA PassedScan ==
  ASSUME IInv, IInv', PassedInv, ScanRequest
  PROVE  PassedInv'
<1> DEFINE r == QueueAt(blocked_count)
<1>1. /\ control = "scan"
      /\ request_count \in 1 .. QueueLength /\ blocked_count \in 0 .. request_count - 1
      /\ r \in Request /\ current_request' = r
      /\ UNCHANGED queue
  BY ScanFacts DEF IInv, ScanRequest
<1>2. \A i : QueueAt(i)' = QueueAt(i)
  BY <1>1, SameQueue
<1>3. \A i \in 0 .. blocked_count - 1 : DeviceOf[QueueAt(i)] = DeviceOf[QueueAt(0)]
  BY <1>1 DEF PassedInv
<1>4. CASE control' = "execute" /\ UNCHANGED blocked_count
  <2>1. ASSUME blocked_count > 0 PROVE DeviceOf[r] # DeviceOf[QueueAt(0)]
    <3>1. busy[QueueAt(0)] /\ QueueAt(0) \in Request
      BY <1>1, <2>1 DEF IInv, ServiceInv, ScanInv, QueueInv
    <3>2. Slow(DeviceOf[QueueAt(0)])
      BY <3>1 DEF IInv, ServiceInv, BusyInv
    <3>3. ~Slow(DeviceOf[r])
      BY <1>1, <1>4, <2>1 DEF IInv, ServiceInv, ScanInv
    <3> QED
      BY <3>2, <3>3
  <2> QED
    BY <1>1, <1>2, <1>3, <1>4, <2>1 DEF PassedInv
<1>5. CASE control' = "scan" /\ blocked_count' = blocked_count + 1
  <2>1. DeviceOf[r] = DeviceOf[QueueAt(0)]
    <3>1. CASE blocked_count = 0
      BY <3>1
    <3>2. CASE blocked_count > 0
      <4>1. ~busy[r]
        BY <1>1, <3>2, ScannedFacts DEF IInv
      <4>2. status[r] # "Ready"
        BY <1>1, <1>5, <4>1, ScanFacts DEF IInv
      <4>3. status[r] = "Blocked"
        BY <1>1, <4>1, <4>2, ScannedFacts DEF IInv
      <4> QED
        BY <1>1, <4>3 DEF IInv, ServiceInv, StatusInv
    <3> QED
      BY <1>1, <3>1, <3>2
  <2>2. \A i \in 0 .. blocked_count' - 1 : i \in 0 .. blocked_count - 1 \/ i = blocked_count
    BY <1>1, <1>5
  <2> QED
    BY <1>2, <1>3, <1>5, <2>1, <2>2 DEF PassedInv
<1> QED
  BY <1>1, <1>4, <1>5, ScanFacts DEF IInv

LEMMA PassedStep ==
  ASSUME IInv, IInv', PassedInv, [Next]_vars
  PROVE  PassedInv'
<1>1. CASE MessageLoop
  <2>1. blocked_count' = 0 /\ control' \in {"wait_request", "scan"}
    BY <1>1 DEF MessageLoop
  <2> QED
    BY <2>1 DEF PassedInv
<1>2. CASE ScanRequest
  BY <1>2, PassedScan
<1>3. CASE AllBlocked \/ Unblock \/ ClearRequest
  BY <1>3 DEF AllBlocked, Unblock, ClearRequest, PassedInv
<1>4. CASE ExecuteRequest \/ EndTransfer
  <2>1. /\ UNCHANGED <<queue, blocked_count, current_request>>
        /\ control \in {"execute", "transfer"}
        /\ control' \in {"transfer", "clear"}
    BY <1>4 DEF ExecuteRequest, EndTransfer, ProcessorReturns
  <2>2. \A i : QueueAt(i)' = QueueAt(i)
    BY <2>1, SameQueue
  <2> QED
    BY <2>1, <2>2 DEF PassedInv
<1>5. ASSUME NEW r \in Request, RequestTransaction(r) \/ RetryPush(r) \/ WaitUntilDone(r)
      PROVE  PassedInv'
  <2>1. UNCHANGED <<control, blocked_count, current_request>> /\ control \in Waiting
    BY <1>5, ClientStep DEF RequestTransaction, RetryPush, WaitUntilDone
  <2>2. CASE UNCHANGED queue
    BY <2>1, <2>2, PassedKept
  <2>3. CASE request_count < QueueLength /\ Push(r)
    <3>1. \A i \in 0 .. request_count - 1 : QueueAt(i)' = QueueAt(i)
      BY <2>3, PushFacts DEF IInv
    <3>2. CASE control = "transfer"
      <4>1. blocked_count \in 0 .. request_count - 1 /\ request_count \in 1 .. QueueLength
        BY <3>2, CurrentFacts DEF IInv
      <4>2. QueueAt(0)' = QueueAt(0)
        BY <3>1, <4>1
      <4>3. \A i \in 0 .. blocked_count - 1 : QueueAt(i)' = QueueAt(i)
        BY <3>1, <4>1
      <4> QED
        BY <2>1, <3>2, <4>2, <4>3 DEF PassedInv
    <3> QED
      BY <2>1, <3>2 DEF PassedInv, Waiting
  <2> QED
    BY <1>5, <2>2, <2>3, ClientStep
<1>6. CASE Tick \/ UNCHANGED vars
  <2>1. UNCHANGED <<queue, control, blocked_count, current_request>>
    BY <1>6 DEF Tick, vars, manager
  <2> QED
    BY <2>1, PassedKept
<1> QED
  BY <1>1, <1>2, <1>3, <1>4, <1>5, <1>6 DEF Next, Manager

LEMMA BeforeIs ==
  /\ Before \subseteq InQueue \X InQueue
  /\ \A a, b : <<a, b>> \in Before <=>
       /\ a \in InQueue /\ b \in InQueue /\ DeviceOf[a] = DeviceOf[b]
       /\ \E i, j \in 0 .. request_count - 1 : i < j /\ a = QueueAt(i) /\ b = QueueAt(j)
BY DEF Before

LEMMA SameOrder ==
  ASSUME UNCHANGED queue
  PROVE  InQueue' = InQueue /\ Before' = Before
<1>1. request_count' = request_count /\ InQueue' = InQueue /\ \A i : QueueAt(i)' = QueueAt(i)
  BY SameQueue
<1> QED
  BY <1>1 DEF Before

(* A request that is pushed comes behind those of its device. *)
LEMMA PushOrder ==
  ASSUME TypeOK, QueueInv, NEW r \in Request, r \notin InQueue,
         request_count < QueueLength, Push(r)
  PROVE  /\ InQueue' = InQueue \cup {r}
         /\ Before' = Before \cup {<<q, r>> : q \in {p \in InQueue : DeviceOf[p] = DeviceOf[r]}}
<1>0. PICK n : n = request_count OBVIOUS
<1>1. /\ n \in Nat /\ request_count' = n + 1
      /\ \A i \in 0 .. n - 1 : QueueAt(i)' = QueueAt(i)
      /\ QueueAt(n)' = r
  <2>1. request_count \in Nat BY DEF TypeOK
  <2>2. (request_count - 1)' = n BY <1>0, <2>1, PushFacts
  <2> QED BY <1>0, <2>1, <2>2, PushFacts
<1>2. InQueue' = {QueueAt(i)' : i \in 0 .. n} BY <1>1 DEF InQueue
<1>3. InQueue = {QueueAt(i) : i \in 0 .. n - 1} BY <1>0 DEF InQueue
<1>4. \A i : i \in 0 .. n <=> i \in 0 .. n - 1 \/ i = n BY <1>1
<1>5. InQueue' = InQueue \cup {r} BY <1>1, <1>2, <1>3, <1>4
<1>6. ASSUME NEW a, NEW b
      PROVE  <<a, b>> \in Before' <=>
               \/ <<a, b>> \in Before
               \/ a \in InQueue /\ DeviceOf[a] = DeviceOf[r] /\ b = r
  <2>1. <<a, b>> \in Before' <=>
          /\ a \in InQueue' /\ b \in InQueue' /\ DeviceOf[a] = DeviceOf[b]
          /\ \E i, j \in 0 .. n : i < j /\ a = QueueAt(i)' /\ b = QueueAt(j)'
    BY <1>1 DEF Before
  <2>2. <<a, b>> \in Before <=>
          /\ a \in InQueue /\ b \in InQueue /\ DeviceOf[a] = DeviceOf[b]
          /\ \E i, j \in 0 .. n - 1 : i < j /\ a = QueueAt(i) /\ b = QueueAt(j)
    BY <1>0, BeforeIs
  <2>3. (\E i, j \in 0 .. n : i < j /\ a = QueueAt(i)' /\ b = QueueAt(j)') <=>
          \/ \E i, j \in 0 .. n - 1 : i < j /\ a = QueueAt(i) /\ b = QueueAt(j)
          \/ b = r /\ \E i \in 0 .. n - 1 : a = QueueAt(i)
    <3>1. ASSUME NEW i \in 0 .. n, NEW j \in 0 .. n, i < j,
                 a = QueueAt(i)', b = QueueAt(j)'
          PROVE  \/ \E k, l \in 0 .. n - 1 : k < l /\ a = QueueAt(k) /\ b = QueueAt(l)
                 \/ b = r /\ \E k \in 0 .. n - 1 : a = QueueAt(k)
      <4>1. i \in 0 .. n - 1 /\ (j \in 0 .. n - 1 \/ j = n) BY <1>1, <3>1
      <4> QED BY <1>1, <3>1, <4>1
    <3>2. ASSUME NEW i \in 0 .. n - 1, NEW j \in 0 .. n - 1, i < j,
                 a = QueueAt(i), b = QueueAt(j)
          PROVE  \E k, l \in 0 .. n : k < l /\ a = QueueAt(k)' /\ b = QueueAt(l)'
      BY <1>1, <1>4, <3>2
    <3>3. ASSUME b = r, NEW i \in 0 .. n - 1, a = QueueAt(i)
          PROVE  \E k, l \in 0 .. n : k < l /\ a = QueueAt(k)' /\ b = QueueAt(l)'
      <4>1. i \in 0 .. n /\ n \in 0 .. n /\ i < n BY <1>1, <3>3
      <4> QED BY <1>1, <3>3, <4>1
    <3> QED BY <3>1, <3>2, <3>3
  <2>4. (\E i \in 0 .. n - 1 : a = QueueAt(i)) <=> a \in InQueue BY <1>3
  <2>5. (\E i, j \in 0 .. n - 1 : i < j /\ a = QueueAt(i) /\ b = QueueAt(j))
          => a \in InQueue /\ b \in InQueue
    BY <1>3
  <2> QED BY <1>5, <2>1, <2>2, <2>3, <2>4, <2>5
<1>7. Before' \subseteq InQueue' \X InQueue' BY DEF Before
<1> QED
  BY <1>5, <1>6, <1>7, BeforeIs

(* Taking one out leaves the order of the others. *)
LEMMA RemoveOrder ==
  ASSUME IInv, ClearRequest, Cleared
  PROVE  /\ InQueue' = InQueue \ {current_request}
         /\ Before' = {pair \in Before : current_request \notin {pair[1], pair[2]}}
<1>0. PICK r, n, b : r = current_request /\ n = request_count /\ b = blocked_count
  OBVIOUS
<1> DEFINE Old(i) == IF i < b THEN i ELSE i + 1
<1>1. /\ b \in 0 .. n - 1 /\ n \in Nat /\ r = QueueAt(b) /\ request_count' = n - 1
      /\ \A i \in 0 .. n - 2 : QueueAt(i)' = QueueAt(Old(i))
      /\ (n - 1) - 1 = n - 2
  <2>1. /\ request_queue' = QueueMovedUp /\ request_count' = request_count - 1
        /\ request_queue_head' = SlotAfter(request_queue_head, 1)
        /\ UNCHANGED request_queue_tail /\ control = "clear"
    BY DEF ClearRequest
  <2>2. blocked_count \in 0 .. request_count - 1 /\ request_count \in 1 .. QueueLength
        /\ current_request = QueueAt(blocked_count)
    BY <2>1, CurrentFacts DEF IInv
  <2>3. blocked_count < request_count BY <2>2, BusSizeAssumption
  <2> QED BY <1>0, <2>1, <2>2, <2>3, RemoveFacts, BusSizeAssumption DEF IInv
<1>2. \A i \in 0 .. n - 1 : QueueAt(i) = r <=> i = b
  BY <1>0, <1>1 DEF IInv, ServiceInv, Distinct
<1>3. InQueue' = {QueueAt(i)' : i \in 0 .. n - 2} BY <1>1 DEF InQueue
<1>4. InQueue = {QueueAt(i) : i \in 0 .. n - 1} BY <1>0 DEF InQueue
<1>5. \A a, c : <<a, c>> \in Before' <=>
          /\ a \in InQueue' /\ c \in InQueue' /\ DeviceOf[a] = DeviceOf[c]
          /\ \E i, j \in 0 .. n - 2 : i < j /\ a = QueueAt(i)' /\ c = QueueAt(j)'
  BY <1>1 DEF Before
<1>6. \A a, c : <<a, c>> \in Before <=>
          /\ a \in InQueue /\ c \in InQueue /\ DeviceOf[a] = DeviceOf[c]
          /\ \E i, j \in 0 .. n - 1 : i < j /\ a = QueueAt(i) /\ c = QueueAt(j)
  BY <1>0 DEF Before
<1>7. Before' \subseteq InQueue' \X InQueue' BY DEF Before
<1> DEFINE New(k) == IF k < b THEN k ELSE k - 1
<1>8. /\ \A i \in 0 .. n - 2 : Old(i) \in 0 .. n - 1 /\ Old(i) # b
      /\ \A i, j \in 0 .. n - 2 : i < j => Old(i) < Old(j)
      /\ \A k \in 0 .. n - 1 : k # b => New(k) \in 0 .. n - 2 /\ Old(New(k)) = k
      /\ \A k, l \in 0 .. n - 1 : k # b /\ l # b /\ k < l => New(k) < New(l)
  BY <1>1
<1> HIDE DEF Old, New
<1>9. InQueue' = InQueue \ {r}
  <2>1. \A i \in 0 .. n - 2 : QueueAt(i)' \in InQueue \ {r} BY <1>1, <1>2, <1>4, <1>8
  <2>2. \A k \in 0 .. n - 1 : QueueAt(k) # r => QueueAt(k) = QueueAt(New(k))' /\ New(k) \in 0 .. n - 2
    BY <1>1, <1>2, <1>8
  <2> QED BY <1>3, <1>4, <1>8, <2>1, <2>2
<1>10. ASSUME NEW a, NEW c
       PROVE  <<a, c>> \in Before' <=> <<a, c>> \in Before /\ a # r /\ c # r
  <2>1. ASSUME NEW i \in 0 .. n - 2, NEW j \in 0 .. n - 2, i < j,
               a = QueueAt(i)', c = QueueAt(j)'
        PROVE  /\ a # r /\ c # r
               /\ \E k, l \in 0 .. n - 1 : k < l /\ a = QueueAt(k) /\ c = QueueAt(l)
    <3>1. Old(i) \in 0 .. n - 1 /\ Old(j) \in 0 .. n - 1 /\ Old(i) < Old(j)
          /\ Old(i) # b /\ Old(j) # b
      BY <1>8, <2>1
    <3>2. a = QueueAt(Old(i)) /\ c = QueueAt(Old(j)) BY <1>1, <2>1
    <3> QED BY <1>2, <3>1, <3>2
  <2>2. ASSUME NEW k \in 0 .. n - 1, NEW l \in 0 .. n - 1, k < l,
               a = QueueAt(k), c = QueueAt(l), a # r, c # r
        PROVE  \E i, j \in 0 .. n - 2 : i < j /\ a = QueueAt(i)' /\ c = QueueAt(j)'
    <3>1. k # b /\ l # b BY <1>2, <2>2
    <3>2. New(k) \in 0 .. n - 2 /\ New(l) \in 0 .. n - 2 /\ New(k) < New(l)
          /\ Old(New(k)) = k /\ Old(New(l)) = l
      BY <1>8, <2>2, <3>1
    <3>3. a = QueueAt(New(k))' /\ c = QueueAt(New(l))' BY <1>1, <2>2, <3>2
    <3> QED BY <3>2, <3>3
  <2>3. (\E i, j \in 0 .. n - 2 : i < j /\ a = QueueAt(i)' /\ c = QueueAt(j)') <=>
        /\ a # r /\ c # r
        /\ \E i, j \in 0 .. n - 1 : i < j /\ a = QueueAt(i) /\ c = QueueAt(j)
    BY <1>8, <2>1, <2>2
  <2> QED BY <1>5, <1>6, <1>9, <2>3
<1>11. \A pair \in Before : pair = <<pair[1], pair[2]>> BY BeforeIs
<1>12. \A pair \in Before' : pair = <<pair[1], pair[2]>> BY <1>7
<1> QED
  <2>1. Before' = {pair \in Before : r \notin {pair[1], pair[2]}}
    BY <1>10, <1>11, <1>12
  <2> QED BY <1>0, <1>9, <2>1

-----------------------------------------------------------------------------
(* The refinement, action by action *)

bar == <<InQueue, Before, Serving>>

(* Nothing of its own device is in front of the current request. *)
LEMMA CurrentOldest ==
  IInv /\ PassedInv /\ control \in {"execute", "transfer", "clear"}
    => Abstract!Oldest(current_request)
<1> SUFFICES ASSUME IInv, PassedInv, control \in {"execute", "transfer", "clear"}
             PROVE  Abstract!Oldest(current_request)
  OBVIOUS
<1>1. /\ blocked_count \in 0 .. request_count - 1 /\ request_count \in 1 .. QueueLength
      /\ current_request = QueueAt(blocked_count) /\ current_request \in InQueue
  BY CurrentFacts DEF IInv, InQueue
<1>2. ASSUME NEW q \in InQueue, <<q, current_request>> \in Before
      PROVE  FALSE
  <2>1. PICK i, j \in 0 .. request_count - 1 :
          i < j /\ q = QueueAt(i) /\ current_request = QueueAt(j)
    BY <1>2, BeforeIs
  <2>2. DeviceOf[QueueAt(i)] = DeviceOf[current_request] BY <1>2, <2>1, BeforeIs
  <2>3. j = blocked_count BY <1>1, <2>1 DEF IInv, ServiceInv, Distinct
  <2>4. blocked_count > 0 /\ i \in 0 .. blocked_count - 1 BY <1>1, <2>1, <2>3
  <2> QED BY <2>2, <2>4 DEF PassedInv
<1> QED BY <1>1, <1>2 DEF Abstract!Oldest

LEMMA ClientImplements ==
  ASSUME IInv, NEW r \in Request, RequestTransaction(r) \/ RetryPush(r) \/ WaitUntilDone(r)
  PROVE  Abstract!Submit(r) \/ UNCHANGED bar
<1>1. /\ UNCHANGED <<control, current_request>>
      /\ \A x \in InQueue : status'[x] = status[x]
  BY ClientStep
<1>2. UNCHANGED Serving
  <2>1. CASE control \in {"execute", "transfer"}
    <3>1. current_request \in InQueue
      BY <2>1, CurrentFacts DEF IInv, InQueue
    <3> QED BY <1>1, <3>1 DEF Serving
  <2> QED BY <1>1, <2>1 DEF Serving
<1>3. CASE UNCHANGED queue
  BY <1>2, <1>3, SameOrder DEF bar
<1>4. CASE r \notin InQueue /\ request_count < QueueLength /\ Push(r)
  <2>1. /\ InQueue' = InQueue \cup {r}
        /\ Before' = Before \cup {<<q, r>> : q \in {p \in InQueue : DeviceOf[p] = DeviceOf[r]}}
    BY <1>4, PushOrder DEF IInv
  <2> QED BY <1>2, <1>4, <2>1 DEF Abstract!Submit
<1> QED BY <1>3, <1>4, ClientStep

LEMMA ScanImplements ==
  ASSUME IInv, IInv', PassedInv', ScanRequest
  PROVE  (\E r \in Request : Abstract!Serve(r)) \/ UNCHANGED bar
<1>1. control = "scan" /\ control' \in {"scan", "execute"} /\ UNCHANGED queue
  BY ScanFacts DEF IInv, ScanRequest
<1>2. InQueue' = InQueue /\ Before' = Before BY <1>1, SameOrder
<1>3. Serving = NoRequest BY <1>1 DEF Serving
<1>4. CASE Serving' = NoRequest BY <1>2, <1>3, <1>4 DEF bar
<1>5. CASE Serving' # NoRequest
  <2>1. control' = "execute" /\ Serving' = current_request' BY <1>1, <1>5 DEF Serving
  <2>2. PICK r : r = current_request' OBVIOUS
  <2>3. Abstract!Oldest(current_request)'
    <3>1. (IInv /\ PassedInv /\ control \in {"execute", "transfer", "clear"}
             => Abstract!Oldest(current_request))'
      BY CurrentOldest, PTL
    <3> QED BY <2>1, <3>1
  <2>4. r \in InQueue /\ \A q \in InQueue : <<q, r>> \notin Before
    BY <1>2, <2>2, <2>3 DEF Abstract!Oldest
  <2>5. InQueue \subseteq Request BY DEF IInv, QueueInv, InQueue
  <2>6. Abstract!Serve(r)
    BY <1>2, <1>3, <2>1, <2>2, <2>4 DEF Abstract!Serve, Abstract!Oldest
  <2> QED BY <2>4, <2>5, <2>6
<1> QED BY <1>4, <1>5

LEMMA ExecuteImplements ==
  ASSUME IInv, ExecuteRequest \/ EndTransfer
  PROVE  Abstract!Suspend \/ UNCHANGED bar
<1>1. UNCHANGED <<queue, current_request>>
  BY DEF ExecuteRequest, EndTransfer
<1>2. InQueue' = InQueue /\ Before' = Before BY <1>1, SameOrder
<1>3. Serving' \in {Serving, NoRequest}
  <2>1. CASE control' = "clear" BY <2>1 DEF Serving
  <2>2. CASE control' # "clear"
    <3>1. control = "execute" /\ control' = "transfer" /\ UNCHANGED status
      BY <2>2 DEF ExecuteRequest, EndTransfer, ProcessorReturns, fields
    <3> QED BY <1>1, <3>1 DEF Serving
  <2> QED BY <2>1, <2>2
<1> QED BY <1>2, <1>3 DEF Abstract!Suspend, bar

LEMMA ClearImplements ==
  ASSUME IInv, PassedInv, ClearRequest
  PROVE  Abstract!Complete(current_request) \/ UNCHANGED bar
<1>1. control = "clear" /\ control' = "loop" BY DEF ClearRequest
<1>2. Serving = NoRequest /\ Serving' = NoRequest BY <1>1 DEF Serving
<1>3. CASE Cleared
  <2>1. /\ InQueue' = InQueue \ {current_request}
        /\ Before' = {pair \in Before : current_request \notin {pair[1], pair[2]}}
    BY <1>3, RemoveOrder
  <2>2. Abstract!Oldest(current_request) BY <1>1, CurrentOldest
  <2> QED BY <1>2, <2>1, <2>2 DEF Abstract!Complete
<1>4. CASE ~Cleared
  <2>1. UNCHANGED queue BY <1>4 DEF ClearRequest, queue
  <2> QED BY <1>2, <2>1, SameOrder DEF bar
<1> QED BY <1>3, <1>4

LEMMA OtherImplements ==
  ASSUME MessageLoop \/ AllBlocked \/ Unblock \/ Tick \/ UNCHANGED vars
  PROVE  UNCHANGED bar
<1>1. UNCHANGED queue
  BY DEF MessageLoop, AllBlocked, Unblock, Tick, vars
<1>2. CASE MessageLoop \/ AllBlocked \/ Unblock
  <2>1. control \notin {"execute", "transfer"} /\ control' \notin {"execute", "transfer"}
    BY <1>2 DEF MessageLoop, AllBlocked, Unblock
  <2> QED BY <1>1, <2>1, SameOrder DEF bar, Serving
<1>3. CASE Tick \/ UNCHANGED vars
  <2>1. UNCHANGED <<control, current_request, status>>
    BY <1>3 DEF Tick, vars, manager, fields
  <2> QED BY <1>1, <2>1, SameOrder DEF bar, Serving
<1> QED BY <1>2, <1>3

LEMMA StepImplements ==
  ASSUME IInv, IInv', PassedInv, PassedInv', [Next]_vars
  PROVE  [Abstract!ServiceNext]_<<InQueue, Before, Serving>>
<1>1. CASE MessageLoop \/ AllBlocked \/ Unblock \/ Tick \/ UNCHANGED vars
  BY <1>1, OtherImplements DEF bar
<1>2. CASE ScanRequest
  BY <1>2, ScanImplements DEF bar, Abstract!ServiceNext
<1>3. CASE ExecuteRequest \/ EndTransfer
  BY <1>3, ExecuteImplements DEF bar, Abstract!ServiceNext
<1>4. CASE ClearRequest
  <2>1. current_request \in Request
    BY <1>4, CurrentFacts DEF IInv, ClearRequest
  <2> QED
    BY <1>4, <2>1, ClearImplements DEF bar, Abstract!ServiceNext
<1>5. ASSUME NEW r \in Request, RequestTransaction(r) \/ RetryPush(r) \/ WaitUntilDone(r)
      PROVE  [Abstract!ServiceNext]_<<InQueue, Before, Serving>>
  BY <1>5, ClientImplements DEF bar, Abstract!ServiceNext
<1> QED
  BY <1>1, <1>2, <1>3, <1>4, <1>5 DEF Next, Manager

LEMMA InitImplements == Init => Abstract!ServiceInit
<1> SUFFICES ASSUME Init PROVE Abstract!ServiceInit
  OBVIOUS
<1>1. InQueue = {} BY DEF Init, InQueue
<1>2. Before = {} BY <1>1, BeforeIs
<1>3. Serving = NoRequest BY DEF Init, Serving
<1> QED BY <1>1, <1>2, <1>3 DEF Abstract!ServiceInit

(* With one slow device each device is served first in, first out: nothing *)
(* overtakes a request of its own device on the bus, however the others    *)
(* overtake it, and the one taken out of the ring is the oldest.           *)
THEOREM Implements ==
  ASSUME AtMostOneSlow
  PROVE  Spec => ServiceSpec
<1>1. Spec => []IInv BY Invariant
<1>2. IInv /\ IInv' /\ PassedInv /\ [Next]_vars => PassedInv' BY PassedStep
<1>3. Spec => []PassedInv BY <1>1, <1>2, InitPassed, PTL DEF Spec
<1>4. IInv /\ IInv' /\ PassedInv /\ PassedInv' /\ [Next]_vars
        => [Abstract!ServiceNext]_<<InQueue, Before, Serving>>
  BY StepImplements
<1> QED
  BY <1>1, <1>3, <1>4, InitImplements, PTL DEF Spec, ServiceSpec, Abstract!ServiceSpec
-----------------------------------------------------------------------------
(* The wait for a device: what the scan has found holds until the queue      *)
(* changes, and then the manager looks again.                                *)
WaitInv ==
  /\ control = "scan" => request_count > 0
  /\ control = "wait_unblocked" =>
       /\ old_count \in 1 .. request_count
       /\ busy[QueueAt(0)]
       /\ \A i \in 0 .. old_count - 1 : DeviceOf[QueueAt(i)] = DeviceOf[QueueAt(0)]

LEMMA InitWait == Init => WaitInv
BY DEF Init, WaitInv

LEMMA WaitAllBlocked ==
  ASSUME IInv, PassedInv, WaitInv, AllBlocked
  PROVE  WaitInv'
<1>1. /\ control = "scan" /\ control' = "wait_unblocked" /\ old_count' = request_count
      /\ blocked_count = request_count /\ UNCHANGED queue /\ busy' = busy
  BY DEF AllBlocked, fields
<1>2. request_count > 0 /\ request_count \in Nat BY <1>1 DEF WaitInv, IInv, TypeOK
<1>3. busy[QueueAt(0)] BY <1>1, <1>2 DEF IInv, ServiceInv, ScanInv
<1>4. \A i \in 0 .. request_count - 1 : DeviceOf[QueueAt(i)] = DeviceOf[QueueAt(0)]
  BY <1>1 DEF PassedInv
<1>5. \A i : QueueAt(i)' = QueueAt(i) BY <1>1, SameQueue
<1>6. request_count' = request_count BY <1>1, SameQueue
<1> QED BY <1>1, <1>2, <1>3, <1>4, <1>5, <1>6 DEF WaitInv

LEMMA WaitClient ==
  ASSUME IInv, WaitInv, NEW r \in Request, RequestTransaction(r) \/ RetryPush(r) \/ WaitUntilDone(r)
  PROVE  WaitInv'
<1>1. UNCHANGED <<control, old_count>> /\ control \in Waiting
  BY DEF RequestTransaction, RetryPush, WaitUntilDone, manager
<1>2. CASE control = "wait_unblocked"
  <2>1. /\ old_count \in 1 .. request_count /\ busy[QueueAt(0)]
        /\ \A i \in 0 .. old_count - 1 : DeviceOf[QueueAt(i)] = DeviceOf[QueueAt(0)]
        /\ request_count \in Nat /\ old_count \in Nat
    BY <1>2 DEF WaitInv, IInv, TypeOK
  <2>2. /\ request_count' >= request_count /\ request_count' \in Nat
        /\ \A i \in 0 .. request_count - 1 : QueueAt(i)' = QueueAt(i)
    <3>1. CASE UNCHANGED queue BY <2>1, <3>1, SameQueue
    <3>2. CASE request_count < QueueLength /\ Push(r)
      <4>1. request_count' = request_count + 1 BY <3>2 DEF Push
      <4> QED BY <2>1, <3>2, <4>1, PushFacts DEF IInv
    <3> QED BY <3>1, <3>2, ClientStep
  <2>3. QueueAt(0) \in InQueue BY <2>1 DEF InQueue
  <2>4. busy'[QueueAt(0)] = busy[QueueAt(0)]
    <3>1. CASE RequestTransaction(r)
      <4>1. r \notin InQueue BY <3>1 DEF RequestTransaction, IInv, ServiceInv, ClientInv
      <4>2. busy' = [busy EXCEPT ![r] = FALSE] BY <3>1 DEF RequestTransaction
      <4>3. busy \in [Request -> BOOLEAN] /\ QueueAt(0) \in Request
        BY <2>1, <2>3 DEF IInv, TypeOK, QueueInv, InQueue
      <4> QED BY <2>3, <4>1, <4>2, <4>3
    <3>2. CASE RetryPush(r) \/ WaitUntilDone(r) BY <3>2 DEF RetryPush, WaitUntilDone, fields
    <3> QED BY <3>1, <3>2
  <2>5. \A i \in 0 .. old_count - 1 : i \in 0 .. request_count - 1 BY <2>1
  <2>6. QueueAt(0)' = QueueAt(0) BY <2>1, <2>2
  <2>7. \A i \in 0 .. old_count - 1 : DeviceOf[QueueAt(i)'] = DeviceOf[QueueAt(0)]
    BY <2>1, <2>2, <2>5
  <2>8. old_count \in 1 .. request_count' BY <2>1, <2>2
  <2> QED BY <1>1, <1>2, <2>1, <2>4, <2>6, <2>7, <2>8 DEF WaitInv
<1>3. CASE control # "wait_unblocked" BY <1>1, <1>3 DEF WaitInv, Waiting
<1> QED BY <1>2, <1>3

LEMMA WaitStep ==
  ASSUME IInv, PassedInv, WaitInv, [Next]_vars
  PROVE  WaitInv'
<1>1. CASE MessageLoop
  <2>1. /\ control' = IF request_count = 0 THEN "wait_request" ELSE "scan"
        /\ request_count' = request_count
    BY <1>1 DEF MessageLoop, queue
  <2> QED BY <2>1 DEF WaitInv, IInv, TypeOK
<1>2. CASE ScanRequest
  <2>1. control' \in {"scan", "execute"} /\ request_count' = request_count /\ control = "scan"
    BY <1>2 DEF ScanRequest, queue
  <2> QED BY <2>1 DEF WaitInv
<1>3. CASE AllBlocked BY <1>3, WaitAllBlocked
<1>4. CASE Unblock \/ ExecuteRequest \/ EndTransfer \/ ClearRequest
  <2>1. control' \in {"loop", "clear", "transfer"}
    BY <1>4 DEF Unblock, ExecuteRequest, EndTransfer, ClearRequest, ProcessorReturns
  <2> QED BY <2>1 DEF WaitInv
<1>5. ASSUME NEW r \in Request, RequestTransaction(r) \/ RetryPush(r) \/ WaitUntilDone(r)
      PROVE  WaitInv'
  BY <1>5, WaitClient
<1>6. CASE Tick \/ UNCHANGED vars
  <2>1. UNCHANGED <<queue, control, old_count, busy>> BY <1>6 DEF Tick, vars, manager, fields
  <2>2. \A i : QueueAt(i)' = QueueAt(i) BY <2>1, SameQueue
  <2>3. request_count' = request_count BY <2>1, SameQueue
  <2> QED BY <2>1, <2>2, <2>3 DEF WaitInv
<1> QED BY <1>1, <1>2, <1>3, <1>4, <1>5, <1>6 DEF Next, Manager

(* The manager is never idle while it could serve a request: it waits only   *)
(* for the busy device that all queued requests are for.                     *)
THEOREM WaitsWhenBusy ==
  ASSUME AtMostOneSlow
  PROVE  Spec => []WaitsForBusyDevice
<1>1. IInv /\ WaitInv => WaitsForBusyDevice
  <2> SUFFICES ASSUME IInv, WaitInv, control = "wait_unblocked", request_count = old_count
               PROVE  /\ busy[QueueAt(0)]
                      /\ \A r \in InQueue : DeviceOf[r] = DeviceOf[QueueAt(0)]
    BY DEF WaitsForBusyDevice
  <2> QED BY DEF WaitInv, InQueue
<1>2. IInv /\ IInv' /\ PassedInv /\ WaitInv /\ [Next]_vars => PassedInv' /\ WaitInv'
  BY PassedStep, WaitStep
<1> QED BY <1>1, <1>2, InitPassed, InitWait, Invariant, PTL DEF Spec
=============================================================================
