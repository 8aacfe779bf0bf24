----------------------------- MODULE BusManager -----------------------------
(***************************************************************************)
(* The bus manager of source/RTOSDrivers/bus_manager.c: one process per    *)
(* bus takes the requests of the other processes from a ring and runs the  *)
(* request processor of each device driver (dma_eeprom_cat25.c,            *)
(* dma_flash_at25.c, dma_imu_icm20948.c).                                  *)
(*                                                                         *)
(* The scheduler is cooperative: the manager gives up the processor only   *)
(* in wait_until and while a processor waits for its DMA transfer, and     *)
(* clients run only then. The timer counts at any moment.                  *)
(*                                                                         *)
(* busy_until is kept as the ticks that are left, zero when the time has   *)
(* passed: busy times are milliseconds, far from the 2^31 ticks at which   *)
(* the code's (int)(busy_until - time_read_ticks()) would change its sign. *)
(***************************************************************************)
EXTENDS Integers

CONSTANTS
  Request,      \* the BusManager_Transaction_Request structures
  NoRequest,    \* the null pointer
  Device,       \* device identifiers
  DeviceOf,     \* the device each request is for
  Operation,    \* what clients ask of each device
  QueueLength,  \* BUSMGR_PROCESS_REQUEST_QUEUE_LENGTH
  BusyTime      \* how long devices stay busy, in ticks

(* How a processor goes about an operation: it is called "calls" times,    *)
(* each call but the last leaves the device busy and returns false, the    *)
(* last, and one beyond the last, returns true and leaves it busy when     *)
(* ends_busy. Each call is one DMA transfer, in which the manager yields.   *)
OperationType == [calls : Nat, ends_busy : BOOLEAN]

ASSUME BusAssumption ==
  /\ NoRequest \notin Request
  /\ DeviceOf \in [Request -> Device]
  /\ Operation \in [Device -> SUBSET {o \in OperationType : o.calls > 0}]

ASSUME BusSizeAssumption ==
  /\ QueueLength \in Nat \ {0}
  /\ BusyTime \subseteq Nat

(* The request processors of the device drivers. *)
EepromRead == [calls |-> 1, ends_busy |-> FALSE]
EepromWrite(pages) == [calls |-> pages, ends_busy |-> TRUE]
FlashRead == [calls |-> 1, ends_busy |-> FALSE]
FlashWrite == [calls |-> 1, ends_busy |-> TRUE]
FlashErase(polls) == [calls |-> 1 + polls, ends_busy |-> FALSE]
ImuTransfer == [calls |-> 1, ends_busy |-> FALSE]
MagRead == [calls |-> 2, ends_busy |-> FALSE]
MagWrite == [calls |-> 1, ends_busy |-> TRUE]

NoOperation == [calls |-> 0, ends_busy |-> FALSE]

RequestStatus == {"Ready", "Blocked", "Complete", "CompleteNotBusy"}

VARIABLES
  request_queue, request_queue_head, request_queue_tail, request_count,
  status, busy, busy_until,   \* fields of each request (busy_until: ticks left)
  operation,                  \* what is left of each request's operation
  control,                    \* where the manager is
  blocked_count,              \* its loop variable
  current_request,
  old_count,                  \* the request_count it waits to change
  client,                     \* where each request's client is
  device_busy                 \* history: real ticks until each device is idle

queue == <<request_queue, request_queue_head, request_queue_tail, request_count>>
manager == <<control, blocked_count, current_request, old_count>>
fields == <<status, busy, busy_until, operation>>
vars == <<queue, fields, manager, client, device_busy>>

Slot == 0 .. QueueLength - 1

(* The manager is in wait_until or in its processor's wait for the DMA. *)
Waiting == {"wait_request", "wait_unblocked", "transfer"}

(* "% BUSMGR_PROCESS_REQUEST_QUEUE_LENGTH" of a slot number plus at most    *)
(* that length.                                                            *)
SlotAfter(s, n) == IF s + n < QueueLength THEN s + n ELSE s + n - QueueLength

(* (int)(busy_until - time_read_ticks()) <= 0 *)
Expired(r) == busy_until[r] = 0

QueueAt(i) == request_queue[SlotAfter(request_queue_head, i)]
InQueue == {QueueAt(i) : i \in 0 .. request_count - 1}
-----------------------------------------------------------------------------
(* Clients *)

Push(r) ==
  /\ request_queue' = [request_queue EXCEPT ![request_queue_tail] = r]
  /\ request_count' = request_count + 1
  /\ request_queue_tail' = SlotAfter(request_queue_tail, 1)
  /\ client' = [client EXCEPT ![r] = "waiting"]
  /\ UNCHANGED request_queue_head

(* Mutant: the wait for room is left out. *)
PushOrOverrun(r) == Push(r)

(* While the queue is full the client waits in front of it. *)
PushOrWait(r) ==
  \/ request_count < QueueLength /\ Push(r)
  \/ /\ request_count = QueueLength
     /\ client' = [client EXCEPT ![r] = "full"]
     /\ UNCHANGED queue

(* busmanager_request_transaction, as a driver's request function calls it *)
RequestTransaction(r) ==
  /\ control \in Waiting
  /\ client[r] = "idle"
  /\ \E o \in Operation[DeviceOf[r]] : operation' = [operation EXCEPT ![r] = o]
  /\ busy' = [busy EXCEPT ![r] = FALSE]
  /\ status' = [status EXCEPT ![r] = "Ready"]
  /\ PushOrWait(r)
  /\ UNCHANGED <<busy_until, manager, device_busy>>

(* ... going on after its wait for room. *)
RetryPush(r) ==
  /\ control \in Waiting
  /\ client[r] = "full"
  /\ request_count # QueueLength
  /\ Push(r)
  /\ UNCHANGED <<fields, manager, device_busy>>

(* eeprom_wait_until_done and the others return. *)
WaitUntilDone(r) ==
  /\ control \in Waiting
  /\ client[r] = "waiting"
  /\ status[r] = "CompleteNotBusy"
  /\ client' = [client EXCEPT ![r] = "idle"]
  /\ UNCHANGED <<queue, fields, manager, device_busy>>
-----------------------------------------------------------------------------
(* The manager: busmanager_process_function *)

(* The head of the message loop; wait_until(request_count > 0). What a     *)
(* local variable held in the last turn is dead.                           *)
MessageLoop ==
  /\ \/ control = "loop"
     \/ control = "wait_request" /\ request_count > 0
  /\ control' = IF request_count = 0 THEN "wait_request" ELSE "scan"
  /\ blocked_count' = 0
  /\ current_request' = NoRequest
  /\ UNCHANGED <<queue, fields, old_count, client, device_busy>>

(* Mutants: nothing is marked; the walk ends one slot early; it starts at  *)
(* the request itself; it ends one slot late.                              *)
MatchingUnmarked(s, r, st) == status
MatchingButLast(s, r, st) ==
  [x \in Request |->
     IF /\ DeviceOf[x] = DeviceOf[r]
        /\ \E n \in 1 .. request_count - 2 : request_queue[SlotAfter(s, n)] = x
     THEN st ELSE status[x]]

MatchingAndItself(s, r, st) ==
  [x \in Request |->
     IF /\ DeviceOf[x] = DeviceOf[r]
        /\ \E n \in 0 .. request_count - 1 : request_queue[SlotAfter(s, n)] = x
     THEN st ELSE status[x]]

MatchingOneMore(s, r, st) ==
  [x \in Request |->
     IF /\ DeviceOf[x] = DeviceOf[r]
        /\ \E n \in 1 .. request_count : request_queue[SlotAfter(s, n)] = x
     THEN st ELSE status[x]]

(* set_matching_id_status: it walks request_count - 1 slots from the slot  *)
(* s of request r, wherever in the queue s lies.                           *)
SetMatching(s, r, st) ==
  [x \in Request |->
     IF /\ DeviceOf[x] = DeviceOf[r]
        /\ \E n \in 1 .. request_count - 1 : request_queue[SlotAfter(s, n)] = x
     THEN st ELSE status[x]]

(* One turn of the loop that looks for a request to execute. *)
ScanRequest ==
  LET s == SlotAfter(request_queue_head, blocked_count)
      r == request_queue[s]
  IN  /\ control = "scan"
      /\ blocked_count < request_count
      /\ \/ /\ ~busy[r] /\ status[r] = "Ready"
            /\ control' = "execute"
            /\ UNCHANGED <<status, busy, blocked_count>>
         \/ /\ ~busy[r] /\ status[r] # "Ready"
            /\ blocked_count' = blocked_count + 1
            /\ UNCHANGED <<status, busy, control>>
         \/ /\ busy[r] /\ Expired(r)
            /\ busy' = [busy EXCEPT ![r] = FALSE]
            /\ status' = SetMatching(s, r, "Ready")
            /\ control' = "execute"
            /\ UNCHANGED blocked_count
         \/ /\ busy[r] /\ ~Expired(r)
            /\ status' = SetMatching(s, r, "Blocked")
            /\ blocked_count' = blocked_count + 1
            /\ UNCHANGED <<busy, control>>
      /\ current_request' = r
  /\ UNCHANGED <<queue, busy_until, operation, old_count, client, device_busy>>

(* Every request is blocked: wait_until_callback. *)
AllBlocked ==
  /\ control = "scan"
  /\ blocked_count = request_count
  /\ control' = "wait_unblocked"
  /\ old_count' = request_count
  /\ UNCHANGED <<queue, fields, blocked_count, current_request, client, device_busy>>

(* Mutant: without the callback. *)
UnblockOnCount ==
  /\ control = "wait_unblocked"
  /\ request_count # old_count
  /\ control' = "loop"
  /\ old_count' = 0
  /\ UNCHANGED <<queue, fields, blocked_count, current_request, client, device_busy>>

(* It ends when request_count changes or busmanager_process_wait_callback  *)
(* finds a request whose busy time is over.                                *)
Unblock ==
  /\ control = "wait_unblocked"
  /\ \/ request_count # old_count
     \/ \E r \in InQueue : busy[r] /\ Expired(r)
  /\ control' = "loop"
  /\ old_count' = 0
  /\ UNCHANGED <<queue, fields, blocked_count, current_request, client, device_busy>>
-----------------------------------------------------------------------------
RestOf(o) == [calls |-> IF o.calls <= 1 THEN 0 ELSE o.calls - 1,
              ends_busy |-> o.ends_busy]

(* What a call of the request processor leaves behind when it returns. *)
ProcessorReturns(r) ==
  LET last == operation[r].calls <= 1
      leaves_busy == ~last \/ operation[r].ends_busy
  IN  /\ operation' = [operation EXCEPT ![r] = RestOf(operation[r])]
      /\ \/ /\ leaves_busy
            /\ busy' = [busy EXCEPT ![r] = TRUE]
            /\ \E t \in BusyTime :
                 /\ busy_until' = [busy_until EXCEPT ![r] = t]
                 /\ device_busy' = [device_busy EXCEPT ![DeviceOf[r]] = t]
         \/ ~leaves_busy /\ UNCHANGED <<busy, busy_until, device_busy>>
      /\ status' = IF last THEN [status EXCEPT ![r] = "Complete"] ELSE status
      /\ control' = "clear"

(* The processor is called for a request that is not yet complete and      *)
(* starts its DMA transfer.                                                *)
ExecuteRequest ==
  /\ control = "execute"
  /\ \/ status[current_request] = "Complete" /\ control' = "clear"
     \/ status[current_request] # "Complete" /\ control' = "transfer"
  /\ UNCHANGED <<queue, fields, device_busy, blocked_count, current_request, old_count, client>>

(* rtos_dma_wait_until_end returns into the processor. *)
EndTransfer ==
  /\ control = "transfer"
  /\ ProcessorReturns(current_request)
  /\ UNCHANGED <<queue, blocked_count, current_request, old_count, client>>

(* Mutant: the head is dropped without closing the gap. *)
QueueNotMovedUp == request_queue

(* The blocked requests in front of the one taken out move up by one. *)
QueueMovedUp ==
  [s \in Slot |->
     IF \E i \in 1 .. blocked_count : s = SlotAfter(request_queue_head, i)
     THEN request_queue[SlotAfter(s, QueueLength - 1)]
     ELSE request_queue[s]]

(* Mutant: a complete request is cleared while its device is busy. *)
ClearBusy == status[current_request] = "Complete"

Cleared == status[current_request] = "Complete" /\ ~busy[current_request]

(* The request is done with once the device is no longer busy. *)
ClearRequest ==
  /\ control = "clear"
  /\ \/ /\ Cleared
        /\ status' = [status EXCEPT ![current_request] = "CompleteNotBusy"]
        /\ request_queue' = QueueMovedUp
        /\ request_count' = request_count - 1
        /\ request_queue_head' = SlotAfter(request_queue_head, 1)
        /\ blocked_count' = 0
     \/ /\ ~Cleared
        /\ UNCHANGED <<status, request_queue, request_count, request_queue_head, blocked_count>>
  /\ control' = "loop"
  /\ UNCHANGED <<request_queue_tail, busy, busy_until, operation, current_request,
                 old_count, client, device_busy>>
-----------------------------------------------------------------------------
TicksLeft(t) == IF t > 0 THEN t - 1 ELSE 0

Tick ==
  /\ busy_until' = [r \in Request |-> TicksLeft(busy_until[r])]
  /\ device_busy' = [d \in Device |-> TicksLeft(device_busy[d])]
  /\ UNCHANGED <<queue, status, busy, operation, manager, client>>

(* busmanager_new_process; the manager process has been dispatched. *)
Init ==
  /\ request_queue = [s \in Slot |-> NoRequest]
  /\ request_queue_head = 0
  /\ request_queue_tail = 0
  /\ request_count = 0
  /\ status = [r \in Request |-> "Ready"]
  /\ busy = [r \in Request |-> FALSE]
  /\ busy_until = [r \in Request |-> 0]
  /\ operation = [r \in Request |-> NoOperation]
  /\ control = "loop"
  /\ blocked_count = 0
  /\ current_request = NoRequest
  /\ old_count = 0
  /\ client = [r \in Request |-> "idle"]
  /\ device_busy = [d \in Device |-> 0]

Manager == MessageLoop \/ ScanRequest \/ AllBlocked \/ Unblock \/ ExecuteRequest
           \/ EndTransfer \/ ClearRequest

Next ==
  \/ Manager
  \/ \E r \in Request : RequestTransaction(r) \/ RetryPush(r) \/ WaitUntilDone(r)
  \/ Tick

Spec == Init /\ [][Next]_vars

(* The scheduler runs the manager whenever it can go on, DMA transfers end *)
(* and the timer counts.                                                   *)
FairSpec == Spec /\ WF_vars(Manager) /\ WF_vars(Tick)
-----------------------------------------------------------------------------
(* Properties *)

(* Every variable of the manager and of the requests has a value of its C  *)
(* type; the ring's indices stay inside it.                                *)
TypeOK ==
  /\ request_queue \in [Slot -> Request \cup {NoRequest}]
  /\ request_queue_head \in Slot
  /\ request_queue_tail \in Slot
  /\ request_count \in 0 .. QueueLength
  /\ status \in [Request -> RequestStatus]
  /\ busy \in [Request -> BOOLEAN]
  /\ busy_until \in [Request -> Nat]
  /\ operation \in [Request -> OperationType]
  /\ control \in Waiting \cup {"loop", "scan", "execute", "clear"}
  /\ blocked_count \in 0 .. request_count
  /\ control \in {"execute", "transfer", "clear"} => blocked_count < request_count
  /\ current_request \in Request \cup {NoRequest}
  /\ control \in {"execute", "transfer", "clear"} => current_request = QueueAt(blocked_count)
  /\ old_count \in 0 .. QueueLength
  /\ client \in [Request -> {"idle", "full", "waiting"}]
  /\ device_busy \in [Device -> Nat]

(* The ring's counters agree and no request is in it twice, although       *)
(* clients push at one end and the manager takes requests out of the       *)
(* middle by moving those before them.                                     *)
QueueConsistent ==
  /\ request_queue_tail = SlotAfter(request_queue_head, request_count)
  /\ InQueue \subseteq Request
  /\ \A i, j \in 0 .. request_count - 1 : QueueAt(i) = QueueAt(j) => i = j

(* A client that waits is always waited on: its request is queued and not  *)
(* yet done, or is marked CompleteNotBusy and no longer queued, until the  *)
(* client has seen it ("all transfers have finished and device is no       *)
(* longer busy", bus_manager.h 14).                                        *)
NoWaiterForgotten ==
  \A r \in Request :
    client[r] = "waiting" => (r \in InQueue <=> status[r] # "CompleteNotBusy")

(* No device is spoken to while it is busy with an earlier transaction,    *)
(* its own request's or another's: the requests queued behind a busy one   *)
(* stay blocked whatever is pushed, taken out or moved meanwhile.          *)
NoTransferWhileBusy ==
  control \in {"execute", "transfer"} /\ status[current_request] # "Complete"
    => device_busy[DeviceOf[current_request]] = 0

(* A request is reported done only when its device is ready again, in real *)
(* ticks, whatever the timer register has wrapped to.                      *)
ReleasedWhenIdle ==
  [][\A r \in Request : status[r] # "CompleteNotBusy" /\ status'[r] = "CompleteNotBusy"
       => device_busy[DeviceOf[r]] = 0]_vars

(* A request whose transfers have all finished is not run again ("all      *)
(* transfers have finished, but device may still be busy", bus_manager.h   *)
(* 13): marking requests while they wait touches none that is complete.    *)
TransfersFinished ==
  [][\A r \in Request : status[r] = "Complete" => status'[r] \in {"Complete", "CompleteNotBusy"}]_vars

(* Marking writes to queued requests only: the others belong to clients,   *)
(* often on a stack that has been left (load_global and save_global).      *)
MarksOnlyQueued ==
  [][control = "scan" => \A r \in Request \ InQueue : status'[r] = status[r]]_vars

(* The manager waits only for a device that is busy: while no request has    *)
(* come since it scanned the queue, all that are queued are for that device. *)
WaitsForBusyDevice ==
  control = "wait_unblocked" /\ request_count = old_count =>
    /\ busy[QueueAt(0)]
    /\ \A r \in InQueue : DeviceOf[r] = DeviceOf[QueueAt(0)]

(* The queued requests of each device, in the order of the ring. *)
Before ==
  {pair \in InQueue \X InQueue :
     /\ DeviceOf[pair[1]] = DeviceOf[pair[2]]
     /\ \E i, j \in 0 .. request_count - 1 : i < j /\ pair = <<QueueAt(i), QueueAt(j)>>}

Serving ==
  IF control \in {"execute", "transfer"} /\ status[current_request] # "Complete"
  THEN current_request ELSE NoRequest

Abstract == INSTANCE BusService
  WITH pending <- InQueue, before <- Before, serving <- Serving

(* The manager implements BusService: whatever requests overtake others on *)
(* the bus, those of one device are served and finished in the order they  *)
(* were pushed, and none is dropped or served after it was finished.       *)
ServiceSpec == Abstract!ServiceSpec

(* Every pushed request is done some day, however the devices' busy times  *)
(* and the arrival of other requests interleave.                           *)
RequestCompletes ==
  \A r \in Request : client[r] = "waiting" ~> status[r] = "CompleteNotBusy"
=============================================================================
