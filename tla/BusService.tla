----------------------------- MODULE BusService -----------------------------
(***************************************************************************)
(* What the bus manager promises to the drivers, without its queue: every  *)
(* device has a first-in first-out list of pending requests, the bus works *)
(* on at most one request at a time, always the oldest of its device, and  *)
(* a request leaves the list when it is done with.  The lists are the set  *)
(* of pending requests and the order in which each device got its own.     *)
(***************************************************************************)
CONSTANTS Request, NoRequest, DeviceOf

VARIABLES
  pending,
  before,   \* <<q, r>>: the device of both got q earlier
  serving

ServiceInit == pending = {} /\ before = {} /\ serving = NoRequest

Oldest(r) == r \in pending /\ \A q \in pending : <<q, r>> \notin before

Submit(r) ==
  /\ r \notin pending
  /\ pending' = pending \cup {r}
  /\ before' = before \cup {<<q, r>> : q \in {p \in pending : DeviceOf[p] = DeviceOf[r]}}
  /\ UNCHANGED serving

Serve(r) ==
  /\ serving = NoRequest
  /\ Oldest(r)
  /\ serving' = r
  /\ UNCHANGED <<pending, before>>

Suspend == serving # NoRequest /\ serving' = NoRequest /\ UNCHANGED <<pending, before>>

Complete(r) ==
  /\ serving = NoRequest
  /\ Oldest(r)
  /\ pending' = pending \ {r}
  /\ before' = {pair \in before : r \notin {pair[1], pair[2]}}
  /\ UNCHANGED serving

ServiceNext ==
  \/ \E r \in Request : Submit(r) \/ Serve(r) \/ Complete(r)
  \/ Suspend

ServiceSpec == ServiceInit /\ [][ServiceNext]_<<pending, before, serving>>
=============================================================================
