---------------------------- MODULE ProcessPool ----------------------------
(***************************************************************************)
(* What the scheduler promises the rest of the program, without the queue: *)
(* a set of live processes, of which at most one runs. A process joins the *)
(* set when a running process starts it, runs only while it is in the set, *)
(* and leaves it only by returning from its function.                      *)
(***************************************************************************)
CONSTANTS Proc, Main, NoProc

VARIABLES pool, running

(* rtos_main dispatches the main process. *)
PoolInit == pool = {Main} /\ running = NoProc

Start(p) ==
  /\ running # NoProc
  /\ p \notin pool
  /\ pool' = pool \cup {p}
  /\ UNCHANGED running

Run(p) ==
  /\ running = NoProc
  /\ p \in pool
  /\ running' = p
  /\ UNCHANGED pool

Yield ==
  /\ running # NoProc
  /\ running' = NoProc
  /\ UNCHANGED pool

Return ==
  /\ running # NoProc
  /\ pool' = pool \ {running}
  /\ running' = NoProc

PoolNext == (\E p \in Proc : Start(p) \/ Run(p)) \/ Yield \/ Return

PoolSpec == PoolInit /\ [][PoolNext]_<<pool, running>>
=============================================================================
