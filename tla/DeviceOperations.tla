-------------------------- MODULE DeviceOperations --------------------------
(***************************************************************************)
(* The movement reservations and environment windows of one device         *)
(* (orchestrator/deviceOperations.ts): GPS work reserves the movement,     *)
(* environment work holds the window, and a window that finds the device   *)
(* moving waits, for a bounded time, until it is drained.                  *)
(*                                                                         *)
(* The entry of the `operations` map is an object: it is created when the  *)
(* device is first used, deleted when nobody uses the device, and callers  *)
(* keep references to the object they were given.  A reservation's release *)
(* may be called again after it took effect (orchestrator/sidecar.ts).     *)
(***************************************************************************)
EXTENDS FiniteSets

CONSTANTS
  Movers,    \* GPS producers: trip steps, sidecar, telemetry worker
  Windows,   \* environment work: set-up, site and RPA jobs, trip changes
  Objects,   \* identities of DeviceOperation objects
  NoObject

ASSUME MoversAreNotWindows == Movers \cap Windows = {}
ASSUME NoObjectIsNone == NoObject \notin Objects

VARIABLES
  entry,    \* the map's object for the device
  held, moving, drained,  \* the fields of each object
  obj,      \* the object each caller refers to
  pc        \* where each caller is

vars == <<entry, held, moving, drained, obj, pc>>

Callers == Movers \cup Windows
MoverPlaces  == {"idle", "moving", "released"}
WindowPlaces == {"idle", "waiting", "woken", "working", "failed"}

Init ==
  /\ entry = NoObject
  /\ held = [o \in Objects |-> FALSE]
  /\ moving = [o \in Objects |-> FALSE]
  /\ drained = [o \in Objects |-> {}]
  /\ obj = [p \in Callers |-> NoObject]
  /\ pc = [p \in Callers |-> "idle"]

Unused == Objects \ ({entry} \cup {obj[p] : p \in Callers})

\* operationFor: the object of the map, or a new one with every field clear.
operationFor(o) == IF entry = NoObject THEN o \in Unused ELSE o = entry
Held(o)   == entry = o /\ held[o]
Moving(o) == entry = o /\ moving[o]

\* cleanup, after `free` says whether the object is neither held nor moving.
Cleanup(o, free) == entry' = IF free /\ entry = o THEN NoObject ELSE entry

\* A successful reservation; one that finds the device in use changes nothing.
reserveMovement(m) ==
  /\ pc[m] = "idle"
  /\ \E o \in Objects :
       /\ operationFor(o)
       /\ ~Held(o) /\ ~Moving(o)
       /\ entry' = o
       /\ moving' = [moving EXCEPT ![o] = TRUE]
       /\ held' = [held EXCEPT ![o] = FALSE]
       /\ drained' = [drained EXCEPT ![o] = {}]
       /\ obj' = [obj EXCEPT ![m] = o]
  /\ pc' = [pc EXCEPT ![m] = "moving"]

\* The promises of the waiting windows are resolved.
Wake(m, next) ==
  LET o == obj[m] IN
  /\ moving' = [moving EXCEPT ![o] = FALSE]
  /\ drained' = [drained EXCEPT ![o] = {}]
  /\ pc' = [p \in Callers |->
       IF p = m THEN next ELSE IF p \in drained[o] THEN "woken" ELSE pc[p]]
  /\ Cleanup(o, ~held[o])
  /\ UNCHANGED held

Forget(p) == obj' = [obj EXCEPT ![p] = NoObject]

\* Mutant: the end of a movement deletes the object whether or not it is held.
ReleaseDropsObject(m) ==
  /\ pc[m] = "moving"
  /\ moving' = [moving EXCEPT ![obj[m]] = FALSE]
  /\ drained' = [drained EXCEPT ![obj[m]] = {}]
  /\ pc' = [p \in Callers |->
       IF p = m THEN "idle" ELSE IF p \in drained[obj[m]] THEN "woken" ELSE pc[p]]
  /\ Cleanup(obj[m], TRUE)
  /\ Forget(m)
  /\ UNCHANGED held

\* Mutant: a release does not resolve the waiting windows.
ReleaseSilently(m) ==
  /\ pc[m] = "moving"
  /\ moving' = [moving EXCEPT ![obj[m]] = FALSE]
  /\ pc' = [pc EXCEPT ![m] = "idle"]
  /\ Cleanup(obj[m], ~held[obj[m]])
  /\ Forget(m)
  /\ UNCHANGED <<held, drained>>

\* The closure reserveMovement returned takes effect once; the caller drops it
\* after a second call at the latest.
release(m) ==
  \/ pc[m] = "moving" /\ Wake(m, "released") /\ UNCHANGED obj
  \/ /\ pc[m] = "released"
     /\ pc' = [pc EXCEPT ![m] = "idle"]
     /\ Forget(m)
     /\ UNCHANGED <<entry, held, moving, drained>>

\* A window is asked for; one that finds another window is refused.
withEnvironmentWindow(w) ==
  /\ pc[w] = "idle"
  /\ \E o \in Objects :
       /\ operationFor(o)
       /\ ~Held(o)
       /\ entry' = o
       /\ held' = [held EXCEPT ![o] = TRUE]
       /\ moving' = [moving EXCEPT ![o] = Moving(o)]
       /\ drained' = [drained EXCEPT ![o] = IF Moving(o) THEN @ \cup {w} ELSE {}]
       /\ obj' = [obj EXCEPT ![w] = o]
       /\ pc' = [pc EXCEPT ![w] = IF Moving(o) THEN "waiting" ELSE "working"]

\* The awaited promise is resolved: the work starts.
Resume(w) ==
  /\ pc[w] = "woken"
  /\ pc' = [pc EXCEPT ![w] = "working"]
  /\ UNCHANGED <<entry, held, moving, drained, obj>>

\* drainTimeoutMs: the window gives up; its `finally` runs in a later turn.
DrainTimesOut(w) ==
  /\ pc[w] = "waiting"
  /\ pc' = [pc EXCEPT ![w] = "failed"]
  /\ drained' = [drained EXCEPT ![obj[w]] = @ \ {w}]
  /\ UNCHANGED <<entry, held, moving, obj>>

\* The work ended or was never started: the `finally` block.
CloseWindow(w) ==
  /\ pc[w] \in {"working", "failed"}
  /\ pc' = [pc EXCEPT ![w] = "idle"]
  /\ held' = [held EXCEPT ![obj[w]] = FALSE]
  /\ Cleanup(obj[w], ~moving[obj[w]])
  /\ Forget(w)
  /\ UNCHANGED <<moving, drained>>

Next ==
  \/ \E m \in Movers : reserveMovement(m) \/ release(m)
  \/ \E w \in Windows :
       \/ withEnvironmentWindow(w) \/ Resume(w)
       \/ DrainTimesOut(w) \/ CloseWindow(w)

\* Movements end and promises run; the drain timer is not relied on.
Fairness ==
  /\ \A m \in Movers : WF_vars(release(m))
  /\ \A w \in Windows : WF_vars(Resume(w)) /\ WF_vars(CloseWindow(w))

Spec == Init /\ [][Next]_vars
FairSpec == Spec /\ Fairness

-----------------------------------------------------------------------------
(* Properties.                                                             *)

\* Every variable stays in its range, and a caller refers to an object from
\* its call until the `finally` or the last release that gives it up.
TypeOK ==
  /\ entry \in Objects \cup {NoObject}
  /\ held \in [Objects -> BOOLEAN]
  /\ moving \in [Objects -> BOOLEAN]
  /\ drained \in [Objects -> SUBSET Windows]
  /\ obj \in [Callers -> Objects \cup {NoObject}]
  /\ pc \in [Callers -> MoverPlaces \cup WindowPlaces]
  /\ \A m \in Movers : pc[m] \in MoverPlaces
  /\ \A w \in Windows : pc[w] \in WindowPlaces
  /\ \A p \in Callers : obj[p] = NoObject <=> pc[p] = "idle"

InMovement(m) == pc[m] = "moving"
InWindow(w)   == pc[w] \in {"waiting", "woken", "working", "failed"}

\* GPS work and environment work never overlap on a device, and neither
\* overlaps itself, although objects come and go and a stale release may be
\* called while another caller has the device (deviceOperations.ts).
Exclusion ==
  /\ \A m \in Movers, w \in Windows : ~(InMovement(m) /\ pc[w] = "working")
  /\ \A m, n \in Movers : InMovement(m) /\ InMovement(n) => m = n
  /\ \A v, w \in Windows : InWindow(v) /\ InWindow(w) => v = w

\* The map keeps no object for a device that nobody uses, and none that is in
\* use is dropped from it (cleanup).
EntryIsNeeded ==
  entry # NoObject <=>
    (\E m \in Movers : InMovement(m)) \/ (\E w \in Windows : InWindow(w))

\* A window waiting for a movement gets its turn when the movement ends, with
\* no help from the timer: its wake-up is not lost.
WaitingWindowRuns ==
  \A w \in Windows : pc[w] = "waiting" ~> pc[w] \in {"working", "failed"}
=============================================================================
