----------------------------- MODULE ImageLease -----------------------------
(***************************************************************************)
(* The physical-image lease of src/src/trips/imageOwnership.ts.  Every     *)
(* piece of work that touches one phone (GPS trip steps, radio sessions,   *)
(* RPA submissions, warmup runs, site jobs) runs inside one call of        *)
(* withPhysicalImageLease.  A member of Attempts is one such call, for one *)
(* image; it is also the random token the call stores in Redis, so two     *)
(* calls never share a token and a call is never started twice.            *)
(*                                                                         *)
(* Redis executes each command atomically, but the reply travels back      *)
(* separately: the controller may give up on a reply (bounded, 3 s) while  *)
(* the command is still queued, and executes later.  The worker may stall  *)
(* or die at any point; the key may reach its TTL at any point.            *)
(***************************************************************************)
EXTENDS Naturals

CONSTANTS
  Attempts,  \* calls of withPhysicalImageLease for this image
  NoToken    \* the lease key does not exist

ASSUME NoTokenAssumption == NoToken \notin Attempts

VARIABLES
  holder,       \* Redis: the token stored under leaseKeyFor(image)
  epochKey,     \* Redis: the counter under epochKeyFor(image)
  pc,           \* where each call is
  epoch,        \* ImageOwnership.epoch of each call, 0 before INCR answered
  lost,         \* the call's `lost` flag
  cleared,      \* assertOwned has returned and the write it guards is not made
  lateSet,      \* calls whose SET was given up on and is still queued
  lateRelease   \* calls whose compare-and-delete is queued, unawaited

redisVars == <<holder, epochKey, lateSet, lateRelease>>
callVars  == <<pc, epoch, lost, cleared>>
leaseVars == <<holder, epochKey, pc, epoch, lost, cleared, lateSet, lateRelease>>

Places == {"idle", "set", "waiting", "incr", "work", "release", "done"}

Init ==
  /\ holder = NoToken
  /\ epochKey = 0
  /\ pc = [a \in Attempts |-> "idle"]
  /\ epoch = [a \in Attempts |-> 0]
  /\ lost = [a \in Attempts |-> FALSE]
  /\ cleared = [a \in Attempts |-> FALSE]
  /\ lateSet = {}
  /\ lateRelease = {}

Goto(a, from, to) == pc[a] = from /\ pc' = [pc EXCEPT ![a] = to]

-----------------------------------------------------------------------------
(* Acquiring the lease.                                                    *)

\* SET ... PX ttl NX is handed to the client.
Start(a) ==
  /\ Goto(a, "idle", "set")
  /\ UNCHANGED <<redisVars, epoch, lost, cleared>>

\* The SET is answered in time with OK.
SetGranted(a) ==
  /\ holder = NoToken
  /\ Goto(a, "set", "incr")
  /\ holder' = a
  /\ UNCHANGED <<epochKey, lateSet, lateRelease, epoch, lost, cleared>>

\* The SET is answered with nil: another call holds the key.
SetRefused(a) ==
  /\ holder # NoToken
  /\ Goto(a, "set", "waiting")
  /\ UNCHANGED <<redisVars, epoch, lost, cleared>>

\* 100 ms later, still before the deadline.
Retry(a) ==
  /\ Goto(a, "waiting", "set")
  /\ UNCHANGED <<redisVars, epoch, lost, cleared>>

\* Mutant: every retry moves the deadline along with it.
GiveUpReArmed(a) ==
  /\ Goto(a, "waiting", "set")
  /\ UNCHANGED <<redisVars, epoch, lost, cleared>>

\* The deadline has passed: 409 to the caller, work never runs.
GiveUp(a) ==
  /\ Goto(a, "waiting", "done")
  /\ UNCHANGED <<redisVars, epoch, lost, cleared>>

\* No reply within boundMs: 503 to the caller, the SET stays queued.
SetTimesOut(a) ==
  /\ Goto(a, "set", "done")
  /\ lateSet' = lateSet \cup {a}
  /\ UNCHANGED <<holder, epochKey, lateRelease, epoch, lost, cleared>>

\* A queued SET executes after all.  When its OK arrives, the handler left on
\* the pending promise queues a compare-and-delete; the OK may also be lost
\* with the connection or the process, and then only the TTL frees the key.
LateSetExecutes(a) ==
  /\ a \in lateSet
  /\ lateSet' = lateSet \ {a}
  /\ \/ holder # NoToken /\ UNCHANGED <<holder, lateRelease>>
     \/ /\ holder = NoToken
        /\ holder' = a
        /\ lateRelease' \in {lateRelease, lateRelease \cup {a}}
  /\ UNCHANGED <<epochKey, callVars>>

\* The fencing epoch is raised once the key is held.
IncrAnswered(a) ==
  /\ Goto(a, "incr", "work")
  /\ epochKey' = epochKey + 1
  /\ epoch' = [epoch EXCEPT ![a] = epochKey + 1]
  /\ UNCHANGED <<holder, lateSet, lateRelease, lost, cleared>>

\* INCR fails or is not answered in time: the exception leaves
\* withPhysicalImageLease before its try block, so the key is not released.
\* The counter may have been raised all the same.
IncrFails(a) ==
  /\ Goto(a, "incr", "done")
  /\ epochKey' \in {epochKey, epochKey + 1}
  /\ UNCHANGED <<holder, lateSet, lateRelease, epoch, lost, cleared>>

-----------------------------------------------------------------------------
(* Working under the lease.                                                *)

\* Mutant: the renewal flag alone is trusted; Redis is not asked again.
OwnsByFlag(a) == ~lost[a]

\* What assertOwned and the renewal timer read: the PEXPIRE script finds the
\* call's own token, and no earlier check has failed.
Owns(a) == ~lost[a] /\ holder = a

\* assertOwned returns; the caller may now make one guarded write.
AssertOwned(a) ==
  /\ pc[a] = "work"
  /\ Owns(a)
  /\ cleared' = [cleared EXCEPT ![a] = TRUE]
  /\ UNCHANGED <<redisVars, pc, epoch, lost>>

\* assertOwned throws 409 and remembers it.
AssertFails(a) ==
  /\ pc[a] = "work"
  /\ ~Owns(a)
  /\ lost' = [lost EXCEPT ![a] = TRUE]
  /\ cleared' = [cleared EXCEPT ![a] = FALSE]
  /\ UNCHANGED <<redisVars, pc, epoch>>

\* The renewal timer's assertOwned finds another token or gets no answer.
RenewalFails(a) ==
  /\ pc[a] = "work"
  /\ lost' = [lost EXCEPT ![a] = TRUE]
  /\ UNCHANGED <<redisVars, pc, epoch, cleared>>

\* The guarded write leaves the controller.  Nothing is read between the
\* reply of assertOwned and the write, however long that takes.
Write(a) ==
  /\ pc[a] = "work"
  /\ cleared[a]
  /\ cleared' = [cleared EXCEPT ![a] = FALSE]
  /\ UNCHANGED <<redisVars, pc, epoch, lost>>

\* The work callback settles; the finally block begins.
WorkEnds(a) ==
  /\ Goto(a, "work", "release")
  /\ cleared' = [cleared EXCEPT ![a] = FALSE]
  /\ UNCHANGED <<redisVars, epoch, lost>>

-----------------------------------------------------------------------------
(* Giving the lease back.                                                  *)

\* Mutant: a plain DEL.
ReleasedBlindly(a) == NoToken

\* releaseScript: GET = token, then DEL.
Released(a) == IF holder = a THEN NoToken ELSE holder

Release(a) ==
  /\ Goto(a, "release", "done")
  /\ holder' = Released(a)
  /\ UNCHANGED <<epochKey, lateSet, lateRelease, epoch, lost, cleared>>

\* The release is not answered in time; the error is swallowed.
ReleaseTimesOut(a) ==
  /\ Goto(a, "release", "done")
  /\ lateRelease' = lateRelease \cup {a}
  /\ UNCHANGED <<holder, epochKey, lateSet, epoch, lost, cleared>>

LateReleaseExecutes(a) ==
  /\ a \in lateRelease
  /\ lateRelease' = lateRelease \ {a}
  /\ holder' = Released(a)
  /\ UNCHANGED <<epochKey, lateSet, callVars>>

-----------------------------------------------------------------------------
(* Redis, the network and the process.                                     *)

\* Mutant: the key is set without PX and never expires.
ExpireNever == FALSE /\ UNCHANGED leaseVars

\* The key reaches its TTL: the holder stalled, was cut off from Redis, or is
\* gone, so no PEXPIRE arrived for 60 s.
Expire ==
  /\ holder # NoToken
  /\ holder' = NoToken
  /\ UNCHANGED <<epochKey, lateSet, lateRelease, callVars>>

\* A queued command is dropped with its connection.
CommandDropped(a) ==
  /\ a \in lateSet \cup lateRelease
  /\ lateSet' = lateSet \ {a}
  /\ lateRelease' = lateRelease \ {a}
  /\ UNCHANGED <<holder, epochKey, callVars>>

\* The controller process dies during the call.  A SET already handed to the
\* socket still executes.  A process running several calls dies by one such
\* step for each of them.
Crash(a) ==
  /\ pc[a] \notin {"idle", "done"}
  /\ pc' = [pc EXCEPT ![a] = "done"]
  /\ cleared' = [cleared EXCEPT ![a] = FALSE]
  /\ lateSet' = IF pc[a] = "set" THEN lateSet \cup {a} ELSE lateSet
  /\ UNCHANGED <<holder, epochKey, lateRelease, epoch, lost>>

\* Everything but the guarded write, which other modules refine.
LeaseStep(a) ==
  \/ Start(a) \/ SetGranted(a) \/ SetRefused(a) \/ Retry(a) \/ GiveUp(a)
  \/ SetTimesOut(a) \/ LateSetExecutes(a) \/ IncrAnswered(a) \/ IncrFails(a)
  \/ AssertOwned(a) \/ AssertFails(a) \/ RenewalFails(a)
  \/ WorkEnds(a) \/ Release(a) \/ ReleaseTimesOut(a)
  \/ LateReleaseExecutes(a) \/ CommandDropped(a) \/ Crash(a)

Next == Expire \/ \E a \in Attempts : LeaseStep(a) \/ Write(a)

-----------------------------------------------------------------------------
(* Fairness.  Every await of the acquire and release paths is bounded by a *)
(* timer, the waiting loop has a deadline, and the key has a TTL that only *)
(* a live holder renews.  How long the work callback runs is its own       *)
(* business: it may never settle.                                          *)

Progress(a) ==
  \/ SetGranted(a) \/ SetRefused(a) \/ SetTimesOut(a)
  \/ IncrAnswered(a) \/ IncrFails(a)
  \/ Release(a) \/ ReleaseTimesOut(a)

\* Only a call in its work renews the key.
TtlElapses == Expire /\ \E a \in Attempts : holder = a /\ pc[a] # "work"

Fairness ==
  /\ WF_leaseVars(TtlElapses)
  /\ \A a \in Attempts : WF_leaseVars(Progress(a)) /\ SF_leaseVars(GiveUp(a))

Spec == Init /\ [][Next]_leaseVars /\ Fairness

-----------------------------------------------------------------------------
(* Properties.                                                             *)

TypeOK ==
  /\ holder \in Attempts \cup {NoToken}
  /\ epochKey \in Nat
  /\ pc \in [Attempts -> Places]
  /\ epoch \in [Attempts -> Nat]
  /\ lost \in [Attempts -> BOOLEAN]
  /\ cleared \in [Attempts -> BOOLEAN]
  /\ lateSet \subseteq Attempts
  /\ lateRelease \subseteq Attempts

(* A write that assertOwned has cleared carries an epoch below that of the *)
(* call which now holds the phone, however long the writer has stalled     *)
(* since: this is what lets the receiver tell a late payload from a        *)
(* current one (imageOwnership.ts:5-10).  It needs the SET, the INCR and   *)
(* the ownership check in exactly this order.                              *)
FencedClearance ==
  \A a, b \in Attempts :
    cleared[a] /\ holder = b /\ a # b /\ epoch[b] # 0 => epoch[a] < epoch[b]

(* No release, prompt or late, of one call takes the lease from another:   *)
(* the compare-and-delete of releaseScript (imageOwnership.ts:13,48-49).   *)
ReleaseKeepsNewerOwner ==
  [][\A a, b \in Attempts :
        /\ a # b /\ holder = b
        /\ \/ pc[a] = "release" /\ pc'[a] = "done"
           \/ a \in lateRelease /\ a \notin lateRelease'
        => holder' = b]_leaseVars

(* A caller gets the phone or an error, and one that is through with its   *)
(* work gets away: neither a holder that never lets go nor a silent Redis  *)
(* keeps it for ever (the deadline of imageOwnership.ts:73-79, boundMs).   *)
CallsSettle ==
  \A a \in Attempts :
    /\ pc[a] = "set" ~> pc[a] \in {"work", "done"}
    /\ pc[a] = "release" ~> pc[a] = "done"

(* A token left behind by a failed INCR, a lost release, a late SET or a   *)
(* dead process does not lock the phone forever.                           *)
AbandonedLeaseFreed ==
  \A a \in Attempts : holder = a /\ pc[a] = "done" ~> holder # a
=============================================================================
