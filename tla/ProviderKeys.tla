---------------------------- MODULE ProviderKeys ----------------------------
(***************************************************************************)
(* Calls to the provider with the API keys of a workspace:                 *)
(* withTenantKey (api/tenantKeys.ts) orders the keys and fails over,       *)
(* KeyRateLimiter (api/rateLimit.ts) gives each key to one call at a time  *)
(* and spaces its turns, post and requestOnKey (api/duoPlusClient.ts) say  *)
(* which answer lets the next key be tried.                                *)
(*                                                                         *)
(* Workspaces may hold the same key: the limiter and the cooldown in       *)
(* memory go by the key, the stored row by workspace and key.  A turn of   *)
(* the limiter is the length of its callback; time is in ticks.            *)
(***************************************************************************)
EXTENDS Integers, Sequences, Functions, FiniteSets

CONSTANTS
  Tenants, Keys, KeyCalls,
  NoKey,
  TenantOf,        \* the workspace of each call
  Interval,        \* the ticks between two turns of a key
  Pauses,          \* the pauses a 429 may ask for, in ticks
  MaxClock, MaxKeyFaults

ASSUME KeysAssumption ==
  /\ NoKey \notin Keys
  /\ TenantOf \in [KeyCalls -> Tenants]
  /\ Interval \in Nat \ {0} /\ Pauses \subseteq Nat /\ MaxClock \in Nat /\ MaxKeyFaults \in Nat

VARIABLES
  clock,
  line,        \* per key: the calls in the limiter's queue, the first has the turn
  nextStart,   \* per key: nextStartAt
  cooling,     \* per key: congestedUntil, in memory
  rows,        \* per workspace and key: the stored `dead` and congestedUntil
  call,        \* per call: where it is, its key, the keys it still has to try
  effects,     \* per call: how often the provider carried it out
  turnEnd,     \* history, per key: when the last turn ended, were it cut by a restart
  turnKnown,   \* history, per key: the process that runs knows of that turn
  asked,       \* history, per workspace and key: the pause the provider asked for
  pauseKept,   \* history: where that pause is remembered
  keyFaults

keyVars == <<clock, line, nextStart, cooling, rows, call, effects, turnEnd, turnKnown, asked, pauseKept, keyFaults>>

Later(a, b) == IF a >= b THEN a ELSE b

IdleCall == [pc |-> "idle", key |-> NoKey, left |-> {}]

KeysInit ==
  /\ clock = 0
  /\ line = [k \in Keys |-> <<>>]
  /\ nextStart = [k \in Keys |-> 0]
  /\ cooling = [k \in Keys |-> 0]
  /\ rows = [t \in Tenants |-> [k \in Keys |-> [dead |-> FALSE, until |-> 0]]]
  /\ call = [c \in KeyCalls |-> IdleCall]
  /\ effects = [c \in KeyCalls |-> 0]
  /\ turnEnd = [k \in Keys |-> -Interval] /\ turnKnown = [k \in Keys |-> TRUE]
  /\ asked = [t \in Tenants |-> [k \in Keys |-> 0]]
  /\ pauseKept = [t \in Tenants |-> [k \in Keys |-> "row"]]
  /\ keyFaults = 0

Row(c, k)      == rows[TenantOf[c]][k]
Cooldown(c, k) == Later(cooling[k], Row(c, k).until)

InTurn(c) == call[c].pc \in {"turn", "send", "answered", "lost", "limited", "denied"}

CallGoes(c, where) == call' = [call EXCEPT ![c].pc = where]

\* The rows are read and ordered once; the order is a heuristic, any is allowed.
CallBegins(c) ==
  /\ call[c].pc = "idle"
  /\ call' = [call EXCEPT ![c] =
       [pc |-> "next", key |-> NoKey, left |-> {k \in Keys : ~Row(c, k).dead}]]
  /\ UNCHANGED <<clock, line, nextStart, cooling, rows, effects, turnEnd, turnKnown, asked, pauseKept, keyFaults>>

\* The next key that is not cooling down; the reservation of its turn is synchronous.
Reserve(c) ==
  /\ call[c].pc = "next"
  /\ LET ready == {k \in call[c].left : Cooldown(c, k) <= clock} IN
     IF ready = {}
     THEN CallGoes(c, "failed") /\ UNCHANGED line
     ELSE \E k \in ready :
            /\ call' = [call EXCEPT ![c] = [pc |-> "queued", key |-> k, left |-> @.left \ {k}]]
            /\ line' = [line EXCEPT ![k] = Append(@, c)]
  /\ UNCHANGED <<clock, nextStart, cooling, rows, effects, turnEnd, turnKnown, asked, pauseKept, keyFaults>>

\* The turn: the call before it has ended and the interval has passed.
TakeTurn(c) ==
  /\ call[c].pc = "queued"
  /\ LET k == call[c].key IN
     /\ Head(line[k]) = c /\ nextStart[k] <= clock
     /\ nextStart' = [nextStart EXCEPT ![k] = clock + Interval]
  /\ CallGoes(c, "turn")
  /\ UNCHANGED <<clock, line, cooling, rows, effects, turnEnd, turnKnown, asked, pauseKept, keyFaults>>

\* Mutant: the interval counts from the start of a turn only.
LeaveTurnUnspaced(c) ==
  LET k == call[c].key IN
  /\ line' = [line EXCEPT ![k] = Tail(@)]
  /\ turnEnd' = [turnEnd EXCEPT ![k] = clock] /\ turnKnown' = [turnKnown EXCEPT ![k] = TRUE]
  /\ UNCHANGED nextStart

\* The limiter's `finally`: the interval counts again from the end of the turn.
LeaveTurn(c) ==
  LET k == call[c].key IN
  /\ line' = [line EXCEPT ![k] = Tail(@)]
  /\ nextStart' = [nextStart EXCEPT ![k] = clock + Interval]
  /\ turnEnd' = [turnEnd EXCEPT ![k] = clock] /\ turnKnown' = [turnKnown EXCEPT ![k] = TRUE]

\* In its turn the key is read again: it may be gone, or cooling down by now.
Recheck(c) ==
  /\ call[c].pc = "turn"
  /\ LET k == call[c].key IN
     IF Row(c, k).dead \/ Cooldown(c, k) > clock
     THEN LeaveTurn(c) /\ CallGoes(c, "next")
     ELSE CallGoes(c, "send") /\ UNCHANGED <<line, nextStart, turnEnd, turnKnown>>
  /\ UNCHANGED <<clock, cooling, rows, effects, asked, pauseKept, keyFaults>>

\* beforeSend refuses: the caller's own error, which ends the call.
Refused(c) ==
  /\ call[c].pc = "send"
  /\ LeaveTurn(c) /\ CallGoes(c, "failed")
  /\ UNCHANGED <<clock, cooling, rows, effects, asked, pauseKept, keyFaults>>

\* The request is sent, and answered in a later step.  applyDeviceEnvironment reads
\* the phone's values and power in the same turn before its update: a reading that
\* succeeds changes nothing here, one that fails is a reply with nothing done.
SendRequest(c) ==
  /\ call[c].pc = "send"
  /\ \E reply \in {"answered", "lost", "limited", "denied"}, done \in BOOLEAN :
       /\ reply = "answered" => done
       /\ reply \in {"limited", "denied"} => ~done
       /\ effects' = [effects EXCEPT ![c] = IF done THEN @ + 1 ELSE @]
       /\ CallGoes(c, reply)
  /\ UNCHANGED <<clock, line, nextStart, cooling, rows, turnEnd, turnKnown, asked, pauseKept, keyFaults>>

\* The stored row is updated, or the database fails and its error ends the call.
Stored(c, row) ==
  \/ /\ rows' = [rows EXCEPT ![TenantOf[c]][call[c].key] = row]
     /\ UNCHANGED keyFaults
  \/ keyFaults < MaxKeyFaults /\ keyFaults' = keyFaults + 1 /\ UNCHANGED rows

StoreFailed == keyFaults' # keyFaults

\* Success is counted first, and only then is the cooldown in memory cleared.
Answered(c) ==
  /\ call[c].pc = "answered"
  /\ Stored(c, [Row(c, call[c].key) EXCEPT !.until = 0])
  /\ cooling' = IF StoreFailed THEN cooling ELSE [cooling EXCEPT ![call[c].key] = 0]
  /\ CallGoes(c, IF StoreFailed THEN "failed" ELSE "done")
  /\ LeaveTurn(c)
  /\ UNCHANGED <<clock, effects, asked, pauseKept>>

\* Mutant: any failed request is tried again with the next key.
LostTriesNextKey(c) ==
  /\ call[c].pc = "lost"
  /\ LeaveTurn(c) /\ CallGoes(c, "next")
  /\ UNCHANGED <<clock, cooling, rows, effects, asked, pauseKept, keyFaults>>

\* No answer, or another provider error: the call ends, whatever the request did.
Lost(c) ==
  /\ call[c].pc = "lost"
  /\ LeaveTurn(c) /\ CallGoes(c, "failed")
  /\ UNCHANGED <<clock, cooling, rows, effects, asked, pauseKept, keyFaults>>

\* 429: the pause is kept in memory and in the row, and the next key is tried.
Limited(c) ==
  /\ call[c].pc = "limited"
  /\ \E pause \in Pauses :
       /\ cooling' = [cooling EXCEPT ![call[c].key] = clock + pause]
       /\ Stored(c, [Row(c, call[c].key) EXCEPT !.until = clock + pause])
       /\ asked' = [asked EXCEPT ![TenantOf[c]][call[c].key] = clock + pause]
       /\ pauseKept' = [pauseKept EXCEPT ![TenantOf[c]][call[c].key] = IF StoreFailed THEN "memory" ELSE "row"]
  /\ CallGoes(c, IF StoreFailed THEN "failed" ELSE "next")
  /\ LeaveTurn(c)
  /\ UNCHANGED <<clock, effects>>

\* 401 or 403: the row is dead and the next key is tried.
Denied(c) ==
  /\ call[c].pc = "denied"
  /\ Stored(c, [Row(c, call[c].key) EXCEPT !.dead = TRUE])
  /\ CallGoes(c, IF StoreFailed THEN "failed" ELSE "next")
  /\ LeaveTurn(c)
  /\ UNCHANGED <<clock, cooling, effects, asked, pauseKept>>

ClockTicks ==
  /\ clock < MaxClock
  /\ clock' = clock + 1
  /\ UNCHANGED <<line, nextStart, cooling, rows, call, effects, turnEnd, turnKnown, asked, pauseKept, keyFaults>>

\* A restart: what was in memory is lost, the calls with it, the time of the last
\* turns and the pauses that only the memory held.  The provider has seen the
\* requests of the turns that were cut.
KeysRestart ==
  /\ keyFaults < MaxKeyFaults /\ keyFaults' = keyFaults + 1
  /\ line' = [k \in Keys |-> <<>>]
  /\ nextStart' = [k \in Keys |-> 0]
  /\ cooling' = [k \in Keys |-> 0]
  /\ call' = [c \in KeyCalls |-> IF call[c].pc = "idle" THEN call[c] ELSE [call[c] EXCEPT !.pc = "failed"]]
  /\ turnEnd' = [k \in Keys |-> IF \E c \in KeyCalls : call[c].key = k /\ InTurn(c) THEN clock ELSE turnEnd[k]]
  /\ turnKnown' = [k \in Keys |-> FALSE]
  /\ pauseKept' = [t \in Tenants |-> [k \in Keys |-> IF pauseKept[t][k] = "row" THEN "row" ELSE "nowhere"]]
  /\ UNCHANGED <<clock, rows, effects, asked>>

KeysNext ==
  \/ ClockTicks \/ KeysRestart
  \/ \E c \in KeyCalls :
       \/ CallBegins(c) \/ Reserve(c) \/ TakeTurn(c) \/ Recheck(c) \/ Refused(c) \/ SendRequest(c)
       \/ Answered(c) \/ Lost(c) \/ Limited(c) \/ Denied(c)

KeysSpec == KeysInit /\ [][KeysNext]_keyVars

-----------------------------------------------------------------------------

KeyRows   == [dead : BOOLEAN, until : Nat]
CallRows  == [pc : {"idle", "next", "queued", "turn", "send", "answered", "lost", "limited", "denied", "failed", "done"},
              key : Keys \cup {NoKey}, left : SUBSET Keys]

\* A line holds the calls that wait for its key or have it, and no others.
KeysTypeOK ==
  /\ clock \in 0..MaxClock /\ keyFaults \in 0..MaxKeyFaults
  /\ line \in [Keys -> Seq(KeyCalls)]
  /\ nextStart \in [Keys -> Nat] /\ cooling \in [Keys -> Nat] /\ turnEnd \in [Keys -> Int]
  /\ turnKnown \in [Keys -> BOOLEAN]
  /\ rows \in [Tenants -> [Keys -> KeyRows]]
  /\ call \in [KeyCalls -> CallRows]
  /\ effects \in [KeyCalls -> Nat]
  /\ asked \in [Tenants -> [Keys -> Nat]]
  /\ pauseKept \in [Tenants -> [Keys -> {"row", "memory", "nowhere"}]]
  /\ \A k \in Keys : Range(line[k]) = {c \in KeyCalls : call[c].key = k /\ (InTurn(c) \/ call[c].pc = "queued")}

\* What one process can keep of the provider's limits it keeps, although calls of
\* several workspaces share a key, wait for it while rows change, and are cut by
\* restarts: a turn of a key starts only when no other call has one, an interval
\* after the last one ended, and no request is sent with a key before the pause
\* its workspace was asked for is over.  nextStartAt is in memory only, so the
\* first turn of a key after a restart may follow the last one at once; from its
\* end on the interval counts again.  A pause survives a restart unless the
\* database had refused it.
ProviderLimitKept ==
  [][\A c \in KeyCalls : LET k == call'[c].key IN
       /\ ~InTurn(c) /\ InTurn(c)' =>
            /\ turnKnown[k] => clock >= turnEnd[k] + Interval
            /\ \A d \in KeyCalls \ {c} : InTurn(d) => call[d].key # k
       /\ call[c].pc = "send" /\ call'[c].pc \in {"answered", "lost", "limited", "denied"} =>
            clock >= asked[TenantOf[c]][k] \/ pauseKept[TenantOf[c]][k] = "nowhere"
    ]_keyVars

\* A call is never carried out twice: a second key is tried only after an answer
\* that says the first request did nothing, and a call that reports success was
\* carried out.  One that reports failure may have been.
FailoverSendsOnce ==
  \A c \in KeyCalls :
    /\ effects[c] <= 1
    /\ call[c].pc = "done" => effects[c] = 1
=============================================================================
