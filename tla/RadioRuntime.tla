---------------------------- MODULE RadioRuntime ----------------------------
(***************************************************************************)
(* The radio runtime of one trip (radio/runtime.ts), the evidence it keeps *)
(* (evidence.ts, evidenceStore.ts) and what the operator is shown of it    *)
(* (liveStatus.ts).  The evidence store may fail before or after a frame   *)
(* leaves; a new boot or a restart opens another runtime and leaves the    *)
(* rows of the last one behind.  Calls come one at a time: each holds the  *)
(* image lease of the trip's phone.                                        *)
(*                                                                         *)
(* A progress is its sequence, clock and phase; the position goes with the *)
(* clock.  A sequence that was written is refused by the adapter from then *)
(* on (RadioDelivery models the adapter).                                  *)
(***************************************************************************)
EXTENDS Integers, Sequences, FiniteSets, SequencesExt

CONSTANTS
  MaxFrame,           \* bound on sequences and on the simulated clock
  MaxSessions,        \* bound on the sessions of the trip
  MaxEvidence,        \* MAX_EVIDENCE_PER_SESSION
  MaxStoreFaults      \* bound on failures of the evidence store

ASSUME RadioRuntimeAssumption ==
  MaxFrame \in Nat /\ MaxSessions \in Nat \ {0} /\ MaxStoreFaults \in Nat /\ MaxEvidence \in Nat \ {0}

VARIABLES
  rtSource, rtMode,   \* who receives the frames, and the schedule mode
  rtSession,          \* the session that is open
  rtLast,             \* lastTick, which holds lastSequence and lastElapsedMs too
  rtTicks,            \* the map ticks, by sequence
  rtModelled,         \* the engine's last input
  rtCall,             \* the progress inside ingest
  rtRows,             \* the rows of evidence, in the order they were created
  rtPhone,            \* (phone) by sequence of this session: what became of the frame
  rtUnrecorded,       \* (history) sequences whose evidence failed after the frame left
  rtStoreFaults

runtimeVars == <<rtSource, rtMode, rtSession, rtLast, rtTicks, rtModelled,
                 rtCall, rtRows, rtPhone, rtUnrecorded, rtStoreFaults>>

FrameNumbers == 0..MaxFrame
Phases   == {"MOVING", "ARRIVED", "CLEANUP"}
Sources  == {"PLUGIN", "STUB_RECEIVER", "LOCAL_PREPARE"}
RadioProgress == [seq : FrameNumbers, el : FrameNumbers, phase : Phases]

\* What became of a progress: a tick of the radio.
Tick(p, applied, uncertain) ==
  [seq |-> p.seq, el |-> p.el, phase |-> p.phase, applied |-> applied, uncertain |-> uncertain]

Nothing == [seq |-> -1, el |-> -1, phase |-> "MOVING"]
NoTick  == Tick(Nothing, FALSE, FALSE)

\* tripRadios.open for a trip without a runtime.
OpenRuntime(session) ==
  /\ rtSession' = session
  /\ rtLast' = NoTick
  /\ rtTicks' = [s \in FrameNumbers |-> NoTick]
  /\ rtModelled' = Nothing
  /\ rtCall' = Nothing
  /\ rtPhone' = [s \in FrameNumbers |-> "kept"]
  /\ rtUnrecorded' = {}

RuntimeInit ==
  /\ rtSource \in Sources
  /\ rtMode \in {"LOCAL_SCHEDULE", "DELIVERED"}
  /\ rtSession = 1
  /\ rtLast = NoTick
  /\ rtTicks = [s \in FrameNumbers |-> NoTick]
  /\ rtModelled = Nothing
  /\ rtCall = Nothing
  /\ rtRows = <<>>
  /\ rtPhone = [s \in FrameNumbers |-> "kept"]
  /\ rtUnrecorded = {}
  /\ rtStoreFaults = 0

-----------------------------------------------------------------------------
(* Evidence.                                                               *)

\* recordedApplied: what a stub or a local frame may claim.
RecordedApplied(source, claimed) == claimed /\ source = "PLUGIN"

\* radioEvidenceInputSchema refuses a row that says more than its source can know.
Recordable(row) == row.applied => row.source \notin {"STUB_RECEIVER", "LOCAL_PREPARE"}

Row(kind, source, tick) ==
  [session |-> rtSession, seq |-> tick.seq, kind |-> kind, source |-> source,
   applied |-> tick.applied, uncertain |-> tick.uncertain, current |-> TRUE]

\* The oldest row of a session that has as many as it may keep makes room.
Bounded(rows) ==
  LET mine == {i \in DOMAIN rows : rows[i].session = rtSession}
  IN IF Cardinality(mine) < MaxEvidence THEN rows
     ELSE RemoveAt(rows, CHOOSE i \in mine : \A j \in mine : i <= j)

\* append, in one transaction: the rows of other sessions are no longer current.
RowsAfter(row) ==
  LET others == [i \in DOMAIN rtRows |-> [rtRows[i] EXCEPT !.current = @ /\ rtRows[i].session = row.session]]
  IN Append(Bounded(others), row)

Record(row) == Recordable(row) /\ rtRows' = RowsAfter(row)

\* append failed, and the call throws.
StoreFails ==
  /\ rtStoreFaults < MaxStoreFaults
  /\ rtStoreFaults' = rtStoreFaults + 1
  /\ rtCall' = Nothing
  /\ UNCHANGED <<rtSource, rtMode, rtSession, rtLast, rtTicks, rtRows>>

-----------------------------------------------------------------------------
(* ingest.                                                                 *)

\* requiresBoundedDelivery
Delivers(phase) == rtMode = "DELIVERED" \/ phase # "MOVING"

\* The source written in the rows of a frame.
SourceOf(phase) == IF Delivers(phase) THEN rtSource ELSE "LOCAL_PREPARE"

IsDuplicate(p) ==
  LET prior == rtTicks[p.seq] IN prior.seq = p.seq /\ prior.el = p.el /\ prior.phase = p.phase

IsLate(p) == p.seq < rtLast.seq \/ p.el < rtLast.el

\* A progress that was ingested is acknowledged again; nothing is sent.
IngestDuplicate(p) ==
  /\ rtCall = Nothing /\ IsDuplicate(p)
  /\ rtTicks' = [rtTicks EXCEPT ![p.seq].applied = FALSE]
  /\ Record(Row("DUPLICATE", rtSource, rtTicks'[p.seq]))
  /\ UNCHANGED <<rtSource, rtMode, rtSession, rtLast, rtModelled, rtCall, rtPhone, rtUnrecorded, rtStoreFaults>>

\* A late progress is refused, on record.
IngestLate(p) ==
  /\ rtCall = Nothing /\ ~IsDuplicate(p) /\ IsLate(p)
  /\ Record(Row("FAILURE", rtSource, Tick(p, FALSE, FALSE)))
  /\ UNCHANGED <<rtSource, rtMode, rtSession, rtLast, rtTicks, rtModelled, rtCall, rtPhone, rtUnrecorded, rtStoreFaults>>

\* The engine models an input once, answers the same again, and throws at one
\* that is not ahead of it in both clocks.
Modelled(p) == [p EXCEPT !.phase = IF @ = "CLEANUP" THEN "MOVING" ELSE @]

Accepts(p) == Modelled(p) = rtModelled \/ (p.seq > rtModelled.seq /\ p.el > rtModelled.el)

\* The frame is modelled and its preparation is put on record, or is not.
Prepare(p) ==
  /\ rtCall = Nothing /\ ~IsDuplicate(p) /\ ~IsLate(p) /\ Accepts(p)
  /\ rtModelled' = Modelled(p)
  /\ \/ /\ rtCall' = p
        /\ Record(Row(IF Delivers(p.phase) THEN "REQUESTED" ELSE "SCHEDULED", SourceOf(p.phase),
                      Tick(p, FALSE, FALSE)))
        /\ UNCHANGED <<rtSource, rtMode, rtSession, rtLast, rtTicks, rtStoreFaults>>
     \/ StoreFails
  /\ UNCHANGED <<rtPhone, rtUnrecorded>>

\* Mutant: a frame that timed out counts as one the phone refused.
VerdictCertain(state) == [applied |-> state = "APPLIED", uncertain |-> state = "UNCERTAIN"]

\* What the adapter's result says of the frame.  A lost answer is never a refusal.
Verdict(state) == [applied |-> state = "APPLIED", uncertain |-> state \in {"TIMED_OUT", "UNCERTAIN"}]

\* What deliver() may answer for a frame of this sequence, and what became of
\* the frame on the phone ("kept": it keeps what it had).
Deliveries(p) ==
  IF ~Delivers(p.phase) \/ rtSource = "LOCAL_PREPARE" \/ rtPhone[p.seq] # "kept"
  THEN {<<"CERTAIN", rtPhone[p.seq]>>}
  ELSE {<<"APPLIED", "applied">>, <<"CERTAIN", "kept">>} \cup
       ({"TIMED_OUT", "UNCERTAIN"} \X {"applied", "lost"})

\* The frame is delivered, when it must be and there is a receiver, and the
\* result is put on record and becomes the last tick.
Conclude ==
  /\ rtCall # Nothing
  /\ \E d \in Deliveries(rtCall) :
       LET verdict == Verdict(d[1])
           source  == SourceOf(rtCall.phase)
           tick    == Tick(rtCall, RecordedApplied(rtSource, verdict.applied), verdict.uncertain)
       IN /\ rtPhone' = [rtPhone EXCEPT ![rtCall.seq] = d[2]]
          /\ \/ /\ Record(Row(IF tick.uncertain THEN "STATUS" ELSE "RESULT", source, tick))
                /\ rtLast' = tick
                /\ rtTicks' = [rtTicks EXCEPT ![tick.seq] = tick]
                /\ rtCall' = Nothing
                /\ UNCHANGED <<rtSource, rtMode, rtSession, rtUnrecorded, rtStoreFaults>>
             \/ StoreFails /\ rtUnrecorded' = rtUnrecorded \cup {rtCall.seq}
  /\ UNCHANGED rtModelled

\* ingest gets progress from the trip, ahead of the last frame or not; a
\* cleanup comes right behind the last frame, and ends the arrival (lifecycle.ts).
Ingest(p) ==
  /\ rtLast.phase # "CLEANUP"
  /\ p.phase = "CLEANUP" => p.seq = (IF rtLast.seq < 0 THEN 1 ELSE rtLast.seq + 1)
  /\ IngestDuplicate(p) \/ IngestLate(p) \/ Prepare(p)

-----------------------------------------------------------------------------
(* reconcile, and another runtime for the trip.                            *)

\* A status query settles nothing by itself: an unknown sequence and an
\* uncertain one stay what they are.
Reconcile(seq) ==
  LET tick == rtTicks[seq] IN
  /\ rtCall = Nothing
  /\ tick = NoTick \/ tick.uncertain
  /\ Record(Row("STATUS", rtSource, [tick EXCEPT !.seq = seq, !.applied = FALSE, !.uncertain = TRUE]))
  /\ rtTicks' = IF tick = NoTick THEN rtTicks ELSE [rtTicks EXCEPT ![seq].applied = FALSE]
  /\ UNCHANGED <<rtSource, rtMode, rtSession, rtLast, rtModelled, rtCall, rtPhone, rtUnrecorded, rtStoreFaults>>

\* The trip's radio is closed (or the controller restarts) and opened again.
Reopen ==
  /\ rtSession < MaxSessions
  /\ OpenRuntime(rtSession + 1)
  /\ UNCHANGED <<rtSource, rtMode, rtRows, rtStoreFaults>>

RuntimeNext ==
  \/ \E p \in RadioProgress : Ingest(p)
  \/ Conclude
  \/ \E seq \in FrameNumbers : Reconcile(seq)
  \/ Reopen

RuntimeSpec == RuntimeInit /\ [][RuntimeNext]_runtimeVars

-----------------------------------------------------------------------------
(* What the operator sees (liveStatus.ts).  A view is what else is known:  *)
(* whether the trip is live, the arrival's stage, its doubts, how the      *)
(* independent comparison ended and whether the last frame is old.         *)

Views ==
  [trip : {"RUNNING", "PAUSED", "OTHER"}, blocked : BOOLEAN, doubt : BOOLEAN, old : BOOLEAN,
   compared : {"none", "MATCH", "MISMATCH"},
   missing : {"transport", "build", "dataset", "plugin", "interface", "nothing"}]

\* readinessOf: the first thing that is missing.
Readiness(v) ==
  CASE v.missing = "transport" -> "TRANSPORT_UNREACHABLE"
    [] v.missing = "build"     -> "WRONG_BUILD"
    [] v.missing = "dataset"   -> "DATASET_INVALID"
    [] v.missing = "plugin"    -> "PLUGIN_MISSING"
    [] v.missing = "interface" -> "INTERFACE_UNSUPPORTED"
    [] OTHER -> "READY"

\* sessionSummaryFromRuntime: the last frame that was concluded.
Summary == [requested |-> rtLast.seq, applied |-> rtLast.applied, uncertain |-> rtLast.uncertain]

\* operatorOf: the worst thing that is known.
Operator(v) ==
  CASE v.compared = "MISMATCH" -> "MISMATCHED"
    [] OTHER ->
         IF v.blocked \/ Readiness(v) = "TRANSPORT_UNREACHABLE" THEN "BLOCKED"
         ELSE IF Summary.uncertain \/ v.doubt THEN "UNCERTAIN"
         ELSE IF Summary.requested < 0 THEN "IDLE"
         ELSE IF v.trip \in {"RUNNING", "PAUSED"} /\ v.old THEN "STALE"
         ELSE IF v.trip = "RUNNING" THEN "PROGRESSING"
         ELSE "IDLE"

\* projectLiveRadioStatus: requested, applied and observed are lanes of their own.
ShownApplied  == IF rtSource = "PLUGIN" /\ Summary.applied THEN Summary.requested ELSE -1
ShownFailure(v) == Summary.uncertain \/ v.doubt

-----------------------------------------------------------------------------
Ticks == [seq : FrameNumbers, el : FrameNumbers, phase : Phases, applied : BOOLEAN, uncertain : BOOLEAN] \cup {NoTick}
Rows  == [session : 1..MaxSessions, seq : FrameNumbers,
          kind : {"DUPLICATE", "FAILURE", "REQUESTED", "SCHEDULED", "STATUS", "RESULT"},
          source : Sources, applied : BOOLEAN, uncertain : BOOLEAN, current : BOOLEAN]

RuntimeTypeOK ==
  /\ rtSource \in Sources /\ rtMode \in {"LOCAL_SCHEDULE", "DELIVERED"}
  /\ rtSession \in 1..MaxSessions
  /\ rtLast \in Ticks /\ rtTicks \in [FrameNumbers -> Ticks]
  /\ rtRows \in Seq(Rows)
  /\ rtCall \in RadioProgress \cup {Nothing} /\ rtModelled \in RadioProgress \cup {Nothing}
  /\ rtPhone \in [FrameNumbers -> {"kept", "applied", "lost"}]
  /\ rtUnrecorded \subseteq FrameNumbers
  /\ rtStoreFaults \in 0..MaxStoreFaults

RowsOfThisSession == {r \in Range(rtRows) : r.session = rtSession}

\* A frame is on record, or shown, as applied only if a plugin's phone did apply it.
NoFalseApplication ==
  /\ \A r \in RowsOfThisSession : r.applied => r.source = "PLUGIN" /\ rtPhone[r.seq] = "applied"
  /\ ShownApplied >= 0 => rtPhone[ShownApplied] = "applied"

\* No final result says that a frame was not applied when the phone may have
\* it, and the operator is told so as long as it is the last frame.  A store
\* that failed after the frame left escapes this: the frame is refused as a
\* replay when it comes again, and that refusal is what goes on record.
DoubtIsKept ==
  /\ \A r \in RowsOfThisSession :
       r.kind = "RESULT" /\ r.source = "PLUGIN" /\ ~r.applied /\ r.seq \notin rtUnrecorded => rtPhone[r.seq] = "kept"
  /\ rtLast # NoTick /\ rtSource = "PLUGIN" /\ ~rtLast.applied /\ rtLast.seq \notin rtUnrecorded
       /\ rtPhone[rtLast.seq] # "kept" =>
       \A v \in Views : ShownFailure(v) /\ Operator(v) \in {"MISMATCHED", "BLOCKED", "UNCERTAIN"}

\* The rows that pass for current are those of the one session that wrote last.
OneSessionIsCurrent ==
  \A r, s \in Range(rtRows) : r.current /\ s.current => r.session = s.session

\* What is recorded and shown of the radio never says more than was learnt of
\* the phone, through lost answers, duplicates, restarts and failing storage.
EvidenceSaysNoMore == NoFalseApplication /\ DoubtIsKept /\ OneSessionIsCurrent
=============================================================================
