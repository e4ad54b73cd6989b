-------------------------- MODULE PlayerTripProofs --------------------------
(***************************************************************************)
(* The player trip and the arrival lifecycle, for plans of any length,     *)
(* any dwell and observation window, and any number of starts, calls and   *)
(* faults: what the phone plays, when it is let go, and when Bluetooth is  *)
(* replaced.                                                               *)
(***************************************************************************)
EXTENDS MCPlayerTrip, FiniteSetTheorems, TLAPS

Moments == {Never} \cup 0..MaxElapsed

\* The shape of a lifecycle and of a fix.
Lives ==
  [open : BOOLEAN, boot : Nat, radio : BOOLEAN, stage : Stages, gate : GateStates,
   gateBoot : Nat, latest : Moments, started : Moments, expected : BOOLEAN,
   delivered : BOOLEAN, cleaned : BOOLEAN, waited : {Never} \cup 0..Window,
   uncertain : BOOLEAN]

AnyFix == [el : 0..MaxElapsed, here : BOOLEAN, stale : BOOLEAN, boot : Nat]

\* What a lifecycle's flags say of each other: it is over once it is cleaned,
\* only a runtime delivers, and a gate that expects a readback waits or blocks.
LifeFits(l) ==
  /\ l.cleaned => Terminal(l)
  /\ l.delivered => l.radio
  /\ l.expected => l.gate \in {"AWAITING_READBACK", "BLOCKED"}
  /\ ~l.open => l = Closed

\* What the lifecycle knows of its frames: an arrival frame on the phone is
\* delivered and not cleaned up, an unanswered frame makes it uncertain.
FramesKnown(l, last, unanswered) ==
  /\ last = "ARRIVED" => l.delivered /\ ~l.cleaned /\ l.radio
  /\ unanswered => l.uncertain

\* The gate's clocks agree with the fixes: its dwell began no earlier than the
\* phone stood at the destination.
ClocksAgree(l, s) ==
  /\ s.last # Never => s.last = l.latest
  /\ l.started # Never => s.last # Never /\ s.since <= l.started

StandingTyped(s) ==
  /\ s \in [since : Moments, last : Moments]
  /\ s.since = Never <=> s.last = Never
  /\ s.since <= s.last

ArrivalInv ==
  /\ life \in Lives
  /\ ArrivalTypeOK
  /\ LifeFits(life)
  /\ StandingTyped(standing)
  /\ ~refused => FramesKnown(life, told, unknown)
  /\ ~refused /\ Heeds(life) => ClocksAgree(life, standing)

-----------------------------------------------------------------------------

Players ==
  [sid : {0} \cup Sessions, inst : Nat, started : BOOLEAN, ended : BOOLEAN, off : 0..LastSample]

Rows ==
  [status : {"PREVIEW", "RUNNING", "ARRIVING", "PAUSED", "ARRIVED", "CANCELLED"},
   rev : Nat, at : 0..LastSample, player : Players]

Phones ==
  [inst : Nat \ {0}, sid : {0} \cup Sessions, state : {"IDLE"} \cup Live \cup PlayerTerminal,
   pos : {Never} \cup 0..LastSample, clean : BOOLEAN]

\* Where a step is between the binding of its session and its start.
Starting == {"own_prepare", "prepare", "own_start", "store_started", "start"}

StepPcs ==
  {"idle", "poll", "identify", "status", "own_beat", "beat", "record", "finish", "arrive",
   "catch", "stop", "settle", "stopped", "unstopped"} \cup Starting

UserPcs == {"idle", "stop", "settle", "stopped", "unstopped", "ready", "own", "commit"}

Holders ==
  [pc : StepPcs \cup UserPcs, row : Rows, seen : Phones, op : {"none"} \cup DOMAIN Allowed]

PlayerShape ==
  /\ row \in Rows
  /\ device \in [claimed : BOOLEAN, active : BOOLEAN]
  /\ phone \in Phones
  /\ lc \in Lives /\ LifeFits(lc)
  /\ lease \in {"free"} \cup Processes
  /\ proc \in [Processes -> Holders]
  /\ proc["step"].pc \in StepPcs
  /\ proc["user"].pc \in UserPcs
  /\ proc["user"].pc # "idle" => proc["user"].op \in DOMAIN Allowed
  /\ grants \in 0..MaxGrants
  /\ opened \in 0..grants
  /\ begun \in [Sessions -> Nat]
  /\ lapsed \in BOOLEAN

\* A copy is as old as its row or older.  Of the same revision, it names the
\* session of the row or, if a user read it before there was one, none.
CopiesFit ==
  \A p \in Processes :
    /\ proc[p].row.rev <= row.rev
    /\ proc[p].row.player.sid <= opened
    /\ proc[p].pc # "idle" /\ Current(p) =>
         \/ proc[p].row.player.sid = row.player.sid
         \/ p = "user" /\ proc[p].row.player.sid = 0

\* Past "identify" a step has a session, and it settles only such a one.
SessionsNamed ==
  /\ proc["step"].pc \in Starting \cup {"status", "own_beat", "beat", "record"} =>
       proc["step"].row.player.sid # 0
  /\ \A p \in Processes : proc[p].pc = "settle" => proc[p].row.player.sid # 0

\* Sessions are opened within the grants: a trip that runs without a session
\* has a grant to spend, and a call that may grant is below the bound.
GrantsCover ==
  /\ row.player.sid <= opened
  /\ row.status = "RUNNING" /\ row.player.sid = 0 => opened < grants
  /\ proc["user"].pc # "idle" /\ proc["user"].op \in {"start", "resume"} => grants < MaxGrants
  /\ \A s \in Sessions : begun[s] > 0 => s <= opened

\* As long as no lease lapses under its holder, one process is at work, on the
\* row as it stands.
OneAtWork ==
  \A p \in Processes : proc[p].pc # "idle" =>
    lease = p /\ Current(p) /\ proc[p].row.player = row.player

\* What the phone plays is what the row says was started.
StartsRecorded ==
  /\ \A s \in Sessions : begun[s] <= 1
  /\ row.player.sid # 0 /\ ~row.player.started => begun[row.player.sid] = 0
  /\ proc["step"].pc \in Starting => begun[proc["step"].row.player.sid] = 0
  /\ proc["step"].pc = "start" => row.player.started

StepStatus ==
  /\ proc["step"].pc \notin {"idle", "poll", "finish", "arrive"} => row.status = "RUNNING"
  /\ proc["step"].pc \in {"poll", "finish", "arrive"} => row.status \in {"RUNNING", "ARRIVING"}

\* Where the phone must be still.
PhoneStill ==
  \/ row.status \in {"ARRIVING", "ARRIVED", "CANCELLED"}
  \/ row.player.sid = 0
  \/ proc["step"].pc \in {"poll", "finish", "arrive"}
  \/ proc["step"].pc = "record" /\ proc["step"].seen.state \notin Live
  \/ proc["user"].pc \in {"settle", "stopped", "ready", "own", "commit"} /\ proc["user"].op # "start"

PlayerInv ==
  /\ PlayerShape
  /\ CopiesFit
  /\ SessionsNamed
  /\ GrantsCover
  /\ ~lapsed => /\ OneAtWork
                /\ StartsRecorded
                /\ StepStatus
                /\ PhoneStill => phone.state # "PLAYING"

-----------------------------------------------------------------------------
\* Types of a lifecycle.  What each operator on it returns.

LEMMA Clocks ==
  /\ Dwell \in Nat /\ Dwell > 0 /\ Window \in Nat /\ Window > 0 /\ MaxElapsed \in Nat
  /\ NoBoot \in Nat /\ Never = -1 /\ Moments \subseteq Int
BY ArrivalAssumption DEF NoBoot, Never, Moments

LEMMA OpenedFits ==
  ASSUME NEW b \in Nat, NEW r \in BOOLEAN
  PROVE  /\ Opened(b, r) \in Lives
         /\ LifeFits(Opened(b, r))
         /\ Heeds(Opened(b, r))
         /\ ~Opened(b, r).uncertain
         /\ Opened(b, r).radio = r /\ Opened(b, r).open /\ Opened(b, r).boot = b
         /\ Opened(b, r).started = Never /\ Opened(b, r).latest = Never
BY Clocks DEF Opened, Lives, LifeFits, Heeds, Terminal, Stages, GateStates, Moments

LEMMA ClosedFits ==
  /\ Closed \in Lives
  /\ LifeFits(Closed)
  /\ ~Closed.open /\ Closed.radio = FALSE /\ Closed.latest = Never /\ Closed.started = Never
  /\ Closed.cleaned = FALSE /\ Closed.delivered = FALSE /\ Closed.uncertain = FALSE
BY Clocks DEF Closed, Opened, Lives, LifeFits, Terminal, Stages, GateStates, Moments

LEMMA NoteDeliveryFits ==
  ASSUME NEW l \in Lives, NEW out
  PROVE  /\ NoteDelivery(l, out) = [l EXCEPT !.uncertain = NoteDelivery(l, out).uncertain]
         /\ NoteDelivery(l, out) \in Lives
         /\ NoteDelivery(l, out).uncertain \in BOOLEAN
         /\ NoteDelivery(l, out).uncertain <=> (l.uncertain \/ out = "uncertain")
<1> DEFINE u == l.uncertain \/ out = "uncertain"
<1>1. u \in BOOLEAN
  OBVIOUS
<1>2. NoteDelivery(l, out) = [l EXCEPT !.uncertain = u]
  BY DEF NoteDelivery
<1>3. u <=> (l.uncertain \/ out = "uncertain")
  OBVIOUS
<1> HIDE DEF u
<1> QED  BY <1>1, <1>2, <1>3 DEF Lives

LEMMA CleanupFits ==
  ASSUME NEW l \in Lives, NEW out
  PROVE  LET r == CleanupRadio(l, out) IN
         /\ r \in Lives
         /\ r.open = l.open /\ r.boot = l.boot /\ r.radio = l.radio
         /\ r.gate = l.gate /\ r.latest = l.latest /\ r.started = l.started
         /\ r.expected = l.expected /\ r.delivered = l.delivered /\ r.waited = l.waited
         /\ l.radio /\ ~l.cleaned /\ Fails(out) =>
              r.stage = "CLEANING_RADIO" /\ ~r.cleaned /\ (r.uncertain <=> l.uncertain)
         /\ ~(l.radio /\ ~l.cleaned /\ Fails(out)) => r.cleaned /\ r.stage = "COMPLETE"
         /\ l.radio /\ ~l.cleaned /\ ~Fails(out) => (r.uncertain <=> (l.uncertain \/ out = "uncertain"))
         /\ l.uncertain => r.uncertain
<1> DEFINE n == NoteDelivery(l, out)
<1>1. /\ n = [l EXCEPT !.uncertain = n.uncertain] /\ n \in Lives
      /\ n.uncertain \in BOOLEAN /\ (n.uncertain <=> (l.uncertain \/ out = "uncertain"))
  BY NoteDeliveryFits
<1> HIDE DEF n
<1>2. CASE ~l.radio \/ l.cleaned
  <2>1. CleanupRadio(l, out) = [l EXCEPT !.cleaned = TRUE, !.stage = "COMPLETE"]
    BY <1>2 DEF CleanupRadio
  <2> QED  BY <2>1, <1>2 DEF Lives, Stages
<1>3. CASE l.radio /\ ~l.cleaned /\ Fails(out)
  <2>1. CleanupRadio(l, out) = [l EXCEPT !.stage = "CLEANING_RADIO"]
    BY <1>3 DEF CleanupRadio
  <2> QED  BY <2>1, <1>3 DEF Lives, Stages
<1>4. CASE l.radio /\ ~l.cleaned /\ ~Fails(out)
  <2>1. CleanupRadio(l, out) = [n EXCEPT !.cleaned = TRUE, !.stage = "COMPLETE"]
    BY <1>4 DEF CleanupRadio, n
  <2> QED  BY <2>1, <1>4, <1>1, ZenonT(40) DEF Lives, Stages
<1> QED  BY <1>2, <1>3, <1>4 DEF Lives

LEMMA ObserveFits ==
  ASSUME NEW l \in Lives, NEW f \in AnyFix
  PROVE  LET s == Observed(l, f) IN
         /\ s \in Lives
         /\ s.open = l.open /\ s.boot = l.boot /\ s.radio = l.radio /\ s.expected = l.expected
         /\ s.delivered = l.delivered /\ s.cleaned = l.cleaned
         /\ s.waited = l.waited /\ s.uncertain = l.uncertain
         /\ s.stage = StageFromGate(s.gate)
<1> DEFINE g == ObserveFix(l, f)
<1>1. /\ g \in Lives
      /\ g.open = l.open /\ g.boot = l.boot /\ g.radio = l.radio /\ g.expected = l.expected
      /\ g.delivered = l.delivered /\ g.cleaned = l.cleaned
      /\ g.waited = l.waited /\ g.uncertain = l.uncertain
  BY Clocks, ZenonT(40) DEF ObserveFix, Lives, AnyFix, GateStates, Moments
<1> HIDE DEF g
<1>2. Observed(l, f) = [g EXCEPT !.stage = StageFromGate(g.gate)]
  BY DEF Observed, g
<1>3. StageFromGate(g.gate) \in Stages
  BY DEF StageFromGate, Stages
<1> QED  BY <1>1, <1>2, <1>3 DEF Lives

LEMMA ArriveFits ==
  ASSUME NEW l \in Lives, NEW out, NEW armed \in BOOLEAN
  PROVE  LET r == Arrive(l, out, armed) IN
         /\ r \in Lives
         /\ r.open = l.open /\ r.boot = l.boot /\ r.radio = l.radio /\ r.cleaned = l.cleaned
         /\ r.latest = l.latest /\ r.started = l.started
         /\ Fails(out) => /\ r.delivered = l.delivered /\ r.expected = l.expected
                          /\ r.gate = l.gate /\ r.uncertain = l.uncertain
         /\ ~Fails(out) => /\ r.delivered
                           /\ r.expected => r.gate = "AWAITING_READBACK"
                           /\ r.uncertain <=> (l.uncertain \/ out = "uncertain")
         /\ ~Terminal(r)
<1> DEFINE n == NoteDelivery(l, out)
<1>1. /\ n = [l EXCEPT !.uncertain = n.uncertain] /\ n \in Lives
      /\ n.uncertain \in BOOLEAN /\ (n.uncertain <=> (l.uncertain \/ out = "uncertain"))
  BY NoteDeliveryFits
<1> HIDE DEF n
<1>2. CASE Fails(out)
  <2>1. Arrive(l, out, armed) = [l EXCEPT !.stage = "APPLYING_ARRIVAL"]
    BY <1>2 DEF Arrive
  <2> QED  BY <2>1, <1>2 DEF Lives, Stages, Terminal
<1>3. CASE ~Fails(out)
  <2> DEFINE gate == IF armed THEN "AWAITING_READBACK" ELSE l.gate
             r == Arrive(l, out, armed)
  <2>1. r = [n EXCEPT !.stage = "AWAITING_OBSERVATION", !.delivered = TRUE, !.waited = 0,
                      !.expected = armed, !.gate = gate]
    <3>1. n.gate = l.gate
      BY <1>1 DEF Lives
    <3> QED  BY <3>1, <1>1, <1>3 DEF Arrive, n, Lives
  <2>2. gate \in GateStates /\ (armed => gate = "AWAITING_READBACK")
    BY DEF Lives, GateStates
  <2>3. 0 \in {Never} \cup 0..Window /\ "AWAITING_OBSERVATION" \in Stages
    BY Clocks DEF Stages
  <2> HIDE DEF gate, r
  <2>4. /\ r \in Lives
        /\ r.stage = "AWAITING_OBSERVATION" /\ r.delivered = TRUE
        /\ r.expected = armed /\ r.gate = gate
        /\ r.open = n.open /\ r.boot = n.boot /\ r.radio = n.radio /\ r.cleaned = n.cleaned
        /\ r.latest = n.latest /\ r.started = n.started /\ r.uncertain = n.uncertain
    BY <2>1, <2>2, <2>3, <1>1 DEF Lives
  <2>5. /\ n.open = l.open /\ n.boot = l.boot /\ n.radio = l.radio /\ n.cleaned = l.cleaned
        /\ n.latest = l.latest /\ n.started = l.started
    BY <1>1 DEF Lives
  <2> QED  BY <2>2, <2>4, <2>5, <1>1, <1>3 DEF Terminal, r
<1> QED  BY <1>2, <1>3

LEMMA WithoutRadioFits ==
  ASSUME NEW l \in Lives
  PROVE  LET r == WithoutRadio(l) IN
         /\ r \in Lives
         /\ r.open = l.open /\ r.boot = l.boot /\ r.radio = l.radio /\ r.gate = l.gate
         /\ r.latest = l.latest /\ r.started = l.started /\ r.expected = l.expected
         /\ r.delivered = l.delivered /\ r.uncertain = l.uncertain
         /\ r.cleaned => l.cleaned \/ r.stage = "COMPLETE"
         /\ Terminal(l) => Terminal(r)
<1> DEFINE w == IF l.stage = "READY" THEN [l EXCEPT !.stage = "AWAITING_OBSERVATION", !.waited = 0] ELSE l
<1>1. /\ w \in Lives
      /\ w.open = l.open /\ w.boot = l.boot /\ w.radio = l.radio /\ w.gate = l.gate
      /\ w.latest = l.latest /\ w.started = l.started /\ w.expected = l.expected
      /\ w.delivered = l.delivered /\ w.uncertain = l.uncertain /\ w.cleaned = l.cleaned
      /\ Terminal(l) => Terminal(w)
  <2>1. CASE l.stage = "READY"
    <3>1. w = [l EXCEPT !.stage = "AWAITING_OBSERVATION", !.waited = 0]
      BY <2>1
    <3>2. 0 \in {Never} \cup 0..Window /\ "AWAITING_OBSERVATION" \in Stages /\ ~Terminal(l)
      BY <2>1, Clocks DEF Stages, Terminal
    <3> HIDE DEF w
    <3> QED  BY <3>1, <3>2 DEF Lives
  <2>2. CASE l.stage # "READY"
    BY <2>2
  <2> QED  BY <2>1, <2>2
<1>2. WithoutRadio(l) = IF TimedOut(w) THEN [w EXCEPT !.cleaned = TRUE, !.stage = "COMPLETE"] ELSE w
  BY DEF WithoutRadio
<1> HIDE DEF w
<1> QED  BY <1>1, <1>2, ZenonT(40) DEF Lives, Stages, Terminal

\* A fix leaves a lifecycle a lifecycle, whatever becomes of its frame, and what
\* the lifecycle knows of that frame is what happened to it.
LEMMA FixFits ==
  ASSUME NEW l \in Lives, LifeFits(l), NEW f \in AnyFix, NEW out \in Outcomes, NEW armed \in BOOLEAN
  PROVE  LET r == OnIdentifiedFix(l, f, out, armed)
             frame == FrameOf(l, f)
         IN /\ r \in Lives
            /\ r.open = l.open /\ r.boot = l.boot /\ r.radio = l.radio
            /\ l.open => LifeFits(r)
            /\ l.uncertain => r.uncertain
            /\ frame # "none" => l.radio /\ ~l.cleaned
            /\ frame = "none" => r.delivered = l.delivered /\ (l.radio => r.cleaned = l.cleaned)
            /\ frame = "MOVING" => r.delivered = l.delivered /\ r.cleaned = l.cleaned
            /\ frame = "ARRIVED" => (Fails(out) => r.delivered = l.delivered) /\ r.cleaned = l.cleaned
            /\ frame = "ARRIVED" /\ ~Fails(out) => r.delivered
            /\ frame # "none" /\ out = "uncertain" => r.uncertain
            /\ frame \in {"none", "MOVING", "ARRIVED", "CLEANUP"}
<1> DEFINE s == Observed(l, f)
           frame == FrameOf(l, f)
           r == OnIdentifiedFix(l, f, out, armed)
<1>1. /\ s \in Lives
      /\ s.open = l.open /\ s.boot = l.boot /\ s.radio = l.radio /\ s.expected = l.expected
      /\ s.delivered = l.delivered /\ s.cleaned = l.cleaned
      /\ s.waited = l.waited /\ s.uncertain = l.uncertain
  BY ObserveFits
<1>2. Heeds(l) => ~l.cleaned
  BY DEF LifeFits, Heeds
<1>3. s.expected => s.gate \in {"AWAITING_READBACK", "BLOCKED"}
  <2>1. CASE l.expected
    <3>1. ObserveFix(l, f).gate \in {l.gate, "BLOCKED"}
      BY <2>1 DEF ObserveFix, Lives
    <3>2. ObserveFix(l, f) \in Lives
      BY Clocks, ZenonT(40) DEF ObserveFix, Lives, AnyFix, GateStates, Moments
    <3>3. s.gate = ObserveFix(l, f).gate
      BY <3>2 DEF Observed, Lives
    <3> QED  BY <3>1, <3>3, <2>1 DEF LifeFits
  <2> QED  BY <2>1, <1>1
<1>4. /\ r = (IF ~Heeds(l) THEN l
              ELSE IF s.stage = "BLOCKED" THEN s
              ELSE IF ~l.radio THEN WithoutRadio(s)
              ELSE IF frame = "ARRIVED" THEN Arrive(s, out, armed)
              ELSE IF frame = "CLEANUP" THEN CleanupRadio(s, out)
              ELSE IF frame = "MOVING" THEN IF Fails(out) THEN s ELSE NoteDelivery(s, out)
              ELSE s)
      /\ frame = (IF ~Heeds(l) \/ ~l.radio \/ s.stage = "BLOCKED" THEN "none"
                  ELSE IF s.stage = "READY" /\ ~l.delivered THEN "ARRIVED"
                  ELSE IF s.stage = "AWAITING_OBSERVATION" THEN IF TimedOut(l) THEN "CLEANUP" ELSE "none"
                  ELSE "MOVING")
  BY DEF OnIdentifiedFix, FrameOf
<1> SUFFICES
          /\ r \in Lives
          /\ r.open = l.open /\ r.boot = l.boot /\ r.radio = l.radio
          /\ l.open => LifeFits(r)
          /\ l.uncertain => r.uncertain
          /\ frame # "none" => l.radio /\ ~l.cleaned
          /\ frame = "none" => r.delivered = l.delivered /\ (l.radio => r.cleaned = l.cleaned)
          /\ frame = "MOVING" => r.delivered = l.delivered /\ r.cleaned = l.cleaned
          /\ frame = "ARRIVED" => (Fails(out) => r.delivered = l.delivered) /\ r.cleaned = l.cleaned
          /\ frame = "ARRIVED" /\ ~Fails(out) => r.delivered
          /\ frame # "none" /\ out = "uncertain" => r.uncertain
          /\ frame \in {"none", "MOVING", "ARRIVED", "CLEANUP"}
  OBVIOUS
<1> HIDE DEF s, frame, r
<1>5. CASE ~Heeds(l)
  BY <1>4, <1>5
<1>6. CASE Heeds(l) /\ (s.stage = "BLOCKED" \/ (l.radio /\ frame = "none"))
  <2>1. r = s /\ frame = "none"
    BY <1>4, <1>6
  <2> QED  BY <2>1, <1>1, <1>2, <1>3, <1>6 DEF LifeFits
<1>7. CASE Heeds(l) /\ s.stage # "BLOCKED" /\ ~l.radio
  <2>1. r = WithoutRadio(s) /\ frame = "none"
    BY <1>4, <1>7
  <2>2. /\ r \in Lives
        /\ r.open = s.open /\ r.boot = s.boot /\ r.radio = s.radio /\ r.gate = s.gate
        /\ r.expected = s.expected
        /\ r.delivered = s.delivered /\ r.uncertain = s.uncertain
        /\ r.cleaned => s.cleaned \/ r.stage = "COMPLETE"
    BY <2>1, <1>1, WithoutRadioFits
  <2> QED  BY <2>1, <2>2, <1>1, <1>2, <1>3, <1>7 DEF LifeFits, Terminal
<1>8. CASE Heeds(l) /\ s.stage # "BLOCKED" /\ l.radio /\ frame = "ARRIVED"
  <2>1. r = Arrive(s, out, armed)
    BY <1>4, <1>8
  <2>2. /\ r \in Lives
        /\ r.open = s.open /\ r.boot = s.boot /\ r.radio = s.radio /\ r.cleaned = s.cleaned
        /\ Fails(out) => /\ r.delivered = s.delivered /\ r.expected = s.expected
                         /\ r.gate = s.gate /\ r.uncertain = s.uncertain
        /\ ~Fails(out) => /\ r.delivered
                          /\ r.expected => r.gate = "AWAITING_READBACK"
                          /\ r.uncertain <=> (s.uncertain \/ out = "uncertain")
    BY <2>1, <1>1, ArriveFits
  <2> QED  BY <2>1, <2>2, <1>1, <1>2, <1>3, <1>8 DEF LifeFits, Fails
<1>9. CASE Heeds(l) /\ s.stage # "BLOCKED" /\ l.radio /\ frame = "CLEANUP"
  <2>1. r = CleanupRadio(s, out)
    BY <1>4, <1>9
  <2>2. /\ r \in Lives
        /\ r.open = s.open /\ r.boot = s.boot /\ r.radio = s.radio
        /\ r.gate = s.gate /\ r.expected = s.expected /\ r.delivered = s.delivered
        /\ s.radio /\ ~s.cleaned /\ Fails(out) => ~r.cleaned
        /\ ~(s.radio /\ ~s.cleaned /\ Fails(out)) => r.cleaned /\ r.stage = "COMPLETE"
        /\ s.radio /\ ~s.cleaned /\ ~Fails(out) => (r.uncertain <=> (s.uncertain \/ out = "uncertain"))
        /\ s.uncertain => r.uncertain
    BY <2>1, <1>1, CleanupFits
  <2> QED  BY <2>1, <2>2, <1>1, <1>2, <1>3, <1>9 DEF LifeFits, Fails, Terminal
<1>10. CASE Heeds(l) /\ s.stage # "BLOCKED" /\ l.radio /\ frame = "MOVING"
  <2>1. r = IF Fails(out) THEN s ELSE NoteDelivery(s, out)
    BY <1>4, <1>10
  <2>2. /\ NoteDelivery(s, out) = [s EXCEPT !.uncertain = NoteDelivery(s, out).uncertain]
        /\ NoteDelivery(s, out) \in Lives
        /\ NoteDelivery(s, out).uncertain <=> (s.uncertain \/ out = "uncertain")
    BY <1>1, NoteDeliveryFits
  <2>3. /\ r \in Lives
        /\ r.open = s.open /\ r.boot = s.boot /\ r.radio = s.radio /\ r.gate = s.gate
        /\ r.expected = s.expected /\ r.delivered = s.delivered /\ r.cleaned = s.cleaned
        /\ r.stage = s.stage
        /\ Fails(out) => r.uncertain = s.uncertain
        /\ ~Fails(out) => (r.uncertain <=> (s.uncertain \/ out = "uncertain"))
    BY <2>1, <2>2, <1>1 DEF Lives
  <2> QED  BY <2>3, <1>1, <1>2, <1>3, <1>10 DEF LifeFits, Fails
<1> QED  BY <1>4, <1>5, <1>6, <1>7, <1>8, <1>9, <1>10

-----------------------------------------------------------------------------
\* The arrival lifecycle: the dwell, and what is known of the frames.

LEMMA StandsTyped ==
  ASSUME NEW s, StandingTyped(s), NEW f \in AnyFix
  PROVE  StandingTyped(Stands(f, s))
<1> DEFINE kept == s.last # Never /\ f.el - s.last <= 1
           since == IF kept THEN s.since ELSE f.el
<1>1. s.since \in Moments /\ s.last \in Moments /\ f.el \in 0..MaxElapsed
  BY DEF StandingTyped, AnyFix
<1>2. CASE f.stale \/ (s.last # Never /\ f.el <= s.last)
  BY <1>2 DEF Stands
<1>3. CASE ~(f.stale \/ (s.last # Never /\ f.el <= s.last)) /\ ~f.here
  BY <1>3, Clocks DEF Stands, NotStanding, StandingTyped, Moments
<1>4. CASE ~(f.stale \/ (s.last # Never /\ f.el <= s.last)) /\ f.here
  <2>1. Stands(f, s) = [since |-> since, last |-> f.el]
    BY <1>4 DEF Stands
  <2>2. since \in Moments /\ since # Never /\ since <= f.el
    BY <1>1, <1>4, Clocks DEF Moments, StandingTyped
  <2> HIDE DEF since
  <2> QED  BY <2>1, <2>2, <1>1, Clocks DEF Moments, StandingTyped
<1> QED  BY <1>2, <1>3, <1>4

LEMMA NotStandingTyped == StandingTyped(NotStanding)
BY Clocks DEF NotStanding, StandingTyped, Moments

LEMMA FixClocks ==
  ASSUME NEW l \in Lives, NEW f \in AnyFix, NEW out, NEW armed \in BOOLEAN
  PROVE  LET o == Observed(l, f)
             r == OnIdentifiedFix(l, f, out, armed)
         IN  /\ ~Heeds(l) => r = l
             /\ Heeds(l) => /\ r.latest = o.latest /\ r.started = o.started
                            /\ o.stage = "BLOCKED" => r = o
             /\ FrameOf(l, f) = "ARRIVED" => Heeds(l) /\ o.stage = "READY"
<1> DEFINE o == Observed(l, f)
           r == OnIdentifiedFix(l, f, out, armed)
<1>1. /\ o \in Lives
      /\ NoteDelivery(o, out) \in Lives
      /\ NoteDelivery(o, out) = [o EXCEPT !.uncertain = NoteDelivery(o, out).uncertain]
  BY ObserveFits, NoteDeliveryFits
<1>2. /\ r \in {l, o, WithoutRadio(o), Arrive(o, out, armed), CleanupRadio(o, out), NoteDelivery(o, out)}
      /\ ~Heeds(l) => r = l
      /\ Heeds(l) => r \in {o, WithoutRadio(o), Arrive(o, out, armed), CleanupRadio(o, out), NoteDelivery(o, out)}
      /\ Heeds(l) /\ o.stage = "BLOCKED" => r = o
      /\ FrameOf(l, f) = "ARRIVED" => Heeds(l) /\ o.stage = "READY"
  BY DEF OnIdentifiedFix, FrameOf
<1> SUFFICES /\ ~Heeds(l) => r = l
             /\ Heeds(l) => /\ r.latest = o.latest /\ r.started = o.started
                            /\ o.stage = "BLOCKED" => r = o
             /\ FrameOf(l, f) = "ARRIVED" => Heeds(l) /\ o.stage = "READY"
  OBVIOUS
<1> HIDE DEF o, r
<1>3. NoteDelivery(o, out).latest = o.latest /\ NoteDelivery(o, out).started = o.started
  BY <1>1 DEF Lives
<1>4. /\ WithoutRadio(o).latest = o.latest /\ WithoutRadio(o).started = o.started
      /\ CleanupRadio(o, out).latest = o.latest /\ CleanupRadio(o, out).started = o.started
      /\ Arrive(o, out, armed).latest = o.latest /\ Arrive(o, out, armed).started = o.started
  BY <1>1, WithoutRadioFits, CleanupFits, ArriveFits
<1> QED  BY <1>2, <1>3, <1>4

\* A fix that does not block the gate moves its clocks with the standing time,
\* and a gate that is ready has seen the whole dwell.
LEMMA DwellKept ==
  ASSUME NEW l \in Lives, LifeFits(l), NEW f \in AnyFix, NEW s, StandingTyped(s),
         ClocksAgree(l, s), Observed(l, f).stage # "BLOCKED"
  PROVE  /\ ClocksAgree(Observed(l, f), Stands(f, s))
         /\ Observed(l, f).stage = "READY" =>
              /\ Stands(f, s).since # Never
              /\ Stands(f, s).last - Stands(f, s).since >= Dwell
<1> DEFINE g == ObserveFix(l, f)
           o == Observed(l, f)
           since == IF l.started = Never THEN f.el ELSE l.started
           kept == s.last # Never /\ f.el - s.last <= 1
           mine == IF kept THEN s.since ELSE f.el
<1>1. g \in Lives
  BY Clocks, ZenonT(40) DEF ObserveFix, Lives, AnyFix, GateStates, Moments
<1>2. o = [g EXCEPT !.stage = StageFromGate(g.gate)]
  BY DEF Observed
<1>3. g.gate # "BLOCKED" /\ (o.stage = "READY" <=> g.gate = "READY_TO_APPLY")
  <2>1. o.stage = StageFromGate(g.gate)
    BY ObserveFits, <1>1, <1>2 DEF Lives
  <2>2. g.gate \in GateStates
    BY <1>1 DEF Lives
  <2> HIDE DEF o, g
  <2> QED  BY <2>1, <2>2 DEF StageFromGate, GateStates, o
<1>4. o.latest = g.latest /\ o.started = g.started
  BY <1>1, <1>2 DEF Lives
<1>5. /\ ~f.stale /\ ~(l.latest # Never /\ f.el <= l.latest)
      /\ g.latest = f.el
      /\ f.here /\ (l.latest = Never \/ f.el - l.latest <= 1) =>
           /\ g.started = since
           /\ ~l.expected /\ g.gate = "READY_TO_APPLY" => f.el - since >= Dwell
      /\ ~(f.here /\ (l.latest = Never \/ f.el - l.latest <= 1)) =>
           g.started = Never /\ g.gate # "READY_TO_APPLY"
      /\ l.expected => g.gate # "READY_TO_APPLY"
  <2>1. l.expected => l.gate # "READY_TO_APPLY"
    BY DEF LifeFits
  <2> QED  BY <1>3, <2>1 DEF ObserveFix, Lives
<1>6. /\ s.last # Never => s.last = l.latest
      /\ l.started # Never => s.last # Never /\ s.since <= l.started
      /\ s.since \in Moments /\ s.last \in Moments /\ s.since <= s.last
      /\ s.since = Never <=> s.last = Never
      /\ f.el \in 0..MaxElapsed /\ l.started \in Moments /\ l.latest \in Moments
  BY DEF ClocksAgree, StandingTyped, AnyFix, Lives
<1>7. ~(f.stale \/ (s.last # Never /\ f.el <= s.last))
  BY <1>5, <1>6
<1>8. CASE ~f.here
  <2>1. Stands(f, s) = NotStanding
    BY <1>7, <1>8 DEF Stands
  <2> QED  BY <2>1, <1>8, <1>3, <1>4, <1>5 DEF NotStanding, ClocksAgree
<1>9. CASE f.here
  <2>1. Stands(f, s) = [since |-> mine, last |-> f.el]
    BY <1>7, <1>9 DEF Stands
  <2>2. Stands(f, s).since = mine /\ Stands(f, s).last = f.el /\ f.el # Never /\ mine # Never
    BY <2>1, <1>6, Clocks DEF Moments
  <2>3. g.started # Never => mine <= g.started
    BY <1>5, <1>6, <1>9, Clocks DEF Moments
  <2>4. g.gate = "READY_TO_APPLY" => f.el - mine >= Dwell
    <3>1. SUFFICES ASSUME g.gate = "READY_TO_APPLY" PROVE f.el - mine >= Dwell
      OBVIOUS
    <3>2. g.started = since /\ f.el - since >= Dwell /\ since \in Moments
      BY <3>1, <1>5, <1>6 DEF Moments
    <3>3. mine <= since /\ mine \in Int /\ since \in Int
      BY <3>2, <2>3, <1>6, Clocks DEF Moments
    <3> QED  BY <3>2, <3>3, <1>6, Clocks
  <2> HIDE DEF g, o, since, mine
  <2> QED  BY <2>2, <2>3, <2>4, <1>3, <1>4, <1>5 DEF ClocksAgree, o
<1> QED  BY <1>8, <1>9

LEMMA ArrivalStarts == ArrivalInit => ArrivalInv
<1> SUFFICES ASSUME ArrivalInit PROVE ArrivalInv
  OBVIOUS
<1>1. life \in Lives /\ LifeFits(life) /\ life.latest = Never /\ life.started = Never
  BY ClosedFits DEF ArrivalInit
<1>2. StandingTyped(standing)
  BY NotStandingTyped DEF ArrivalInit
<1>3. standing.last = Never
  BY DEF ArrivalInit, NotStanding
<1> QED  BY <1>1, <1>2, <1>3 DEF ArrivalInit, ArrivalInv, ArrivalTypeOK, Lives, Moments,
           FramesKnown, ClocksAgree

\* The types of a run follow from the shape.
LEMMA LivesTyped ==
  ASSUME NEW l \in Lives
  PROVE  /\ l.stage \in Stages /\ l.gate \in GateStates
         /\ l.latest \in {Never} \cup 0..MaxElapsed
         /\ l.started \in {Never} \cup 0..MaxElapsed
         /\ l.waited \in {Never} \cup 0..Window
BY DEF Lives, Moments

LEMMA FeedSteps == ArrivalInv /\ FeedAny => ArrivalInv'
<1> SUFFICES ASSUME ArrivalInv, NEW f \in Fixes, NEW radio \in BOOLEAN, Feed(f, radio)
             PROVE  ArrivalInv'
  BY DEF FeedAny
<1> DEFINE fresh == ~life.open \/ life.boot # f.boot
           l == IF fresh THEN Opened(f.boot, radio) ELSE life
           s == IF fresh THEN NotStanding ELSE standing
           frame == FrameOf(l, f)
           told0 == IF fresh THEN "none" ELSE told
           unknown0 == IF fresh THEN FALSE ELSE unknown
           refused0 == IF fresh THEN FALSE ELSE refused
<1>1. f \in AnyFix /\ f.boot \in Nat
  BY BootsAssumption DEF Fixes, AnyFix
<1>2. /\ l \in Lives /\ LifeFits(l) /\ l.open
      /\ StandingTyped(s)
      /\ ~refused0 => FramesKnown(l, told0, unknown0)
      /\ ~refused0 /\ Heeds(l) => ClocksAgree(l, s)
      /\ told0 \in {"none", "ARRIVED", "CLEANUP"} /\ unknown0 \in BOOLEAN /\ refused0 \in BOOLEAN
  <2>1. CASE fresh
    <3>1. l = Opened(f.boot, radio) /\ s = NotStanding /\ told0 = "none" /\ unknown0 = FALSE /\ refused0 = FALSE
      BY <2>1
    <3> HIDE DEF l, s, told0, unknown0, refused0
    <3> QED  BY <3>1, <1>1, OpenedFits, NotStandingTyped DEF FramesKnown, ClocksAgree, NotStanding
  <2>2. CASE ~fresh
    BY <2>2 DEF ArrivalInv, ArrivalTypeOK
  <2> QED  BY <2>1, <2>2
<1>3. PICK out \in Outcomes, armed \in BOOLEAN :
        /\ life' = OnIdentifiedFix(l, f, out, armed)
        /\ SendsAfter(frame, out, told0, unknown0, refused0)
        /\ frame = "none" => out = "settled"
  BY DEF Feed, Outcomes, Sends
<1>4. standing' = Stands(f, s)
  BY DEF Feed
<1> HIDE DEF l, s, told0, unknown0, refused0, frame, fresh
<1>5. life' \in Lives /\ LifeFits(life')
  BY <1>1, <1>2, <1>3, FixFits
<1>6. StandingTyped(standing')
  BY <1>1, <1>2, <1>4, StandsTyped
<1>7. /\ told' \in {"none", "ARRIVED", "CLEANUP"} /\ unknown' \in BOOLEAN /\ refused' \in BOOLEAN
      /\ frame \in {"none", "MOVING", "ARRIVED", "CLEANUP"}
  <2>1. frame \in {"none", "MOVING", "ARRIVED", "CLEANUP"}
    BY DEF frame, FrameOf
  <2> QED  BY <2>1, <1>2, <1>3 DEF SendsAfter
<1>8. ~refused' => FramesKnown(life', told', unknown')
  <2> SUFFICES ASSUME ~refused' PROVE FramesKnown(life', told', unknown')
    OBVIOUS
  <2>1. ~refused0 /\ out # "fails_after" /\ ~(frame = "CLEANUP" /\ Fails(out))
    BY <1>3 DEF SendsAfter
  <2>2. FramesKnown(l, told0, unknown0)
    BY <2>1, <1>2
  <2>3. /\ l.uncertain => life'.uncertain
        /\ frame # "none" => l.radio /\ ~l.cleaned
        /\ frame = "none" => life'.delivered = l.delivered /\ (l.radio => life'.cleaned = l.cleaned)
        /\ frame = "MOVING" => life'.delivered = l.delivered /\ life'.cleaned = l.cleaned
        /\ frame = "ARRIVED" => (Fails(out) => life'.delivered = l.delivered) /\ life'.cleaned = l.cleaned
        /\ frame = "ARRIVED" /\ ~Fails(out) => life'.delivered
        /\ frame # "none" /\ out = "uncertain" => life'.uncertain
        /\ life'.radio = l.radio
    BY <1>1, <1>2, <1>3, FixFits DEF frame
  <2>4. unknown' => life'.uncertain
    BY <1>3, <2>2, <2>3 DEF SendsAfter, FramesKnown
  <2>5. told' = "ARRIVED" => life'.delivered /\ ~life'.cleaned /\ life'.radio
    BY <1>3, <1>7, <2>1, <2>2, <2>3 DEF SendsAfter, FramesKnown, Fails, Outcomes
  <2> QED  BY <2>4, <2>5 DEF FramesKnown
<1>9. ~refused' /\ Heeds(life') => ClocksAgree(life', standing')
  <2> SUFFICES ASSUME ~refused', Heeds(life') PROVE ClocksAgree(life', standing')
    OBVIOUS
  <2>1. ~refused0
    BY <1>3 DEF SendsAfter
  <2>2. Heeds(l) /\ Observed(l, f).stage # "BLOCKED"
        /\ life'.latest = Observed(l, f).latest /\ life'.started = Observed(l, f).started
    BY <1>1, <1>2, <1>3, FixClocks DEF Heeds, Terminal
  <2>3. ClocksAgree(Observed(l, f), standing')
    BY <1>1, <1>2, <1>4, <2>1, <2>2, DwellKept
  <2> QED  BY <2>2, <2>3 DEF ClocksAgree
<1> QED  BY <1>5, <1>6, <1>7, <1>8, <1>9, LivesTyped DEF ArrivalInv, ArrivalTypeOK

LEMMA PauseFits ==
  ASSUME NEW l \in Lives, LifeFits(l)
  PROVE  /\ Pause(l) \in Lives /\ LifeFits(Pause(l)) /\ (Heeds(Pause(l)) => Pause(l) = l)
         /\ \A t, u : FramesKnown(l, t, u) => FramesKnown(Pause(l), t, u)
<1>1. CASE ~l.open \/ Terminal(l)
  BY <1>1 DEF Pause, PauseWrites
<1>2. CASE l.open /\ ~Terminal(l)
  <2>1. Pause(l) = [l EXCEPT !.stage = "PAUSED", !.waited = Never]
    BY <1>2 DEF Pause, PauseWrites
  <2> QED  BY <1>2, <2>1, Clocks DEF Lives, LifeFits, Stages, Terminal, Heeds, FramesKnown
<1> QED  BY <1>1, <1>2

LEMMA StageFits ==
  ASSUME NEW l \in Lives, LifeFits(l), l.open, NEW stage \in {"BLOCKED", "EXPIRED", "CANCELLED"}
  PROVE  LET r == [l EXCEPT !.stage = stage] IN
         /\ r \in Lives /\ LifeFits(r) /\ ~Heeds(r) /\ r.open
         /\ \A t, u : FramesKnown(l, t, u) => FramesKnown(r, t, u)
BY DEF Lives, LifeFits, Stages, Terminal, Heeds, FramesKnown

LEMMA CleanupKnown ==
  ASSUME NEW l \in Lives, LifeFits(l), l.open, NEW out
  PROVE  LET r == CleanupRadio(l, out) IN
         /\ r \in Lives /\ LifeFits(r) /\ r.open
         /\ ~(l.radio /\ ~l.cleaned /\ Fails(out)) => ~Heeds(r) /\ r.cleaned
         /\ l.radio /\ ~l.cleaned /\ out = "uncertain" => r.uncertain
         /\ l.uncertain => r.uncertain
         /\ l.cleaned => r.delivered = l.delivered
<1> DEFINE r == CleanupRadio(l, out)
<1>1. /\ r \in Lives
      /\ r.open = l.open /\ r.radio = l.radio
      /\ r.gate = l.gate /\ r.expected = l.expected /\ r.delivered = l.delivered
      /\ l.radio /\ ~l.cleaned /\ Fails(out) => r.stage = "CLEANING_RADIO" /\ ~r.cleaned
      /\ ~(l.radio /\ ~l.cleaned /\ Fails(out)) => r.cleaned /\ r.stage = "COMPLETE"
      /\ l.radio /\ ~l.cleaned /\ ~Fails(out) => (r.uncertain <=> (l.uncertain \/ out = "uncertain"))
      /\ l.uncertain => r.uncertain
  BY CleanupFits, ZenonT(40)
<1>2. out = "uncertain" => ~Fails(out)
  BY DEF Fails
<1> SUFFICES /\ r \in Lives /\ LifeFits(r) /\ r.open
             /\ ~(l.radio /\ ~l.cleaned /\ Fails(out)) => ~Heeds(r) /\ r.cleaned
             /\ l.radio /\ ~l.cleaned /\ out = "uncertain" => r.uncertain
             /\ l.uncertain => r.uncertain
             /\ l.cleaned => r.delivered = l.delivered
  OBVIOUS
<1> HIDE DEF r
<1> QED  BY <1>1, <1>2 DEF LifeFits, Terminal, Heeds

\* The observation window passes by a unit.
LEMMA WaitsOn ==
  ASSUME NEW l \in Lives, LifeFits(l), l.waited \in 0..Window - 1
  PROVE  LET r == [l EXCEPT !.waited = @ + 1] IN
         /\ r \in Lives /\ LifeFits(r)
         /\ r.open = l.open /\ r.radio = l.radio /\ r.stage = l.stage
         /\ r.gate = l.gate /\ r.latest = l.latest /\ r.started = l.started
         /\ r.expected = l.expected /\ r.delivered = l.delivered
         /\ r.cleaned = l.cleaned /\ r.uncertain = l.uncertain
<1> DEFINE r == [l EXCEPT !.waited = @ + 1]
<1>1. l.waited + 1 \in {Never} \cup 0..Window
  BY Clocks
<1>2. /\ r \in Lives
      /\ r.open = l.open /\ r.radio = l.radio /\ r.stage = l.stage
      /\ r.gate = l.gate /\ r.latest = l.latest /\ r.started = l.started
      /\ r.expected = l.expected /\ r.delivered = l.delivered
      /\ r.cleaned = l.cleaned /\ r.uncertain = l.uncertain
  BY <1>1 DEF Lives
<1>3. l.open
  <2>1. Closed.waited = Never
    BY DEF Closed, Opened
  <2> QED  BY <2>1, Clocks DEF LifeFits
<1> HIDE DEF r
<1>4. LifeFits(r)
  BY <1>2, <1>3 DEF LifeFits, Terminal
<1> QED  BY <1>2, <1>4 DEF r

\* The rest of the callers.
LEMMA CallerSteps ==
  ArrivalInv /\ (OnReadback \/ OnPause \/ OnCancel \/ OnExpire \/ OnClose \/ WallClock) => ArrivalInv'
<1> USE DEF ArrivalInv, ArrivalTypeOK
<1>1. ASSUME ArrivalInv, OnReadback PROVE ArrivalInv'
  <2>1. life.open /\ ~Terminal(life) /\ ~life.cleaned /\ life.radio /\ UNCHANGED standing
    BY <1>1 DEF OnReadback, Terminal, LifeFits
  <2>2. CASE life' = [life EXCEPT !.stage = "BLOCKED"] /\ Silent
    BY <1>1, <2>1, <2>2, StageFits, LivesTyped DEF Silent
  <2>3. ASSUME NEW out \in Outcomes, life' = CleanupRadio(life, out), Sends("CLEANUP", out)
        PROVE  ArrivalInv'
    <3>1. /\ life' \in Lives /\ LifeFits(life')
          /\ ~Fails(out) => ~Heeds(life') /\ life'.cleaned
          /\ out = "uncertain" => life'.uncertain
          /\ life.uncertain => life'.uncertain
      BY <1>1, <2>1, <2>3, CleanupKnown
    <3>2. /\ refused' = (refused \/ out = "fails_after" \/ Fails(out))
          /\ told' = IF out # "fails_before" THEN "CLEANUP" ELSE told
          /\ unknown' = (unknown \/ (out # "fails_before" /\ out = "uncertain"))
      BY <2>3 DEF Sends, SendsAfter
    <3>3. ~refused' => FramesKnown(life', told', unknown')
      BY <1>1, <3>1, <3>2 DEF FramesKnown, Fails
    <3>4. ~refused' => ~Heeds(life')
      BY <3>1, <3>2
    <3>5. told' \in {"none", "ARRIVED", "CLEANUP"} /\ unknown' \in BOOLEAN /\ refused' \in BOOLEAN
      BY <1>1, <3>2
    <3> QED  BY <1>1, <2>1, <3>1, <3>3, <3>4, <3>5, LivesTyped
  <2> QED  BY <1>1, <2>1, <2>2, <2>3 DEF OnReadback
<1>2. ASSUME ArrivalInv, OnPause PROVE ArrivalInv'
  BY <1>2, PauseFits, LivesTyped DEF OnPause, Silent
<1>3. ASSUME ArrivalInv, OnCancel PROVE ArrivalInv'
  <2>1. life.open /\ UNCHANGED standing
    BY <1>3 DEF OnCancel
  <2>2. ASSUME life' = Cancelled(life), Silent PROVE ArrivalInv'
    <3>1. life' = [life EXCEPT !.stage = "CANCELLED"]
      BY <2>2 DEF Cancelled
    <3>2. /\ life' \in Lives /\ LifeFits(life') /\ ~Heeds(life')
          /\ \A t, u : FramesKnown(life, t, u) => FramesKnown(life', t, u)
      <4>1. life \in Lives /\ LifeFits(life)
        BY <1>3
      <4> QED  BY <4>1, <2>1, <3>1, StageFits
    <3> QED  BY <1>3, <2>1, <2>2, <3>2, LivesTyped DEF Silent
  <2>3. ASSUME NEW out \in Outcomes, life' = Cancel(life, out), CancelSends(life), Sends("CLEANUP", out)
        PROVE  ArrivalInv'
    <3>1. life' = CleanupRadio(life, out) /\ life.radio /\ ~life.cleaned
      BY <2>1, <2>3 DEF Cancel, CancelSends
    <3>2. /\ life' \in Lives /\ LifeFits(life')
          /\ ~Fails(out) => ~Heeds(life') /\ life'.cleaned
          /\ out = "uncertain" => life'.uncertain
          /\ life.uncertain => life'.uncertain
      BY <1>3, <2>1, <3>1, CleanupKnown
    <3>3. /\ refused' = (refused \/ out = "fails_after" \/ Fails(out))
          /\ told' = IF out # "fails_before" THEN "CLEANUP" ELSE told
          /\ unknown' = (unknown \/ (out # "fails_before" /\ out = "uncertain"))
      BY <2>3 DEF Sends, SendsAfter
    <3>4. ~refused' => FramesKnown(life', told', unknown')
      BY <1>3, <3>2, <3>3 DEF FramesKnown, Fails
    <3>5. ~refused' => ~Heeds(life')
      BY <3>2, <3>3
    <3>6. told' \in {"none", "ARRIVED", "CLEANUP"} /\ unknown' \in BOOLEAN /\ refused' \in BOOLEAN
      BY <1>3, <3>3
    <3> QED  BY <1>3, <2>1, <3>2, <3>4, <3>5, <3>6, LivesTyped
  <2>4. ASSUME NEW out, life' = Cancel(life, out), ~CancelSends(life), Silent PROVE ArrivalInv'
    BY <2>1, <2>2, <2>4 DEF Cancel
  <2> QED  BY <1>3, <2>2, <2>3, <2>4 DEF OnCancel
<1>4. ASSUME ArrivalInv, OnExpire PROVE ArrivalInv'
  <2>1. life.open /\ life' = [life EXCEPT !.stage = "EXPIRED"] /\ Silent /\ UNCHANGED standing
    BY <1>4 DEF OnExpire, Expire
  <2> QED  BY <1>4, <2>1, StageFits, LivesTyped DEF Silent
<1>5. ASSUME ArrivalInv, OnClose PROVE ArrivalInv'
  <2>1. life' = Closed /\ told' = "none" /\ unknown' = FALSE /\ refused' = FALSE
        /\ standing' = NotStanding /\ NotStanding.last = Never
    BY <1>5 DEF OnClose, Forgotten, NotStanding
  <2> QED  BY <2>1, ClosedFits, NotStandingTyped, LivesTyped DEF FramesKnown, ClocksAgree
<1>6. ASSUME ArrivalInv, WallClock PROVE ArrivalInv'
  <2>1. life.waited \in 0..Window - 1 /\ life' = [life EXCEPT !.waited = @ + 1]
        /\ Silent /\ UNCHANGED standing
    BY <1>6 DEF WallClock
  <2>3. /\ life' \in Lives /\ LifeFits(life')
        /\ life'.open = life.open /\ life'.radio = life.radio /\ life'.stage = life.stage
        /\ life'.gate = life.gate /\ life'.latest = life.latest /\ life'.started = life.started
        /\ life'.expected = life.expected /\ life'.delivered = life.delivered
        /\ life'.cleaned = life.cleaned /\ life'.uncertain = life.uncertain
    BY <1>6, <2>1, WaitsOn
  <2>6. /\ Heeds(life') <=> Heeds(life)
        /\ ClocksAgree(life, standing) => ClocksAgree(life', standing)
        /\ \A t, u : FramesKnown(life, t, u) => FramesKnown(life', t, u)
    BY <2>3 DEF Heeds, Terminal, ClocksAgree, FramesKnown
  <2> QED  BY <1>6, <2>1, <2>3, <2>6, LivesTyped DEF Silent
<1> QED  BY <1>1, <1>2, <1>3, <1>4, <1>5, <1>6

LEMMA ArrivalSteps == ArrivalInv /\ [ArrivalNext]_arrivalVars => ArrivalInv'
<1>1. ASSUME ArrivalInv, UNCHANGED arrivalVars PROVE ArrivalInv'
  BY <1>1 DEF ArrivalInv, ArrivalTypeOK, arrivalVars
<1> QED  BY <1>1, FeedSteps, CallerSteps DEF ArrivalNext

LEMMA ReleaseFollows == ArrivalInv => ReleaseIsSettled
BY DEF ArrivalInv, ReleaseIsSettled, CanRelease, FramesKnown

\* What a full dwell is to a step.
LEMMA DwellFollows ==
  ArrivalInv /\ [ArrivalNext]_arrivalVars =>
    [told' = "ARRIVED" /\ told # "ARRIVED" /\ ~refused =>
       /\ standing'.since # Never
       /\ standing'.last - standing'.since >= Dwell]_arrivalVars
<1> SUFFICES ASSUME ArrivalInv, ArrivalNext, told' = "ARRIVED", told # "ARRIVED", ~refused
             PROVE  standing'.since # Never /\ standing'.last - standing'.since >= Dwell
  BY DEF arrivalVars
<1>1. FeedAny
  BY DEF ArrivalNext, OnReadback, OnPause, OnCancel, OnExpire, OnClose, WallClock, Silent,
         Forgotten, Sends, SendsAfter
<1>2. PICK f \in Fixes : \E radio \in BOOLEAN : Feed(f, radio)
  BY <1>1 DEF FeedAny
<1>3. PICK radio \in BOOLEAN : Feed(f, radio)
  BY <1>2
<1> DEFINE fresh == ~life.open \/ life.boot # f.boot
           l == IF fresh THEN Opened(f.boot, radio) ELSE life
           s == IF fresh THEN NotStanding ELSE standing
<1>4. f \in AnyFix /\ f.boot \in Nat
  BY BootsAssumption DEF Fixes, AnyFix
<1>5. l \in Lives /\ LifeFits(l) /\ StandingTyped(s) /\ (Heeds(l) => ClocksAgree(l, s))
  <2>1. CASE fresh
    <3>1. l = Opened(f.boot, radio) /\ s = NotStanding
      BY <2>1
    <3> HIDE DEF l, s
    <3> QED  BY <3>1, <1>4, OpenedFits, NotStandingTyped DEF ClocksAgree, NotStanding
  <2>2. CASE ~fresh
    BY <2>2 DEF ArrivalInv
  <2> QED  BY <2>1, <2>2
<1>6. standing' = Stands(f, s)
  BY <1>3 DEF Feed
<1>7. FrameOf(l, f) = "ARRIVED"
  BY <1>3 DEF Feed, Sends, SendsAfter
<1> HIDE DEF l, s, fresh
<1>8. Heeds(l) /\ Observed(l, f).stage = "READY"
  BY <1>7 DEF FrameOf
<1> QED  BY <1>4, <1>5, <1>6, <1>8, DwellKept

\* Bluetooth is replaced only after a full dwell of fixes from the destination,
\* in order and without a gap, also over a pause (arrival.ts, observeFix;
\* lifecycle.ts, onIdentifiedFix): for any dwell, clock and boots.
THEOREM DwellBeforeArrival == ArrivalSpec => ArrivalNeedsDwell
<1>1. ArrivalInit => ArrivalInv
  BY ArrivalStarts
<1>2. ArrivalInv /\ [ArrivalNext]_arrivalVars => ArrivalInv'
  BY ArrivalSteps
<1>3. ArrivalInv /\ [ArrivalNext]_arrivalVars =>
        [told' = "ARRIVED" /\ told # "ARRIVED" /\ ~refused =>
           /\ standing'.since # Never
           /\ standing'.last - standing'.since >= Dwell]_arrivalVars
  BY DwellFollows
<1> QED  BY <1>1, <1>2, <1>3, PTL DEF ArrivalSpec, ArrivalNeedsDwell

\* A trip is told it may let the phone go only with no arrival frame and no
\* unanswered frame behind (lifecycle.ts, tick, canReleasePhone), for any clocks.
THEOREM LifecycleSettles == ArrivalSpec => []ReleaseIsSettled
<1>1. ArrivalInit => ArrivalInv
  BY ArrivalStarts
<1>2. ArrivalInv /\ [ArrivalNext]_arrivalVars => ArrivalInv'
  BY ArrivalSteps
<1>3. ArrivalInv => ReleaseIsSettled
  BY ReleaseFollows
<1> QED  BY <1>1, <1>2, <1>3, PTL DEF ArrivalSpec

-----------------------------------------------------------------------------
\* The player trip.  What each part of a step hands on.

LEMMA PlayerBounds ==
  /\ LastSample \in Nat /\ Near \in Nat /\ End \in Nat /\ MaxGrants \in Nat /\ MaxCalls \in Nat
  /\ MaxFaults \in Nat /\ End <= LastSample /\ End <= MaxElapsed
  /\ Sessions = 1..MaxGrants /\ Processes = {"step", "user"}
  /\ DOMAIN Allowed = {"start", "pause", "resume", "cancel"}
BY PlayerAssumption DEF Sessions, Processes, Allowed

LEMMA FedFits ==
  ASSUME PlayerShape, NEW sample \in 0..LastSample, NEW here \in BOOLEAN, NEW l \in Fed(sample, here)
  PROVE  l \in Lives /\ LifeFits(l)
<1> DEFINE f == PlayerFix(sample, here)
<1>1. phone.inst \in Nat /\ phone.inst # NoBoot
  BY DEF PlayerShape, Phones, NoBoot
<1>2. f \in AnyFix /\ f.boot = phone.inst
  BY <1>1, PlayerBounds, Clocks DEF AnyFix, PlayerFix
<1> HIDE DEF f
<1>3. PICK radio \in BOOLEAN, out \in {"settled", "fails_before"}, armed \in BOOLEAN :
        l = OnIdentifiedFix(Followed(f, radio), f, out, armed)
  BY DEF Fed, f
<1> DEFINE before == Followed(f, radio)
<1>4. before \in Lives /\ LifeFits(before) /\ before.open
  <2>1. CASE lc.boot = f.boot
    <3>1. Closed.boot = NoBoot
      BY DEF Closed, Opened
    <3> QED  BY <2>1, <3>1, <1>1, <1>2 DEF PlayerShape, LifeFits, Followed
  <2>2. CASE lc.boot # f.boot
    BY <2>2, <1>1, <1>2, OpenedFits DEF Followed
  <2> QED  BY <2>1, <2>2
<1>5. out \in Outcomes
  BY DEF Outcomes
<1> HIDE DEF before
<1>6. l = OnIdentifiedFix(before, f, out, armed)
  BY <1>3 DEF before
<1> QED  BY <1>2, <1>4, <1>5, <1>6, FixFits

LEMMA LifecycleMoves ==
  ASSUME PlayerShape
  PROVE  /\ Pause(lc) \in Lives /\ LifeFits(Pause(lc))
         /\ lc.open => Cancelled(lc) \in Lives /\ LifeFits(Cancelled(lc))
         /\ \A out : Cancel(lc, out) \in Lives /\ LifeFits(Cancel(lc, out))
<1>1. lc \in Lives /\ LifeFits(lc)
  BY DEF PlayerShape
<1>2. lc.open => Cancelled(lc) \in Lives /\ LifeFits(Cancelled(lc))
  BY <1>1, StageFits DEF Cancelled
<1>3. ASSUME NEW out PROVE Cancel(lc, out) \in Lives /\ LifeFits(Cancel(lc, out))
  <2>1. /\ Cancel(lc, out) \in {lc, CleanupRadio(lc, out), Cancelled(lc)}
        /\ ~lc.open => Cancel(lc, out) = lc
    BY DEF Cancel
  <2>2. lc.open => CleanupRadio(lc, out) \in Lives /\ LifeFits(CleanupRadio(lc, out))
    BY <1>1, CleanupKnown
  <2> QED  BY <1>1, <1>2, <2>1, <2>2
<1>4. Pause(lc) \in Lives /\ LifeFits(Pause(lc))
  BY <1>1, PauseFits
<1> QED  BY <1>2, <1>3, <1>4

LEMMA IdleFits ==
  /\ NewRow \in Rows /\ NewPhone \in Phones /\ NoPlayer \in Players
  /\ Idle \in Holders /\ Idle.pc = "idle" /\ Idle.row = NewRow /\ Idle.op = "none"
  /\ NewRow.rev = 0 /\ NewRow.player = NoPlayer /\ NoPlayer.sid = 0 /\ NewRow.status = "PREVIEW"
BY PlayerBounds, Clocks DEF NewRow, NewPhone, NoPlayer, Idle, Rows, Players, Phones, Holders, StepPcs


\* What the shape says of the row and of each copy.
LEMMA Shapes ==
  ASSUME PlayerInv
  PROVE  /\ row.rev \in Nat /\ row.player \in Players /\ row.player.sid \in Nat
         /\ row.at \in 0..LastSample /\ opened \in Nat /\ grants \in Nat
         /\ opened <= grants /\ grants <= MaxGrants
         /\ \A p \in Processes :
              /\ proc[p] \in Holders /\ proc[p].row \in Rows /\ proc[p].row.rev \in Nat
              /\ proc[p].row.player \in Players /\ proc[p].row.player.sid \in Nat
              /\ proc[p].seen \in Phones
              /\ proc[p].op \in {"none"} \cup DOMAIN Allowed
<1>1. row \in Rows /\ proc \in [Processes -> Holders] /\ opened \in 0..grants /\ grants \in 0..MaxGrants
  BY DEF PlayerInv, PlayerShape
<1>2. \A r \in Rows : r.rev \in Nat /\ r.at \in 0..LastSample /\ r.player \in Players
  BY DEF Rows
<1>3. \A r \in Players : r.sid \in Nat
  BY PlayerBounds DEF Players
<1>4. \A h \in Holders : h.row \in Rows /\ h.seen \in Phones /\ h.op \in {"none"} \cup DOMAIN Allowed
  BY DEF Holders
<1> QED  BY <1>1, <1>2, <1>3, <1>4, PlayerBounds

\* One process goes on to h and the other stays where it is.
LEMMA Turns ==
  ASSUME PlayerInv, NEW p \in Processes, NEW h \in Holders, proc' = [proc EXCEPT ![p] = h]
  PROVE  /\ proc' \in [Processes -> Holders]
         /\ proc'[p] = h
         /\ \A q \in Processes : q # p => proc'[q] = proc[q]
BY DEF PlayerInv, PlayerShape

\* The three parts that depend on what an action means to the phone.
Meaning == StartsRecorded /\ StepStatus /\ (PhoneStill => phone.state # "PLAYING")

\* A process keeps its copy: it only goes on, or looks at the phone.
LEMMA KeepsCopy ==
  ASSUME PlayerInv, NEW p \in Processes, NEW h \in Holders,
         proc' = [proc EXCEPT ![p] = h], proc[p].pc # "idle", h.pc # "idle",
         h.pc \in (IF p = "step" THEN StepPcs ELSE UserPcs),
         h.row = proc[p].row, h.op = proc[p].op,
         h.pc \in Starting \cup {"status", "own_beat", "beat", "record", "settle"} =>
           proc[p].row.player.sid # 0,
         UNCHANGED <<row, device, lease, grants, opened, lapsed>>,
         phone' \in Phones, lc' \in Lives, LifeFits(lc'), begun' \in [Sessions -> Nat],
         \A s \in Sessions : begun'[s] > 0 => begun[s] > 0 \/ s = proc[p].row.player.sid,
         ~lapsed => Meaning'
  PROVE  PlayerInv'
<1>1. /\ proc' \in [Processes -> Holders] /\ proc'[p] = h
      /\ \A q \in Processes : q # p => proc'[q] = proc[q]
  BY Turns
<1>2. PlayerShape'
  BY <1>1, PlayerBounds DEF PlayerInv, PlayerShape
<1>3. CopiesFit'
  BY <1>1 DEF PlayerInv, CopiesFit, Current
<1>4. SessionsNamed'
  BY <1>1, PlayerBounds DEF PlayerInv, SessionsNamed
<1>5. GrantsCover'
  <2>1. proc[p].row.player.sid <= opened
    BY DEF PlayerInv, CopiesFit
  <2> QED  BY <1>1, <2>1, PlayerBounds DEF PlayerInv, GrantsCover
<1>6. ~lapsed => OneAtWork'
  BY <1>1 DEF PlayerInv, OneAtWork, Current
<1> QED  BY <1>2, <1>3, <1>4, <1>5, <1>6 DEF PlayerInv, Meaning

\* A process stores the player state under the revision it read, and goes on
\* with what it stored.
LEMMA Stores ==
  ASSUME PlayerInv, NEW p \in Processes, NEW h \in Holders,
         proc' = [proc EXCEPT ![p] = h], proc[p].pc # "idle", h.pc # "idle",
         h.pc \in (IF p = "step" THEN StepPcs ELSE UserPcs), h.op = proc[p].op, h.pc # "settle",
         Current(p), row' \in Rows, row'.rev = row.rev, row'.status = row.status,
         h.row.rev = proc[p].row.rev, h.row.player = row'.player,
         row'.player.sid # 0,
         \/ row'.player.sid = proc[p].row.player.sid /\ opened' = opened
         \/ p = "step" /\ proc[p].row.player.sid = 0 /\ row.status = "RUNNING"
            /\ opened' = opened + 1 /\ row'.player.sid = opened',
         UNCHANGED <<device, phone, lease, grants, begun, lapsed>>,
         lc' \in Lives, LifeFits(lc'),
         ~lapsed => Meaning'
  PROVE  PlayerInv'
<1>1. /\ proc' \in [Processes -> Holders] /\ proc'[p] = h
      /\ \A q \in Processes : q # p => proc'[q] = proc[q]
  BY Turns
<1>2. /\ row.rev \in Nat /\ row.player.sid \in Nat /\ opened \in Nat /\ grants \in Nat
      /\ opened <= grants /\ grants <= MaxGrants
      /\ \A q \in Processes : proc[q].row.rev \in Nat /\ proc[q].row.player.sid \in Nat
  BY Shapes
<1>3. /\ proc[p].row.player.sid <= opened /\ row.player.sid <= opened
      /\ proc[p].row.rev = row.rev
      /\ \/ proc[p].row.player.sid = row.player.sid
         \/ p = "user" /\ proc[p].row.player.sid = 0
  BY DEF PlayerInv, CopiesFit, GrantsCover, Current
<1>4. /\ row'.player.sid <= opened' /\ opened <= opened'
      /\ row.player.sid = 0 \/ row'.player.sid = row.player.sid
      /\ p = "user" => row'.player.sid = row.player.sid
  BY <1>2, <1>3
<1>5. opened' \in 0..grants'
  <2>1. row.status = "RUNNING" /\ row.player.sid = 0 => opened < grants
    BY DEF PlayerInv, GrantsCover
  <2> QED  BY <1>2, <1>3, <2>1
<1>6. PlayerShape'
  BY <1>1, <1>5, PlayerBounds DEF PlayerInv, PlayerShape
<1>7. CopiesFit'
  <2> SUFFICES ASSUME NEW q \in Processes
               PROVE  /\ proc'[q].row.rev <= row'.rev
                      /\ proc'[q].row.player.sid <= opened'
                      /\ proc'[q].pc # "idle" /\ row'.rev = proc'[q].row.rev =>
                           \/ proc'[q].row.player.sid = row'.player.sid
                           \/ q = "user" /\ proc'[q].row.player.sid = 0
    BY DEF CopiesFit, Current
  <2>1. CASE q = p
    BY <2>1, <1>1, <1>2, <1>3, <1>4
  <2>2. CASE q # p
    <3>1. /\ proc[q].row.rev <= row.rev /\ proc[q].row.player.sid <= opened
          /\ proc[q].pc # "idle" /\ row.rev = proc[q].row.rev =>
               \/ proc[q].row.player.sid = row.player.sid
               \/ q = "user" /\ proc[q].row.player.sid = 0
      BY DEF PlayerInv, CopiesFit, Current
    <3>2. q = "step" => p = "user"
      BY <2>2, PlayerBounds
    <3>3. q = "step" \/ q = "user"
      BY PlayerBounds
    <3>4. opened' \in Nat /\ proc[q].row.player.sid \in Nat
      BY <1>2, <1>5
    <3> QED  BY <2>2, <1>1, <1>2, <1>4, <3>1, <3>2, <3>3, <3>4
  <2> QED  BY <2>1, <2>2
<1>8. SessionsNamed'
  BY <1>1, PlayerBounds DEF PlayerInv, SessionsNamed
<1>9. GrantsCover'
  <2>1. proc'["user"].pc # "idle" /\ proc'["user"].op \in {"start", "resume"} => grants' < MaxGrants
    BY <1>1, PlayerBounds DEF PlayerInv, GrantsCover
  <2>2. \A s \in Sessions : begun'[s] > 0 => s <= opened'
    BY <1>2, <1>4, <1>5, PlayerBounds DEF PlayerInv, GrantsCover
  <2> QED  BY <1>4, <2>1, <2>2 DEF GrantsCover
<1>10. ~lapsed => OneAtWork'
  <2> SUFFICES ASSUME ~lapsed, NEW q \in Processes, proc'[q].pc # "idle"
               PROVE  lease' = q /\ row'.rev = proc'[q].row.rev /\ proc'[q].row.player = row'.player
    BY DEF OneAtWork, Current
  <2>1. lease = p
    BY DEF PlayerInv, OneAtWork
  <2>2. q = p
    BY <2>1, <1>1 DEF PlayerInv, OneAtWork
  <2> QED  BY <2>1, <2>2, <1>1, <1>3
<1> QED  BY <1>6, <1>7, <1>8, <1>9, <1>10 DEF PlayerInv, Meaning

\* A process ends its step or its call.
LEMMA Leaves ==
  ASSUME PlayerInv, NEW p \in Processes, proc[p].pc # "idle", Leave(p),
         row' \in Rows, device' \in [claimed : BOOLEAN, active : BOOLEAN],
         \/ row'.rev = row.rev /\ row'.player.sid = row.player.sid
         \/ row'.rev = row.rev + 1 /\ row'.player.sid \in {0, row.player.sid},
         grants' \in grants..MaxGrants,
         p = "step" => grants' = grants,
         row'.status = "RUNNING" =>
           \/ row.status = "RUNNING" /\ row'.player.sid = row.player.sid
           \/ grants < grants',
         UNCHANGED <<phone, opened, begun, lapsed>>,
         lc' \in Lives, LifeFits(lc'),
         ~lapsed => Meaning'
  PROVE  PlayerInv'
<1>1. /\ proc' \in [Processes -> Holders] /\ proc'[p] = Idle
      /\ \A q \in Processes : q # p => proc'[q] = proc[q]
      /\ Idle.pc = "idle" /\ Idle.row.rev = 0 /\ Idle.row.player.sid = 0
  BY Turns, IdleFits DEF Leave
<1>2. /\ row.rev \in Nat /\ row.player.sid \in Nat /\ opened \in Nat /\ grants \in Nat
      /\ opened <= grants /\ grants <= MaxGrants
      /\ \A q \in Processes : proc[q].row.rev \in Nat /\ proc[q].row.player.sid \in Nat
  BY Shapes
<1>3. lease' \in {"free"} \cup Processes
  BY DEF Leave, PlayerInv, PlayerShape
<1>4. grants' \in 0..MaxGrants /\ opened' \in 0..grants'
  BY <1>2, PlayerBounds
<1>5. PlayerShape'
  BY <1>1, <1>3, <1>4, PlayerBounds DEF PlayerInv, PlayerShape, StepPcs, UserPcs
<1>6. CopiesFit'
  <2> SUFFICES ASSUME NEW q \in Processes
               PROVE  /\ proc'[q].row.rev <= row'.rev
                      /\ proc'[q].row.player.sid <= opened'
                      /\ proc'[q].pc # "idle" /\ row'.rev = proc'[q].row.rev =>
                           \/ proc'[q].row.player.sid = row'.player.sid
                           \/ q = "user" /\ proc'[q].row.player.sid = 0
    BY DEF CopiesFit, Current
  <2>1. /\ proc[q].row.rev <= row.rev /\ proc[q].row.player.sid <= opened
        /\ proc[q].pc # "idle" /\ row.rev = proc[q].row.rev =>
             \/ proc[q].row.player.sid = row.player.sid
             \/ q = "user" /\ proc[q].row.player.sid = 0
    BY DEF PlayerInv, CopiesFit, Current
  <2>2. CASE q = p
    BY <2>2, <1>1, <1>2
  <2>3. CASE q # p
    BY <2>1, <2>3, <1>1, <1>2
  <2> QED  BY <2>2, <2>3
<1>7. SessionsNamed'
  BY <1>1, PlayerBounds DEF PlayerInv, SessionsNamed, Starting
<1>8. GrantsCover'
  <2>1. row'.player.sid <= opened'
    BY <1>2 DEF PlayerInv, GrantsCover
  <2>2. row'.status = "RUNNING" /\ row'.player.sid = 0 => opened' < grants'
    BY <1>2, <1>4 DEF PlayerInv, GrantsCover
  <2>3. proc'["user"].pc # "idle" /\ proc'["user"].op \in {"start", "resume"} => grants' < MaxGrants
    BY <1>1, PlayerBounds DEF PlayerInv, GrantsCover
  <2>4. \A s \in Sessions : begun'[s] > 0 => s <= opened'
    BY DEF PlayerInv, GrantsCover
  <2> QED  BY <2>1, <2>2, <2>3, <2>4 DEF GrantsCover
<1>9. ~lapsed => OneAtWork'
  <2> SUFFICES ASSUME ~lapsed, NEW q \in Processes, proc'[q].pc # "idle"
               PROVE  FALSE
    BY DEF OneAtWork
  <2>1. q # p /\ proc[q].pc # "idle"
    BY <1>1
  <2>2. lease = q /\ lease = p
    BY <2>1 DEF PlayerInv, OneAtWork
  <2> QED  BY <2>1, <2>2
<1> QED  BY <1>5, <1>6, <1>7, <1>8, <1>9 DEF PlayerInv, Meaning

\* Where a process may go to without touching the row or the phone.
MayGo(p, w) ==
  /\ w \in (IF p = "step" THEN StepPcs ELSE UserPcs) \ {"idle", "record", "start"}
  /\ w \in Starting \cup {"status", "own_beat", "beat", "settle"} => proc[p].row.player.sid # 0
  /\ ~lapsed /\ p = "step" =>
       /\ w \in Starting => begun[proc[p].row.player.sid] = 0
       /\ w \in {"poll", "finish", "arrive"} =>
            row.status \in {"RUNNING", "ARRIVING"} /\ phone.state # "PLAYING"
       /\ w \notin {"poll", "finish", "arrive"} => row.status = "RUNNING"
  /\ /\ ~lapsed /\ p = "user" /\ proc[p].op # "start"
     /\ w \in {"settle", "stopped", "ready", "own", "commit"}
     => phone.state # "PLAYING"

LEMMA GoesTo ==
  ASSUME PlayerInv, NEW p \in Processes, NEW w \in StepPcs \cup UserPcs, Goto(p, w)
  PROVE  LET h == [proc[p] EXCEPT !.pc = w] IN
         /\ h \in Holders /\ proc' = [proc EXCEPT ![p] = h]
         /\ h.pc = w /\ h.row = proc[p].row /\ h.seen = proc[p].seen /\ h.op = proc[p].op
<1>1. proc[p] \in Holders
  BY Shapes
<1> QED  BY <1>1 DEF Goto, Holders

LEMMA Moves ==
  ASSUME PlayerInv, NEW p \in Processes, NEW w, Goto(p, w), MayGo(p, w), proc[p].pc # "idle",
         UNCHANGED <<row, device, phone, lease, grants, opened, begun, lapsed>>,
         lc' \in Lives, LifeFits(lc')
  PROVE  PlayerInv'
<1> DEFINE h == [proc[p] EXCEPT !.pc = w]
<1>1. w \in StepPcs \cup UserPcs /\ w \in (IF p = "step" THEN StepPcs ELSE UserPcs) /\ w # "idle"
  BY DEF MayGo
<1>2. /\ h \in Holders /\ proc' = [proc EXCEPT ![p] = h]
      /\ h.pc = w /\ h.row = proc[p].row /\ h.op = proc[p].op
  BY <1>1, GoesTo
<1> HIDE DEF h
<1>3. /\ proc'[p] = h
      /\ \A q \in Processes : q # p => proc'[q] = proc[q]
  BY <1>2, Turns
<1>4. ASSUME ~lapsed PROVE Meaning'
  <2>1. StartsRecorded /\ StepStatus /\ (PhoneStill => phone.state # "PLAYING")
    BY <1>4 DEF PlayerInv
  <2>2. StartsRecorded'
    BY <2>1, <1>2, <1>3, <1>4, PlayerBounds DEF StartsRecorded, MayGo
  <2>3. StepStatus'
    BY <2>1, <1>2, <1>3, <1>4, PlayerBounds DEF StepStatus, MayGo
  <2>4. ASSUME PhoneStill' PROVE phone'.state # "PLAYING"
    <3>1. CASE p = "step"
      <4>1. proc'["step"].pc = w /\ proc'["user"] = proc["user"] /\ w # "record"
        BY <3>1, <1>2, <1>3, PlayerBounds DEF MayGo
      <4> QED  BY <4>1, <3>1, <2>1, <2>4, <1>4 DEF PhoneStill, MayGo
    <3>2. CASE p = "user"
      <4>1. proc'["user"].pc = w /\ proc'["user"].op = proc["user"].op /\ proc'["step"] = proc["step"]
        BY <3>2, <1>2, <1>3, PlayerBounds
      <4> QED  BY <4>1, <3>2, <2>1, <2>4, <1>4 DEF PhoneStill, MayGo
    <3> QED  BY <3>1, <3>2, PlayerBounds
  <2> QED  BY <2>2, <2>3, <2>4 DEF Meaning
<1>5. phone' \in Phones /\ begun' \in [Sessions -> Nat]
  BY DEF PlayerInv, PlayerShape
<1>6. h.pc \in Starting \cup {"status", "own_beat", "beat", "record", "settle"} =>
        proc[p].row.player.sid # 0
  BY <1>2 DEF MayGo
<1> QED  BY <1>1, <1>2, <1>4, <1>5, <1>6, KeepsCopy

\* What holds while the step is at work and no lease has lapsed.
LEMMA StepAlone ==
  ASSUME PlayerInv, ~lapsed, proc["step"].pc # "idle"
  PROVE  /\ lease = "step" /\ proc["user"].pc = "idle" /\ Current("step")
         /\ proc["step"].row.player = row.player
BY PlayerBounds DEF PlayerInv, OneAtWork

LEMMA UserAlone ==
  ASSUME PlayerInv, ~lapsed, proc["user"].pc # "idle"
  PROVE  /\ lease = "user" /\ proc["step"].pc = "idle" /\ Current("user")
         /\ proc["user"].row.player = row.player
BY PlayerBounds DEF PlayerInv, OneAtWork

Driving == {"identify", "status", "own_beat", "beat", "record"} \cup Starting

\* A step that throws goes to its handler.
LEMMA ThrowsSteps ==
  ASSUME PlayerInv, proc["step"].pc \in Driving, Throws,
         UNCHANGED <<row, device, phone, lease, lc, grants, opened, begun, lapsed>>
  PROVE  PlayerInv'
<1>1. proc["step"].pc \notin {"idle", "poll", "finish", "arrive"}
  BY DEF Driving, Starting
<1>2. MayGo("step", "catch")
  BY <1>1 DEF PlayerInv, StepStatus, MayGo, StepPcs, Starting
<1>3. lc' \in Lives /\ LifeFits(lc')
  BY DEF PlayerInv, PlayerShape
<1> QED  BY <1>1, <1>2, <1>3, Moves, PlayerBounds DEF Throws

LEMMA PollSteps == PlayerInv /\ Poll => PlayerInv'
<1> SUFFICES ASSUME PlayerInv, Poll PROVE PlayerInv'
  OBVIOUS
<1>1. lc' \in Lives /\ LifeFits(lc')
  BY FedFits, Shapes, PlayerBounds DEF Poll, PlayerInv, Rows
<1>2. MayGo("step", "finish")
  BY DEF PlayerInv, StepStatus, PhoneStill, MayGo, StepPcs, Starting, Poll
<1> QED  BY <1>1, <1>2, Moves, PlayerBounds DEF Poll, Kept

LEMMA OwnsSteps ==
  ASSUME PlayerInv, NEW where, NEW next, Owns(where, next),
         <<where, next>> \in {<<"own_prepare", "prepare">>, <<"own_start", "store_started">>,
                              <<"own_beat", "beat">>}
  PROVE  PlayerInv'
<1>1. where \in {"own_prepare", "own_start", "own_beat"} /\ next \in {"prepare", "store_started", "beat"}
      /\ (where = "own_beat" <=> next = "beat")
  OBVIOUS
<1>2. CASE Owner
  <2>1. MayGo("step", next)
    BY <1>1, <1>2 DEF Owns, Owner, PlayerInv, StartsRecorded, SessionsNamed, MayGo, StepPcs, Starting
  <2>2. lc' \in Lives /\ LifeFits(lc')
    BY DEF PlayerInv, PlayerShape, Owns, StepWaits
  <2> QED  BY <1>1, <1>2, <2>1, <2>2, Moves, PlayerBounds DEF Owns, StepWaits
<1>3. CASE ~Owner
  BY <1>1, <1>3, ThrowsSteps DEF Owns, StepWaits, Driving, Starting
<1> QED  BY <1>2, <1>3

LEMMA CatchSteps == PlayerInv /\ Catch => PlayerInv'
<1> SUFFICES ASSUME PlayerInv, Catch PROVE PlayerInv'
  OBVIOUS
<1>1. lc' \in Lives /\ LifeFits(lc')
  BY LifecycleMoves DEF Catch, PlayerInv
<1>2. PICK w \in {"stop", "unstopped"} : Goto("step", w)
  BY DEF Catch
<1>3. MayGo("step", w)
  BY DEF PlayerInv, StepStatus, MayGo, StepPcs, Starting, Catch
<1> QED  BY <1>1, <1>2, <1>3, Moves, PlayerBounds DEF Catch, Kept

LEMMA IdentifySteps == PlayerInv /\ Identify => PlayerInv'
<1> SUFFICES ASSUME PlayerInv, Identify PROVE PlayerInv'
  OBVIOUS
<1> DEFINE copy == proc["step"].row
           next == [NoPlayer EXCEPT !.sid = opened + 1, !.off = row.at]
<1>1. proc["step"].pc = "identify" /\ "step" \in Processes
      /\ UNCHANGED <<device, phone, lease, lc, grants, begun, lapsed>>
  BY PlayerBounds DEF Identify, StepWaits
<1>2. lc' \in Lives /\ LifeFits(lc')
  BY <1>1 DEF PlayerInv, PlayerShape
<1>3. CASE Throws /\ UNCHANGED <<row, opened>>
  BY <1>1, <1>3, ThrowsSteps DEF Driving
<1>4. CASE Owner /\ copy.player.sid # 0 /\ Goto("step", "status") /\ UNCHANGED <<row, opened>>
  <2>1. MayGo("step", "status")
    BY <1>4 DEF MayGo, Owner, StepPcs, Starting
  <2> QED  BY <1>1, <1>2, <1>4, <2>1, Moves
<1>5. CASE Owner /\ copy.player.sid = 0 /\ StoreAnd("status", next) /\ opened' = opened + 1
  <2> DEFINE h == [proc["step"] EXCEPT !.pc = "status", !.row = [copy EXCEPT !.player = next]]
  <2>1. /\ row \in Rows /\ copy \in Rows /\ proc["step"] \in Holders /\ opened \in Nat
        /\ row.at \in 0..LastSample /\ opened < grants /\ grants <= MaxGrants /\ grants \in Nat
        /\ row.player.sid = 0
    <3>1. row.player.sid = 0
      BY <1>1, <1>5, PlayerBounds DEF PlayerInv, CopiesFit, Owner
    <3>2. opened < grants
      BY <3>1, <1>5 DEF PlayerInv, GrantsCover, Owner
    <3> QED  BY <1>1, <3>1, <3>2, Shapes DEF PlayerInv, PlayerShape
  <2>2. next \in Players /\ next.sid = opened + 1 /\ next.started = FALSE /\ next.sid # 0
    <3>1. NoPlayer \in Players /\ NoPlayer.started = FALSE
      BY IdleFits DEF NoPlayer
    <3>2. opened + 1 \in Sessions /\ opened + 1 # 0
      BY <2>1, PlayerBounds
    <3> QED  BY <2>1, <3>1, <3>2 DEF Players
  <2> HIDE DEF next
  <2>3. row' = [row EXCEPT !.player = next] /\ row' \in Rows /\ row'.rev = row.rev
        /\ row'.status = row.status /\ row'.player = next
    BY <1>5, <2>1, <2>2 DEF StoreAnd, Rows
  <2>4. [copy EXCEPT !.player = next] \in Rows /\ [copy EXCEPT !.player = next].rev = copy.rev
        /\ [copy EXCEPT !.player = next].player = next
    BY <2>1, <2>2 DEF Rows
  <2>5. /\ h \in Holders /\ proc' = [proc EXCEPT !["step"] = h]
        /\ h.pc = "status" /\ h.row = [copy EXCEPT !.player = next] /\ h.op = proc["step"].op
    BY <1>5, <2>1, <2>4 DEF StoreAnd, GotoHolding, Holders, StepPcs
  <2> HIDE DEF h
  <2>6. proc'["step"] = h /\ proc'["user"] = proc["user"]
    BY <2>5, Turns, PlayerBounds
  <2>7. ASSUME ~lapsed PROVE Meaning'
    <3>1. proc["user"].pc = "idle"
      BY <1>1, <2>7, StepAlone
    <3>2. begun[next.sid] = 0
      <4>1. next.sid \in Sessions
        BY <2>1, <2>2, PlayerBounds
      <4>2. ~(begun[next.sid] > 0)
        BY <4>1, <2>1, <2>2 DEF PlayerInv, GrantsCover
      <4> QED  BY <4>1, <4>2 DEF PlayerInv, PlayerShape
    <3>3. StartsRecorded'
      BY <1>1, <2>2, <2>3, <2>5, <2>6, <2>7, <3>2 DEF PlayerInv, StartsRecorded, Starting
    <3>4. StepStatus'
      BY <1>1, <1>5, <2>3, <2>5, <2>6 DEF StepStatus, Owner
    <3>5. ~PhoneStill'
      BY <1>5, <2>2, <2>3, <2>5, <2>6, <3>1 DEF PhoneStill, Owner
    <3> QED  BY <3>3, <3>4, <3>5 DEF Meaning
  <2>8. Current("step") /\ row.status = "RUNNING"
    BY <1>5 DEF Owner
  <2> QED  BY <1>1, <1>2, <1>5, <2>1, <2>2, <2>3, <2>4, <2>5, <2>7, <2>8, Stores DEF StepPcs
<1> QED  BY <1>1, <1>3, <1>4, <1>5 DEF Identify

\* The step stores its player state, for the session it has.
LEMMA StepStores ==
  ASSUME PlayerInv, proc["step"].pc \in Driving, Current("step"),
         NEW w \in {"own_prepare", "own_beat", "start"}, NEW next \in Players, StoreAnd(w, next),
         proc["step"].row.player.sid # 0, next.sid = proc["step"].row.player.sid,
         UNCHANGED <<device, phone, lease, lc, grants, opened, begun, lapsed>>,
         ~lapsed => /\ next.started \/ begun[next.sid] = 0
                    /\ w \in Starting => begun[next.sid] = 0
                    /\ w = "start" => next.started
  PROVE  PlayerInv'
<1> DEFINE copy == proc["step"].row
           h == [proc["step"] EXCEPT !.pc = w, !.row = [copy EXCEPT !.player = next]]
<1>1. /\ "step" \in Processes /\ proc["step"].pc \notin {"idle", "poll", "finish", "arrive"}
      /\ lc' \in Lives /\ LifeFits(lc')
      /\ row \in Rows /\ copy \in Rows /\ proc["step"] \in Holders
      /\ w \in StepPcs /\ w \notin {"idle", "settle", "record", "poll", "finish", "arrive"}
  BY Shapes, PlayerBounds DEF PlayerInv, PlayerShape, Driving, Starting, StepPcs
<1>2. /\ row' = [row EXCEPT !.player = next] /\ row' \in Rows /\ row'.rev = row.rev
      /\ row'.status = row.status /\ row'.player = next
  BY <1>1 DEF StoreAnd, Rows
<1>3. /\ [copy EXCEPT !.player = next] \in Rows /\ [copy EXCEPT !.player = next].rev = copy.rev
      /\ [copy EXCEPT !.player = next].player = next
  BY <1>1 DEF Rows
<1>4. /\ h \in Holders /\ proc' = [proc EXCEPT !["step"] = h]
      /\ h.pc = w /\ h.row = [copy EXCEPT !.player = next] /\ h.op = proc["step"].op
  BY <1>1, <1>3 DEF StoreAnd, GotoHolding, Holders
<1> HIDE DEF h
<1>5. proc'["step"] = h /\ proc'["user"] = proc["user"]
  BY <1>4, Turns, PlayerBounds
<1>6. ASSUME ~lapsed PROVE Meaning'
  <2>1. proc["user"].pc = "idle" /\ proc["step"].row.player = row.player
    BY <1>1, <1>6, StepAlone
  <2>2. row.status = "RUNNING"
    BY <1>1, <1>6 DEF PlayerInv, StepStatus
  <2>3. StartsRecorded'
    <3>1. proc'["step"].pc = w /\ proc'["step"].row.player = next /\ row'.player = next /\ begun' = begun
      BY <1>2, <1>3, <1>4, <1>5
    <3>2. \A s \in Sessions : begun[s] <= 1
      BY <1>6 DEF PlayerInv, StartsRecorded
    <3>3. /\ next.started \/ begun[next.sid] = 0
          /\ w \in Starting => begun[next.sid] = 0
          /\ w = "start" => next.started
      BY <1>6
    <3> QED  BY <3>1, <3>2, <3>3 DEF StartsRecorded
  <2>4. StepStatus'
    BY <1>2, <1>5, <2>2 DEF StepStatus
  <2>5. ~PhoneStill'
    BY <1>1, <1>2, <1>4, <1>5, <2>1, <2>2 DEF PhoneStill
  <2> QED  BY <2>3, <2>4, <2>5 DEF Meaning
<1>7. proc["step"].pc # "idle" /\ h.pc # "idle" /\ h.pc # "settle" /\ h.pc \in StepPcs
  BY <1>1, <1>4
<1>8. row'.player.sid # 0 /\ row'.player.sid = proc["step"].row.player.sid
  BY <1>2
<1>9. h.row.rev = proc["step"].row.rev /\ h.row.player = row'.player
  BY <1>2, <1>3, <1>4
<1> QED  BY <1>1, <1>2, <1>4, <1>6, <1>7, <1>8, <1>9, Stores

\* The step looks at the phone and goes on to record what it saw.
LEMMA StepSees ==
  ASSUME PlayerInv, proc["step"].pc \in Driving, proc["step"].row.player.sid # 0,
         GotoSeeing("step", "record", phone),
         UNCHANGED <<row, device, phone, lease, lc, grants, opened, begun, lapsed>>
  PROVE  PlayerInv'
<1> DEFINE h == [proc["step"] EXCEPT !.pc = "record", !.seen = phone]
<1>1. /\ "step" \in Processes /\ proc["step"].pc \notin {"idle", "poll", "finish", "arrive"}
      /\ lc' \in Lives /\ LifeFits(lc') /\ phone \in Phones /\ phone' \in Phones
      /\ proc["step"] \in Holders /\ begun' \in [Sessions -> Nat]
  BY Shapes, PlayerBounds DEF PlayerInv, PlayerShape, Driving, Starting
<1>2. /\ h \in Holders /\ proc' = [proc EXCEPT !["step"] = h]
      /\ h.pc = "record" /\ h.row = proc["step"].row /\ h.seen = phone /\ h.op = proc["step"].op
  BY <1>1 DEF GotoSeeing, Holders, StepPcs
<1> HIDE DEF h
<1>3. proc'["step"] = h /\ proc'["user"] = proc["user"]
  BY <1>2, Turns, PlayerBounds
<1>4. ASSUME ~lapsed PROVE Meaning'
  <2>1. proc["user"].pc = "idle" /\ row.status = "RUNNING" /\ row.player.sid # 0
    BY <1>1, <1>4, StepAlone DEF PlayerInv, StepStatus
  <2>2. StartsRecorded'
    BY <1>2, <1>3, <1>4 DEF PlayerInv, StartsRecorded, Starting
  <2>3. StepStatus'
    BY <1>2, <1>3, <2>1 DEF StepStatus
  <2>4. PhoneStill' => phone'.state # "PLAYING"
    BY <1>2, <1>3, <2>1 DEF PhoneStill, Live
  <2> QED  BY <2>2, <2>3, <2>4 DEF Meaning
<1>5. h.pc \in StepPcs /\ h.pc # "idle" /\ proc["step"].pc # "idle"
  BY <1>1, <1>2 DEF StepPcs
<1> QED  BY <1>1, <1>2, <1>4, <1>5, KeepsCopy

LEMMA StatusSteps == PlayerInv /\ Status => PlayerInv'
<1> SUFFICES ASSUME PlayerInv, Status PROVE PlayerInv'
  OBVIOUS
<1> DEFINE player == proc["step"].row.player
           next == IF player.started THEN "own_beat" ELSE "own_prepare"
<1>1. /\ proc["step"].pc = "status" /\ "step" \in Processes /\ proc["step"].pc \in Driving
      /\ UNCHANGED <<device, phone, lease, lc, grants, opened, begun, lapsed>>
      /\ player.sid # 0
  BY PlayerBounds DEF Status, StepWaits, Driving, PlayerInv, SessionsNamed
<1>2. lc' \in Lives /\ LifeFits(lc') /\ phone.inst \in Nat /\ player \in Players
  BY <1>1, Shapes DEF PlayerInv, PlayerShape, Phones
<1>3. next \in {"own_beat", "own_prepare"} /\ (next = "own_prepare" <=> ~player.started)
  OBVIOUS
<1>4. ~lapsed => player.started \/ begun[player.sid] = 0
  BY <1>1, StepAlone DEF PlayerInv, StartsRecorded
<1>5. \/ Throws /\ UNCHANGED row
      \/ Goto("step", next) /\ UNCHANGED row
      \/ Current("step") /\ StoreAnd(next, [player EXCEPT !.inst = phone.inst])
  BY DEF Status
<1> HIDE DEF next
<1>6. CASE Throws /\ UNCHANGED row
  BY <1>1, <1>6, ThrowsSteps
<1>7. CASE Goto("step", next) /\ UNCHANGED row
  <2>1. MayGo("step", next)
    BY <1>1, <1>3, <1>4 DEF MayGo, StepPcs, Starting, PlayerInv, StepStatus
  <2> QED  BY <1>1, <1>2, <1>7, <2>1, Moves
<1>8. CASE Current("step") /\ StoreAnd(next, [player EXCEPT !.inst = phone.inst])
  <2> DEFINE np == [player EXCEPT !.inst = phone.inst]
  <2>1. np \in Players /\ np.sid = player.sid /\ np.started = player.started
    BY <1>2 DEF Players
  <2> HIDE DEF np
  <2>2. StoreAnd(next, np)
    BY <1>8 DEF np
  <2>3. ~lapsed => /\ np.started \/ begun[np.sid] = 0
                   /\ next \in Starting => begun[np.sid] = 0
                   /\ next = "start" => np.started
    BY <1>3, <1>4, <2>1 DEF Starting
  <2> QED  BY <1>1, <1>3, <1>8, <2>1, <2>2, <2>3, StepStores
<1> QED  BY <1>5, <1>6, <1>7, <1>8

LEMMA StoreStartedSteps == PlayerInv /\ StoreStarted => PlayerInv'
<1> SUFFICES ASSUME PlayerInv, StoreStarted PROVE PlayerInv'
  OBVIOUS
<1> DEFINE player == proc["step"].row.player
           np == [player EXCEPT !.started = TRUE]
<1>1. /\ proc["step"].pc = "store_started" /\ proc["step"].pc \in Driving
      /\ UNCHANGED <<device, phone, lease, lc, grants, opened, begun, lapsed>>
      /\ player.sid # 0 /\ (~lapsed => begun[player.sid] = 0)
  BY DEF StoreStarted, StepWaits, Driving, Starting, PlayerInv, SessionsNamed, StartsRecorded
<1>2. np \in Players /\ np.sid = player.sid /\ np.started
  BY Shapes, PlayerBounds DEF Players
<1>3. \/ Current("step") /\ StoreAnd("start", np)
      \/ Throws /\ UNCHANGED row
  BY DEF StoreStarted
<1> HIDE DEF np
<1> QED  BY <1>1, <1>2, <1>3, ThrowsSteps, StepStores

LEMMA HeartbeatSteps == PlayerInv /\ Heartbeat => PlayerInv'
<1> SUFFICES ASSUME PlayerInv, Heartbeat PROVE PlayerInv'
  OBVIOUS
<1>1. /\ proc["step"].pc \in Driving /\ proc["step"].row.player.sid # 0
      /\ UNCHANGED <<row, device, phone, lease, lc, grants, opened, begun, lapsed>>
      /\ GotoSeeing("step", "record", phone) \/ Throws
  BY DEF Heartbeat, Kept, Driving, PlayerInv, SessionsNamed
<1> QED  BY <1>1, StepSees, ThrowsSteps

LEMMA PrepareSteps == PlayerInv /\ Prepare => PlayerInv'
<1> SUFFICES ASSUME PlayerInv, Prepare PROVE PlayerInv'
  OBVIOUS
<1> DEFINE player == proc["step"].row.player
           ready == [phone EXCEPT !.sid = player.sid, !.state = "READY", !.pos = Never, !.clean = TRUE]
<1>1. /\ proc["step"].pc = "prepare" /\ "step" \in Processes /\ proc["step"].pc \in Driving
      /\ UNCHANGED <<row, device, lease, lc, grants, opened, begun, lapsed>>
      /\ player.sid # 0 /\ player.sid \in Nat
  BY PlayerBounds, Shapes DEF Prepare, Kept, Driving, Starting, PlayerInv, SessionsNamed
<1>2. /\ lc' \in Lives /\ LifeFits(lc') /\ begun' \in [Sessions -> Nat] /\ phone \in Phones
      /\ player \in Players
  BY <1>1, Shapes DEF PlayerInv, PlayerShape
<1>3. \/ phone' = ready /\ (Goto("step", "own_start") \/ Throws)
      \/ Goto("step", "own_start") /\ UNCHANGED phone
      \/ GotoSeeing("step", "record", phone) /\ UNCHANGED phone
      \/ Throws /\ UNCHANGED phone
  BY DEF Prepare
<1>4. ready \in Phones /\ ready.state = "READY"
  BY <1>2 DEF Phones, Players, Live
<1> HIDE DEF ready
<1>5. CASE phone' = ready /\ (Goto("step", "own_start") \/ Throws)
  <2>1. PICK w \in {"own_start", "catch"} : Goto("step", w)
    BY <1>5 DEF Throws
  <2> DEFINE h == [proc["step"] EXCEPT !.pc = w]
  <2>2. /\ h \in Holders /\ proc' = [proc EXCEPT !["step"] = h]
        /\ h.pc = w /\ h.row = proc["step"].row /\ h.op = proc["step"].op
    BY <1>1, <2>1, GoesTo DEF StepPcs, Starting
  <2> HIDE DEF h
  <2>3. proc'["step"] = h /\ proc'["user"] = proc["user"]
    BY <2>2, Turns, PlayerBounds
  <2>4. ASSUME ~lapsed PROVE Meaning'
    <3>1. row.status = "RUNNING"
      BY <1>1, <2>4 DEF PlayerInv, StepStatus
    <3>2. StartsRecorded'
      BY <1>1, <2>2, <2>3, <2>4 DEF PlayerInv, StartsRecorded, Starting
    <3>3. StepStatus'
      BY <1>1, <2>2, <2>3, <3>1 DEF StepStatus
    <3> QED  BY <1>4, <1>5, <3>2, <3>3 DEF Meaning
  <2>5. h.pc \in StepPcs /\ h.pc # "idle" /\ proc["step"].pc # "idle"
    BY <1>1, <2>2 DEF StepPcs, Starting
  <2> QED  BY <1>1, <1>2, <1>4, <1>5, <2>2, <2>4, <2>5, KeepsCopy
<1>6. CASE Goto("step", "own_start") /\ UNCHANGED phone
  <2>1. MayGo("step", "own_start")
    BY <1>1 DEF MayGo, StepPcs, Starting, PlayerInv, StepStatus, StartsRecorded
  <2> QED  BY <1>1, <1>2, <1>6, <2>1, Moves
<1> QED  BY <1>1, <1>3, <1>5, <1>6, StepSees, ThrowsSteps

LEMMA StartPlayingSteps == PlayerInv /\ StartPlaying => PlayerInv'
<1> SUFFICES ASSUME PlayerInv, StartPlaying PROVE PlayerInv'
  OBVIOUS
<1> DEFINE player == proc["step"].row.player
           playing == [phone EXCEPT !.state = "PLAYING", !.pos = player.off]
           counted == [begun EXCEPT ![player.sid] = @ + 1]
<1>1. /\ proc["step"].pc = "start" /\ "step" \in Processes /\ proc["step"].pc \in Driving
      /\ UNCHANGED <<row, device, lease, lc, grants, opened, lapsed>>
      /\ player.sid # 0 /\ player.sid \in Nat /\ player.sid <= opened
  BY PlayerBounds, Shapes DEF StartPlaying, Kept, Driving, Starting, PlayerInv, SessionsNamed, CopiesFit
<1>2. /\ lc' \in Lives /\ LifeFits(lc') /\ begun \in [Sessions -> Nat] /\ phone \in Phones
      /\ player \in Players /\ player.sid \in Sessions
  BY <1>1, Shapes DEF PlayerInv, PlayerShape, Players
<1>3. \/ phone' = playing /\ begun' = counted /\ (GotoSeeing("step", "record", phone') \/ Throws)
      \/ Throws /\ UNCHANGED <<phone, begun>>
  BY DEF StartPlaying
<1>4. playing \in Phones /\ playing.state = "PLAYING"
  BY <1>2 DEF Phones, Players, Live
<1>5. /\ counted \in [Sessions -> Nat] /\ counted[player.sid] = begun[player.sid] + 1
      /\ \A s \in Sessions : s # player.sid => counted[s] = begun[s]
  BY <1>2
<1> HIDE DEF playing, counted
<1>6. CASE phone' = playing /\ begun' = counted /\ (GotoSeeing("step", "record", phone') \/ Throws)
  <2> DEFINE seen == [proc["step"] EXCEPT !.pc = "record", !.seen = playing]
             fled == [proc["step"] EXCEPT !.pc = "catch"]
  <2>1. PICK h \in {seen, fled} : proc' = [proc EXCEPT !["step"] = h]
    BY <1>6 DEF GotoSeeing, Throws, Goto
  <2>2. /\ h \in Holders /\ h.row = proc["step"].row /\ h.op = proc["step"].op
        /\ h.pc = "catch" \/ (h.pc = "record" /\ h.seen = playing)
    <3>1. proc["step"] \in Holders
      BY <1>1, Shapes
    <3> QED  BY <1>4, <2>1, <3>1 DEF Holders, StepPcs
  <2> HIDE DEF seen, fled
  <2>3. proc'["step"] = h /\ proc'["user"] = proc["user"]
    BY <2>1, <2>2, Turns, PlayerBounds
  <2>4. ASSUME ~lapsed PROVE Meaning'
    <3>1. row.status = "RUNNING" /\ proc["user"].pc = "idle" /\ row.player = player
      BY <1>1, <2>4, StepAlone DEF PlayerInv, StepStatus
    <3>2. begun[player.sid] = 0 /\ row.player.started /\ \A s \in Sessions : begun[s] <= 1
      BY <1>1, <2>4 DEF PlayerInv, StartsRecorded, Starting
    <3>3. StartsRecorded'
      BY <1>1, <1>2, <1>5, <1>6, <2>2, <2>3, <3>1, <3>2 DEF StartsRecorded, Starting
    <3>4. StepStatus'
      BY <1>1, <2>2, <2>3, <3>1 DEF StepStatus
    <3>5. ~PhoneStill'
      BY <1>1, <1>4, <2>2, <2>3, <3>1 DEF PhoneStill, Live
    <3> QED  BY <3>3, <3>4, <3>5 DEF Meaning
  <2>5. h.pc \in StepPcs /\ h.pc # "idle" /\ proc["step"].pc # "idle"
    BY <1>1, <2>2 DEF StepPcs, Starting
  <2>6. \A s \in Sessions : begun'[s] > 0 => begun[s] > 0 \/ s = proc["step"].row.player.sid
    BY <1>5, <1>6
  <2> QED  BY <1>1, <1>2, <1>4, <1>5, <1>6, <2>1, <2>2, <2>4, <2>5, <2>6, KeepsCopy
<1> QED  BY <1>1, <1>3, <1>6, ThrowsSteps

\* recordProgress keeps the session of the copy and whether it was started.
LEMMA RecordFits ==
  ASSUME PlayerInv, NEW p \in Processes, NEW s \in Phones, RecordRow(p, s)
  PROVE  /\ row' \in Rows /\ row'.rev = row.rev /\ row'.status = row.status
         /\ row'.player.sid = proc[p].row.player.sid
         /\ row'.player.started = proc[p].row.player.started
<1> DEFINE over == s.state \in PlayerTerminal /\ s.clean
           at == IF s.pos # Never THEN s.pos ELSE row.at
           np == [proc[p].row.player EXCEPT !.ended = over]
<1>1. proc[p].row.player \in Players /\ row \in Rows /\ row.at \in 0..LastSample
  BY Shapes DEF PlayerInv, PlayerShape
<1>2. over \in BOOLEAN
  BY DEF Phones
<1>3. at \in 0..LastSample
  BY <1>1, Clocks, PlayerBounds DEF Phones
<1> HIDE DEF over
<1>4. np \in Players /\ np.sid = proc[p].row.player.sid /\ np.started = proc[p].row.player.started
  BY <1>1, <1>2 DEF Players
<1>5. row' = [row EXCEPT !.at = at, !.player = np]
  <2>1. row' = [row EXCEPT !.at = IF s.pos # Never THEN s.pos ELSE @, !.player = np]
    BY DEF RecordRow, over
  <2> QED  BY <2>1, <1>1 DEF Rows
<1> HIDE DEF at, np
<1> QED  BY <1>1, <1>3, <1>4, <1>5 DEF Rows

\* A step that ends leaves a meaning to the phone: it plays on only as long as
\* the row lets it.
LEMMA StepLeaves ==
  ASSUME PlayerInv, ~lapsed, proc["step"].pc # "idle", Leave("step"),
         row'.player.sid = row.player.sid, row'.player.started = row.player.started,
         UNCHANGED <<phone, begun>>,
         phone.state = "PLAYING" => row'.status \notin {"ARRIVING", "ARRIVED", "CANCELLED"}
  PROVE  Meaning'
<1>1. proc' = [proc EXCEPT !["step"] = Idle] /\ Idle \in Holders /\ Idle.pc = "idle"
  BY IdleFits DEF Leave
<1>2. proc'["step"].pc = "idle" /\ proc'["user"] = proc["user"] /\ proc["user"].pc = "idle"
  BY <1>1, Turns, StepAlone, PlayerBounds
<1>3. StartsRecorded /\ (PhoneStill => phone.state # "PLAYING")
  BY DEF PlayerInv
<1>4. StartsRecorded'
  BY <1>2, <1>3 DEF StartsRecorded, Starting
<1>5. StepStatus'
  BY <1>2 DEF StepStatus
<1>6. PhoneStill' => phone'.state # "PLAYING"
  BY <1>2, <1>3 DEF PhoneStill
<1> QED  BY <1>4, <1>5, <1>6 DEF Meaning

LEMMA RecordSteps == PlayerInv /\ Record => PlayerInv'
<1> SUFFICES ASSUME PlayerInv, Record PROVE PlayerInv'
  OBVIOUS
<1> DEFINE s == proc["step"].seen
           copy == proc["step"].row
           next == [copy EXCEPT !.player = row'.player, !.at = row'.at]
           w == IF s.state = "COMPLETED" /\ s.clean THEN "finish" ELSE "catch"
<1>1. /\ proc["step"].pc = "record" /\ "step" \in Processes /\ proc["step"].pc \in Driving
      /\ UNCHANGED <<device, phone, grants, opened, begun, lapsed>>
      /\ copy.player.sid # 0 /\ s \in Phones
  BY PlayerBounds, Shapes DEF Record, Kept, Driving, PlayerInv, SessionsNamed
<1>2. CASE ~Current("step")
  BY <1>1, <1>2, ThrowsSteps DEF Record
<1>3. CASE Current("step")
  <2>1. /\ RecordRow("step", s)
        /\ IF s.pos # Never THEN lc' \in Fed(s.pos, s.pos >= Near) ELSE UNCHANGED lc
        /\ IF s.state \notin PlayerTerminal THEN Leave("step")
           ELSE GotoHolding("step", w, next) /\ UNCHANGED lease
    BY <1>3 DEF Record
  <2>2. /\ row' \in Rows /\ row'.rev = row.rev /\ row'.status = row.status
        /\ row'.player.sid = copy.player.sid /\ row'.player.started = copy.player.started
    BY <1>1, <2>1, RecordFits
  <2>3. lc' \in Lives /\ LifeFits(lc')
    <3>1. CASE s.pos # Never
      <4>1. s.pos \in 0..LastSample /\ (s.pos >= Near) \in BOOLEAN
        BY <3>1, <1>1 DEF Phones
      <4> QED  BY <2>1, <3>1, <4>1, FedFits DEF PlayerInv
    <3>2. CASE s.pos = Never
      BY <2>1, <3>2 DEF PlayerInv, PlayerShape
    <3> QED  BY <3>1, <3>2
  <2>4. copy.player.sid = row.player.sid
    BY <1>1, <1>3, PlayerBounds DEF PlayerInv, CopiesFit
  <2>5. CASE s.state \notin PlayerTerminal
    <3>1. ~lapsed => Meaning'
      <4> SUFFICES ASSUME ~lapsed PROVE Meaning'
        OBVIOUS
      <4>1. row.status = "RUNNING" /\ copy.player = row.player
        BY <1>1, StepAlone DEF PlayerInv, StepStatus
      <4> QED  BY <1>1, <2>1, <2>2, <2>4, <2>5, <4>1, StepLeaves
    <3>2. row'.status = "RUNNING" => row.status = "RUNNING" /\ row'.player.sid = row.player.sid
      BY <2>2, <2>4
    <3>3. grants' \in grants..MaxGrants
      BY <1>1, Shapes, PlayerBounds
    <3>4. device' \in [claimed : BOOLEAN, active : BOOLEAN]
      BY <1>1 DEF PlayerInv, PlayerShape
    <3> QED  BY <1>1, <2>1, <2>2, <2>3, <2>4, <2>5, <3>1, <3>2, <3>3, <3>4, Leaves
  <2>6. CASE s.state \in PlayerTerminal
    <3> DEFINE h == [proc["step"] EXCEPT !.pc = w, !.row = next]
    <3>1. w \in {"finish", "catch"} /\ w \in StepPcs
      BY DEF StepPcs
    <3>2. GotoHolding("step", w, next) /\ UNCHANGED lease
      BY <2>1, <2>6
    <3>0. next \in Rows /\ next.rev = copy.rev /\ next.player = row'.player
      BY <1>1, <2>2, Shapes DEF Rows
    <3> HIDE DEF w, next
    <3>3. /\ h \in Holders /\ proc' = [proc EXCEPT !["step"] = h]
          /\ h.pc = w /\ h.row.rev = copy.rev /\ h.row.player = row'.player
          /\ h.op = proc["step"].op
      BY <3>0, <3>1, <3>2, Shapes, PlayerBounds DEF GotoHolding, Holders
    <3> HIDE DEF h
    <3>4. proc'["step"] = h /\ proc'["user"] = proc["user"]
      BY <3>3, Turns, PlayerBounds
    <3>5. ASSUME ~lapsed PROVE Meaning'
      <4>1. /\ row.status = "RUNNING" /\ copy.player = row.player /\ proc["user"].pc = "idle"
            /\ phone.state # "PLAYING"
        BY <1>1, <2>6, <3>5, StepAlone DEF PlayerInv, StepStatus, PhoneStill, PlayerTerminal, Live
      <4>2. StartsRecorded'
        BY <1>1, <2>2, <3>1, <3>3, <3>4, <3>5, <4>1 DEF PlayerInv, StartsRecorded, Starting
      <4>3. StepStatus'
        BY <2>2, <3>1, <3>3, <3>4, <4>1 DEF StepStatus
      <4> QED  BY <1>1, <4>1, <4>2, <4>3 DEF Meaning
    <3>6. h.pc \in StepPcs /\ h.pc # "idle" /\ h.pc # "settle" /\ proc["step"].pc # "idle"
      BY <1>1, <3>1, <3>3
    <3> QED  BY <1>1, <1>3, <2>2, <2>3, <3>2, <3>3, <3>5, <3>6, Stores
  <2> QED  BY <2>5, <2>6
<1> QED  BY <1>2, <1>3

\* A step that ends with the row's player state as it was.
LEMMA StepEnds ==
  ASSUME PlayerInv, proc["step"].pc # "idle", Leave("step"), row' \in Rows,
         row'.rev = row.rev, row'.player = row.player,
         row'.status = "RUNNING" => row.status = "RUNNING",
         device' \in [claimed : BOOLEAN, active : BOOLEAN],
         UNCHANGED <<phone, grants, opened, begun, lapsed>>,
         lc' \in Lives, LifeFits(lc'),
         ~lapsed /\ phone.state = "PLAYING" => row'.status \notin {"ARRIVING", "ARRIVED", "CANCELLED"}
  PROVE  PlayerInv'
<1>1. ~lapsed => Meaning'
  BY StepLeaves
<1>2. grants' \in grants..MaxGrants /\ "step" \in Processes
  BY Shapes, PlayerBounds
<1> QED  BY <1>1, <1>2, Leaves

LEMMA FinishSteps == PlayerInv /\ Finish => PlayerInv'
<1> SUFFICES ASSUME PlayerInv, Finish PROVE PlayerInv'
  OBVIOUS
<1>1. /\ proc["step"].pc = "finish" /\ "step" \in Processes
      /\ UNCHANGED <<device, phone, lc, grants, opened, begun, lapsed>>
      /\ lc' \in Lives /\ LifeFits(lc') /\ row \in Rows
      /\ device' \in [claimed : BOOLEAN, active : BOOLEAN]
  BY PlayerBounds DEF Finish, Kept, PlayerInv, PlayerShape
<1>2. ~lapsed => phone.state # "PLAYING" /\ row.status \in {"RUNNING", "ARRIVING"}
  BY <1>1 DEF PlayerInv, PhoneStill, StepStatus
<1>3. CASE CanRelease(lc)
  <2>1. MayGo("step", "arrive")
    BY <1>2 DEF MayGo, StepPcs, Starting
  <2> QED  BY <1>1, <1>3, <2>1, Moves DEF Finish
<1>4. CASE ~CanRelease(lc)
  <2>1. Leave("step") /\ row' \in {row, [row EXCEPT !.status = "ARRIVING"]}
    BY <1>4 DEF Finish
  <2>2. /\ row' \in Rows /\ row'.rev = row.rev /\ row'.player = row.player
        /\ row'.status = "RUNNING" => row.status = "RUNNING"
    BY <1>1, <2>1 DEF Rows
  <2> QED  BY <1>1, <1>2, <2>1, <2>2, StepEnds
<1> QED  BY <1>3, <1>4

LEMMA ArrivedSteps == PlayerInv /\ Arrived => PlayerInv'
<1> SUFFICES ASSUME PlayerInv, Arrived PROVE PlayerInv'
  OBVIOUS
<1>1. /\ proc["step"].pc = "arrive" /\ Leave("step")
      /\ UNCHANGED <<phone, grants, opened, begun, lapsed>>
      /\ lc' \in Lives /\ LifeFits(lc') /\ row \in Rows
      /\ device' \in [claimed : BOOLEAN, active : BOOLEAN]
  BY ClosedFits DEF Arrived, Kept, PlayerInv, PlayerShape
<1>2. ~lapsed => phone.state # "PLAYING"
  BY <1>1 DEF PlayerInv, PhoneStill
<1>3. /\ row' \in Rows /\ row'.rev = row.rev /\ row'.player = row.player /\ row'.status = "ARRIVED"
  BY <1>1 DEF Arrived, ArriveRow, Rows
<1> QED  BY <1>1, <1>2, <1>3, StepEnds

LEMMA FailureSteps == PlayerInv /\ (PauseAfterFailure \/ StoreUnavailable) => PlayerInv'
<1> SUFFICES ASSUME PlayerInv, PauseAfterFailure \/ StoreUnavailable PROVE PlayerInv'
  OBVIOUS
<1>1. /\ proc["step"].pc \in {"stopped", "unstopped"} /\ Leave("step")
      /\ UNCHANGED <<phone, lc, grants, opened, begun, lapsed>>
      /\ row' \in {row, [row EXCEPT !.status = "PAUSED"]}
      /\ device' \in {device, [device EXCEPT !.active = FALSE]}
  BY DEF PauseAfterFailure, StoreUnavailable, Kept
<1>2. /\ lc' \in Lives /\ LifeFits(lc') /\ row \in Rows
      /\ device' \in [claimed : BOOLEAN, active : BOOLEAN]
  BY <1>1 DEF PlayerInv, PlayerShape
<1>3. ~lapsed => row.status = "RUNNING"
  BY <1>1 DEF PlayerInv, StepStatus
<1>4. /\ row' \in Rows /\ row'.rev = row.rev /\ row'.player = row.player
      /\ row'.status \in {row.status, "PAUSED"}
  BY <1>1, <1>2 DEF Rows
<1> QED  BY <1>1, <1>2, <1>3, <1>4, StepEnds

\* A stop leaves the phone still, whether the answer comes back or not.
LEMMA StopSees ==
  ASSUME PlayerInv, NEW p \in Processes, NEW h \in Holders,
         proc[p].pc = "stop", proc' = [proc EXCEPT ![p] = h], h.pc \in {"settle", "unstopped"},
         h.row = proc[p].row, h.op = proc[p].op, proc[p].row.player.sid # 0,
         phone' \in Phones, phone'.state # "PLAYING",
         UNCHANGED <<row, device, lease, grants, opened, begun, lapsed>>,
         lc' \in Lives, LifeFits(lc')
  PROVE  PlayerInv'
<1>1. /\ proc'[p] = h
      /\ \A q \in Processes : q # p => proc'[q] = proc[q]
  BY Turns
<1>2. ASSUME ~lapsed PROVE Meaning'
  <2>1. StartsRecorded'
    BY <1>1, <1>2, PlayerBounds DEF PlayerInv, StartsRecorded, Starting
  <2>2. StepStatus'
    BY <1>1, <1>2, PlayerBounds DEF PlayerInv, StepStatus
  <2> QED  BY <2>1, <2>2 DEF Meaning
<1>3. h.pc \in (IF p = "step" THEN StepPcs ELSE UserPcs) /\ h.pc # "idle" /\ proc[p].pc # "idle"
  BY PlayerBounds DEF StepPcs, UserPcs
<1>4. begun' \in [Sessions -> Nat]
  BY DEF PlayerInv, PlayerShape
<1> QED  BY <1>2, <1>3, <1>4, KeepsCopy

LEMMA StopCommandSteps ==
  ASSUME PlayerInv, NEW p \in Processes, StopCommand(p)
  PROVE  PlayerInv'
<1> DEFINE player == proc[p].row.player
           seen(v) == [proc[p] EXCEPT !.pc = "settle", !.seen = v]
           lost == [proc[p] EXCEPT !.pc = "unstopped"]
<1>1. /\ proc[p].pc = "stop" /\ proc[p].pc # "idle"
      /\ UNCHANGED <<row, device, lease, grants, opened, begun, lapsed>>
      /\ proc[p] \in Holders /\ phone \in Phones /\ lc \in Lives /\ LifeFits(lc)
  BY Shapes DEF StopCommand, Kept, PlayerInv, PlayerShape
<1>2. Closed \in Lives /\ LifeFits(Closed)
  BY ClosedFits
<1>3. ASSUME NEW v \in Phones
      PROVE  /\ seen(v) \in Holders /\ seen(v).pc = "settle"
             /\ seen(v).row = proc[p].row /\ seen(v).op = proc[p].op
             /\ lost \in Holders /\ lost.pc = "unstopped"
             /\ lost.row = proc[p].row /\ lost.op = proc[p].op
  BY <1>1, <1>3 DEF Holders, StepPcs
<1>4. p = "step" /\ ~lapsed => row.status = "RUNNING"
  BY <1>1 DEF PlayerInv, StepStatus
<1>5. CASE player.sid = 0 /\ Goto(p, "stopped") /\ lc' = Closed /\ UNCHANGED phone
  <2>1. p = "user" /\ ~lapsed => phone.state # "PLAYING"
    BY <1>1, <1>5, UserAlone DEF PlayerInv, PhoneStill
  <2>2. MayGo(p, "stopped")
    BY <1>4, <2>1 DEF MayGo, StepPcs, UserPcs, Starting
  <2> QED  BY <1>1, <1>2, <1>5, <2>2, Moves
<1>6. CASE player.sid # 0 /\ (FreshPhone \/ (Matched(player) /\ phone.state \in PlayerTerminal))
           /\ GotoSeeing(p, "settle", phone) /\ UNCHANGED <<phone, lc>>
  <2>1. phone.state # "PLAYING"
    BY <1>6 DEF FreshPhone, PlayerTerminal
  <2>2. proc' = [proc EXCEPT ![p] = seen(phone)]
    BY <1>6 DEF GotoSeeing
  <2> HIDE DEF seen, lost
  <2> QED  BY <1>1, <1>3, <1>6, <2>1, <2>2, StopSees
<1>7. CASE player.sid # 0 /\ Matched(player) /\ phone.state \in Live
           /\ \E clean \in BOOLEAN :
                /\ phone' = [phone EXCEPT !.state = "CANCELLED", !.clean = clean]
                /\ \/ GotoSeeing(p, "settle", phone') /\ UNCHANGED lc
                   \/ Goto(p, "unstopped") /\ lc' = Closed
  <2>1. PICK clean \in BOOLEAN :
          /\ phone' = [phone EXCEPT !.state = "CANCELLED", !.clean = clean]
          /\ \/ GotoSeeing(p, "settle", phone') /\ UNCHANGED lc
             \/ Goto(p, "unstopped") /\ lc' = Closed
    BY <1>7
  <2>2. phone' \in Phones /\ phone'.state # "PLAYING"
    BY <1>1, <2>1 DEF Phones, PlayerTerminal
  <2>3. CASE GotoSeeing(p, "settle", phone') /\ UNCHANGED lc
    <3>1. proc' = [proc EXCEPT ![p] = seen(phone')]
      BY <2>3 DEF GotoSeeing
    <3>2. /\ seen(phone') \in Holders /\ seen(phone').pc = "settle"
          /\ seen(phone').row = proc[p].row /\ seen(phone').op = proc[p].op
      BY <1>1, <2>2 DEF Holders, StepPcs
    <3> HIDE DEF seen
    <3> QED  BY <1>1, <1>7, <2>2, <2>3, <3>1, <3>2, StopSees
  <2>4. CASE Goto(p, "unstopped") /\ lc' = Closed
    <3>1. proc' = [proc EXCEPT ![p] = lost]
      BY <2>4 DEF Goto
    <3>2. /\ lost \in Holders /\ lost.pc = "unstopped"
          /\ lost.row = proc[p].row /\ lost.op = proc[p].op
      BY <1>1 DEF Holders, StepPcs
    <3> HIDE DEF lost
    <3> QED  BY <1>1, <1>2, <1>7, <2>2, <2>4, <3>1, <3>2, StopSees
  <2> QED  BY <2>1, <2>3, <2>4
<1>8. CASE player.sid # 0 /\ Goto(p, "unstopped") /\ lc' = Closed /\ UNCHANGED phone
  <2>1. MayGo(p, "unstopped")
    BY <1>4 DEF MayGo, StepPcs, UserPcs, Starting
  <2> QED  BY <1>1, <1>2, <1>8, <2>1, Moves
<1> QED  BY <1>5, <1>6, <1>7, <1>8 DEF StopCommand

LEMMA StopSettlesSteps ==
  ASSUME PlayerInv, NEW p \in Processes, StopSettles(p)
  PROVE  PlayerInv'
<1> DEFINE s == proc[p].seen
           copy == proc[p].row
           next == [copy EXCEPT !.player = row'.player, !.at = row'.at]
           h == [proc[p] EXCEPT !.pc = "stopped", !.row = next]
<1>1. /\ proc[p].pc = "settle" /\ proc[p].pc # "idle" /\ copy.player.sid # 0
      /\ UNCHANGED <<device, phone, lease, grants, opened, begun, lapsed>>
      /\ proc[p] \in Holders /\ copy \in Rows /\ copy.player \in Players /\ s \in Phones /\ row \in Rows
      /\ lc' \in Lives /\ LifeFits(lc')
  BY Shapes, ClosedFits DEF StopSettles, Kept, PlayerInv, PlayerShape, SessionsNamed
<1>2. p = "step" /\ ~lapsed => row.status = "RUNNING"
  BY <1>1 DEF PlayerInv, StepStatus
<1>3. CASE ~(s.clean /\ Current(p))
  <2>1. Goto(p, "unstopped") /\ UNCHANGED row
    BY <1>3 DEF StopSettles
  <2>2. MayGo(p, "unstopped")
    BY <1>2 DEF MayGo, StepPcs, UserPcs, Starting
  <2> QED  BY <1>1, <2>1, <2>2, Moves
<1>4. CASE s.clean /\ Current(p)
  <2>1. /\ RecordRow(p, s) \/ row' = [row EXCEPT !.player = copy.player]
        /\ GotoHolding(p, "stopped", next)
    BY <1>4 DEF StopSettles
  <2>2. /\ row' \in Rows /\ row'.rev = row.rev /\ row'.status = row.status
        /\ row'.player.sid = copy.player.sid /\ row'.player.started = copy.player.started
    <3>1. CASE RecordRow(p, s)
      BY <1>1, <3>1, RecordFits
    <3>2. CASE row' = [row EXCEPT !.player = copy.player]
      BY <1>1, <3>2 DEF Rows
    <3> QED  BY <2>1, <3>1, <3>2
  <2>3. next \in Rows /\ next.rev = copy.rev /\ next.player = row'.player
    BY <1>1, <2>2 DEF Rows
  <2> HIDE DEF next
  <2>4. /\ h \in Holders /\ proc' = [proc EXCEPT ![p] = h]
        /\ h.pc = "stopped" /\ h.row.rev = copy.rev /\ h.row.player = row'.player
        /\ h.op = proc[p].op
    BY <1>1, <2>1, <2>3 DEF GotoHolding, Holders, StepPcs
  <2> HIDE DEF h
  <2>5. /\ proc'[p] = h
        /\ \A q \in Processes : q # p => proc'[q] = proc[q]
    BY <2>4, Turns
  <2>6. ASSUME ~lapsed PROVE Meaning'
    <3>1. copy.player = row.player /\ \A q \in Processes : q # p => proc[q].pc = "idle"
      BY <1>1, <2>6 DEF PlayerInv, OneAtWork
    <3>2. StartsRecorded'
      BY <1>1, <2>2, <2>4, <2>5, <2>6, <3>1, PlayerBounds DEF PlayerInv, StartsRecorded, Starting
    <3>3. StepStatus'
      BY <1>2, <2>2, <2>4, <2>5, <2>6, <3>1, PlayerBounds DEF StepStatus
    <3>4. PhoneStill' => PhoneStill
      <4>1. CASE p = "step"
        <5>1. proc'["step"].pc = "stopped" /\ proc'["user"].pc = "idle"
          BY <4>1, <2>4, <2>5, <3>1, PlayerBounds
        <5> QED  BY <5>1, <1>1, <2>2, <3>1 DEF PhoneStill
      <4>2. CASE p = "user"
        <5>1. proc'["user"].op = proc["user"].op /\ proc["user"].pc = "settle" /\ proc'["step"].pc = "idle"
          BY <4>2, <1>1, <2>4, <2>5, <3>1, PlayerBounds
        <5> QED  BY <5>1, <1>1, <2>2, <3>1 DEF PhoneStill
      <4> QED  BY <4>1, <4>2, PlayerBounds
    <3> QED  BY <1>1, <2>6, <3>2, <3>3, <3>4 DEF PlayerInv, Meaning
  <2>7. h.pc \in (IF p = "step" THEN StepPcs ELSE UserPcs) /\ h.pc # "idle" /\ h.pc # "settle"
    BY <2>4 DEF StepPcs, UserPcs
  <2>8. row'.player.sid # 0 /\ row'.player.sid = proc[p].row.player.sid /\ h.row.rev = proc[p].row.rev
    BY <1>1, <2>2, <2>4
  <2> QED  BY <1>1, <1>4, <2>2, <2>4, <2>6, <2>7, <2>8, Stores
<1> QED  BY <1>3, <1>4

\* A step or a call begins: it takes the lease and reads the row.
LEMMA Begins ==
  ASSUME PlayerInv, NEW p \in Processes, NEW h \in Holders, proc[p].pc = "idle", lease = "free",
         proc' = [proc EXCEPT ![p] = h], lease' = p, h.row = row,
         \/ /\ p = "step"
            /\ \/ h.pc = "poll" /\ row.status = "ARRIVING"
               \/ h.pc = "identify" /\ row.status = "RUNNING"
         \/ /\ p = "user" /\ h.op \in DOMAIN Allowed
            /\ h.pc = (IF h.op = "start" THEN "ready" ELSE "stop")
            /\ h.op \in {"start", "resume"} => grants < MaxGrants,
         UNCHANGED <<row, device, phone, grants, opened, begun, lapsed>>,
         lc' \in Lives, LifeFits(lc')
  PROVE  PlayerInv'
<1>1. /\ proc' \in [Processes -> Holders] /\ proc'[p] = h
      /\ \A q \in Processes : q # p => proc'[q] = proc[q]
  BY Turns
<1>2. h.pc # "idle" /\ h.pc \notin Starting \cup {"status", "own_beat", "beat", "record", "settle"}
  BY DEF Starting
<1>3. PlayerShape'
  BY <1>1, PlayerBounds DEF PlayerInv, PlayerShape, StepPcs, UserPcs
<1>4. CopiesFit'
  <2>1. row.rev \in Nat /\ row.player.sid <= opened
    BY Shapes DEF PlayerInv, GrantsCover
  <2> QED  BY <1>1, <2>1 DEF PlayerInv, CopiesFit, Current
<1>5. SessionsNamed'
  BY <1>1, <1>2, PlayerBounds DEF PlayerInv, SessionsNamed
<1>6. GrantsCover'
  BY <1>1, PlayerBounds DEF PlayerInv, GrantsCover
<1>7. ASSUME ~lapsed PROVE OneAtWork' /\ Meaning'
  <2>1. \A q \in Processes : proc[q].pc = "idle"
    BY <1>7, PlayerBounds DEF PlayerInv, OneAtWork
  <2>2. OneAtWork'
    BY <1>1, <2>1 DEF OneAtWork, Current
  <2>3. StartsRecorded'
    BY <1>1, <1>2, <1>7, PlayerBounds DEF PlayerInv, StartsRecorded
  <2>4. StepStatus'
    BY <1>1, <2>1, PlayerBounds DEF StepStatus
  <2>5. PhoneStill' => phone'.state # "PLAYING"
    <3>1. PhoneStill => phone.state # "PLAYING"
      BY <1>7 DEF PlayerInv
    <3>2. CASE p = "step"
      <4>1. proc'["step"].pc = h.pc /\ proc'["user"].pc = "idle"
        BY <3>2, <1>1, <2>1, PlayerBounds
      <4> QED  BY <4>1, <3>1, <3>2 DEF PhoneStill
    <3>3. CASE p = "user"
      <4>1. proc'["user"] = h /\ proc'["step"].pc = "idle"
        BY <3>3, <1>1, <2>1, PlayerBounds
      <4> QED  BY <4>1, <3>1, <3>3 DEF PhoneStill
    <3> QED  BY <3>2, <3>3, PlayerBounds
  <2> QED  BY <2>2, <2>3, <2>4, <2>5 DEF Meaning
<1> QED  BY <1>3, <1>4, <1>5, <1>6, <1>7 DEF PlayerInv, Meaning

LEMMA StepBeginsSteps == PlayerInv /\ StepBegins => PlayerInv'
<1> SUFFICES ASSUME PlayerInv, StepBegins PROVE PlayerInv'
  OBVIOUS
<1> DEFINE w == IF row.status = "ARRIVING" THEN "poll" ELSE "identify"
           h == [proc["step"] EXCEPT !.pc = w, !.row = row]
<1>1. /\ "step" \in Processes /\ proc["step"] \in Holders /\ row \in Rows
      /\ lc' \in Lives /\ LifeFits(lc')
  BY Shapes, PlayerBounds DEF PlayerInv, PlayerShape, StepBegins
<1>2. /\ w \in StepPcs /\ row.status \in {"RUNNING", "ARRIVING"}
      /\ w = (IF row.status = "ARRIVING" THEN "poll" ELSE "identify")
  BY DEF StepBegins, StepPcs
<1>3. GotoHolding("step", w, row) /\ lease' = "step"
  BY DEF StepBegins
<1> HIDE DEF w
<1>4. h \in Holders /\ h.pc = w /\ h.row = row /\ proc' = [proc EXCEPT !["step"] = h]
  BY <1>1, <1>2, <1>3 DEF GotoHolding, Holders
<1> HIDE DEF h
<1>5. /\ proc["step"].pc = "idle" /\ lease = "free"
      /\ UNCHANGED <<row, device, phone, grants, opened, begun, lapsed>>
  BY DEF StepBegins, Kept
<1>6. \/ h.pc = "poll" /\ row.status = "ARRIVING"
      \/ h.pc = "identify" /\ row.status = "RUNNING"
  BY <1>2, <1>4
<1> QED  BY <1>1, <1>3, <1>4, <1>5, <1>6, Begins

LEMMA UserBeginsSteps ==
  ASSUME PlayerInv, NEW o \in DOMAIN Allowed, UserBegins(o)
  PROVE  PlayerInv'
<1> DEFINE w == IF o = "start" THEN "ready" ELSE "stop"
           h == [Idle EXCEPT !.pc = w, !.row = row, !.op = o]
<1>1. "user" \in Processes /\ Idle \in Holders /\ row \in Rows /\ w \in UserPcs
  BY IdleFits, PlayerBounds DEF PlayerInv, PlayerShape, UserPcs
<1>2. lc' \in Lives /\ LifeFits(lc')
  <2>1. lc' \in {Pause(lc), Cancel(lc, "settled"), lc}
    BY DEF UserBegins
  <2> QED  BY <2>1, LifecycleMoves DEF PlayerInv, PlayerShape
<1>3. /\ proc["user"].pc = "idle" /\ lease = "free" /\ lease' = "user"
      /\ o \in {"start", "resume"} => grants < MaxGrants
      /\ UNCHANGED <<row, device, phone, grants, opened, begun, lapsed>>
      /\ proc' = [proc EXCEPT !["user"] = h]
  BY DEF UserBegins
<1>4. h \in Holders /\ h.pc = w /\ h.row = row /\ h.op = o
  BY <1>1 DEF Holders
<1> HIDE DEF h
<1> QED  BY <1>1, <1>2, <1>3, <1>4, Begins

\* A call that ends without a change.
LEMMA UserGivesUp ==
  ASSUME PlayerInv, proc["user"].pc # "idle", Leave("user"),
         UNCHANGED <<row, device, phone, lc, grants, opened, begun, lapsed>>
  PROVE  PlayerInv'
<1>1. ASSUME ~lapsed PROVE Meaning'
  <2>1. proc' = [proc EXCEPT !["user"] = Idle] /\ Idle \in Holders /\ Idle.pc = "idle"
    BY IdleFits DEF Leave
  <2>2. proc'["user"].pc = "idle" /\ proc'["step"] = proc["step"]
    BY <2>1, Turns, PlayerBounds
  <2> QED  BY <1>1, <2>2 DEF PlayerInv, Meaning, StartsRecorded, StepStatus, PhoneStill
<1>2. /\ "user" \in Processes /\ row' \in Rows /\ grants' \in grants..MaxGrants
      /\ device' \in [claimed : BOOLEAN, active : BOOLEAN] /\ lc' \in Lives /\ LifeFits(lc')
  BY Shapes, PlayerBounds DEF PlayerInv, PlayerShape
<1> QED  BY <1>1, <1>2, Leaves

LEMMA UserStoppedSteps == PlayerInv /\ UserStopped => PlayerInv'
<1> SUFFICES ASSUME PlayerInv, UserStopped PROVE PlayerInv'
  OBVIOUS
<1>1. /\ proc["user"].pc \in {"stopped", "unstopped"} /\ "user" \in Processes
      /\ UNCHANGED <<row, device, phone, lc, grants, opened, begun, lapsed>>
      /\ lc' \in Lives /\ LifeFits(lc')
  BY PlayerBounds DEF UserStopped, Kept, PlayerInv, PlayerShape
<1>2. CASE proc["user"].pc = "unstopped"
  BY <1>1, <1>2, UserGivesUp DEF UserStopped
<1>3. CASE proc["user"].pc = "stopped"
  <2>1. PICK w \in {"ready", "own"} : Goto("user", w) /\ UNCHANGED lease
    BY <1>3 DEF UserStopped
  <2>2. MayGo("user", w)
    BY <1>3 DEF MayGo, UserPcs, Starting, PlayerInv, PhoneStill
  <2> QED  BY <1>1, <2>1, <2>2, Moves
<1> QED  BY <1>1, <1>2, <1>3

LEMMA ReadySteps == PlayerInv /\ (Ready \/ UserOwns) => PlayerInv'
<1> SUFFICES ASSUME PlayerInv, Ready \/ UserOwns PROVE PlayerInv'
  OBVIOUS
<1>1. /\ proc["user"].pc \in {"ready", "own"} /\ "user" \in Processes
      /\ UNCHANGED <<row, device, phone, lc, grants, opened, begun, lapsed>>
      /\ lc' \in Lives /\ LifeFits(lc')
      /\ \/ Leave("user")
         \/ \E w \in {"own", "commit"} : Goto("user", w) /\ UNCHANGED lease
  BY PlayerBounds DEF Ready, UserOwns, Kept, PlayerInv, PlayerShape
<1>2. CASE Leave("user")
  BY <1>1, <1>2, UserGivesUp
<1>3. CASE \E w \in {"own", "commit"} : Goto("user", w) /\ UNCHANGED lease
  <2>1. PICK w \in {"own", "commit"} : Goto("user", w) /\ UNCHANGED lease
    BY <1>3
  <2>2. MayGo("user", w)
    BY <1>1 DEF MayGo, UserPcs, Starting, PlayerInv, PhoneStill
  <2> QED  BY <1>1, <2>1, <2>2, Moves
<1> QED  BY <1>1, <1>2, <1>3

LEMMA UserCommitsSteps == PlayerInv /\ UserCommits => PlayerInv'
<1> SUFFICES ASSUME PlayerInv, UserCommits PROVE PlayerInv'
  OBVIOUS
<1> DEFINE op == proc["user"].op
           moves == op \in {"start", "resume"}
           taken == /\ Current("user") /\ row.status = proc["user"].row.status
                    /\ op = "start" => ~device.claimed
                    /\ op = "resume" => device.claimed
           held == op # "cancel" /\ (device.claimed \/ op = "start")
           player == IF op = "resume" THEN NoPlayer ELSE row.player
<1>1. /\ proc["user"].pc = "commit" /\ proc["user"].pc # "idle" /\ "user" \in Processes
      /\ Leave("user") /\ UNCHANGED <<phone, lc, opened, begun, lapsed>>
      /\ lc' \in Lives /\ LifeFits(lc') /\ row \in Rows /\ device \in [claimed : BOOLEAN, active : BOOLEAN]
      /\ op \in {"start", "pause", "resume", "cancel"}
  BY PlayerBounds DEF UserCommits, PlayerInv, PlayerShape
<1>2. CASE ~taken
  <2>1. UNCHANGED <<row, device, grants>>
    BY <1>2 DEF UserCommits
  <2> QED  BY <1>1, <2>1, UserGivesUp
<1>3. CASE taken
  <2>1. /\ row' = [row EXCEPT !.status = Becomes[op], !.rev = @ + 1, !.player = player]
        /\ device' = [claimed |-> held, active |-> moves]
        /\ grants' = IF moves THEN grants + 1 ELSE grants
    <3>1. /\ row' = [row EXCEPT !.status = Becomes[op], !.rev = @ + 1,
                                !.player = IF op = "resume" THEN NoPlayer ELSE @]
          /\ device' = [claimed |-> held, active |-> moves]
          /\ grants' = IF moves THEN grants + 1 ELSE grants
      BY <1>3 DEF UserCommits
    <3> QED  BY <3>1, <1>1 DEF Rows
  <2>2. held \in BOOLEAN /\ moves \in BOOLEAN
    BY <1>1
  <2>3. player \in Players /\ player.sid \in {0, row.player.sid}
        /\ (op # "resume" => player = row.player)
    BY <1>1, IdleFits, Shapes
  <2>4. Becomes[op] \in {"RUNNING", "PAUSED", "CANCELLED"} /\ (Becomes[op] = "RUNNING" <=> moves)
    BY <1>1 DEF Becomes
  <2>5. device' \in [claimed : BOOLEAN, active : BOOLEAN]
    <3> HIDE DEF held, moves
    <3> QED  BY <2>1, <2>2
  <2>6. grants' \in grants..MaxGrants /\ (moves => grants < grants')
    BY <1>1, <2>1, Shapes, PlayerBounds DEF PlayerInv, GrantsCover
  <2> HIDE DEF player
  <2>7. /\ row' \in Rows /\ row'.rev = row.rev + 1 /\ row'.player = player /\ row'.status = Becomes[op]
    <3> DEFINE n == row.rev + 1
               next == Becomes[op]
    <3>1. row' = [row EXCEPT !.status = next, !.rev = n, !.player = player]
      BY <1>1, <2>1 DEF Rows
    <3>2. n \in Nat /\ n = row.rev + 1
      BY Shapes
    <3>3. next \in {"RUNNING", "PAUSED", "CANCELLED"}
      BY <2>4
    <3> HIDE DEF n, next
    <3>4. row' \in Rows /\ row'.rev = n /\ row'.player = player /\ row'.status = next
      BY <1>1, <2>3, <3>1, <3>2, <3>3 DEF Rows
    <3> QED  BY <3>2, <3>4 DEF next
  <2>8. ASSUME ~lapsed PROVE Meaning'
    <3>1. proc["step"].pc = "idle"
      BY <1>1, <2>8, UserAlone
    <3>2. proc'["user"].pc = "idle" /\ proc'["step"].pc = "idle"
      <4>1. proc' = [proc EXCEPT !["user"] = Idle] /\ Idle \in Holders /\ Idle.pc = "idle"
        BY <1>1, IdleFits DEF Leave
      <4> QED  BY <3>1, <4>1, Turns, PlayerBounds
    <3>3. StartsRecorded'
      <4>1. player.sid = 0 \/ player = row.player
        BY <1>1, <2>3, IdleFits DEF player
      <4> QED  BY <1>1, <2>7, <2>8, <3>2, <4>1 DEF PlayerInv, StartsRecorded, Starting
    <3>4. StepStatus'
      BY <3>2 DEF StepStatus
    <3>5. PhoneStill' => phone'.state # "PLAYING"
      <4>1. PhoneStill => phone.state # "PLAYING"
        BY <2>8 DEF PlayerInv
      <4>2. CASE op # "start"
        BY <1>1, <4>1, <4>2 DEF PhoneStill
      <4>3. CASE op = "start"
        <5>1. row'.status = "RUNNING" /\ row'.player = row.player
          BY <2>3, <2>7, <4>3 DEF Becomes
        <5> QED  BY <1>1, <3>2, <4>1, <5>1 DEF PhoneStill
      <4> QED  BY <4>2, <4>3
    <3> QED  BY <3>3, <3>4, <3>5 DEF Meaning
  <2>9. row'.status = "RUNNING" => grants < grants'
    BY <2>4, <2>6, <2>7
  <2>10. row'.rev = row.rev + 1 /\ row'.player.sid \in {0, row.player.sid}
    BY <2>3, <2>7
  <2> QED  BY <1>1, <2>5, <2>6, <2>7, <2>8, <2>9, <2>10, Leaves
<1> QED  BY <1>2, <1>3

\* The phone plays on, stops or restarts, and time passes: nothing starts it.
LEMMA PhoneSteps ==
  ASSUME PlayerInv, phone' \in Phones, phone'.state = "PLAYING" => phone.state = "PLAYING",
         lc' \in Lives, LifeFits(lc'),
         UNCHANGED <<row, device, lease, proc, grants, opened, begun, lapsed>>
  PROVE  PlayerInv'
<1>1. PlayerShape'
  BY DEF PlayerInv, PlayerShape
<1>2. CopiesFit' /\ SessionsNamed' /\ GrantsCover'
  BY DEF PlayerInv, CopiesFit, SessionsNamed, GrantsCover, Current
<1>3. ~lapsed => OneAtWork' /\ StartsRecorded' /\ StepStatus'
  BY DEF PlayerInv, OneAtWork, StartsRecorded, StepStatus, Current
<1>4. ~lapsed => (PhoneStill' => phone'.state # "PLAYING")
  BY DEF PlayerInv, PhoneStill
<1> QED  BY <1>1, <1>2, <1>3, <1>4 DEF PlayerInv

\* A pause or a cancel that leaves nothing but a stage behind.
LEMMA UserUnrecordedSteps ==
  ASSUME PlayerInv, NEW o \in DOMAIN Allowed, UserUnrecorded(o)
  PROVE  PlayerInv'
<1>1. PlayerShape /\ phone \in Phones
  BY DEF PlayerInv, PlayerShape
<1>2. lc' \in Lives /\ LifeFits(lc')
  <2>1. \/ lc' = Pause(lc)
        \/ lc.open /\ lc' = Cancelled(lc)
        \/ lc' = Cancel(lc, "fails_before")
    BY DEF UserUnrecorded
  <2> QED  BY <1>1, <2>1, LifecycleMoves
<1>3. UNCHANGED <<row, device, phone, lease, proc, grants, opened, begun, lapsed>>
  BY DEF UserUnrecorded
<1> QED  BY <1>1, <1>2, <1>3, PhoneSteps

LEMMA WorldSteps ==
  PlayerInv /\ (Plays \/ Expires \/ WindowPasses \/ PhoneRestarts \/ UNCHANGED vars) => PlayerInv'
<1>1. ASSUME PlayerInv
      PROVE  phone \in Phones /\ phone.inst \in Nat /\ lc \in Lives /\ LifeFits(lc)
  BY <1>1 DEF PlayerInv, PlayerShape, Phones
<1>2. ASSUME PlayerInv, Plays PROVE PlayerInv'
  <2>1. phone' \in Phones
    <3>1. CASE phone.pos < LastSample
      <4>1. phone' = [phone EXCEPT !.pos = phone.pos + 1]
        BY <1>1, <1>2, <3>1 DEF Plays, Phones
      <4>2. phone.pos + 1 \in {Never} \cup 0..LastSample
        BY <1>1, <1>2, <3>1, PlayerBounds, Clocks DEF Phones
      <4> QED  BY <1>1, <1>2, <4>1, <4>2 DEF Phones
    <3>2. CASE ~(phone.pos < LastSample)
      BY <1>1, <1>2, <3>2 DEF Plays, Phones, PlayerTerminal
    <3> QED  BY <3>1, <3>2
  <2> QED  BY <1>1, <1>2, <2>1, PhoneSteps DEF Plays
<1>3. ASSUME PlayerInv, Expires PROVE PlayerInv'
  <2>1. phone' \in Phones /\ phone'.state # "PLAYING"
    BY <1>1, <1>3 DEF Expires, Phones, PlayerTerminal
  <2> QED  BY <1>1, <1>3, <2>1, PhoneSteps DEF Expires
<1>4. ASSUME PlayerInv, WindowPasses PROVE PlayerInv'
  <2>1. lc' \in Lives /\ LifeFits(lc')
    BY <1>1, <1>4, WaitsOn DEF WindowPasses
  <2> QED  BY <1>1, <1>4, <2>1, PhoneSteps DEF WindowPasses
<1>5. ASSUME PlayerInv, PhoneRestarts PROVE PlayerInv'
  <2>1. phone' \in Phones /\ phone'.state # "PLAYING"
    BY <1>1, <1>5, PlayerBounds, Clocks DEF PhoneRestarts, Phones
  <2> QED  BY <1>1, <1>5, <2>1, PhoneSteps DEF PhoneRestarts
<1>6. ASSUME PlayerInv, UNCHANGED vars PROVE PlayerInv'
  BY <1>1, <1>6, PhoneSteps DEF vars
<1> QED  BY <1>2, <1>3, <1>4, <1>5, <1>6

\* From a lapsed lease on, only the bounds on the sessions are kept.
LEMMA LapseSteps == PlayerInv /\ LeaseLapses => PlayerInv'
<1> SUFFICES ASSUME PlayerInv, LeaseLapses PROVE PlayerInv'
  OBVIOUS
<1>1. /\ lease' = "free" /\ lapsed' = TRUE
      /\ UNCHANGED <<row, device, phone, lc, proc, grants, opened, begun>>
  BY DEF LeaseLapses
<1>2. PlayerShape'
  BY <1>1 DEF PlayerInv, PlayerShape
<1>3. CopiesFit' /\ SessionsNamed' /\ GrantsCover'
  BY <1>1 DEF PlayerInv, CopiesFit, SessionsNamed, GrantsCover, Current
<1> QED  BY <1>1, <1>2, <1>3 DEF PlayerInv

LEMMA RestartSteps == PlayerInv /\ Restarts => PlayerInv'
<1> SUFFICES ASSUME PlayerInv, Restarts PROVE PlayerInv'
  OBVIOUS
<1>1. /\ lease' = "free" /\ lc' = Closed /\ UNCHANGED <<phone, grants, opened, begun, lapsed>>
      /\ proc' = [p \in Processes |-> Idle]
      /\ row \in Rows /\ row.rev \in Nat /\ device \in [claimed : BOOLEAN, active : BOOLEAN]
  BY Shapes DEF Restarts, PlayerInv, PlayerShape
<1>2. \A p \in Processes : proc'[p] = Idle
  BY <1>1
<1>3. /\ proc' \in [Processes -> Holders]
      /\ proc'["step"].pc = "idle" /\ proc'["user"].pc = "idle"
      /\ \A p \in Processes :
           proc'[p].pc = "idle" /\ proc'[p].row.rev = 0 /\ proc'[p].row.player.sid = 0
  BY <1>1, <1>2, IdleFits, PlayerBounds
<1>4. /\ row' \in Rows /\ row'.rev >= 0 /\ row'.player = row.player
      /\ row'.status = row.status \/ row'.status = "PAUSED"
  <2>1. CASE row.status \in {"RUNNING", "ARRIVING"}
    <3> DEFINE n == row.rev + 1
    <3>1. row' = [row EXCEPT !.status = "PAUSED", !.rev = n]
      BY <1>1, <2>1 DEF Restarts, Rows
    <3>2. n \in Nat /\ n >= 0
      BY <1>1
    <3> HIDE DEF n
    <3> QED  BY <1>1, <3>1, <3>2 DEF Rows
  <2>2. CASE row.status \notin {"RUNNING", "ARRIVING"}
    BY <1>1, <2>2 DEF Restarts
  <2> QED  BY <2>1, <2>2
<1>5. device' \in [claimed : BOOLEAN, active : BOOLEAN]
  <2>1. device' \in {device, [device EXCEPT !.active = FALSE]}
    BY DEF Restarts
  <2> QED  BY <1>1, <2>1
<1>6. PlayerShape'
  BY <1>1, <1>3, <1>4, <1>5, ClosedFits, PlayerBounds DEF PlayerInv, PlayerShape, StepPcs, UserPcs
<1>7. CopiesFit'
  BY <1>1, <1>3, <1>4, Shapes DEF CopiesFit
<1>8. SessionsNamed'
  BY <1>3 DEF SessionsNamed, Starting
<1>9. GrantsCover'
  BY <1>1, <1>3, <1>4 DEF PlayerInv, GrantsCover
<1>10. ASSUME ~lapsed
       PROVE  OneAtWork' /\ StartsRecorded' /\ StepStatus' /\ (PhoneStill' => phone'.state # "PLAYING")
  <2>1. OneAtWork' /\ StepStatus'
    BY <1>3 DEF OneAtWork, StepStatus
  <2>2. StartsRecorded'
    BY <1>1, <1>3, <1>4, <1>10 DEF PlayerInv, StartsRecorded, Starting
  <2>3. PhoneStill' => phone'.state # "PLAYING"
    BY <1>1, <1>3, <1>4, <1>10 DEF PlayerInv, PhoneStill
  <2> QED  BY <2>1, <2>2, <2>3
<1> QED  BY <1>1, <1>6, <1>7, <1>8, <1>9, <1>10 DEF PlayerInv

LEMMA PlayerStarts == Init => PlayerInv
<1> SUFFICES ASSUME Init PROVE PlayerInv
  OBVIOUS
<1>1. /\ row = NewRow /\ phone = NewPhone /\ lc = Closed /\ lease = "free"
      /\ device = [claimed |-> FALSE, active |-> FALSE]
      /\ proc = [p \in Processes |-> Idle] /\ grants = 0 /\ opened = 0
      /\ begun = [s \in Sessions |-> 0] /\ lapsed = FALSE
  BY DEF Init
<1>2. /\ proc \in [Processes -> Holders] /\ \A p \in Processes : proc[p] = Idle
      /\ proc["step"] = Idle /\ proc["user"] = Idle
  BY <1>1, IdleFits, PlayerBounds
<1>3. begun \in [Sessions -> Nat] /\ \A s \in Sessions : begun[s] = 0
  BY <1>1
<1>4. phone.state = "IDLE"
  BY <1>1 DEF NewPhone
<1>5. PlayerShape
  <2>1. grants \in 0..MaxGrants /\ opened \in 0..grants
    BY <1>1, PlayerBounds
  <2>2. row \in Rows /\ phone \in Phones /\ lc \in Lives /\ LifeFits(lc)
    BY <1>1, IdleFits, ClosedFits
  <2>3. proc["step"].pc = "idle" /\ proc["user"].pc = "idle"
    BY <1>2, IdleFits
  <2> QED  BY <1>1, <1>2, <1>3, <2>1, <2>2, <2>3 DEF PlayerShape, StepPcs, UserPcs
<1>6. CopiesFit /\ SessionsNamed /\ GrantsCover
  BY <1>1, <1>2, <1>3, IdleFits, PlayerBounds DEF CopiesFit, SessionsNamed, GrantsCover, Starting
<1>7. OneAtWork /\ StartsRecorded /\ StepStatus
  BY <1>1, <1>2, <1>3, IdleFits DEF OneAtWork, StartsRecorded, StepStatus, Starting
<1> QED  BY <1>4, <1>5, <1>6, <1>7 DEF PlayerInv

LEMMA PlayerSteps == PlayerInv /\ [Next]_vars => PlayerInv'
<1> SUFFICES ASSUME PlayerInv, [Next]_vars PROVE PlayerInv'
  OBVIOUS
<1>1. CASE Step
  <2>1. {"own_prepare", "own_start", "own_beat"} \subseteq StepPcs /\ "step" \in Processes
    BY PlayerBounds DEF StepPcs, Starting
  <2> QED
    BY <1>1, <2>1, StepBeginsSteps, PollSteps, IdentifySteps, StatusSteps, OwnsSteps, PrepareSteps,
       StoreStartedSteps, StartPlayingSteps, HeartbeatSteps, RecordSteps, FinishSteps, ArrivedSteps,
       CatchSteps, FailureSteps, StopCommandSteps, StopSettlesSteps DEF Step
<1>2. CASE User
  <2>1. "user" \in Processes
    BY PlayerBounds
  <2> QED
    BY <1>2, <2>1, UserBeginsSteps, UserUnrecordedSteps, UserStoppedSteps, ReadySteps, UserCommitsSteps,
       StopCommandSteps, StopSettlesSteps DEF User
<1>3. CASE LeaseLapses \/ Restarts \/ StoreUnavailable
  BY <1>3, LapseSteps, RestartSteps, FailureSteps
<1>4. CASE Plays \/ Expires \/ WindowPasses \/ PhoneRestarts \/ UNCHANGED vars
  BY <1>4, WorldSteps
<1> QED  BY <1>1, <1>2, <1>3, <1>4 DEF Next

LEMMA PlayerTypes == PlayerInv => TypeOK
<1> SUFFICES ASSUME PlayerInv PROVE TypeOK
  OBVIOUS
<1>1. row.player \in Players /\ row \in Rows /\ phone \in Phones /\ lc \in Lives
  BY Shapes DEF PlayerInv, PlayerShape
<1>2. row.player.sid \in {0} \cup Sessions
  BY <1>1 DEF Players
<1>3. phone.state \in {"IDLE"} \cup Live \cup PlayerTerminal /\ phone.sid \in {0} \cup Sessions
  BY <1>1 DEF Phones
<1> QED  BY <1>1, <1>2, <1>3, LivesTyped DEF TypeOK, Rows, PlayerInv, PlayerShape

LEMMA StillFollows == PlayerInv => ReleasedPhoneIsStill
BY DEF PlayerInv, ReleasedPhoneIsStill, PhoneStill

LEMMA PlaysFollow == PlayerInv => PlaysArePermitted
<1> SUFFICES ASSUME PlayerInv PROVE PlaysArePermitted
  OBVIOUS
<1> DEFINE played == {s \in Sessions : begun[s] > 0}
<1>1. opened \in Nat /\ grants \in Nat /\ opened <= grants
  BY Shapes
<1>2. played \subseteq 1..opened
  BY <1>1, PlayerBounds DEF PlayerInv, GrantsCover
<1>3. IsFiniteSet(1..opened) /\ Cardinality(1..opened) = opened
  <2>1. 1 \in Int /\ opened \in Int
    BY <1>1
  <2>2. IsFiniteSet(1..opened) /\ Cardinality(1..opened) = IF 1 > opened THEN 0 ELSE opened - 1 + 1
    BY <2>1, FS_Interval
  <2> QED  BY <1>1, <2>2
<1>4. IsFiniteSet(played) /\ Cardinality(played) <= opened
  BY <1>2, <1>3, FS_Subset
<1>5. Cardinality(played) \in Nat
  BY <1>4, FS_CardinalityType
<1>6. Cardinality(played) <= grants
  BY <1>1, <1>4, <1>5
<1>7. ~lapsed => \A s \in Sessions : begun[s] <= 1
  BY DEF PlayerInv, StartsRecorded
<1> QED  BY <1>6, <1>7 DEF PlaysArePermitted

\* The phone begins to play a session at most once, and plays at most one
\* session per start or resume of the user (playerRunner.ts, startSession;
\* service.ts, startTrip and resumeTrip): for any plan, and any number of calls,
\* lost answers, restarts and lapsed leases.
THEOREM PlaysPermitted == Spec => []PlaysArePermitted
<1>1. Init => PlayerInv
  BY PlayerStarts
<1>2. PlayerInv /\ [Next]_vars => PlayerInv'
  BY PlayerSteps
<1>3. PlayerInv => PlaysArePermitted
  BY PlaysFollow
<1> QED  BY <1>1, <1>2, <1>3, PTL DEF Spec

\* A phone that is let go is still, and its receiver settled (finishPlayerArrival
\* and stopPlayerTrip of playerRunner.ts, tick of lifecycle.ts): the two parts of
\* the run, each with the other one idle.
THEOREM ReleaseSafety == MCSpec => []ReleaseIsSafe
<1> DEFINE Both == PlayerInv /\ ArrivalInv
<1>1. MCInit => Both
  BY PlayerStarts, ArrivalStarts DEF MCInit
<1>2. Both /\ [MCNext]_<<part, vars, arrivalVars>> => Both'
  <2> SUFFICES ASSUME Both, [MCNext]_<<part, vars, arrivalVars>> PROVE Both'
    OBVIOUS
  <2>1. [Next]_vars /\ [ArrivalNext]_arrivalVars
    BY DEF MCNext
  <2> QED  BY <2>1, PlayerSteps, ArrivalSteps
<1>3. Both => ReleaseIsSafe
  BY PlayerTypes, StillFollows, ReleaseFollows DEF ReleaseIsSafe, ArrivalInv
<1> QED  BY <1>1, <1>2, <1>3, PTL DEF MCSpec
=============================================================================
