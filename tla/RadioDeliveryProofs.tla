------------------------- MODULE RadioDeliveryProofs -------------------------
(***************************************************************************)
(* The radio of a trip and the way to the player apps, for every value of  *)
(* the constants, module by module and then of their composition.          *)
(* First the lease: types, the fencing order and the compare-and-delete    *)
(* release, for any number of calls.  Then the delivery under it: types,   *)
(* what deliver() reports, which sequences are written, and what an        *)
(* expired worker can still do to the phone.                               *)
(***************************************************************************)
EXTENDS RadioAndPlayers,
        FiniteSetTheorems, SequenceTheorems, NaturalsInduction, WellFoundedInduction, TLAPS

\* What makes FencedClearance inductive: before its INCR answers a call has
\* no epoch, so a call that takes the key numbers itself above everyone who
\* was ever cleared; and the counter is never below an epoch handed out.
NotNumberedBeforeIncr ==
  \A a \in Attempts :
    pc[a] \in {"idle", "set", "waiting", "incr"} \/ a \in lateSet => epoch[a] = 0

NumberedWhenCleared ==
  \A a \in Attempts :
    /\ pc[a] = "work" => epoch[a] # 0
    /\ cleared[a] => pc[a] = "work"

CounterAbove == \A a \in Attempts : epoch[a] <= epochKey

LateSetIsDone == \A a \in lateSet : pc[a] = "done"

IInv ==
  /\ TypeOK
  /\ NotNumberedBeforeIncr
  /\ NumberedWhenCleared
  /\ CounterAbove
  /\ LateSetIsDone
  /\ FencedClearance

LEMMA InitIInv == Init => IInv
BY NoTokenAssumption
   DEF Init, IInv, TypeOK, Places, NotNumberedBeforeIncr, NumberedWhenCleared,
       CounterAbove, LateSetIsDone, FencedClearance

\* One step preserves the types.
LEMMA TypeStep == TypeOK /\ [Next]_leaseVars => TypeOK'
<1> SUFFICES ASSUME TypeOK, [Next]_leaseVars PROVE TypeOK'
  OBVIOUS
<1> USE DEF TypeOK, Places, redisVars, callVars, Goto
<1>1. CASE UNCHANGED leaseVars
  BY <1>1 DEF leaseVars
<1>2. CASE Expire
  BY <1>2 DEF Expire
<1>3. ASSUME NEW a \in Attempts, Start(a) \/ SetRefused(a) \/ Retry(a) \/ GiveUp(a)
      PROVE TypeOK'
  BY <1>3 DEF Start, SetRefused, Retry, GiveUp
<1>4. ASSUME NEW a \in Attempts, SetGranted(a) \/ SetTimesOut(a) \/ LateSetExecutes(a)
      PROVE TypeOK'
  BY <1>4 DEF SetGranted, SetTimesOut, LateSetExecutes
<1>5. ASSUME NEW a \in Attempts, IncrAnswered(a) \/ IncrFails(a)
      PROVE TypeOK'
  BY <1>5 DEF IncrAnswered, IncrFails
<1>6. ASSUME NEW a \in Attempts,
             AssertOwned(a) \/ AssertFails(a) \/ RenewalFails(a) \/ Write(a) \/ WorkEnds(a)
      PROVE TypeOK'
  BY <1>6 DEF AssertOwned, AssertFails, RenewalFails, Write, WorkEnds
<1>7. ASSUME NEW a \in Attempts, Release(a) \/ ReleaseTimesOut(a) \/ LateReleaseExecutes(a)
      PROVE TypeOK'
  BY <1>7 DEF Release, ReleaseTimesOut, LateReleaseExecutes, Released
<1>8. ASSUME NEW a \in Attempts, CommandDropped(a) \/ Crash(a)
      PROVE TypeOK'
  BY <1>8 DEF CommandDropped, Crash
<1>9. QED
  BY <1>1, <1>2, <1>3, <1>4, <1>5, <1>6, <1>7, <1>8 DEF Next, LeaseStep

(* The lease state is well typed in every reachable state.                 *)
THEOREM TypeCorrect == Spec => []TypeOK
<1>1. Init => TypeOK
  BY InitIInv DEF IInv
<1>2. QED
  BY <1>1, TypeStep, PTL DEF Spec

\* One step preserves the fencing invariant.
LEMMA IInvStep == IInv /\ [Next]_leaseVars => IInv'
<1> SUFFICES ASSUME IInv, [Next]_leaseVars PROVE IInv'
  OBVIOUS
<1>0. TypeOK /\ TypeOK'
  BY TypeStep DEF IInv
<1> USE <1>0 DEF IInv, TypeOK, Places, redisVars, callVars, Goto,
    NotNumberedBeforeIncr, NumberedWhenCleared, CounterAbove, LateSetIsDone,
    FencedClearance
<1>1. CASE UNCHANGED leaseVars
  BY <1>1 DEF leaseVars
<1>2. CASE Expire
  BY <1>2, NoTokenAssumption DEF Expire
<1>3. ASSUME NEW a \in Attempts, Start(a) \/ SetRefused(a) \/ Retry(a) \/ GiveUp(a)
      PROVE IInv'
  BY <1>3 DEF Start, SetRefused, Retry, GiveUp
<1>4. ASSUME NEW a \in Attempts, SetGranted(a)
      PROVE IInv'
  BY <1>4 DEF SetGranted
<1>5. ASSUME NEW a \in Attempts, SetTimesOut(a)
      PROVE IInv'
  BY <1>5 DEF SetTimesOut
<1>6. ASSUME NEW a \in Attempts, LateSetExecutes(a)
      PROVE IInv'
  BY <1>6 DEF LateSetExecutes
<1>7. ASSUME NEW a \in Attempts, IncrAnswered(a)
      PROVE IInv'
  <2>1. epoch'[a] = epochKey + 1 /\ epochKey' = epochKey + 1
    BY <1>7 DEF IncrAnswered
  <2>2. \A b \in Attempts : b # a => epoch'[b] = epoch[b]
    BY <1>7 DEF IncrAnswered
  <2>3. \A b \in Attempts : epoch[b] < epochKey + 1
    OBVIOUS
  <2>4. cleared' = cleared /\ holder' = holder /\ lateSet' = lateSet /\ ~cleared[a]
    BY <1>7 DEF IncrAnswered
  <2>5. FencedClearance'
    BY <2>1, <2>2, <2>3, <2>4
  <2>6. NotNumberedBeforeIncr' /\ NumberedWhenCleared' /\ LateSetIsDone'
    BY <1>7, <2>1, <2>2, <2>4 DEF IncrAnswered
  <2>7. CounterAbove'
    BY <2>1, <2>2, <2>3
  <2>8. QED
    BY <2>5, <2>6, <2>7
<1>8. ASSUME NEW a \in Attempts, IncrFails(a)
      PROVE IInv'
  BY <1>8 DEF IncrFails
<1>9. ASSUME NEW a \in Attempts, AssertOwned(a)
      PROVE IInv'
  <2>1. holder = a /\ holder' = holder /\ epoch' = epoch /\ pc' = pc
    BY <1>9 DEF AssertOwned, Owns
  <2>2. \A b \in Attempts : b # a => cleared'[b] = cleared[b]
    BY <1>9 DEF AssertOwned
  <2>3. FencedClearance'
    BY <2>1, <2>2
  <2>4. NumberedWhenCleared' /\ NotNumberedBeforeIncr' /\ CounterAbove' /\ LateSetIsDone'
    BY <1>9, <2>1, <2>2 DEF AssertOwned
  <2>5. QED
    BY <2>3, <2>4
<1>10. ASSUME NEW a \in Attempts, AssertFails(a) \/ RenewalFails(a) \/ Write(a) \/ WorkEnds(a)
       PROVE IInv'
  BY <1>10 DEF AssertFails, RenewalFails, Write, WorkEnds
<1>11. ASSUME NEW a \in Attempts, Release(a) \/ ReleaseTimesOut(a) \/ LateReleaseExecutes(a)
       PROVE IInv'
  BY <1>11, NoTokenAssumption DEF Release, ReleaseTimesOut, LateReleaseExecutes, Released
<1>12. ASSUME NEW a \in Attempts, CommandDropped(a) \/ Crash(a)
       PROVE IInv'
  BY <1>12 DEF CommandDropped, Crash
<1>13. QED
  BY <1>1, <1>2, <1>3, <1>4, <1>5, <1>6, <1>7, <1>8, <1>9, <1>10, <1>11, <1>12
     DEF Next, LeaseStep

(* A cleared write is numbered below the call that now holds the phone.    *)
THEOREM FencingOrder == Spec => []FencedClearance
<1>1. IInv => FencedClearance
  BY DEF IInv
<1>2. QED
  BY <1>1, InitIInv, IInvStep, PTL DEF Spec

(* Compare-and-delete: a release, however late, frees only its own token.  *)
THEOREM ReleaseIsOwn == Spec => ReleaseKeepsNewerOwner
<1> DEFINE Keeps == \A a, b \in Attempts :
              /\ a # b /\ holder = b
              /\ \/ pc[a] = "release" /\ pc'[a] = "done"
                 \/ a \in lateRelease /\ a \notin lateRelease'
              => holder' = b
<1>1. TypeOK /\ [Next]_leaseVars => [Keeps]_leaseVars
  <2> SUFFICES ASSUME TypeOK, Next,
                      NEW a \in Attempts, NEW b \in Attempts,
                      a # b, holder = b,
                      \/ pc[a] = "release" /\ pc'[a] = "done"
                      \/ a \in lateRelease /\ a \notin lateRelease'
               PROVE holder' = b
    OBVIOUS
  <2>1. PICK c \in Attempts : LeaseStep(c) \/ Write(c)
    BY NoTokenAssumption DEF Next, Expire, TypeOK, callVars
  <2>2. QED
    BY <2>1, NoTokenAssumption
       DEF LeaseStep, Start, SetGranted, SetRefused, Retry, GiveUp, SetTimesOut,
           LateSetExecutes, IncrAnswered, IncrFails, AssertOwned, AssertFails,
           RenewalFails, Write, WorkEnds, Release, ReleaseTimesOut,
           LateReleaseExecutes, CommandDropped, Crash, Released, Goto, TypeOK,
           Places, redisVars, callVars
<1>2. QED
  BY <1>1, TypeCorrect, PTL DEF Spec, ReleaseKeepsNewerOwner

-----------------------------------------------------------------------------
\* A call that has been numbered is in one of these places for ever.
Begun == {"work", "release", "done"}

\* A delivery under way belongs to a call at work whose session is open, and
\* writes a sequence above every one that may have been written.
SessionsFit ==
  \A a \in Attempts :
    /\ phase[a] # "ready" => /\ pc[a] = "work" /\ ~closed[a]
                             /\ seq[a] > lastSeq[a] /\ outcome[a][seq[a]] = "none"
    /\ \A s \in Sequences : outcome[a][s] \in {"applied", "uncertain"} => s <= lastSeq[a]

\* A frame carries the epoch of its writer, and is counted by lastSequence
\* unless its delivery is under way or its session is over.
FramesFit ==
  \A f \in wire \cup applied :
    /\ pc[f.writer] \in Begun
    /\ f.epoch = epoch[f.writer] /\ f.epoch # 0
    /\ \/ f.seq <= lastSeq[f.writer]
       \/ phase[f.writer] = "sent" /\ f.seq = seq[f.writer]
       \/ closed[f.writer]

WireIsNew == \A f \in wire : f \notin applied

\* An answer is about the frame its writer waits for, and tells its fate.
AcksFit ==
  \A k \in acks :
    /\ phase[k.frame.writer] = "sent" /\ k.frame = Frame(k.frame.writer)
    /\ k.frame \notin wire
    /\ k.status = "applied" <=> k.frame \in applied

\* A frame, wherever it is, is numbered below the call that holds the phone:
\* it was cleared when it was written.
FramesAreFenced ==
  \A f \in wire \cup applied, b \in Attempts :
    holder = b /\ f.writer # b /\ epoch[b] # 0 => f.epoch < epoch[b]

PhoneIsNewest == \A f \in applied : f.epoch <= phone.epoch

\* What deliver() returned, against the frames (ResultsAreHonest, frame by frame).
OutcomesFit ==
  \A a \in Attempts, s \in Sequences :
    /\ outcome[a][s] = "applied" => /\ \E f \in applied : f.writer = a /\ f.seq = s
                                   /\ \A f \in wire : f.writer = a => f.seq # s
    /\ outcome[a][s] = "not_applied" => \A f \in wire \cup applied : f.writer = a => f.seq # s

RadioInv ==
  /\ RadioTypeOK /\ IInv
  /\ SessionsFit /\ FramesFit /\ WireIsNew /\ AcksFit
  /\ FramesAreFenced /\ PhoneIsNewest
  /\ OutcomesFit

LEMMA InitRadioInv == Init /\ RadioInit => RadioInv
<1> SUFFICES ASSUME Init, RadioInit PROVE RadioInv
  OBVIOUS
<1>1. IInv /\ TypeOK
  BY InitIInv DEF IInv
<1>2. RadioTypeOK
  BY <1>1, MaxSequenceAssumption DEF RadioInit, RadioTypeOK, Sequences, Outcomes
<1> QED
  BY <1>1, <1>2, MaxSequenceAssumption
     DEF RadioInit, RadioInv, SessionsFit, FramesFit, WireIsNew, AcksFit, FramesAreFenced, PhoneIsNewest, OutcomesFit

-----------------------------------------------------------------------------
\* Every step of the radio is one of the lease, or leaves the lease alone.
LEMMA RadioIsLease == [RadioNext]_vars => [Next]_leaseVars
<1> SUFFICES ASSUME RadioNext PROVE [Next]_leaseVars
  BY DEF vars
<1>1. CASE TtlReached
  BY <1>1 DEF TtlReached, Next
<1>2. ASSUME NEW a \in Attempts, Ownership(a) \/ EndSession(a) \/ Die(a) PROVE Next
  BY <1>2 DEF Ownership, EndSession, Die, Next, LeaseStep
<1>3. ASSUME NEW a \in Attempts, Proved(a) \/ NotProved(a) PROVE Next \/ UNCHANGED leaseVars
  BY <1>3 DEF Proved, NotProved, Next, LeaseStep
<1>4. ASSUME NEW a \in Attempts, ConnectFails(a) \/ SendFrame(a) PROVE Next
  BY <1>4 DEF ConnectFails, SendFrame, Next
<1>5. ASSUME NEW a \in Attempts,
             (\E s \in Sequences : Deliver(a, s)) \/ Answered(a) \/ AnswerInvalid(a) \/ NoAnswer(a)
      PROVE  UNCHANGED leaseVars
  BY <1>5 DEF Deliver, Answered, AnswerInvalid, NoAnswer
<1>6. ASSUME NEW f \in wire, FrameLost(f) \/ \E b \in Behaviors : Receive(f, b)
      PROVE  UNCHANGED leaseVars
  BY <1>6 DEF FrameLost, Receive
<1> QED
  BY <1>1, <1>2, <1>3, <1>4, <1>5, <1>6 DEF RadioNext

\* What a step of the lease can do to a call's number, to the holder and to a
\* call that has begun its work.
LEMMA LeaseMoves ==
  ASSUME IInv, [Next]_leaseVars, NEW b \in Attempts
  PROVE  /\ epoch'[b] = epoch[b] \/ (pc[b] = "incr" /\ epoch'[b] = epochKey + 1)
         /\ holder' = b => holder = b \/ epoch'[b] = 0
         /\ pc[b] \in Begun => pc'[b] \in Begun
<1> USE DEF IInv, TypeOK, Places, redisVars, callVars, Goto, NotNumberedBeforeIncr, Begun
<1>1. CASE UNCHANGED leaseVars
  BY <1>1 DEF leaseVars
<1>2. CASE Expire
  BY <1>2, NoTokenAssumption DEF Expire
<1>3. ASSUME NEW a \in Attempts,
             \/ Start(a) \/ SetRefused(a) \/ Retry(a) \/ GiveUp(a) \/ SetTimesOut(a) \/ IncrFails(a)
             \/ AssertOwned(a) \/ AssertFails(a) \/ RenewalFails(a) \/ Write(a) \/ WorkEnds(a)
             \/ ReleaseTimesOut(a) \/ CommandDropped(a) \/ Crash(a)
      PROVE  holder' = holder /\ epoch' = epoch /\ (pc[b] \in Begun => pc'[b] \in Begun)
  BY <1>3 DEF Start, SetRefused, Retry, GiveUp, SetTimesOut, IncrFails, AssertOwned, AssertFails,
              RenewalFails, Write, WorkEnds, ReleaseTimesOut, CommandDropped, Crash
<1>4. ASSUME NEW a \in Attempts, SetGranted(a) \/ LateSetExecutes(a)
      PROVE  epoch' = epoch /\ (holder' = b => holder = b \/ epoch[b] = 0)
             /\ (pc[b] \in Begun => pc'[b] \in Begun)
  BY <1>4 DEF SetGranted, LateSetExecutes
<1>5. ASSUME NEW a \in Attempts, IncrAnswered(a)
      PROVE  /\ epoch'[b] = epoch[b] \/ (pc[b] = "incr" /\ epoch'[b] = epochKey + 1)
             /\ holder' = holder
             /\ pc[b] \in Begun => pc'[b] \in Begun
  BY <1>5 DEF IncrAnswered
<1>6. ASSUME NEW a \in Attempts, Release(a) \/ LateReleaseExecutes(a)
      PROVE  epoch' = epoch /\ (holder' = b => holder = b)
             /\ (pc[b] \in Begun => pc'[b] \in Begun)
  BY <1>6, NoTokenAssumption DEF Release, LateReleaseExecutes, Released
<1> QED
  BY <1>1, <1>2, <1>3, <1>4, <1>5, <1>6 DEF Next, LeaseStep

\* What finishing a delivery does to the sessions.
LEMMA FinishDoes ==
  ASSUME RadioTypeOK, NEW a \in Attempts, NEW o \in Outcomes, NEW wrote \in BOOLEAN, NEW shut \in BOOLEAN,
         Finish(a, o, wrote, shut)
  PROVE  /\ phase' = [phase EXCEPT ![a] = "ready"]
         /\ phase' \in [Attempts -> {"ready", "asserting", "sending", "sent"}]
         /\ seq' = [seq EXCEPT ![a] = 0]
         /\ seq' \in [Attempts -> Sequences]
         /\ lastSeq' = [lastSeq EXCEPT ![a] = IF wrote THEN seq[a] ELSE @]
         /\ lastSeq' \in [Attempts -> Sequences \cup {-1}]
         /\ closed' = [closed EXCEPT ![a] = shut \/ @]
         /\ closed' \in [Attempts -> BOOLEAN]
         /\ outcome' = [outcome EXCEPT ![a] = [@ EXCEPT ![seq[a]] = o]]
         /\ outcome' \in [Attempts -> [Sequences -> Outcomes]]
<1>1. 0 \in Sequences
  BY MaxSequenceAssumption DEF Sequences
<1>2. closed' = [closed EXCEPT ![a] = shut \/ @]
  BY DEF Finish, RadioTypeOK
<1>3. lastSeq' = [lastSeq EXCEPT ![a] = IF wrote THEN seq[a] ELSE @]
  BY DEF Finish, RadioTypeOK
<1> QED
  BY <1>1, <1>2, <1>3 DEF Finish, RadioTypeOK

LEMMA OutcomeNames == {"applied", "not_applied", "uncertain", "none"} \subseteq Outcomes
BY DEF Outcomes, AckStatus

\* Types, step by step.
LEMMA RadioTypeStep == RadioTypeOK /\ [RadioNext]_vars => RadioTypeOK'
<1> SUFFICES ASSUME RadioTypeOK, [RadioNext]_vars PROVE RadioTypeOK'
  OBVIOUS
<1>0. TypeOK /\ TypeOK'
  BY RadioIsLease, TypeStep DEF RadioTypeOK
<1>00. \A a \in Attempts : Frame(a) \in Frames
  BY <1>0 DEF RadioTypeOK, TypeOK, Frame, Frames
<1> USE <1>0 DEF RadioTypeOK, radioVars
<1>1. CASE UNCHANGED vars \/ TtlReached
  BY <1>1 DEF vars, TtlReached
<1>2. ASSUME NEW a \in Attempts, Ownership(a) PROVE RadioTypeOK'
  BY <1>2 DEF Ownership
<1>3. ASSUME NEW a \in Attempts, EndSession(a) PROVE RadioTypeOK'
  BY <1>3 DEF EndSession
<1>4. ASSUME NEW a \in Attempts, Die(a) PROVE RadioTypeOK'
  BY <1>4, MaxSequenceAssumption DEF Die, Sequences
<1>5. ASSUME NEW a \in Attempts, NEW s \in Sequences, Deliver(a, s) PROVE RadioTypeOK'
  BY <1>5, OutcomeNames DEF Deliver
<1>6. ASSUME NEW a \in Attempts, Proved(a) PROVE RadioTypeOK'
  BY <1>6 DEF Proved
<1>7. ASSUME NEW a \in Attempts, NotProved(a) PROVE RadioTypeOK'
  BY <1>7, FinishDoes, OutcomeNames DEF NotProved
<1>8. ASSUME NEW a \in Attempts, ConnectFails(a) PROVE RadioTypeOK'
  BY <1>8, FinishDoes, OutcomeNames DEF ConnectFails
<1>9. ASSUME NEW a \in Attempts, SendFrame(a) PROVE RadioTypeOK'
  BY <1>9, <1>00 DEF SendFrame
<1>10. ASSUME NEW a \in Attempts, Answered(a) \/ AnswerInvalid(a) \/ NoAnswer(a) PROVE RadioTypeOK'
  <2>1. PICK o \in Outcomes, shut \in BOOLEAN : Finish(a, o, TRUE, shut)
    <3>1. CASE Answered(a)
      <4>1. PICK k \in acks : Finish(a, k.status, TRUE, FALSE)
        BY <3>1 DEF Answered
      <4>2. k.status \in Outcomes
        BY OutcomeNames DEF AckStatus
      <4> QED
        BY <4>1, <4>2
    <3>2. CASE AnswerInvalid(a) \/ NoAnswer(a)
      BY <3>2, OutcomeNames DEF AnswerInvalid, NoAnswer
    <3> QED
      BY <1>10, <3>1, <3>2
  <2> QED
    <3>1. acks' \subseteq acks /\ UNCHANGED <<wire, phone, applied>>
      BY <1>10 DEF Answered, AnswerInvalid, NoAnswer
    <3>2. /\ phase' \in [Attempts -> {"ready", "asserting", "sending", "sent"}]
          /\ seq' \in [Attempts -> Sequences]
          /\ lastSeq' \in [Attempts -> Sequences \cup {-1}]
          /\ closed' \in [Attempts -> BOOLEAN]
          /\ outcome' \in [Attempts -> [Sequences -> Outcomes]]
      <4> HIDE DEF RadioTypeOK
      <4> QED
        BY <2>1, FinishDoes
    <3> QED
      BY <3>1, <3>2
<1>11. ASSUME NEW f \in wire, FrameLost(f) PROVE RadioTypeOK'
  BY <1>11 DEF FrameLost
<1>12. ASSUME NEW f \in wire, NEW b \in Behaviors, Receive(f, b) PROVE RadioTypeOK'
  BY <1>12 DEF Receive, Answer, Behaviors, Frames, AckStatus
<1> QED
  BY <1>1, <1>2, <1>3, <1>4, <1>5, <1>6, <1>7, <1>8, <1>9, <1>10, <1>11, <1>12 DEF RadioNext

-----------------------------------------------------------------------------
\* The frames keep their order to the holder of the phone, whatever the lease
\* does, as long as nobody writes one.
LEMMA FencedKept ==
  ASSUME RadioInv, [Next]_leaseVars, wire' \cup applied' \subseteq wire \cup applied
  PROVE  FramesAreFenced'
<1> SUFFICES ASSUME NEW f \in wire \cup applied, NEW b \in Attempts,
                    holder' = b, f.writer # b, epoch'[b] # 0
             PROVE  f.epoch < epoch'[b]
  BY DEF FramesAreFenced
<1>1. f.writer \in Attempts /\ f.epoch = epoch[f.writer] /\ f.epoch \in Nat
  BY DEF RadioInv, RadioTypeOK, Frames, FramesFit
<1>2. epochKey \in Nat /\ epoch[f.writer] <= epochKey
  BY <1>1 DEF RadioInv, IInv, TypeOK, CounterAbove
<1>3. CASE epoch'[b] = epoch[b]
  BY <1>3, LeaseMoves DEF RadioInv, FramesAreFenced
<1>4. CASE epoch'[b] = epochKey + 1
  BY <1>1, <1>2, <1>4
<1> QED
  BY <1>3, <1>4, LeaseMoves DEF RadioInv

\* The lease's own steps: no session, frame or answer is touched, and a call
\* in the middle of a delivery stays at work.
LEMMA LeaseAlone ==
  ASSUME RadioInv, [Next]_leaseVars, UNCHANGED radioVars,
         \A a \in Attempts : phase[a] # "ready" => pc'[a] = "work"
  PROVE  SessionsFit' /\ FramesFit' /\ WireIsNew' /\ AcksFit' /\ FramesAreFenced' /\ PhoneIsNewest' /\ OutcomesFit'
<1> USE DEF radioVars
<1>1. SessionsFit'
  BY DEF RadioInv, SessionsFit
<1>2. \A f \in wire \cup applied :
        /\ f.writer \in Attempts /\ pc'[f.writer] \in Begun
        /\ epoch'[f.writer] = epoch[f.writer]
  BY LeaseMoves DEF Begun, RadioInv, RadioTypeOK, Frames, FramesFit
<1>3. FramesFit'
  BY <1>2 DEF RadioInv, FramesFit
<1>4. AcksFit'
  <2> SUFFICES ASSUME NEW k \in acks PROVE Frame(k.frame.writer)' = Frame(k.frame.writer)
    BY DEF RadioInv, AcksFit
  <2>1. k.frame.writer \in Attempts /\ pc[k.frame.writer] = "work"
    BY DEF RadioInv, RadioTypeOK, Frames, AcksFit, SessionsFit
  <2> QED
    BY <2>1, LeaseMoves DEF Frame, RadioInv
<1> QED
  BY <1>1, <1>3, <1>4, FencedKept DEF RadioInv, WireIsNew, PhoneIsNewest, OutcomesFit

\* A delivery that ends: with `applied` or `not_applied` only if that is so of
\* its frame, and counted unless nothing was written.
LEMMA Finishes ==
  ASSUME RadioInv, [Next]_leaseVars, NEW a \in Attempts, phase[a] # "ready",
         NEW o \in Outcomes, NEW wrote \in BOOLEAN, NEW shut \in BOOLEAN, Finish(a, o, wrote, shut),
         pc' = pc, UNCHANGED <<wire, phone, applied>>, acks' \subseteq acks,
         \A k \in acks' : k.frame.writer # a,
         phase[a] = "sent" => wrote,
         o \in {"applied", "uncertain"} => wrote,
         o = "applied" => Frame(a) \in applied,
         o = "not_applied" => Frame(a) \notin wire \cup applied
  PROVE  SessionsFit' /\ FramesFit' /\ WireIsNew' /\ AcksFit' /\ FramesAreFenced' /\ PhoneIsNewest' /\ OutcomesFit'
<1>0. RadioTypeOK
  BY DEF RadioInv
<1>1. seq[a] \in Sequences /\ lastSeq[a] \in Sequences \cup {-1} /\ seq[a] > lastSeq[a]
  BY DEF RadioInv, RadioTypeOK, SessionsFit
<1>2. \A s \in Sequences : s \in Int
  BY MaxSequenceAssumption DEF Sequences
<1>3. /\ phase'[a] = "ready"
      /\ lastSeq'[a] = IF wrote THEN seq[a] ELSE lastSeq[a]
      /\ \A s \in Sequences : outcome'[a][s] = IF s = seq[a] THEN o ELSE outcome[a][s]
  BY <1>0, <1>1, FinishDoes DEF RadioTypeOK
<1>4. \A b \in Attempts \ {a} :
        /\ phase'[b] = phase[b] /\ seq'[b] = seq[b] /\ lastSeq'[b] = lastSeq[b]
        /\ closed'[b] = closed[b] /\ outcome'[b] = outcome[b]
  BY <1>0, FinishDoes DEF RadioTypeOK
<1>5. closed[a] => closed'[a]
  BY <1>0, FinishDoes DEF RadioTypeOK
<1>6. \A f \in wire \cup applied :
        /\ f.writer \in Attempts /\ f.seq \in Sequences
        /\ pc'[f.writer] \in Begun /\ f.epoch # 0
        /\ f.epoch = epoch[f.writer] /\ epoch'[f.writer] = epoch[f.writer]
  BY LeaseMoves DEF Begun, RadioInv, RadioTypeOK, Frames, FramesFit
<1>7. SessionsFit'
  BY <1>1, <1>2, <1>3, <1>4 DEF RadioInv, SessionsFit
<1>8. FramesFit'
  <2> SUFFICES ASSUME NEW f \in wire \cup applied
               PROVE  \/ f.seq <= lastSeq'[f.writer]
                      \/ phase'[f.writer] = "sent" /\ f.seq = seq'[f.writer]
                      \/ closed'[f.writer]
    BY <1>6 DEF FramesFit
  <2>1. CASE f.writer # a
    BY <1>4, <1>6, <2>1 DEF RadioInv, FramesFit
  <2>2. CASE f.writer = a
    <3>1. f.seq \in Int /\ seq[a] \in Int /\ lastSeq[a] \in Int /\ lastSeq[a] < seq[a]
      BY <1>1, <1>2, <1>6
    <3>2. \/ f.seq <= lastSeq[a]
          \/ phase[a] = "sent" /\ f.seq = seq[a]
          \/ closed[a]
      BY <2>2 DEF RadioInv, FramesFit
    <3> QED
      BY <1>3, <1>5, <2>2, <3>1, <3>2
  <2> QED
    BY <2>1, <2>2
<1>9. AcksFit'
  <2> SUFFICES ASSUME NEW k \in acks, k.frame.writer # a
               PROVE  phase'[k.frame.writer] = "sent" /\ Frame(k.frame.writer)' = Frame(k.frame.writer)
    BY DEF RadioInv, AcksFit
  <2>1. k.frame.writer \in Attempts /\ phase[k.frame.writer] = "sent" /\ pc[k.frame.writer] = "work"
    BY DEF RadioInv, RadioTypeOK, Frames, AcksFit, SessionsFit
  <2> QED
    BY <1>4, <2>1, LeaseMoves DEF Frame, RadioInv
<1>10. OutcomesFit'
  <2>1. \A f \in wire \cup applied : f.writer = a /\ f.seq = seq[a] => f = Frame(a)
    BY <1>6 DEF RadioInv, RadioTypeOK, Frames, Frame
  <2>2. Frame(a) \in applied => Frame(a) \notin wire
    BY DEF RadioInv, WireIsNew
  <2>3. Frame(a).writer = a /\ Frame(a).seq = seq[a]
    BY DEF Frame
  <2> QED
    BY <1>3, <1>4, <2>1, <2>2, <2>3 DEF RadioInv, OutcomesFit
<1> QED
  BY <1>7, <1>8, <1>9, <1>10, FencedKept DEF RadioInv, WireIsNew, PhoneIsNewest

\* The sequence a delivery is about to write is of no frame yet.
LEMMA NotYetWritten ==
  ASSUME RadioInv, NEW a \in Attempts, phase[a] \in {"asserting", "sending"}
  PROVE  \A f \in wire \cup applied : f.writer = a => f.seq < seq[a]
<1>1. seq[a] \in Int /\ lastSeq[a] \in Int /\ seq[a] > lastSeq[a] /\ ~closed[a]
  BY MaxSequenceAssumption DEF RadioInv, RadioTypeOK, SessionsFit, Sequences
<1>2. \A f \in wire \cup applied : f.seq \in Int
  BY MaxSequenceAssumption DEF RadioInv, RadioTypeOK, Frames, Sequences
<1> QED
  BY <1>1, <1>2 DEF RadioInv, FramesFit

\* Sessions, frames, answers and results, step by step.
LEMMA RadioInvStep == RadioInv /\ [RadioNext]_vars => RadioInv'
<1> SUFFICES ASSUME RadioInv, [RadioNext]_vars PROVE RadioInv'
  OBVIOUS
<1> DEFINE Goal == /\ SessionsFit' /\ FramesFit' /\ WireIsNew' /\ AcksFit' 
                   /\ FramesAreFenced' /\ PhoneIsNewest' /\ OutcomesFit'
<1>0. RadioTypeOK' /\ IInv' /\ [Next]_leaseVars
  BY RadioTypeStep, RadioIsLease, IInvStep DEF RadioInv
<1>00. RadioTypeOK /\ TypeOK /\ SessionsFit
  BY DEF RadioInv, RadioTypeOK
<1>1. ASSUME UNCHANGED vars \/ TtlReached PROVE Goal
  BY <1>0, <1>00, <1>1, LeaseAlone DEF RadioInv, vars, leaseVars, TtlReached, Expire, callVars, SessionsFit
<1>2. ASSUME NEW a \in Attempts, Ownership(a) PROVE Goal
  <2>1. \A b \in Attempts : phase[b] # "ready" => pc'[b] = "work"
    BY <1>00, <1>2 DEF Ownership, Start, SetGranted, SetRefused, Retry, GiveUp, SetTimesOut,
       LateSetExecutes, IncrAnswered, IncrFails, RenewalFails, Release, ReleaseTimesOut,
       LateReleaseExecutes, CommandDropped, Goto, callVars, TypeOK, SessionsFit
  <2> QED
    BY <1>0, <1>2, <2>1, LeaseAlone DEF Ownership
<1>3. ASSUME NEW a \in Attempts, EndSession(a) PROVE Goal
  <2>1. pc' = [pc EXCEPT ![a] = "release"] /\ epoch' = epoch /\ phase[a] = "ready"
    BY <1>3 DEF EndSession, WorkEnds, Goto
  <2>2. /\ closed' = [closed EXCEPT ![a] = TRUE]
        /\ UNCHANGED <<phase, seq, lastSeq, outcome, wire, acks, phone, applied>>
    BY <1>3 DEF EndSession
  <2>3. SessionsFit'
    BY <1>00, <2>1, <2>2 DEF RadioTypeOK, TypeOK, SessionsFit
  <2>4. FramesFit'
    BY <1>00, <2>1, <2>2 DEF Begun, RadioInv, RadioTypeOK, TypeOK, Frames, FramesFit
  <2>5. AcksFit'
    BY <2>1, <2>2 DEF RadioInv, AcksFit, Frame
  <2> QED
    BY <1>0, <2>2, <2>3, <2>4, <2>5, FencedKept DEF RadioInv, WireIsNew, PhoneIsNewest, OutcomesFit
<1>4. ASSUME NEW a \in Attempts, Die(a) PROVE Goal
  <2>1. pc' = [pc EXCEPT ![a] = "done"] /\ epoch' = epoch
    BY <1>4 DEF Die, Crash
  <2>2. /\ phase' = [phase EXCEPT ![a] = "ready"] /\ seq' = [seq EXCEPT ![a] = 0]
        /\ closed' = [closed EXCEPT ![a] = TRUE] /\ acks' = {k \in acks : k.frame.writer # a}
        /\ UNCHANGED <<lastSeq, outcome, wire, phone, applied>>
    BY <1>4 DEF Die
  <2>3. SessionsFit'
    BY <1>00, <2>1, <2>2 DEF RadioTypeOK, TypeOK, SessionsFit
  <2>4. FramesFit'
    BY <1>00, <2>1, <2>2 DEF Begun, RadioInv, RadioTypeOK, TypeOK, Frames, FramesFit
  <2>5. AcksFit'
    BY <1>00, <2>1, <2>2 DEF RadioInv, RadioTypeOK, Frames, AcksFit, Frame
  <2> QED
    BY <1>0, <2>2, <2>3, <2>4, <2>5, FencedKept DEF RadioInv, WireIsNew, PhoneIsNewest, OutcomesFit
<1>5. ASSUME NEW a \in Attempts, NEW s \in Sequences, Deliver(a, s) PROVE Goal
  <2>1. /\ pc[a] = "work" /\ phase[a] = "ready" /\ ~closed[a] /\ s > lastSeq[a]
        /\ phase' = [phase EXCEPT ![a] = "asserting"] /\ seq' = [seq EXCEPT ![a] = s]
        /\ outcome' = [outcome EXCEPT ![a][s] = "none"]
        /\ UNCHANGED <<pc, epoch, lastSeq, closed, wire, acks, phone, applied>>
    BY <1>5 DEF Deliver, leaseVars
  <2>2. SessionsFit'
    BY <1>00, <2>1 DEF RadioTypeOK, SessionsFit
  <2>3. FramesFit'
    BY <1>00, <2>1 DEF RadioInv, RadioTypeOK, Frames, FramesFit
  <2>4. AcksFit'
    BY <1>00, <2>1 DEF RadioInv, RadioTypeOK, Frames, AcksFit, Frame
  <2>5. OutcomesFit'
    BY <1>00, <2>1 DEF RadioInv, RadioTypeOK, OutcomesFit
  <2> QED
    BY <1>0, <2>1, <2>2, <2>3, <2>4, <2>5, FencedKept DEF RadioInv, WireIsNew, PhoneIsNewest
<1>6. ASSUME NEW a \in Attempts, Proved(a) PROVE Goal
  <2>1. /\ phase[a] = "asserting" /\ phase' = [phase EXCEPT ![a] = "sending"]
        /\ UNCHANGED <<pc, epoch, seq, lastSeq, closed, outcome, wire, acks, phone, applied>>
    BY <1>6 DEF Proved, AssertOwned
  <2>2. SessionsFit'
    BY <1>00, <2>1 DEF RadioTypeOK, SessionsFit
  <2>3. FramesFit'
    BY <1>00, <2>1 DEF RadioInv, RadioTypeOK, Frames, FramesFit
  <2>4. AcksFit'
    BY <1>00, <2>1 DEF RadioInv, RadioTypeOK, Frames, AcksFit, Frame
  <2> QED
    BY <1>0, <2>1, <2>2, <2>3, <2>4, FencedKept DEF RadioInv, WireIsNew, PhoneIsNewest, OutcomesFit
<1>7. ASSUME NEW a \in Attempts, NotProved(a) \/ ConnectFails(a) PROVE Goal
  <2>1. /\ phase[a] \in {"asserting", "sending"}
        /\ UNCHANGED <<pc, wire, acks, phone, applied>>
        /\ \E o \in {"not_applied", "uncertain"}, wrote \in BOOLEAN, shut \in BOOLEAN :
             Finish(a, o, wrote, shut) /\ (o = "uncertain" => wrote)
    BY <1>7 DEF NotProved, ConnectFails, AssertFails, Write, leaseVars
  <2>2. \A k \in acks : k.frame.writer # a
    BY <2>1 DEF RadioInv, AcksFit
  <2>3. Frame(a) \notin wire \cup applied
    BY <2>1, NotYetWritten DEF RadioInv, RadioTypeOK, Frame, Sequences
  <2> QED
    BY <1>0, <2>1, <2>2, <2>3, Finishes, OutcomeNames
<1>8. ASSUME NEW a \in Attempts, SendFrame(a) PROVE Goal
  <2>1. /\ phase[a] = "sending" /\ cleared[a] /\ phase' = [phase EXCEPT ![a] = "sent"]
        /\ wire' = wire \cup {Frame(a)}
        /\ UNCHANGED <<holder, pc, epoch, seq, lastSeq, closed, outcome, acks, phone, applied>>
    BY <1>8 DEF SendFrame, Write, redisVars
  <2>2. /\ Frame(a).writer = a /\ Frame(a).seq = seq[a] /\ Frame(a).epoch = epoch[a]
        /\ pc[a] = "work" /\ epoch[a] # 0
    BY <1>00, <2>1 DEF Frame, SessionsFit, RadioInv, IInv, NumberedWhenCleared
  <2>3. seq[a] \in Int /\ \A f \in wire \cup applied : f.writer = a => f.seq < seq[a]
    BY <2>1, NotYetWritten, MaxSequenceAssumption DEF RadioInv, RadioTypeOK, Sequences
  <2>4. SessionsFit'
    BY <1>00, <2>1 DEF RadioTypeOK, SessionsFit
  <2>5. FramesFit'
    BY <1>00, <2>1, <2>2 DEF Begun, RadioInv, RadioTypeOK, Frames, FramesFit
  <2>6. WireIsNew'
    BY <2>1, <2>2, <2>3 DEF RadioInv, WireIsNew
  <2>7. \A k \in acks : k.frame.writer # a /\ k.frame.writer \in Attempts
    BY <2>1 DEF RadioInv, RadioTypeOK, Frames, AcksFit
  <2>8. AcksFit'
    BY <1>00, <2>1, <2>2, <2>7 DEF RadioInv, RadioTypeOK, AcksFit, Frame
  <2>9. FramesAreFenced'
    BY <2>1, <2>2 DEF RadioInv, IInv, FramesAreFenced, FencedClearance
  <2>10. OutcomesFit'
    BY <1>00, <2>1, <2>2 DEF RadioInv, SessionsFit, OutcomesFit
  <2> QED
    BY <2>1, <2>4, <2>5, <2>6, <2>8, <2>9, <2>10 DEF RadioInv, PhoneIsNewest
<1>9. ASSUME NEW a \in Attempts, Answered(a) \/ AnswerInvalid(a) \/ NoAnswer(a) PROVE Goal
  <2>1. phase[a] = "sent" /\ UNCHANGED <<pc, wire, phone, applied>> /\ acks' \subseteq acks
    BY <1>9 DEF Answered, AnswerInvalid, NoAnswer, leaseVars
  <2>2. \A k, l \in acks : k.frame = l.frame => k = l
    BY DEF RadioInv, RadioTypeOK, AcksFit, AckStatus
  <2>3. \A k \in acks : k.frame.writer = a => k.frame = Frame(a)
    BY DEF RadioInv, AcksFit
  <2>4. CASE Answered(a)
    <3>1. PICK k \in acks : k.frame = Frame(a) /\ acks' = acks \ {k} /\ Finish(a, k.status, TRUE, FALSE)
      BY <2>4 DEF Answered
    <3>2. k.status \in {"applied", "not_applied"}
      BY DEF RadioInv, RadioTypeOK, AckStatus
    <3>3. k.status = "applied" => Frame(a) \in applied
      BY <3>1 DEF RadioInv, AcksFit
    <3>4. k.status = "not_applied" => Frame(a) \notin wire \cup applied
      BY <3>1 DEF RadioInv, AcksFit
    <3>5. \A l \in acks' : l.frame.writer # a
      BY <2>2, <2>3, <3>1
    <3> QED
      BY <1>0, <2>1, <3>1, <3>2, <3>3, <3>4, <3>5, Finishes, OutcomeNames
  <2>5. CASE AnswerInvalid(a) \/ NoAnswer(a)
    <3>1. PICK shut \in BOOLEAN : Finish(a, "uncertain", TRUE, shut)
      BY <2>5 DEF AnswerInvalid, NoAnswer
    <3>2. \A l \in acks' : l.frame.writer # a
      BY <2>2, <2>3, <2>5 DEF AnswerInvalid, NoAnswer, Frame
    <3> QED
      BY <1>0, <2>1, <3>1, <3>2, Finishes, OutcomeNames
  <2> QED
    BY <1>9, <2>4, <2>5
<1>10. ASSUME NEW f \in wire, FrameLost(f) PROVE Goal
  <2>1. /\ wire' = wire \ {f}
        /\ UNCHANGED <<leaseVars, phase, seq, lastSeq, closed, outcome, acks, phone, applied>>
    BY <1>10 DEF FrameLost
  <2>2. SessionsFit' /\ FramesFit' /\ WireIsNew' /\ AcksFit' /\ PhoneIsNewest' /\ OutcomesFit'
    BY <2>1 DEF RadioInv, SessionsFit, FramesFit, WireIsNew, AcksFit, PhoneIsNewest, OutcomesFit, Frame, leaseVars
  <2> QED
    BY <1>0, <2>1, <2>2, FencedKept
<1>11. ASSUME NEW f \in wire, NEW b \in Behaviors, Receive(f, b) PROVE Goal
  <2>1. /\ wire' = wire \ {f} /\ UNCHANGED <<pc, epoch, phase, seq, lastSeq, closed, outcome>>
        /\ f \in Frames /\ f.writer \in Attempts
    BY <1>00, <1>11 DEF Receive, leaseVars, RadioTypeOK, Frames
  <2>2. CASE b = "applied" /\ ~Fenced(f)
    <3>1. /\ acks' = Answer(f, "applied") /\ applied' = applied \cup {f}
          /\ phone' = [epoch |-> f.epoch, session |-> f.writer, seq |-> f.seq]
      BY <1>11, <2>2 DEF Receive
    <3>2. \A k \in acks : k.frame # f
      BY DEF RadioInv, AcksFit
    <3>3. \A k \in acks' :
            \/ k \in acks
            \/ /\ k.frame = f /\ k.status = "applied"
               /\ phase[f.writer] = "sent" /\ Frame(f.writer) = f
      BY <3>1 DEF Answer
    <3>4. AcksFit'
      BY <2>1, <3>1, <3>2, <3>3 DEF RadioInv, AcksFit, Frame
    <3>5. PhoneIsNewest'
      BY <1>00, <2>1, <2>2, <3>1 DEF RadioInv, RadioTypeOK, Frames, PhoneIsNewest, Fenced
    <3>6. SessionsFit' /\ FramesFit' /\ WireIsNew'
      BY <2>1, <3>1 DEF RadioInv, SessionsFit, FramesFit, WireIsNew
    <3>7. OutcomesFit'
      BY <2>1, <3>1 DEF RadioInv, OutcomesFit
    <3> QED
      BY <1>0, <2>1, <3>1, <3>4, <3>5, <3>6, <3>7, FencedKept
  <2>3. CASE ~(b = "applied" /\ ~Fenced(f))
    <3>1. /\ acks' = acks \/ acks' = Answer(f, "not_applied")
          /\ UNCHANGED <<phone, applied>>
      BY <1>11, <2>3 DEF Receive, Behaviors, AckStatus
    <3>2. f \notin applied /\ \A k \in acks : k.frame # f
      BY DEF RadioInv, AcksFit, WireIsNew
    <3>3. \A k \in acks' :
            \/ k \in acks
            \/ /\ k.frame = f /\ k.status = "not_applied"
               /\ phase[f.writer] = "sent" /\ Frame(f.writer) = f
      BY <3>1 DEF Answer
    <3>4. AcksFit'
      BY <2>1, <3>1, <3>2, <3>3 DEF RadioInv, AcksFit, Frame
    <3>5. PhoneIsNewest' /\ SessionsFit' /\ FramesFit' /\ WireIsNew' /\ OutcomesFit'
      BY <2>1, <3>1 DEF RadioInv, PhoneIsNewest, SessionsFit, FramesFit, WireIsNew, OutcomesFit
    <3> QED
      BY <1>0, <2>1, <3>1, <3>4, <3>5, FencedKept
  <2> QED
    BY <2>2, <2>3
<1>12. Goal
  <2>1. CASE UNCHANGED vars \/ TtlReached
    BY <1>1, <2>1
  <2>2. CASE RadioNext /\ ~TtlReached
    BY <1>2, <1>3, <1>4, <1>5, <1>6, <1>7, <1>8, <1>9, <1>10, <1>11, <2>2 DEF RadioNext
  <2> QED
    BY <2>1, <2>2
<1> QED
  BY <1>0, <1>12 DEF RadioInv

LEMMA RadioInvariance == RadioSpec => []RadioInv
BY InitRadioInv, RadioInvStep, PTL DEF RadioSpec

\* Types: the sessions, the frames and the phone stay in their ranges.
THEOREM RadioTypeCorrect == RadioSpec => []RadioTypeOK
<1>1. RadioInv => RadioTypeOK
  BY DEF RadioInv
<1> QED
  BY <1>1, RadioInvariance, PTL

\* deliver() tells the truth about the phone, now and later: `applied` means
\* that the frame was applied, and neither applied nor `uncertain` that it never
\* will be (radioDelivery.ts, radioTransport.ts).
THEOREM ResultsHonest == RadioSpec => []ResultsAreHonest
<1>1. RadioInv => ResultsAreHonest
  BY DEF RadioInv, WireIsNew, OutcomesFit, ResultsAreHonest
<1> QED
  BY <1>1, RadioInvariance, PTL

\* Only the agent changes the phone, by applying a frame it does not fence off.
LEMMA PhoneChanges ==
  ASSUME RadioNext, phone' # phone
  PROVE  \E f \in wire : /\ ~Fenced(f)
                        /\ phone' = [epoch |-> f.epoch, session |-> f.writer, seq |-> f.seq]
<1>1. \E f \in wire, b \in Behaviors : Receive(f, b)
  BY DEF RadioNext, TtlReached, Ownership, EndSession, Die, Deliver, Proved, NotProved, ConnectFails,
         SendFrame, Answered, AnswerInvalid, NoAnswer, FrameLost, radioVars
<1> QED
  BY <1>1 DEF Receive

\* A frame in flight from an expired worker never overwrites what the present
\* owner has put on the phone: its epoch is below the owner's, which the agent
\* has seen (imageOwnership.ts, radioStubReceiver.ts).
THEOREM ExpiredWriterFenced == RadioSpec => ExpiredWriterNeverOverwrites
<1> DEFINE Fences == \A a, b \in Attempts :
              holder = b /\ a # b /\ phone' # phone /\ phone'.session = a
                => ~\E f \in applied : f.writer = b
<1>1. RadioInv /\ [RadioNext]_vars => [Fences]_vars
  <2> SUFFICES ASSUME RadioInv, RadioNext, NEW a \in Attempts, NEW b \in Attempts,
                      holder = b, a # b, phone' # phone, phone'.session = a,
                      NEW g \in applied, g.writer = b
               PROVE  FALSE
    OBVIOUS
  <2>1. PICK f \in wire : ~Fenced(f) /\ phone' = [epoch |-> f.epoch, session |-> f.writer, seq |-> f.seq]
    BY PhoneChanges
  <2>2. f.writer = a /\ f \in Frames /\ g \in Frames /\ phone.epoch \in Nat
    BY <2>1 DEF RadioInv, RadioTypeOK
  <2>3. g.epoch = epoch[b] /\ g.epoch <= phone.epoch
    BY DEF RadioInv, FramesFit, PhoneIsNewest
  <2>4. epoch[b] # 0
    BY <2>3 DEF RadioInv, FramesFit
  <2>5. f.epoch < epoch[b]
    BY <2>2, <2>4 DEF RadioInv, FramesAreFenced
  <2> QED
    BY <2>1, <2>2, <2>3, <2>5 DEF Fenced, Frames
<1> QED
  BY <1>1, RadioInvariance, PTL DEF RadioSpec, ExpiredWriterNeverOverwrites

\* A sequence whose frame may have reached the phone is never written again
\* (radioDelivery.ts, the replay check and lastSequence).
THEOREM SequencesGrow == RadioSpec => WrittenSequencesOnlyGrow
<1> DEFINE Grows == \A a \in Attempts :
              phase[a] = "sending" /\ phase'[a] = "sent" =>
                /\ \A f \in wire \cup applied : f.writer = a => f.seq < seq[a]
                /\ \A s \in Sequences : outcome[a][s] = "uncertain" => s < seq[a]
<1>1. RadioInv => Grows
  <2> SUFFICES ASSUME RadioInv, NEW a \in Attempts, phase[a] = "sending"
               PROVE  /\ \A f \in wire \cup applied : f.writer = a => f.seq < seq[a]
                      /\ \A s \in Sequences : outcome[a][s] = "uncertain" => s < seq[a]
    OBVIOUS
  <2>1. seq[a] \in Int /\ lastSeq[a] \in Int /\ seq[a] > lastSeq[a] /\ \A s \in Sequences : s \in Int
    BY MaxSequenceAssumption DEF RadioInv, RadioTypeOK, SessionsFit, Sequences
  <2> QED
    BY <2>1, NotYetWritten DEF RadioInv, SessionsFit
<1>2. RadioInv /\ [RadioNext]_vars => [Grows]_vars
  BY <1>1
<1> QED
  BY <1>2, RadioInvariance, PTL DEF RadioSpec, WrittenSequencesOnlyGrow

-----------------------------------------------------------------------------
(* The engine: what a phone is told to hear (RadioEngine).                 *)

\* The last frame is in the past of the next one and left the serving cell.
FrameFits ==
  /\ rFrame = NoFrame \/ rFrame.at \in 0..MaxRadioClock
  /\ rFrame.to = rServing

\* The candidate is a cell that has been the one to go to ever since.
CandidateFits ==
  rCandidate # NoCandidate =>
    /\ rCandidate.key \in RadioCells
    /\ rCandidate.since \in 0..rFrame.at
    /\ rHeld[rCandidate.key] \in 0..rCandidate.since

HeldInThePast == \A c \in RadioCells : rHeld[c] = Never \/ rHeld[c] \in 0..rFrame.at

EngineInv == RadioEngineTypeOK /\ FrameFits /\ CandidateFits /\ HeldInThePast /\ FramesAreCredible

LEMMA InitEngineInv == EngineInit => EngineInv
<1> SUFFICES ASSUME EngineInit PROVE EngineInv
  OBVIOUS
<1>1. RadioEngineTypeOK
  BY RadioEngineAssumption DEF EngineInit, RadioEngineTypeOK, NoCandidate, NoScan, NoFrame, Never
<1>2. FrameFits /\ CandidateFits /\ HeldInThePast
  BY DEF EngineInit, FrameFits, CandidateFits, HeldInThePast, NoFrame, NoCandidate, Never
<1>3. FramesAreCredible
  BY DEF EngineInit, FramesAreCredible, HandoverIsHeld, ServingIsHeard, ScansKeepTheirAge, NoFrame
<1> QED
  BY <1>1, <1>2, <1>3 DEF EngineInv

\* What one frame does, once the strongest cell is known (engine.ts, cellLayer).
LEMMA FrameDoes ==
  ASSUME NEW at \in 0..MaxRadioClock, NEW arrived \in BOOLEAN, NEW heard \in SUBSET RadioCells,
         NEW levels \in [heard -> CellLevels], NEW wifiFound \in BOOLEAN, NEW bluetoothFound \in BOOLEAN,
         EngineInv, ModelFrame(at, arrived, levels, wifiFound, bluetoothFound)
  PROVE  EngineInv'
<1>1. /\ at \in Nat /\ rFrame.at \in Int /\ at > rFrame.at
      /\ rServing \in RadioCells \cup {NoCell} /\ rHeld \in [RadioCells -> Int]
      /\ NoCell \notin RadioCells /\ TimeToTrigger \in Nat /\ MaxContinuityGap \in Nat
      /\ MaxRadioClock \in Nat /\ DOMAIN levels = heard
  BY RadioEngineAssumption DEF EngineInv, RadioEngineTypeOK, ModelFrame
<1>2. PICK best \in (IF levels = <<>> THEN {NoCell} ELSE {c \in RadioCells : IsBest(c, levels)}) :
        LET next == NextServing(at, levels, best)
            held == HeldSince(at, levels, best)
        IN /\ rServing' = next.serving
           /\ rCandidate' = next.candidate
           /\ rHeld' = IF next.serving = rServing THEN held ELSE [c \in RadioCells |-> Never]
           /\ rFrame' = [at |-> at, arrived |-> arrived, heard |-> DOMAIN levels,
                         from |-> rServing, to |-> next.serving,
                         held |-> IF best = NoCell THEN Never ELSE held[best]]
  BY DEF ModelFrame
<1> DEFINE next == NextServing(at, levels, best)
           held == HeldSince(at, levels, best)
<1>3. \/ best = NoCell /\ heard = {}
      \/ best \in RadioCells /\ best \in heard
  BY <1>1 DEF IsBest
<1>4. /\ held \in [RadioCells -> Int]
      /\ \A c \in RadioCells : held[c] = Never \/ held[c] \in 0..at
  BY <1>1 DEF HeldSince, Never, EngineInv, HeldInThePast
<1>5. \/ next = [serving |-> best, candidate |-> NoCandidate] /\ rServing \notin heard
      \/ /\ rServing \in heard /\ next.serving = rServing
         /\ \/ next.candidate = NoCandidate
            \/ \E since \in 0..at : next.candidate = [key |-> best, since |-> since] /\ held[best] \in 0..since
      \/ /\ rServing \in heard /\ next = [serving |-> best, candidate |-> NoCandidate]
         /\ held[best] # Never /\ at - held[best] >= TimeToTrigger
  <2>1. CASE rServing \notin heard
    BY <1>1, <2>1 DEF NextServing
  <2>2. CASE rServing \in heard /\ ~Qualifies(best, levels)
    BY <1>1, <2>2 DEF NextServing
  <2>3. CASE rServing \in heard /\ Qualifies(best, levels)
    <3> DEFINE since == IF Continued(at).key = best THEN Continued(at).since ELSE at
    <3>1. best \in RadioCells
      BY <1>3, <2>3
    <3>2. held[best] = IF rHeld[best] = Never \/ at - rFrame.at > MaxContinuityGap THEN at ELSE rHeld[best]
      BY <1>1, <2>3, <3>1 DEF HeldSince
    <3>3. since \in 0..at /\ held[best] \in 0..since
      <4>1. CASE Continued(at).key = best
        <5>1. /\ ~(at - rFrame.at > MaxContinuityGap)
              /\ rCandidate.key = best /\ rCandidate # NoCandidate /\ since = rCandidate.since
          BY <1>1, <3>1, <4>1 DEF Continued, NoCandidate
        <5>2. since \in 0..rFrame.at /\ rHeld[best] \in 0..since
          BY <5>1 DEF EngineInv, CandidateFits
        <5> QED
          BY <1>1, <3>2, <5>1, <5>2 DEF Never
      <4>2. CASE Continued(at).key # best
        BY <1>1, <3>1, <3>2, <4>2 DEF EngineInv, HeldInThePast, Never
      <4> QED
        BY <4>1, <4>2
    <3>4. next = IF at - since >= TimeToTrigger THEN [serving |-> best, candidate |-> NoCandidate]
                 ELSE [serving |-> rServing, candidate |-> [key |-> best, since |-> since]]
      BY <1>1, <2>3 DEF NextServing
    <3>5. CASE at - since >= TimeToTrigger
      <4>1. held[best] # Never /\ at - held[best] >= TimeToTrigger
        BY <1>1, <3>3, <3>5 DEF Never
      <4> QED
        BY <2>3, <3>4, <3>5, <4>1
    <3>6. CASE ~(at - since >= TimeToTrigger)
      <4> HIDE DEF since, held
      <4>1. next.serving = rServing /\ next.candidate = [key |-> best, since |-> since]
        BY <3>4, <3>6
      <4> QED
        BY <2>3, <3>3, <4>1
    <3> QED
      BY <3>5, <3>6
  <2> QED
    BY <2>1, <2>2, <2>3
<1> HIDE DEF next, held
<1>6. /\ rServing' = next.serving /\ rCandidate' = next.candidate
      /\ rHeld' = IF next.serving = rServing THEN held ELSE [c \in RadioCells |-> Never]
      /\ rFrame' = [at |-> at, arrived |-> arrived, heard |-> heard, from |-> rServing, to |-> next.serving,
                    held |-> IF best = NoCell THEN Never ELSE held[best]]
  BY <1>1, <1>2 DEF next, held
<1>7. /\ rWifi' = Scanned(rWifi, Aged(rWifi, at), at, wifiFound)
      /\ rBluetooth' = Scanned(rBluetooth, BluetoothIsDue(at, arrived), at, bluetoothFound)
      /\ rEvent' = rEvent
  BY DEF ModelFrame
<1>8. next.serving \in RadioCells \cup {NoCell}
  BY <1>1, <1>3, <1>5
<1>9. RadioEngineTypeOK'
  <2>1. rCandidate' \in [key : RadioCells \cup {NoCell}, since : Int]
    <3>1. NoCandidate \in [key : RadioCells \cup {NoCell}, since : Int]
      BY DEF NoCandidate, Never
    <3>2. ASSUME NEW since \in 0..at, next.candidate = [key |-> best, since |-> since]
          PROVE  rCandidate' \in [key : RadioCells \cup {NoCell}, since : Int]
      BY <1>1, <1>3, <1>6, <3>2
    <3>3. next.candidate = NoCandidate \/ \E since \in 0..at : next.candidate = [key |-> best, since |-> since]
      BY <1>5
    <3> QED
      BY <1>6, <3>1, <3>2, <3>3
  <2>2. rWifi' \in [at : Int, found : BOOLEAN] /\ rBluetooth' \in [at : Int, found : BOOLEAN]
    BY <1>1, <1>7 DEF Scanned, EngineInv, RadioEngineTypeOK
  <2>3. rHeld' \in [RadioCells -> Int]
    BY <1>4, <1>6 DEF Never
  <2>4. (IF best = NoCell THEN Never ELSE held[best]) \in Int
    BY <1>3, <1>4 DEF Never
  <2>5. rFrame' \in [at : Int, arrived : BOOLEAN, heard : SUBSET RadioCells,
                     from : RadioCells \cup {NoCell}, to : RadioCells \cup {NoCell}, held : Int]
    BY <1>1, <1>6, <1>8, <2>4
  <2> QED
    BY <1>6, <1>7, <1>8, <2>1, <2>2, <2>3, <2>5 DEF RadioEngineTypeOK, EngineInv
<1>10. FrameFits'
  BY <1>1, <1>6 DEF FrameFits
<1>11. CandidateFits'
  <2> SUFFICES ASSUME rCandidate' # NoCandidate
               PROVE  /\ rCandidate'.key \in RadioCells
                      /\ rCandidate'.since \in 0..rFrame'.at
                      /\ rHeld'[rCandidate'.key] \in 0..rCandidate'.since
    BY DEF CandidateFits, NoCandidate
  <2>1. next.candidate # NoCandidate
    BY <1>6
  <2>2. /\ rServing \in heard /\ next.serving = rServing
        /\ \E since \in 0..at : next.candidate = [key |-> best, since |-> since] /\ held[best] \in 0..since
    BY <1>5, <2>1
  <2>3. best \in RadioCells
    BY <1>3, <2>2
  <2> QED
    BY <1>6, <2>2, <2>3
<1>12. HeldInThePast'
  BY <1>1, <1>4, <1>6 DEF HeldInThePast
<1>13. FramesAreCredible'
  <2>1. HandoverIsHeld'
    BY <1>1, <1>3, <1>5, <1>6 DEF HandoverIsHeld
  <2>2. ServingIsHeard'
    BY <1>1, <1>3, <1>5, <1>6 DEF ServingIsHeard
  <2>3. ScansKeepTheirAge'
    <3>1. rWifi'.found => rFrame'.at - rWifi'.at < ScanInterval
      BY <1>1, <1>6, <1>7, RadioEngineAssumption DEF Scanned, Aged, EngineInv, RadioEngineTypeOK
    <3>2. rFrame'.arrived /\ rBluetooth'.found => rFrame'.at - rBluetooth'.at < ScanInterval
      BY <1>1, <1>6, <1>7, RadioEngineAssumption DEF Scanned, Aged, BluetoothIsDue, EngineInv, RadioEngineTypeOK
    <3> QED
      BY <3>1, <3>2 DEF ScansKeepTheirAge, RadioRequest, FrameRequest, SampledAt, Replace, Hold
  <2> QED
    BY <2>1, <2>2, <2>3 DEF FramesAreCredible
<1> QED
  BY <1>9, <1>10, <1>11, <1>12, <1>13 DEF EngineInv

LEMMA EngineInvariance == EngineSpec => []EngineInv
<1>1. EngineInv /\ EngineNext => EngineInv'
  <2> SUFFICES ASSUME EngineInv, EngineNext PROVE EngineInv'
    OBVIOUS
  <2>1. PICK at \in {t \in 0..MaxRadioClock : t > rFrame.at}, arrived \in BOOLEAN, heard \in SUBSET RadioCells :
          \E wifiFound      \in IF Aged(rWifi, at) THEN BOOLEAN ELSE {FALSE},
             bluetoothFound \in IF BluetoothIsDue(at, arrived) THEN BOOLEAN ELSE {FALSE},
             levels         \in [heard -> CellLevels] :
            ModelFrame(at, arrived, levels, wifiFound, bluetoothFound)
    BY DEF EngineNext
  <2>2. PICK wifiFound \in BOOLEAN, bluetoothFound \in BOOLEAN, levels \in [heard -> CellLevels] :
          ModelFrame(at, arrived, levels, wifiFound, bluetoothFound)
    BY <2>1
  <2> QED
    BY <2>2, FrameDoes
<1>2. EngineInv /\ UNCHANGED engineVars => EngineInv'
  BY DEF EngineInv, engineVars, RadioEngineTypeOK, FrameFits, CandidateFits, HeldInThePast, FramesAreCredible,
         HandoverIsHeld, ServingIsHeard, ScansKeepTheirAge, RadioRequest, FrameRequest, SampledAt
<1> QED
  BY InitEngineInv, <1>1, <1>2, PTL DEF EngineSpec

\* The frames a phone is sent are credible for any cells, levels and thresholds:
\* a handover is held, the serving cell is heard, scans keep their age (engine.ts).
THEOREM FramesCredible == EngineSpec => []FramesAreCredible
<1>1. EngineInv => FramesAreCredible
  BY DEF EngineInv
<1> QED
  BY <1>1, EngineInvariance, PTL

-----------------------------------------------------------------------------
(* The contract: what a result and a readback prove (RadioContract).       *)

\* What was asked of an interface is in place there.
InPlace(i) == asked[i].directive = "REPLACE" => after[i] = Injected(before[i], asked[i].entries)

\* Before an answer nothing has changed; a comparison is made of an applied frame.
StagesFit ==
  /\ stage \in {"built", "sent"} => after = before /\ answer = Unanswered
  /\ stage = "compared" => \A i \in Interfaces : InPlace(i)

ContractInv == RadioContractTypeOK /\ StagesFit /\ ResultIsUnderstood

LEMMA InitContractInv == ContractInit => ContractInv
<1> SUFFICES ASSUME ContractInit PROVE ContractInv
  OBVIOUS
<1>1. \A s \in Surroundings : s \in Hearing
  BY DEF Surroundings, Silence, Hearing
<1>2. before \in [Interfaces -> Hearing] /\ after = before
  BY <1>1 DEF ContractInit
<1>3. asked \in [Interfaces -> Directives]
  <2>1. [directive |-> "HOLD", entries |-> {}] \in Directives
    BY DEF Directives
  <2> QED
    BY <2>1 DEF ContractInit
<1>4. RadioContractTypeOK
  BY <1>2, <1>3 DEF ContractInit, RadioContractTypeOK, Unanswered, NoReport, InterfaceOutcomes, Availabilities
<1> QED
  BY <1>2, <1>4 DEF ContractInit, ContractInv, StagesFit, ResultIsUnderstood

LEMMA SendKeeps == ContractInv /\ SendApply => ContractInv'
<1> SUFFICES ASSUME ContractInv, SendApply PROVE ContractInv'
  OBVIOUS
<1>1. asked' \in [Interfaces -> Directives]
  BY DEF SendApply
<1> QED
  BY <1>1 DEF SendApply, ContractInv, RadioContractTypeOK, StagesFit, ResultIsUnderstood

LEMMA RefusalKeeps == ContractInv /\ Refuses => ContractInv'
<1> SUFFICES ASSUME ContractInv, Refuses PROVE ContractInv'
  OBVIOUS
<1>1. PICK lifecycle \in {"REJECTED", "EXPIRED"} :
        answer' = [Unanswered EXCEPT !.lifecycle = lifecycle, !.outcomes = [i \in Interfaces |-> "REJECTED"]]
  BY DEF Refuses
<1>2. answer' = [lifecycle |-> lifecycle, outcomes |-> [i \in Interfaces |-> "REJECTED"],
                 certain |-> TRUE, rolledBack |-> FALSE]
  BY <1>1 DEF Unanswered
<1>3. RadioContractTypeOK'
  BY <1>2 DEF Refuses, ContractInv, RadioContractTypeOK, InterfaceOutcomes
<1>4. after' = before' /\ stage' = "answered"
  BY DEF Refuses, ContractInv, StagesFit
<1>5. ~Interpreted(answer').applied
  BY <1>2 DEF Interpreted
<1> QED
  BY <1>3, <1>4, <1>5 DEF ContractInv, StagesFit, ResultIsUnderstood

\* The phone's answer against what it did (contract.ts, applyResultSchema and interpretResult).
LEMMA AnswerKeeps == ContractInv /\ Applies => ContractInv'
<1> SUFFICES ASSUME ContractInv, Applies PROVE ContractInv'
  OBVIOUS
<1>1. PICK outcomes \in [Interfaces -> InterfaceOutcomes], lifecycle \in {"APPLIED", "PARTIAL", "FAILED"},
           certain \in BOOLEAN, rolledBack \in BOOLEAN :
       /\ \A i \in Interfaces : outcomes[i] \in HonestOutcomes(i)
       /\ rolledBack => \A i \in Interfaces : outcomes[i] \notin Wrote
       /\ answer' = [lifecycle |-> lifecycle, outcomes |-> outcomes, certain |-> certain, rolledBack |-> rolledBack]
       /\ WellFormed(answer')
       /\ after' \in {h \in [Interfaces -> UNION {Left(i, outcomes[i], certain) : i \in Interfaces}] :
                        \A i \in Interfaces : h[i] \in Left(i, outcomes[i], certain)}
  BY DEF Applies
<1>2. /\ stage' = "answered" /\ build' = build /\ asked' = asked /\ before' = before /\ report' = report
      /\ asked \in [Interfaces -> Directives] /\ before \in [Interfaces -> Hearing]
  BY DEF Applies, ContractInv, RadioContractTypeOK
<1>3. DOMAIN after' = Interfaces /\ after' = [i \in Interfaces |-> after'[i]]
      /\ \A i \in Interfaces : after'[i] \in Left(i, outcomes[i], certain)
  BY <1>1
<1>4. \A i \in Interfaces : Injected(before[i], asked[i].entries) \in Hearing
  BY <1>2 DEF Injected, Hearing
<1>5. \A i \in Interfaces : after'[i] \in Hearing
  BY <1>2, <1>3, <1>4 DEF Left
<1>6. RadioContractTypeOK'
  <2>1. after' \in [Interfaces -> Hearing]
    BY <1>3, <1>5
  <2> QED
    BY <1>1, <1>2, <2>1 DEF ContractInv, RadioContractTypeOK
<1>7. ASSUME Interpreted(answer').applied, NEW i \in Interfaces, asked[i].directive = "REPLACE"
      PROVE  after'[i] = Injected(before[i], asked[i].entries)
  <2>1. answer'.lifecycle = "APPLIED"
    BY <1>7 DEF Interpreted
  <2>2. outcomes[i] \in SettledOk
    BY <1>1, <2>1 DEF WellFormed
  <2>3. outcomes[i] = "APPLIED"
    BY <1>1, <1>7, <2>2 DEF HonestOutcomes, SettledOk
  <2> QED
    BY <1>3, <2>3 DEF Left
<1>8. ASSUME Interpreted(answer').retry = "NEW_FRAME", answer'.lifecycle # "PARTIAL"
      PROVE  after' = before
  <2>1. lifecycle = "FAILED" /\ rolledBack
    BY <1>1, <1>8 DEF Interpreted
  <2>2. certain
    BY <1>1, <2>1 DEF WellFormed
  <2>3. \A i \in Interfaces : outcomes[i] \notin Wrote
    BY <1>1, <2>1
  <2>4. \A i \in Interfaces : after'[i] = before[i]
    BY <1>3, <2>2, <2>3 DEF Left, Wrote
  <2> QED
    BY <1>2, <1>3, <2>4
<1>9. \A i \in Interfaces : asked'[i].directive = "REPLACE" =>
        Injected(before[i], asked[i].entries)' = Injected(before[i], asked[i].entries)
  BY <1>2 DEF Injected
<1>10. ResultIsUnderstood'
  BY <1>2, <1>7, <1>8, <1>9 DEF ResultIsUnderstood
<1> QED
  BY <1>2, <1>6, <1>10 DEF ContractInv, StagesFit

LEMMA ReadingKeeps == ContractInv /\ ObserverReads => ContractInv'
<1> SUFFICES ASSUME ContractInv, ObserverReads PROVE ContractInv'
  OBVIOUS
<1>1. /\ stage = "answered" /\ Interpreted(answer).applied /\ stage' = "compared"
      /\ build' = build /\ asked' = asked /\ before' = before /\ after' = after /\ answer' = answer
  BY DEF ObserverReads
<1>2. report' \in [scope : {"IN_SCOPE", "OUT_OF_SCOPE", "UNKNOWN"},
                   availability : [Interfaces -> Availabilities],
                   fresh : [Interfaces -> SUBSET Identities], throttled : BOOLEAN, warned : BOOLEAN]
  BY DEF ObserverReads
<1>3. \A i \in Interfaces : InPlace(i)'
  BY <1>1 DEF ContractInv, ResultIsUnderstood, InPlace, Injected
<1> QED
  BY <1>1, <1>2, <1>3 DEF ContractInv, RadioContractTypeOK, StagesFit, ResultIsUnderstood

LEMMA ContractInvariance == ContractSpec => []ContractInv
<1>1. ContractInv /\ UNCHANGED contractVars => ContractInv'
  BY DEF ContractInv, contractVars, RadioContractTypeOK, StagesFit, ResultIsUnderstood, InPlace, Injected
<1> QED
  BY InitContractInv, SendKeeps, RefusalKeeps, AnswerKeeps, ReadingKeeps, <1>1, PTL DEF ContractSpec, ContractNext

\* What a report must say for the comparison to match (policy.ts, compareReadback).
LEMMA MatchIsHeard ==
  ASSUME ContractInv, stage = "compared", report.scope = "IN_SCOPE", NEW i \in Interfaces, Status(i) = "MATCH"
  PROVE  asked[i].directive = "REPLACE" /\ Heard(i)
<1>1. asked[i].entries \subseteq Identities /\ report.fresh[i] \subseteq Identities /\ after[i] \in Hearing
  BY DEF ContractInv, RadioContractTypeOK, Directives
<1>2. report.availability[i] = "MEASURED"
  BY DEF Status, ContractInv, RadioContractTypeOK, Availabilities
<1>3. asked[i].entries # {} => Unmeasured(i) = {} /\ Mismatched(i) = {}
  BY <1>2 DEF Status, StaleOnly, Missing
<1>4. \A e \in asked[i].entries : Post(i)[e] \notin {"absent", "far"}
  BY <1>3 DEF Unmeasured, Mismatched
<1>5. \A e \in asked[i].entries : e \in report.fresh[i] /\ after[i][e] \notin {"absent", "far"}
  BY <1>1, <1>4 DEF Post, Now
<1>6. build.mode = "EXCLUSIVE" => Extra(i) = {}
  BY <1>2 DEF Status
<1>7. ASSUME build.mode = "EXCLUSIVE", NEW e \in report.fresh[i] \ asked[i].entries
      PROVE  after[i][e] = "absent"
  BY <1>1, <1>6, <1>7 DEF Extra, Post, Now
<1>8. asked[i].directive = "REPLACE"
  BY DEF Status
<1>9. \A e \in asked[i].entries : after[i][e] = "near"
  BY <1>1, <1>5 DEF Hearing
<1> QED
  BY <1>5, <1>7, <1>8, <1>9 DEF Heard

LEMMA MismatchIsOld ==
  ASSUME ContractInv, stage = "compared", report.scope = "IN_SCOPE", NEW i \in Interfaces, Status(i) = "MISMATCH"
  PROVE  asked[i].entries \ report.fresh[i] # {}
<1>1. asked[i].entries \subseteq Identities /\ asked[i].directive = "REPLACE"
  BY DEF ContractInv, RadioContractTypeOK, Directives, Status
<1>2. after[i] = [e \in Identities |-> IF e \in asked[i].entries THEN "near"
                                       ELSE IF build.mode = "EXCLUSIVE" THEN "absent" ELSE before[i][e]]
  BY <1>1 DEF ContractInv, StagesFit, InPlace, Injected
<1>3. report.availability[i] = "MEASURED"
  BY DEF Status, ContractInv, RadioContractTypeOK, Availabilities
<1>4. Missing(i) # {} \/ Mismatched(i) # {} \/ (build.mode = "EXCLUSIVE" /\ Extra(i) # {})
  BY <1>1, <1>3 DEF Status
<1>5. Mismatched(i) = {}
  BY <1>1, <1>2 DEF Mismatched, Post, Now
<1>6. build.mode = "EXCLUSIVE" => Extra(i) = {}
  BY <1>1, <1>2 DEF Extra, Post, Now
<1>7. \A e \in Unmeasured(i) : e \in asked[i].entries \ report.fresh[i]
  BY <1>1, <1>2 DEF Unmeasured, Post, Now
<1> QED
  BY <1>4, <1>5, <1>6, <1>7 DEF Missing

\* The verdict on a readback is true for any interfaces, identities and builds:
\* VERIFIED is heard on every interface it does not leave out, and says when it
\* leaves one out; a mismatch is stale (contract.ts, policy.ts).
THEOREM VerdictTrue == ContractSpec => []VerdictIsTrue
<1>1. ContractInv => VerifiedIsHeard
  <2> DEFINE Changed == {i \in Interfaces : asked[i].directive = "REPLACE"}
  <2> SUFFICES ASSUME ContractInv, stage = "compared", Overall = "VERIFIED"
               PROVE  /\ report.scope = "IN_SCOPE" /\ ~Blocking
                      /\ \E i \in Changed : Heard(i)
                      /\ \A i \in Changed :
                           Heard(i) \/ (report.availability[i] = "UNSUPPORTED_IN_SCOPE" /\ ScopeLimited)
    BY DEF VerifiedIsHeard
  <2>1. /\ report.scope = "IN_SCOPE" /\ ~Blocking /\ "MISMATCH" \notin Statuses
        /\ Statuses \cap {"INCONCLUSIVE", "UNAVAILABLE", "NOT_YET_MEASURED"} = {}
        /\ "MATCH" \in Statuses
    BY DEF Overall, ContractInv, RadioContractTypeOK
  <2>2. ASSUME NEW i \in Changed
        PROVE  Heard(i) \/ (report.availability[i] = "UNSUPPORTED_IN_SCOPE" /\ ScopeLimited)
    <3>1. Status(i) \in Statuses /\ Status(i) \notin {"INCONCLUSIVE", "UNAVAILABLE", "NOT_YET_MEASURED", "MISMATCH"}
      BY <2>1 DEF Statuses
    <3>2. Status(i) = "MATCH" \/ (report.availability[i] = "UNSUPPORTED_IN_SCOPE" /\ Status(i) = "UNSUPPORTED_IN_SCOPE")
      BY <2>1, <3>1 DEF Status, ContractInv, RadioContractTypeOK, Availabilities
    <3>3. Status(i) = "UNSUPPORTED_IN_SCOPE" => ScopeLimited
      BY <3>1 DEF ScopeLimited
    <3>4. Status(i) = "MATCH" => Heard(i)
      BY <2>1, MatchIsHeard
    <3> QED
      BY <3>2, <3>3, <3>4
  <2>3. \E i \in Changed : Heard(i)
    <3>1. PICK i \in Interfaces : Status(i) = "MATCH"
      BY <2>1 DEF Statuses
    <3> QED
      BY <2>1, <3>1, MatchIsHeard
  <2> QED
    BY <2>1, <2>2, <2>3
<1>2. ContractInv => MismatchIsStale
  <2> SUFFICES ASSUME ContractInv, stage = "compared", Overall = "MISMATCH"
               PROVE  \E i \in Interfaces : asked[i].entries \ report.fresh[i] # {}
    BY DEF MismatchIsStale
  <2>1. report.scope = "IN_SCOPE" /\ "MISMATCH" \in Statuses
    BY DEF Overall, ContractInv, RadioContractTypeOK
  <2> QED
    BY <2>1, MismatchIsOld DEF Statuses
<1> QED
  BY ContractInvariance, <1>1, <1>2, PTL DEF VerdictIsTrue, ContractInv

-----------------------------------------------------------------------------
(* The runtime and its evidence (RadioRuntime).                            *)

\* A set of naturals has a least one.
LEMMA Earliest ==
  ASSUME NEW D \in SUBSET Nat, D # {}
  PROVE  \E d \in D : \A e \in D : d <= e
<1>1. \E d \in D : \A e \in D : ~(<<e, d>> \in OpToRel(<, Nat))
  BY NatLessThanWellFounded, WFMin
<1>2. \A d \in D, e \in D : ~(<<e, d>> \in OpToRel(<, Nat)) => d <= e
  BY DEF OpToRel
<1> QED
  BY <1>1, <1>2

\* Removing one entry of a sequence leaves entries of it (SequencesExt).
LEMMA RemoveAtKeeps ==
  ASSUME NEW S, NEW s \in Seq(S), NEW i \in 1..Len(s)
  PROVE  /\ RemoveAt(s, i) \in Seq(S)
         /\ \A n \in DOMAIN RemoveAt(s, i) : \E k \in DOMAIN s : RemoveAt(s, i)[n] = s[k]
<1> DEFINE head == SubSeq(s, 1, i - 1)
           rest == SubSeq(s, i + 1, Len(s))
<1>1. Len(s) \in Nat /\ i \in Int /\ 1 <= i /\ i <= Len(s) /\ DOMAIN s = 1..Len(s) /\ \A k \in 1..Len(s) : s[k] \in S
  OBVIOUS
<1>2. /\ head \in Seq(S) /\ Len(head) = i - 1
      /\ \A n \in 1..(i - 1) : head[n] = s[n]
  <2>1. 1 \in Int /\ i - 1 \in Int /\ \A k \in 1..(i - 1) : s[k] \in S
    BY <1>1
  <2>2. /\ head \in Seq(S)
        /\ Len(head) = IF 1 <= i - 1 THEN (i - 1) - 1 + 1 ELSE 0
        /\ \A n \in 1..((i - 1) - 1 + 1) : head[n] = s[1 + n - 1]
    BY <2>1, SubSeqProperties
  <2> HIDE DEF head
  <2> QED
    BY <1>1, <2>2
<1>3. /\ rest \in Seq(S) /\ Len(rest) = Len(s) - i
      /\ \A n \in 1..(Len(s) - i) : rest[n] = s[i + n]
  <2>1. i + 1 \in Int /\ Len(s) \in Int /\ \A k \in (i + 1)..Len(s) : s[k] \in S
    BY <1>1
  <2>2. /\ rest \in Seq(S)
        /\ Len(rest) = IF i + 1 <= Len(s) THEN Len(s) - (i + 1) + 1 ELSE 0
        /\ \A n \in 1..(Len(s) - (i + 1) + 1) : rest[n] = s[(i + 1) + n - 1]
    BY <2>1, SubSeqProperties
  <2> HIDE DEF rest
  <2>3. Len(rest) = Len(s) - i
    <3> DEFINE l == Len(s)
               r == Len(rest)
    <3>1. r = IF i + 1 <= l THEN l - (i + 1) + 1 ELSE 0
      BY <2>2
    <3>2. l \in Int /\ i \in Int /\ i <= l
      BY <1>1
    <3> HIDE DEF l, r
    <3>3. r = l - i
      BY <3>1, <3>2
    <3> QED
      BY <3>3 DEF l, r
  <2>4. ASSUME NEW n \in 1..(Len(s) - i) PROVE rest[n] = s[i + n]
    <3>1. n \in 1..(Len(s) - (i + 1) + 1) /\ (i + 1) + n - 1 = i + n
      BY <1>1
    <3> QED
      BY <2>2, <3>1
  <2> QED
    BY <2>2, <2>3, <2>4
<1>4. RemoveAt(s, i) = head \o rest
  BY DEF RemoveAt
<1> HIDE DEF head, rest
<1> DEFINE both == head \o rest
<1>5. /\ both \in Seq(S) /\ Len(both) = Len(head) + Len(rest)
      /\ \A n \in 1..(Len(head) + Len(rest)) : both[n] = IF n <= Len(head) THEN head[n] ELSE rest[n - Len(head)]
  BY <1>2, <1>3, ConcatProperties
<1> HIDE DEF both
<1>6. ASSUME NEW n \in 1..(Len(head) + Len(rest)) PROVE \E k \in 1..Len(s) : both[n] = s[k]
  <2>1. CASE n <= i - 1
    BY <1>1, <1>2, <1>3, <1>5, <2>1
  <2>2. CASE ~(n <= i - 1)
    <3>1. both[n] = rest[n - (i - 1)]
      BY <1>1, <1>2, <1>3, <1>5, <2>2
    <3>2. n - (i - 1) \in 1..(Len(s) - i) /\ i + (n - (i - 1)) \in 1..Len(s)
      BY <1>1, <1>2, <1>3, <2>2
    <3> QED
      BY <1>3, <3>1, <3>2
  <2> QED
    BY <2>1, <2>2
<1>7. DOMAIN both = 1..(Len(head) + Len(rest))
  BY <1>5
<1>8. RemoveAt(s, i) = both
  BY <1>4 DEF both
<1> QED
  BY <1>1, <1>5, <1>6, <1>7, <1>8

\* What the store holds once a row was recorded (evidenceStore.ts, append).
LEMMA Recorded ==
  ASSUME RuntimeTypeOK, NEW row \in Rows, Record(row)
  PROVE  /\ rtRows' \in Seq(Rows)
         /\ \A x \in Range(rtRows') : \/ x = row
                                      \/ \E y \in Range(rtRows) : x = [y EXCEPT !.current = @ /\ y.session = row.session]
<1> DEFINE others == [i \in DOMAIN rtRows |-> [rtRows[i] EXCEPT !.current = @ /\ rtRows[i].session = row.session]]
           mine == {i \in DOMAIN others : others[i].session = rtSession}
           oldest == CHOOSE i \in mine : \A j \in mine : i <= j
           kept == Bounded(others)
<1>1. rtRows \in Seq(Rows) /\ MaxEvidence \in Nat \ {0}
  BY RadioRuntimeAssumption DEF RuntimeTypeOK
<1>2. \A i \in DOMAIN rtRows : rtRows[i] \in Rows
  BY <1>1
<1>3. \A i \in DOMAIN rtRows : others[i] \in Rows
  BY <1>2 DEF Rows
<1>4. others \in Seq(Rows) /\ DOMAIN others = DOMAIN rtRows /\ DOMAIN others = 1..Len(others)
  BY <1>1, <1>3
<1>5. /\ kept \in Seq(Rows)
      /\ \A n \in DOMAIN kept : \E k \in DOMAIN others : kept[n] = others[k]
  <2>1. CASE Cardinality(mine) < MaxEvidence
    <3>1. kept = others
      BY <2>1 DEF Bounded
    <3> QED
      BY <1>4, <3>1
  <2>2. CASE ~(Cardinality(mine) < MaxEvidence)
    <3>1. mine # {}
      <4>1. Cardinality({}) = 0
        BY FS_EmptySet
      <4>2. 0 < MaxEvidence
        BY <1>1
      <4> QED
        BY <2>2, <4>1, <4>2
    <3>2. mine \subseteq 1..Len(others)
      BY <1>4
    <3>3. mine \subseteq Nat
      BY <3>2
    <3> HIDE DEF mine
    <3>4. \E m \in mine : \A j \in mine : m <= j
      BY <3>1, <3>3, Earliest
    <3>5. \E m : m \in mine /\ \A j \in mine : m <= j
      BY <3>4
    <3>6. oldest \in mine
      BY <3>5
    <3>7. kept = RemoveAt(others, oldest)
      BY <2>2 DEF Bounded, mine
    <3> HIDE DEF oldest, others
    <3>8. oldest \in 1..Len(others)
      BY <3>2, <3>6
    <3> QED
      BY <1>4, <3>7, <3>8, RemoveAtKeeps
  <2> QED
    BY <2>1, <2>2
<1>6. rtRows' = Append(kept, row)
  BY DEF Record, RowsAfter
<1> HIDE DEF kept
<1>7. /\ rtRows' \in Seq(Rows)
      /\ \A n \in DOMAIN rtRows' : rtRows'[n] = row \/ \E k \in DOMAIN kept : rtRows'[n] = kept[k]
  BY <1>5, <1>6
<1>8. \A n \in DOMAIN rtRows' : rtRows'[n] = row \/ \E k \in DOMAIN rtRows : rtRows'[n] = others[k]
  BY <1>4, <1>5, <1>7
<1> QED
  BY <1>7, <1>8 DEF Range

\* The last frame is a tick on the map, and the engine is there or ahead of it.
LastFits ==
  /\ rtLast.seq <= rtModelled.seq
  /\ rtLast # NoTick =>
       /\ rtTicks[rtLast.seq].seq = rtLast.seq
       /\ rtTicks[rtLast.seq].el = rtLast.el
       /\ rtTicks[rtLast.seq].phase = rtLast.phase
       /\ rtModelled.seq = rtLast.seq =>
            /\ rtModelled.el = rtLast.el
            /\ rtModelled.phase = IF rtLast.phase = "CLEANUP" THEN "MOVING" ELSE rtLast.phase

\* A progress inside ingest is ahead of the last frame, and was modelled.
CallIsAhead == rtCall # Nothing => rtCall.seq > rtLast.seq /\ rtModelled = Modelled(rtCall)

\* The phone has a frame by a conclusion, which the last frame is not behind.
PhoneIsBehind == \A s \in FrameNumbers : rtPhone[s] # "kept" => s <= rtLast.seq \/ s \in rtUnrecorded

\* The rows of this session say what is known of its frames.
RowsFit ==
  /\ \A r \in Range(rtRows) : r.session <= rtSession
  /\ \A r \in RowsOfThisSession :
       /\ r.applied => r.source = "PLUGIN" /\ rtPhone[r.seq] = "applied"
       /\ r.kind = "RESULT" => r.seq <= rtLast.seq
       /\ r.kind = "RESULT" /\ r.source = "PLUGIN" /\ ~r.applied /\ r.seq \notin rtUnrecorded => rtPhone[r.seq] = "kept"

\* So does the last frame, as long as its evidence is on record.
LastTold ==
  rtLast # NoTick =>
    /\ rtLast.applied => rtSource = "PLUGIN" /\ rtPhone[rtLast.seq] = "applied"
    /\ rtSource = "PLUGIN" /\ ~rtLast.applied /\ rtLast.seq \notin rtUnrecorded /\ rtPhone[rtLast.seq] # "kept" =>
         rtLast.uncertain

RuntimeInv ==
  /\ RuntimeTypeOK
  /\ LastFits /\ CallIsAhead /\ PhoneIsBehind
  /\ RowsFit /\ LastTold /\ OneSessionIsCurrent

LEMMA InitRuntimeInv == RuntimeInit => RuntimeInv
<1> SUFFICES ASSUME RuntimeInit PROVE RuntimeInv
  OBVIOUS
<1>1. rtRows = <<>> /\ Range(rtRows) = {} /\ RowsOfThisSession = {}
  BY DEF RuntimeInit, Range, RowsOfThisSession
<1>2. NoTick \in Ticks /\ NoTick.seq = -1 /\ Nothing.seq = -1 /\ ~NoTick.applied
  BY DEF NoTick, Tick, Nothing, Ticks
<1>3. RuntimeTypeOK
  BY <1>1, <1>2, RadioRuntimeAssumption DEF RuntimeInit, RuntimeTypeOK
<1>4. LastFits /\ CallIsAhead /\ PhoneIsBehind /\ LastTold
  BY <1>2 DEF RuntimeInit, LastFits, CallIsAhead, PhoneIsBehind, LastTold
<1> QED
  BY <1>1, <1>3, <1>4 DEF RuntimeInv, RowsFit, OneSessionIsCurrent

\* A row that is recorded is current, and takes that from those of other sessions.
LEMMA RowStep ==
  ASSUME RuntimeInv, NEW row \in Rows, Record(row), row.session = rtSession, rtSession' = rtSession
  PROVE  /\ rtRows' \in Seq(Rows)
         /\ OneSessionIsCurrent'
         /\ \A r \in Range(rtRows') : r.session <= rtSession'
         /\ \A r \in RowsOfThisSession' :
              \/ r = row
              \/ \E y \in RowsOfThisSession : /\ r.seq = y.seq /\ r.kind = y.kind
                                              /\ r.source = y.source /\ r.applied = y.applied
<1>1. /\ rtRows' \in Seq(Rows)
      /\ \A x \in Range(rtRows') : \/ x = row
                                   \/ \E y \in Range(rtRows) : x = [y EXCEPT !.current = @ /\ y.session = row.session]
  BY Recorded DEF RuntimeInv
<1>2. \A y \in Range(rtRows) : y \in Rows
  BY DEF RuntimeInv, RuntimeTypeOK, Range
<1>3. \A y \in Range(rtRows) :
        LET x == [y EXCEPT !.current = @ /\ y.session = row.session]
        IN /\ x.session = y.session /\ x.seq = y.seq /\ x.kind = y.kind /\ x.source = y.source /\ x.applied = y.applied
           /\ x.current => x.session = row.session
  BY <1>2 DEF Rows
<1>4. ASSUME NEW x \in Range(rtRows')
      PROVE  /\ x.current => x.session = rtSession
             /\ x.session <= rtSession
             /\ \/ x = row
                \/ \E y \in Range(rtRows) : /\ x.session = y.session /\ x.seq = y.seq /\ x.kind = y.kind
                                            /\ x.source = y.source /\ x.applied = y.applied
  <2>1. CASE x = row
    BY <2>1, RadioRuntimeAssumption DEF RuntimeInv, RuntimeTypeOK
  <2>2. ASSUME NEW y \in Range(rtRows), x = [y EXCEPT !.current = @ /\ y.session = row.session]
        PROVE  /\ x.current => x.session = rtSession
               /\ x.session <= rtSession
               /\ /\ x.session = y.session /\ x.seq = y.seq /\ x.kind = y.kind
                  /\ x.source = y.source /\ x.applied = y.applied
    BY <1>3, <2>2 DEF RuntimeInv, RowsFit
  <2> QED
    BY <1>1, <2>1, <2>2
<1>5. OneSessionIsCurrent'
  BY <1>4 DEF OneSessionIsCurrent
<1>6. \A r \in Range(rtRows') : r.session <= rtSession'
  BY <1>4
<1>7. ASSUME NEW r \in RowsOfThisSession'
      PROVE  \/ r = row
             \/ \E y \in RowsOfThisSession : /\ r.seq = y.seq /\ r.kind = y.kind
                                             /\ r.source = y.source /\ r.applied = y.applied
  <2>1. r \in Range(rtRows') /\ r.session = rtSession
    BY DEF RowsOfThisSession
  <2> QED
    BY <1>4, <2>1 DEF RowsOfThisSession
<1> QED
  BY <1>1, <1>5, <1>6, <1>7

\* A row that settles nothing leaves the rows true.
LEMMA CalmRow ==
  ASSUME RuntimeInv, NEW row \in Rows, Record(row), row.session = rtSession, ~row.applied, row.kind # "RESULT",
         rtSession' = rtSession, rtPhone' = rtPhone, rtUnrecorded' = rtUnrecorded, rtLast' = rtLast
  PROVE  rtRows' \in Seq(Rows) /\ OneSessionIsCurrent' /\ RowsFit'
<1>1. ASSUME NEW r \in RowsOfThisSession'
      PROVE  /\ r.applied => r.source = "PLUGIN" /\ rtPhone[r.seq] = "applied"
             /\ r.kind = "RESULT" => r.seq <= rtLast.seq
             /\ r.kind = "RESULT" /\ r.source = "PLUGIN" /\ ~r.applied /\ r.seq \notin rtUnrecorded => rtPhone[r.seq] = "kept"
  <2>1. CASE r = row
    BY <2>1
  <2>2. ASSUME NEW y \in RowsOfThisSession, r.seq = y.seq /\ r.kind = y.kind /\ r.source = y.source /\ r.applied = y.applied
        PROVE  /\ r.applied => r.source = "PLUGIN" /\ rtPhone[r.seq] = "applied"
               /\ r.kind = "RESULT" => r.seq <= rtLast.seq
               /\ r.kind = "RESULT" /\ r.source = "PLUGIN" /\ ~r.applied /\ r.seq \notin rtUnrecorded => rtPhone[r.seq] = "kept"
    BY <2>2 DEF RuntimeInv, RowsFit
  <2> QED
    BY <2>1, <2>2, RowStep
<1> QED
  BY <1>1, RowStep DEF RowsFit

LEMMA TickIs ==
  ASSUME NEW p \in RadioProgress, NEW a \in BOOLEAN, NEW u \in BOOLEAN
  PROVE  /\ Tick(p, a, u) \in Ticks /\ Tick(p, a, u) # NoTick
         /\ Tick(p, a, u).seq = p.seq /\ Tick(p, a, u).el = p.el /\ Tick(p, a, u).phase = p.phase
         /\ Tick(p, a, u).applied = a /\ Tick(p, a, u).uncertain = u
<1>1. p.seq # -1
  BY RadioRuntimeAssumption DEF RadioProgress, FrameNumbers
<1> QED
  BY <1>1 DEF Tick, Ticks, NoTick, Nothing, RadioProgress

LEMMA DuplicateKeeps ==
  ASSUME RuntimeInv, NEW p \in RadioProgress, IngestDuplicate(p)
  PROVE  RuntimeInv'
<1> DEFINE tick == [rtTicks[p.seq] EXCEPT !.applied = FALSE]
<1>1. p.seq \in FrameNumbers /\ rtTicks[p.seq] \in Ticks /\ rtTicks[p.seq].seq = p.seq /\ rtTicks \in [FrameNumbers -> Ticks]
  BY DEF RadioProgress, IngestDuplicate, IsDuplicate, RuntimeInv, RuntimeTypeOK
<1>2. rtTicks[p.seq] # NoTick
  BY <1>1, RadioRuntimeAssumption DEF NoTick, Tick, Nothing, FrameNumbers
<1>3. /\ tick \in Ticks /\ tick.seq = p.seq /\ tick.el = rtTicks[p.seq].el /\ tick.phase = rtTicks[p.seq].phase
      /\ tick.applied = FALSE /\ tick.uncertain \in BOOLEAN
  BY <1>1, <1>2 DEF Ticks
<1>4. rtTicks' = [rtTicks EXCEPT ![p.seq] = tick]
  BY DEF IngestDuplicate
<1>5. rtTicks' \in [FrameNumbers -> Ticks] /\ rtTicks'[p.seq] = tick
      /\ \A s \in FrameNumbers : s # p.seq => rtTicks'[s] = rtTicks[s]
  BY <1>1, <1>3, <1>4
<1>6. /\ rtSource' = rtSource /\ rtMode' = rtMode /\ rtSession' = rtSession /\ rtLast' = rtLast /\ rtModelled' = rtModelled
      /\ rtCall' = rtCall /\ rtPhone' = rtPhone /\ rtUnrecorded' = rtUnrecorded /\ rtStoreFaults' = rtStoreFaults
  BY DEF IngestDuplicate
<1>7. Record(Row("DUPLICATE", rtSource, tick))
  BY <1>5 DEF IngestDuplicate
<1> HIDE DEF tick
<1>8. rtRows' \in Seq(Rows) /\ OneSessionIsCurrent' /\ RowsFit'
  <2>1. rtSource \in Sources
    BY DEF RuntimeInv, RuntimeTypeOK
  <2> DEFINE row == Row("DUPLICATE", rtSource, tick)
  <2>2. row \in Rows /\ row.session = rtSession /\ ~row.applied /\ row.kind # "RESULT"
    BY <1>1, <1>3, <2>1 DEF RuntimeInv, RuntimeTypeOK, Row, Rows
  <2>3. Record(row)
    BY <1>7
  <2> HIDE DEF row
  <2> QED
    BY <1>6, <2>2, <2>3, CalmRow
<1>9. RuntimeTypeOK'
  BY <1>5, <1>6, <1>8 DEF RuntimeInv, RuntimeTypeOK
<1>10. LastFits'
  <2>1. rtLast # NoTick => rtLast.seq \in FrameNumbers
    BY DEF RuntimeInv, RuntimeTypeOK, Ticks
  <2> QED
    BY <1>3, <1>5, <1>6, <2>1 DEF RuntimeInv, LastFits
<1>11. CallIsAhead' /\ PhoneIsBehind' /\ LastTold'
  BY <1>6 DEF RuntimeInv, CallIsAhead, PhoneIsBehind, LastTold, Modelled
<1> QED
  BY <1>8, <1>9, <1>10, <1>11 DEF RuntimeInv

LEMMA LateKeeps ==
  ASSUME RuntimeInv, NEW p \in RadioProgress, IngestLate(p)
  PROVE  RuntimeInv'
<1>1. /\ rtSource' = rtSource /\ rtMode' = rtMode /\ rtSession' = rtSession /\ rtLast' = rtLast /\ rtModelled' = rtModelled
      /\ rtCall' = rtCall /\ rtPhone' = rtPhone /\ rtUnrecorded' = rtUnrecorded /\ rtStoreFaults' = rtStoreFaults
      /\ rtTicks' = rtTicks
  BY DEF IngestLate
<1>2. rtRows' \in Seq(Rows) /\ OneSessionIsCurrent' /\ RowsFit'
  <2>1. rtSource \in Sources /\ p.seq \in FrameNumbers
    BY DEF RuntimeInv, RuntimeTypeOK, RadioProgress
  <2>2. Record(Row("FAILURE", rtSource, Tick(p, FALSE, FALSE)))
    BY DEF IngestLate
  <2> DEFINE row == Row("FAILURE", rtSource, Tick(p, FALSE, FALSE))
  <2>3. /\ Tick(p, FALSE, FALSE).seq = p.seq /\ Tick(p, FALSE, FALSE).applied = FALSE
        /\ Tick(p, FALSE, FALSE).uncertain = FALSE
    BY TickIs
  <2>4. row \in Rows /\ row.session = rtSession /\ ~row.applied /\ row.kind # "RESULT"
    BY <2>1, <2>3 DEF RuntimeInv, RuntimeTypeOK, Row, Rows
  <2> HIDE DEF row
  <2> QED
    BY <1>1, <2>2, <2>4, CalmRow DEF row
<1>3. RuntimeTypeOK'
  BY <1>1, <1>2 DEF RuntimeInv, RuntimeTypeOK
<1> QED
  BY <1>1, <1>2, <1>3 DEF RuntimeInv, LastFits, CallIsAhead, PhoneIsBehind, LastTold, Modelled

\* A progress that is taken is ahead of the last frame: one at the same place
\* would be the last frame again (runtime.ts, ingest).
LEMMA TakenIsAhead ==
  ASSUME RuntimeInv, NEW p \in RadioProgress, ~IsDuplicate(p), ~IsLate(p), Accepts(p),
         rtLast.phase # "CLEANUP", p.phase = "CLEANUP" => p.seq = (IF rtLast.seq < 0 THEN 1 ELSE rtLast.seq + 1)
  PROVE  p.seq > rtLast.seq
<1> SUFFICES ASSUME ~(p.seq > rtLast.seq) PROVE FALSE
  OBVIOUS
<1>1. p.seq \in Nat /\ p.el \in Nat /\ p.phase \in Phases
  BY RadioRuntimeAssumption DEF RadioProgress, FrameNumbers
<1>2. rtLast # NoTick
  BY <1>1 DEF NoTick, Tick, Nothing
<1>3. rtLast.seq \in Nat /\ rtLast.el \in Nat /\ rtLast.phase \in Phases
  BY <1>2, RadioRuntimeAssumption DEF RuntimeInv, RuntimeTypeOK, Ticks, FrameNumbers
<1>4. p.seq = rtLast.seq /\ p.el >= rtLast.el
  BY <1>1, <1>3 DEF IsLate
<1>5. rtModelled.seq \in Int /\ rtLast.seq <= rtModelled.seq
  BY RadioRuntimeAssumption DEF RuntimeInv, RuntimeTypeOK, RadioProgress, Nothing, FrameNumbers, LastFits
<1>6. Modelled(p) = rtModelled
  BY <1>1, <1>4, <1>5 DEF Accepts
<1>7. /\ rtModelled.seq = p.seq /\ rtModelled.el = p.el
      /\ rtModelled.phase = IF p.phase = "CLEANUP" THEN "MOVING" ELSE p.phase
  BY <1>6 DEF Modelled, RadioProgress
<1>8. p.phase # "CLEANUP"
  BY <1>3, <1>4
<1>9. rtLast.el = p.el /\ rtLast.phase = p.phase
  BY <1>2, <1>4, <1>7, <1>8 DEF RuntimeInv, LastFits
<1>10. IsDuplicate(p)
  BY <1>2, <1>4, <1>9 DEF IsDuplicate, RuntimeInv, LastFits
<1> QED
  BY <1>10

LEMMA PrepareKeeps ==
  ASSUME RuntimeInv, NEW p \in RadioProgress, Prepare(p),
         rtLast.phase # "CLEANUP", p.phase = "CLEANUP" => p.seq = (IF rtLast.seq < 0 THEN 1 ELSE rtLast.seq + 1)
  PROVE  RuntimeInv'
<1>1. p.seq > rtLast.seq
  BY TakenIsAhead DEF Prepare
<1>2. /\ rtModelled' = Modelled(p) /\ rtPhone' = rtPhone /\ rtUnrecorded' = rtUnrecorded
      /\ rtSource' = rtSource /\ rtMode' = rtMode /\ rtSession' = rtSession /\ rtLast' = rtLast /\ rtTicks' = rtTicks
  BY DEF Prepare, StoreFails
<1>3. rtModelled' \in RadioProgress /\ rtModelled'.seq = p.seq
  <2>1. Modelled(p) = [seq |-> p.seq, el |-> p.el, phase |-> IF p.phase = "CLEANUP" THEN "MOVING" ELSE p.phase]
    BY DEF Modelled, RadioProgress
  <2> QED
    BY <1>2, <2>1 DEF RadioProgress, Phases
<1>4. (rtCall' = p \/ rtCall' = Nothing) /\ rtStoreFaults' \in 0..MaxStoreFaults
  <2>1. rtStoreFaults \in 0..MaxStoreFaults /\ MaxStoreFaults \in Nat
    BY RadioRuntimeAssumption DEF RuntimeInv, RuntimeTypeOK
  <2>2. (rtCall' = p /\ rtStoreFaults' = rtStoreFaults) \/ StoreFails
    BY DEF Prepare
  <2> QED
    BY <2>1, <2>2 DEF StoreFails
<1>5. rtRows' \in Seq(Rows) /\ OneSessionIsCurrent' /\ RowsFit'
  <2>1. CASE rtRows' = rtRows
    BY <1>2, <2>1 DEF RuntimeInv, RuntimeTypeOK, OneSessionIsCurrent, RowsFit, RowsOfThisSession
  <2>2. CASE Record(Row(IF Delivers(p.phase) THEN "REQUESTED" ELSE "SCHEDULED", SourceOf(p.phase), Tick(p, FALSE, FALSE)))
    <3> DEFINE kind == IF Delivers(p.phase) THEN "REQUESTED" ELSE "SCHEDULED"
               row == Row(kind, SourceOf(p.phase), Tick(p, FALSE, FALSE))
    <3>1. SourceOf(p.phase) \in Sources /\ p.seq \in FrameNumbers
      BY DEF SourceOf, RuntimeInv, RuntimeTypeOK, Sources, RadioProgress
    <3>2. /\ Tick(p, FALSE, FALSE).seq = p.seq /\ Tick(p, FALSE, FALSE).applied = FALSE
          /\ Tick(p, FALSE, FALSE).uncertain = FALSE
      BY TickIs
    <3>3. kind \in {"REQUESTED", "SCHEDULED"}
      OBVIOUS
    <3>4. Record(row)
      BY <2>2
    <3> HIDE DEF kind
    <3>5. row \in Rows /\ row.session = rtSession /\ ~row.applied /\ row.kind # "RESULT"
      BY <3>1, <3>2, <3>3 DEF RuntimeInv, RuntimeTypeOK, Row, Rows
    <3> HIDE DEF row
    <3> QED
      BY <1>2, <3>4, <3>5, CalmRow
  <2> QED
    BY <2>1, <2>2 DEF Prepare, StoreFails
<1>6. RuntimeTypeOK'
  BY <1>2, <1>3, <1>4, <1>5 DEF RuntimeInv, RuntimeTypeOK
<1>7. rtLast.seq \in Int /\ p.seq \in Int
  BY RadioRuntimeAssumption DEF RuntimeInv, RuntimeTypeOK, Ticks, NoTick, Tick, Nothing, RadioProgress, FrameNumbers
<1>8. LastFits'
  BY <1>1, <1>2, <1>3, <1>7 DEF RuntimeInv, LastFits
<1>9. CallIsAhead'
  BY <1>1, <1>2, <1>4 DEF CallIsAhead, Modelled
<1>10. PhoneIsBehind' /\ LastTold'
  BY <1>2 DEF RuntimeInv, PhoneIsBehind, LastTold
<1> QED
  BY <1>5, <1>6, <1>8, <1>9, <1>10 DEF RuntimeInv

\* What became of a frame on the phone, against what is said of it.
LEMMA DeliveryIs ==
  ASSUME RuntimeInv, rtCall # Nothing, NEW d \in Deliveries(rtCall)
  PROVE  /\ d[2] \in {"kept", "applied", "lost"}
         /\ rtPhone[rtCall.seq] # "kept" => rtCall.seq \in rtUnrecorded /\ d[2] = rtPhone[rtCall.seq]
         /\ Verdict(d[1]).applied => Delivers(rtCall.phase) /\ d[2] = "applied"
         /\ ~Verdict(d[1]).applied /\ ~Verdict(d[1]).uncertain =>
              d[2] = "kept" \/ rtPhone[rtCall.seq] # "kept"
<1>1. rtCall \in RadioProgress /\ rtCall.seq \in FrameNumbers
  BY DEF RuntimeInv, RuntimeTypeOK, RadioProgress
<1>2. rtPhone[rtCall.seq] \in {"kept", "applied", "lost"}
  BY <1>1 DEF RuntimeInv, RuntimeTypeOK
<1>3. rtPhone[rtCall.seq] # "kept" => rtCall.seq \in rtUnrecorded
  <2>1. rtCall.seq > rtLast.seq /\ rtCall.seq \in Int /\ rtLast.seq \in Int
    BY <1>1, RadioRuntimeAssumption
       DEF RuntimeInv, CallIsAhead, RuntimeTypeOK, Ticks, NoTick, Tick, Nothing, FrameNumbers
  <2> QED
    BY <1>1, <2>1 DEF RuntimeInv, PhoneIsBehind
<1>4. CASE ~Delivers(rtCall.phase) \/ rtSource = "LOCAL_PREPARE" \/ rtPhone[rtCall.seq] # "kept"
  <2>1. d = <<"CERTAIN", rtPhone[rtCall.seq]>>
    BY <1>4 DEF Deliveries
  <2>2. d[1] = "CERTAIN" /\ d[2] = rtPhone[rtCall.seq]
    BY <2>1
  <2>3. ~Verdict(d[1]).applied /\ ~Verdict(d[1]).uncertain
    BY <2>2 DEF Verdict
  <2> QED
    BY <1>2, <1>3, <2>2, <2>3
<1>5. CASE ~(~Delivers(rtCall.phase) \/ rtSource = "LOCAL_PREPARE" \/ rtPhone[rtCall.seq] # "kept")
  <2>1. \/ d[1] = "APPLIED" /\ d[2] = "applied"
        \/ d[1] = "CERTAIN" /\ d[2] = "kept"
        \/ d[1] \in {"TIMED_OUT", "UNCERTAIN"} /\ d[2] \in {"applied", "lost"}
    BY <1>5 DEF Deliveries
  <2>2. /\ Verdict(d[1]).applied <=> d[1] = "APPLIED"
        /\ Verdict(d[1]).uncertain <=> d[1] \in {"TIMED_OUT", "UNCERTAIN"}
    BY DEF Verdict
  <2> QED
    BY <1>5, <2>1, <2>2
<1> QED
  BY <1>4, <1>5

\* A frame is concluded: what is put on record is what became of it (runtime.ts, ingest).
LEMMA ConcludeKeeps == RuntimeInv /\ Conclude => RuntimeInv'
<1> SUFFICES ASSUME RuntimeInv, Conclude PROVE RuntimeInv'
  OBVIOUS
<1>1. PICK d \in Deliveries(rtCall) :
       LET verdict == Verdict(d[1])
           source  == SourceOf(rtCall.phase)
           tick    == Tick(rtCall, RecordedApplied(rtSource, verdict.applied), verdict.uncertain)
       IN /\ rtPhone' = [rtPhone EXCEPT ![rtCall.seq] = d[2]]
          /\ \/ /\ Record(Row(IF tick.uncertain THEN "STATUS" ELSE "RESULT", source, tick))
                /\ rtLast' = tick
                /\ rtTicks' = [rtTicks EXCEPT ![tick.seq] = tick]
                /\ rtCall' = Nothing
                /\ UNCHANGED <<rtSource, rtMode, rtSession, rtUnrecorded, rtStoreFaults>>
             \/ StoreFails /\ rtUnrecorded' = rtUnrecorded \cup {rtCall.seq}
  BY DEF Conclude
<1> DEFINE call    == rtCall
           a       == RecordedApplied(rtSource, Verdict(d[1]).applied)
           u       == Verdict(d[1]).uncertain
           tick    == Tick(call, a, u)
           source  == SourceOf(call.phase)
           row     == Row(IF u THEN "STATUS" ELSE "RESULT", source, tick)
<1>2. rtCall # Nothing /\ rtModelled' = rtModelled
  BY DEF Conclude
<1>3. /\ call \in RadioProgress /\ call.seq \in FrameNumbers /\ call.el \in FrameNumbers /\ call.phase \in Phases
      /\ call.seq > rtLast.seq /\ call.seq \in Int /\ rtLast.seq \in Int
  BY <1>2, RadioRuntimeAssumption
     DEF RuntimeInv, CallIsAhead, RuntimeTypeOK, RadioProgress, Ticks, NoTick, Tick, Nothing, FrameNumbers
<1>4. /\ d[2] \in {"kept", "applied", "lost"}
      /\ rtPhone[call.seq] # "kept" => call.seq \in rtUnrecorded /\ d[2] = rtPhone[call.seq]
      /\ a => rtSource = "PLUGIN" /\ source = "PLUGIN" /\ d[2] = "applied"
      /\ source = "PLUGIN" /\ ~a /\ ~u => d[2] = "kept" \/ rtPhone[call.seq] # "kept"
      /\ rtSource = "PLUGIN" /\ ~a /\ ~u => d[2] = "kept" \/ rtPhone[call.seq] # "kept"
  <2>1. /\ source = "PLUGIN" => rtSource = "PLUGIN"
        /\ Delivers(call.phase) => source = rtSource
    BY DEF SourceOf
  <2>2. a <=> Verdict(d[1]).applied /\ rtSource = "PLUGIN"
    BY DEF RecordedApplied
  <2> QED
    BY <1>2, <2>1, <2>2, DeliveryIs
<1>5. a \in BOOLEAN /\ u \in BOOLEAN
  BY DEF RecordedApplied, Verdict
<1>6. /\ rtPhone \in [FrameNumbers -> {"kept", "applied", "lost"}]
      /\ rtPhone' = [rtPhone EXCEPT ![call.seq] = d[2]]
  BY <1>1 DEF RuntimeInv, RuntimeTypeOK
<1>7. /\ rtPhone' \in [FrameNumbers -> {"kept", "applied", "lost"}]
      /\ rtPhone'[call.seq] = d[2]
      /\ \A s \in FrameNumbers : s # call.seq => rtPhone'[s] = rtPhone[s]
      /\ \A s \in FrameNumbers : rtPhone[s] # "kept" => rtPhone'[s] = rtPhone[s]
  BY <1>3, <1>4, <1>6
<1>8. /\ tick \in Ticks /\ tick # NoTick /\ tick.seq = call.seq /\ tick.el = call.el /\ tick.phase = call.phase
      /\ tick.applied = a /\ tick.uncertain = u
  BY <1>3, <1>5, TickIs
<1>9. \/ /\ Record(row) /\ rtLast' = tick /\ rtTicks' = [rtTicks EXCEPT ![call.seq] = tick] /\ rtCall' = Nothing
         /\ UNCHANGED <<rtSource, rtMode, rtSession, rtUnrecorded, rtStoreFaults>>
      \/ StoreFails /\ rtUnrecorded' = rtUnrecorded \cup {call.seq}
  BY <1>1, <1>8
<1>10. source \in Sources
  BY DEF SourceOf, RuntimeInv, RuntimeTypeOK, Sources
<1> HIDE DEF a, u, tick, source
<1>11. /\ row \in Rows /\ row.session = rtSession /\ row.seq = call.seq /\ row.source = source /\ row.applied = a
       /\ row.kind = IF u THEN "STATUS" ELSE "RESULT"
  <2>1. tick.seq \in FrameNumbers /\ tick.applied \in BOOLEAN /\ tick.uncertain \in BOOLEAN
    BY <1>3, <1>5, <1>8
  <2> QED
    BY <1>5, <1>8, <1>10, <2>1 DEF RuntimeInv, RuntimeTypeOK, Row, Rows
<1> HIDE DEF row, call
<1>12. \A y \in RowsOfThisSession : y.seq \in FrameNumbers
  <2>1. \A y \in RowsOfThisSession : y \in Rows
    BY DEF RuntimeInv, RuntimeTypeOK, RowsOfThisSession, Range
  <2> QED
    BY <2>1 DEF Rows
<1>13. rtLast # NoTick => rtLast.seq \in FrameNumbers /\ rtLast.seq # call.seq
  BY <1>3 DEF RuntimeInv, RuntimeTypeOK, Ticks
<1>14. \A s \in FrameNumbers : s \in Int
  BY RadioRuntimeAssumption DEF FrameNumbers
<1>15. CASE /\ Record(row) /\ rtLast' = tick /\ rtTicks' = [rtTicks EXCEPT ![call.seq] = tick] /\ rtCall' = Nothing
            /\ UNCHANGED <<rtSource, rtMode, rtSession, rtUnrecorded, rtStoreFaults>>
  <2>1. /\ rtTicks' \in [FrameNumbers -> Ticks] /\ rtTicks'[call.seq] = tick
    BY <1>3, <1>8, <1>15 DEF RuntimeInv, RuntimeTypeOK
  <2>2. /\ rtRows' \in Seq(Rows) /\ OneSessionIsCurrent'
        /\ \A r \in Range(rtRows') : r.session <= rtSession'
        /\ \A r \in RowsOfThisSession' :
             \/ r = row
             \/ \E y \in RowsOfThisSession : /\ r.seq = y.seq /\ r.kind = y.kind
                                             /\ r.source = y.source /\ r.applied = y.applied
    BY <1>11, <1>15, RowStep
  <2>3. RuntimeTypeOK'
    BY <1>2, <1>7, <1>8, <1>15, <2>1, <2>2 DEF RuntimeInv, RuntimeTypeOK
  <2>4. LastFits'
    <3>1. rtModelled.seq = call.seq /\ rtModelled.el = call.el
          /\ rtModelled.phase = IF call.phase = "CLEANUP" THEN "MOVING" ELSE call.phase
      <4>1. rtModelled = Modelled(call)
        BY <1>2 DEF RuntimeInv, CallIsAhead, call
      <4> QED
        BY <1>3, <4>1 DEF Modelled, RadioProgress
    <3> QED
      BY <1>2, <1>3, <1>8, <1>15, <2>1, <3>1 DEF LastFits
  <2>5. CallIsAhead'
    BY <1>15 DEF CallIsAhead
  <2>6. PhoneIsBehind'
    <3> SUFFICES ASSUME NEW s \in FrameNumbers, rtPhone'[s] # "kept"
                 PROVE  s <= rtLast'.seq \/ s \in rtUnrecorded'
      BY DEF PhoneIsBehind
    <3> QED
      BY <1>3, <1>7, <1>8, <1>14, <1>15 DEF RuntimeInv, PhoneIsBehind
  <2>7. RowsFit'
    <3> SUFFICES ASSUME NEW r \in RowsOfThisSession'
                 PROVE  /\ r.applied => r.source = "PLUGIN" /\ rtPhone'[r.seq] = "applied"
                        /\ r.kind = "RESULT" => r.seq <= rtLast'.seq
                        /\ r.kind = "RESULT" /\ r.source = "PLUGIN" /\ ~r.applied /\ r.seq \notin rtUnrecorded' =>
                             rtPhone'[r.seq] = "kept"
      BY <2>2 DEF RowsFit
    <3>1. CASE r = row
      <4>1. r.applied => r.source = "PLUGIN" /\ rtPhone'[r.seq] = "applied"
        BY <1>4, <1>7, <1>11, <3>1
      <4>2. r.seq <= rtLast'.seq
        BY <1>3, <1>8, <1>11, <1>15, <3>1
      <4>3. ASSUME r.kind = "RESULT", r.source = "PLUGIN", ~r.applied, r.seq \notin rtUnrecorded'
            PROVE  rtPhone'[r.seq] = "kept"
        <5>1. ~u /\ ~a /\ source = "PLUGIN" /\ call.seq \notin rtUnrecorded
          BY <1>11, <1>15, <3>1, <4>3
        <5> QED
          BY <1>4, <1>7, <1>11, <3>1, <5>1
      <4> QED
        BY <4>1, <4>2, <4>3
    <3>2. ASSUME NEW y \in RowsOfThisSession, r.seq = y.seq /\ r.kind = y.kind /\ r.source = y.source /\ r.applied = y.applied
          PROVE  /\ r.applied => r.source = "PLUGIN" /\ rtPhone'[r.seq] = "applied"
                 /\ r.kind = "RESULT" => r.seq <= rtLast'.seq
                 /\ r.kind = "RESULT" /\ r.source = "PLUGIN" /\ ~r.applied /\ r.seq \notin rtUnrecorded' =>
                      rtPhone'[r.seq] = "kept"
      <4>1. /\ y.applied => y.source = "PLUGIN" /\ rtPhone[y.seq] = "applied"
            /\ y.kind = "RESULT" => y.seq <= rtLast.seq
            /\ y.kind = "RESULT" /\ y.source = "PLUGIN" /\ ~y.applied /\ y.seq \notin rtUnrecorded => rtPhone[y.seq] = "kept"
        BY DEF RuntimeInv, RowsFit
      <4>2. y.kind = "RESULT" => y.seq # call.seq /\ y.seq <= rtLast'.seq
        BY <1>3, <1>8, <1>12, <1>14, <1>15, <4>1
      <4> QED
        BY <1>7, <1>12, <1>15, <3>2, <4>1, <4>2
    <3> QED
      BY <2>2, <3>1, <3>2
  <2>8. LastTold'
    <3>1. rtLast'.seq = call.seq /\ (rtLast'.applied <=> a) /\ (rtLast'.uncertain <=> u)
      BY <1>5, <1>8, <1>15
    <3> QED
      BY <1>4, <1>7, <1>15, <3>1 DEF LastTold
  <2> QED
    BY <2>2, <2>3, <2>4, <2>5, <2>6, <2>7, <2>8 DEF RuntimeInv
<1>16. CASE StoreFails /\ rtUnrecorded' = rtUnrecorded \cup {call.seq}
  <2>1. /\ rtSource' = rtSource /\ rtMode' = rtMode /\ rtSession' = rtSession /\ rtLast' = rtLast
        /\ rtTicks' = rtTicks /\ rtRows' = rtRows /\ rtCall' = Nothing
        /\ RowsOfThisSession' = RowsOfThisSession
    BY <1>16 DEF StoreFails, RowsOfThisSession
  <2>2. RuntimeTypeOK'
    <3>1. rtStoreFaults' \in 0..MaxStoreFaults
      BY <1>16, RadioRuntimeAssumption DEF StoreFails, RuntimeInv, RuntimeTypeOK
    <3> QED
      BY <1>2, <1>3, <1>7, <1>16, <2>1, <3>1 DEF RuntimeInv, RuntimeTypeOK
  <2>3. LastFits' /\ CallIsAhead' /\ OneSessionIsCurrent'
    BY <1>2, <2>1 DEF RuntimeInv, LastFits, CallIsAhead, OneSessionIsCurrent
  <2>4. PhoneIsBehind'
    <3> SUFFICES ASSUME NEW s \in FrameNumbers, rtPhone'[s] # "kept"
                 PROVE  s <= rtLast'.seq \/ s \in rtUnrecorded'
      BY DEF PhoneIsBehind
    <3> QED
      BY <1>7, <1>16, <2>1 DEF RuntimeInv, PhoneIsBehind
  <2>5. RowsFit'
    <3> SUFFICES ASSUME NEW r \in RowsOfThisSession
                 PROVE  /\ r.applied => r.source = "PLUGIN" /\ rtPhone'[r.seq] = "applied"
                        /\ r.kind = "RESULT" => r.seq <= rtLast.seq
                        /\ r.kind = "RESULT" /\ r.source = "PLUGIN" /\ ~r.applied /\ r.seq \notin rtUnrecorded' =>
                             rtPhone'[r.seq] = "kept"
      BY <2>1 DEF RowsFit, RuntimeInv
    <3>1. r.kind = "RESULT" => r.seq <= rtLast.seq /\ r.seq # call.seq
      BY <1>3, <1>12, <1>14 DEF RuntimeInv, RowsFit
    <3> QED
      BY <1>7, <1>12, <1>16, <3>1 DEF RuntimeInv, RowsFit
  <2>6. LastTold'
    BY <1>7, <1>13, <1>16, <2>1 DEF RuntimeInv, LastTold
  <2> QED
    BY <2>2, <2>3, <2>4, <2>5, <2>6 DEF RuntimeInv
<1> QED
  BY <1>9, <1>15, <1>16

LEMMA ReconcileKeeps ==
  ASSUME RuntimeInv, NEW s \in FrameNumbers, Reconcile(s)
  PROVE  RuntimeInv'
<1> DEFINE was  == rtTicks[s]
           tick == [was EXCEPT !.seq = s, !.applied = FALSE, !.uncertain = TRUE]
           row  == Row("STATUS", rtSource, tick)
<1>1. /\ rtSource' = rtSource /\ rtMode' = rtMode /\ rtSession' = rtSession /\ rtLast' = rtLast /\ rtModelled' = rtModelled
      /\ rtCall' = rtCall /\ rtPhone' = rtPhone /\ rtUnrecorded' = rtUnrecorded /\ rtStoreFaults' = rtStoreFaults
      /\ Record(row)
      /\ rtTicks' = IF was = NoTick THEN rtTicks ELSE [rtTicks EXCEPT ![s].applied = FALSE]
  BY DEF Reconcile
<1>2. was \in Ticks /\ rtTicks \in [FrameNumbers -> Ticks]
  BY DEF RuntimeInv, RuntimeTypeOK
<1>3. tick.seq = s /\ tick.applied = FALSE /\ tick.uncertain = TRUE
  BY <1>2 DEF Ticks, NoTick, Tick
<1>4. row \in Rows /\ row.session = rtSession /\ ~row.applied /\ row.kind # "RESULT"
  BY <1>3 DEF RuntimeInv, RuntimeTypeOK, Row, Rows
<1>5. rtTicks' \in [FrameNumbers -> Ticks]
      /\ \A n \in FrameNumbers : /\ rtTicks'[n].seq = rtTicks[n].seq /\ rtTicks'[n].el = rtTicks[n].el
                                 /\ rtTicks'[n].phase = rtTicks[n].phase
  <2>1. CASE was = NoTick
    BY <1>1, <1>2, <2>1
  <2>2. CASE was # NoTick
    <3> DEFINE now == [was EXCEPT !.applied = FALSE]
    <3>1. now \in Ticks /\ now.seq = was.seq /\ now.el = was.el /\ now.phase = was.phase
      BY <1>2, <2>2 DEF Ticks
    <3>2. rtTicks' = [rtTicks EXCEPT ![s] = now]
      BY <1>1, <2>2
    <3> QED
      BY <1>2, <3>1, <3>2
  <2> QED
    BY <2>1, <2>2
<1> HIDE DEF was, tick, row
<1>6. rtRows' \in Seq(Rows) /\ OneSessionIsCurrent' /\ RowsFit'
  BY <1>1, <1>4, CalmRow
<1>7. RuntimeTypeOK'
  BY <1>1, <1>5, <1>6 DEF RuntimeInv, RuntimeTypeOK
<1>8. LastFits'
  <2>1. rtLast # NoTick => rtLast.seq \in FrameNumbers
    BY DEF RuntimeInv, RuntimeTypeOK, Ticks
  <2> QED
    BY <1>1, <1>5, <2>1 DEF RuntimeInv, LastFits
<1> QED
  BY <1>1, <1>6, <1>7, <1>8 DEF RuntimeInv, CallIsAhead, PhoneIsBehind, LastTold, Modelled

\* Another runtime knows nothing of the frames of the last one.
LEMMA ReopenKeeps == RuntimeInv /\ Reopen => RuntimeInv'
<1> SUFFICES ASSUME RuntimeInv, Reopen PROVE RuntimeInv'
  OBVIOUS
<1>1. /\ rtSession' = rtSession + 1 /\ rtLast' = NoTick /\ rtTicks' = [s \in FrameNumbers |-> NoTick]
      /\ rtModelled' = Nothing /\ rtCall' = Nothing /\ rtPhone' = [s \in FrameNumbers |-> "kept"] /\ rtUnrecorded' = {}
      /\ rtSource' = rtSource /\ rtMode' = rtMode /\ rtRows' = rtRows /\ rtStoreFaults' = rtStoreFaults
      /\ rtSession < MaxSessions
  BY DEF Reopen, OpenRuntime
<1>2. NoTick \in Ticks /\ NoTick.seq = -1 /\ Nothing.seq = -1
  BY DEF NoTick, Tick, Nothing, Ticks
<1>3. rtSession' \in 1..MaxSessions /\ rtSession \in Int
  BY <1>1, RadioRuntimeAssumption DEF RuntimeInv, RuntimeTypeOK
<1>4. RuntimeTypeOK'
  BY <1>1, <1>2, <1>3 DEF RuntimeInv, RuntimeTypeOK
<1>5. \A r \in Range(rtRows) : r.session <= rtSession /\ r.session \in Int
  <2>1. \A r \in Range(rtRows) : r \in Rows
    BY DEF RuntimeInv, RuntimeTypeOK, Range
  <2>2. \A r \in Rows : r.session \in Int
    BY DEF Rows
  <2> QED
    BY <2>1, <2>2 DEF RuntimeInv, RowsFit
<1>6. RowsOfThisSession' = {} /\ \A r \in Range(rtRows) : r.session <= rtSession'
  BY <1>1, <1>3, <1>5 DEF RowsOfThisSession
<1>7. RowsFit' /\ OneSessionIsCurrent'
  BY <1>1, <1>6 DEF RowsFit, RuntimeInv, OneSessionIsCurrent
<1> QED
  BY <1>1, <1>2, <1>4, <1>7 DEF RuntimeInv, LastFits, CallIsAhead, PhoneIsBehind, LastTold

LEMMA RuntimeInvariance == RuntimeSpec => []RuntimeInv
<1>1. RuntimeInv /\ RuntimeNext => RuntimeInv'
  <2> SUFFICES ASSUME RuntimeInv, RuntimeNext PROVE RuntimeInv'
    OBVIOUS
  <2>1. ASSUME NEW p \in RadioProgress, Ingest(p) PROVE RuntimeInv'
    BY <2>1, DuplicateKeeps, LateKeeps, PrepareKeeps DEF Ingest
  <2> QED
    BY <2>1, ConcludeKeeps, ReconcileKeeps, ReopenKeeps DEF RuntimeNext
<1>2. RuntimeInv /\ UNCHANGED runtimeVars => RuntimeInv'
  BY DEF RuntimeInv, runtimeVars, RuntimeTypeOK, LastFits, CallIsAhead, PhoneIsBehind, RowsFit, RowsOfThisSession,
         LastTold, OneSessionIsCurrent, Modelled
<1> QED
  BY InitRuntimeInv, <1>1, <1>2, PTL DEF RuntimeSpec

\* What is recorded and shown of the radio never says more than was learnt of the
\* phone, for any frames, sessions and failures of the store (runtime.ts,
\* evidenceStore.ts, liveStatus.ts).
THEOREM EvidenceHonest == RuntimeSpec => []EvidenceSaysNoMore
<1>1. RuntimeInv => NoFalseApplication
  <2> SUFFICES ASSUME RuntimeInv PROVE NoFalseApplication
    OBVIOUS
  <2>1. ShownApplied >= 0 => rtPhone[ShownApplied] = "applied"
    <3> SUFFICES ASSUME ShownApplied >= 0 PROVE rtPhone[ShownApplied] = "applied"
      OBVIOUS
    <3>1. rtSource = "PLUGIN" /\ rtLast.applied /\ ShownApplied = rtLast.seq
      BY DEF ShownApplied, Summary
    <3>2. rtLast # NoTick
      BY <3>1 DEF NoTick, Tick
    <3> QED
      BY <3>1, <3>2 DEF RuntimeInv, LastTold
  <2> QED
    BY <2>1 DEF NoFalseApplication, RuntimeInv, RowsFit
<1>2. RuntimeInv => DoubtIsKept
  <2> SUFFICES ASSUME RuntimeInv PROVE DoubtIsKept
    OBVIOUS
  <2>1. ASSUME rtLast # NoTick, rtSource = "PLUGIN", ~rtLast.applied, rtLast.seq \notin rtUnrecorded,
               rtPhone[rtLast.seq] # "kept", NEW v \in Views
        PROVE  ShownFailure(v) /\ Operator(v) \in {"MISMATCHED", "BLOCKED", "UNCERTAIN"}
    <3>1. Summary.uncertain
      BY <2>1 DEF RuntimeInv, LastTold, Summary
    <3> QED
      BY <3>1 DEF ShownFailure, Operator
  <2> QED
    BY <2>1 DEF DoubtIsKept, RuntimeInv, RowsFit
<1> QED
  BY RuntimeInvariance, <1>1, <1>2, PTL DEF EvidenceSaysNoMore, RuntimeInv

-----------------------------------------------------------------------------
(* The targets of the configuration (PlayerTargets).                       *)

\* An image is spoken for exactly when an entry named it; a target holds its
\* endpoint, and the image an endpoint is kept for named it.
TargetsFit ==
  /\ \A a \in DOMAIN ptTargets \cup ptProblems : Naming(a) # {}
  /\ \A a \in DOMAIN ptTargets : ptByEndpoint[ptTargets[a]] = a
  /\ \A e \in Endpoints : ptByEndpoint[e] # Nobody =>
       \E j \in 1..ptRead : ptEntries[j].image = ptByEndpoint[e] /\ ptEntries[j].endpoint = e

TargetsInv == TargetsTypeOK /\ TargetsFit /\ TargetsAreSafe

LEMMA InitTargetsInv == TargetsInit => TargetsInv
<1> SUFFICES ASSUME TargetsInit PROVE TargetsInv
  OBVIOUS
<1>1. PICK n \in 0..MaxEntries : \E list \in [1..n -> Entries] : ptEntries \in Configured(list)
  BY DEF TargetsInit
<1>2. PICK list \in [1..n -> Entries] : ptEntries \in Configured(list)
  BY <1>1
<1>3. n \in Nat
  BY <1>1, TargetsAssumption
<1>4. list \in Seq(Entries)
  BY <1>3
<1>5. ptEntries \in Seq(Entries)
  BY <1>2, <1>4 DEF Configured, Legacies
<1>6. TargetsTypeOK
  BY <1>5 DEF TargetsInit, TargetsTypeOK
<1>7. 1..ptRead = {} /\ DOMAIN ptTargets = {} /\ ptProblems = {} /\ \A e \in Endpoints : ptByEndpoint[e] = Nobody
  BY DEF TargetsInit
<1> QED
  BY <1>6, <1>7 DEF TargetsInv, TargetsFit, TargetsAreSafe

\* What taking one more entry means for the entries that name an image.
LEMMA OneMore ==
  ASSUME TargetsInv, ptRead < Len(ptEntries), ptRead' = ptRead + 1, ptEntries' = ptEntries
  PROVE  /\ 1..ptRead' = 1..ptRead \cup {ptRead + 1} /\ ptRead + 1 \notin 1..ptRead
         /\ ptEntries[ptRead + 1] \in Entries
         /\ \A i \in 1..ptRead : ptEntries[i] \in Entries
         /\ ptRead' \in 0..Len(ptEntries)
         /\ \A a : Naming(a)' = IF ptEntries[ptRead + 1].image = a THEN Naming(a) \cup {ptRead + 1} ELSE Naming(a)
<1>1. /\ ptRead \in Nat /\ Len(ptEntries) \in Nat /\ ptRead + 1 \in 1..Len(ptEntries)
      /\ ptEntries \in Seq(Entries)
  BY DEF TargetsInv, TargetsTypeOK
<1>2. 1..ptRead' = 1..ptRead \cup {ptRead + 1} /\ ptRead + 1 \notin 1..ptRead /\ ptRead' \in 0..Len(ptEntries)
  BY <1>1
<1>3. \A i \in 1..Len(ptEntries) : ptEntries[i] \in Entries
  BY <1>1
<1>4. \A i \in 1..ptRead : ptEntries[i] \in Entries
  BY <1>1, <1>3
<1> QED
  BY <1>1, <1>2, <1>3, <1>4 DEF Naming

LEMMA TargetsStep == TargetsInv /\ TakeEntry => TargetsInv'
<1> SUFFICES ASSUME TargetsInv, TakeEntry PROVE TargetsInv'
  OBVIOUS
<1>k. PICK k : k = ptRead + 1
  OBVIOUS
<1>e. PICK entry : entry = ptEntries[k]
  OBVIOUS
<1> DEFINE new == entry.image \notin DOMAIN ptTargets \cup ptProblems
           valid == entry.endpoint # NoEndpoint /\ entry.sound
<1>1. /\ ptRead < Len(ptEntries) /\ ptRead' = ptRead + 1 /\ ptEntries' = ptEntries
      /\ \/ entry.image = NoImage /\ UNCHANGED <<ptTargets, ptProblems, ptByEndpoint>>
         \/ entry.image # NoImage /\ NamedBefore(entry.image)
         \/ entry.image # NoImage /\ new /\ ~valid /\ IsProblem(entry)
         \/ entry.image # NoImage /\ new /\ valid /\ (SharesEndpoint(entry) \/ BecomesTarget(entry))
  BY <1>k, <1>e DEF TakeEntry
<1>2. /\ 1..ptRead' = 1..ptRead \cup {k} /\ k \notin 1..ptRead
      /\ entry \in Entries
      /\ \A i \in 1..ptRead : ptEntries[i] \in Entries
      /\ ptRead' \in 0..Len(ptEntries)
      /\ \A a : Naming(a)' = IF entry.image = a THEN Naming(a) \cup {k} ELSE Naming(a)
  BY <1>1, <1>k, <1>e, OneMore
<1>3. /\ entry.image \in Images \cup {NoImage} /\ entry.endpoint \in Endpoints \cup {NoEndpoint} /\ entry.sound \in BOOLEAN
      /\ NoImage \notin Images /\ Nobody \notin Images /\ NoEndpoint \notin Endpoints
  BY <1>2, TargetsAssumption DEF Entries
<1>4. /\ ptEntries \in Seq(Entries)
      /\ DOMAIN ptTargets \subseteq Images /\ ptTargets \in [DOMAIN ptTargets -> Endpoints]
      /\ ptProblems \subseteq Images
      /\ ptByEndpoint \in [Endpoints -> Images \cup {Nobody}]
  BY DEF TargetsInv, TargetsTypeOK
<1>5. /\ \A a \in DOMAIN ptTargets \cup ptProblems : Naming(a) # {}
      /\ \A a \in DOMAIN ptTargets : ptByEndpoint[ptTargets[a]] = a
      /\ \A e \in Endpoints : ptByEndpoint[e] # Nobody =>
           \E j \in 1..ptRead : ptEntries[j].image = ptByEndpoint[e] /\ ptEntries[j].endpoint = e
  BY DEF TargetsInv, TargetsFit
<1>6. /\ \A a \in DOMAIN ptTargets : \E i \in Naming(a) : Naming(a) = {i} /\ Valid(i) /\ ptEntries[i].endpoint = ptTargets[a]
      /\ \A i \in 1..ptRead : ptEntries[i].image # NoImage => ptEntries[i].image \in DOMAIN ptTargets \cup ptProblems
      /\ \A i \in 1..ptRead :
           /\ ptEntries[i].image # NoImage /\ Naming(ptEntries[i].image) = {i} /\ Valid(i)
           /\ \A j \in 1..ptRead \ {i} : ptEntries[j].endpoint # ptEntries[i].endpoint
           => ptEntries[i].image \in DOMAIN ptTargets
      /\ DOMAIN ptTargets \cap ptProblems = {}
  BY DEF TargetsInv, TargetsAreSafe
<1>7. \A i : Valid(i)' <=> Valid(i)
  BY <1>1 DEF Valid
<1>8. TargetsTypeOK'
  <2>1. CASE UNCHANGED <<ptTargets, ptProblems, ptByEndpoint>>
    BY <1>1, <1>2, <1>4, <2>1 DEF TargetsTypeOK
  <2>2. CASE entry.image # NoImage /\ NamedBefore(entry.image)
    BY <1>1, <1>2, <1>3, <1>4, <2>2 DEF TargetsTypeOK, NamedBefore, Without
  <2>3. CASE entry.image # NoImage /\ IsProblem(entry)
    BY <1>1, <1>2, <1>3, <1>4, <2>3 DEF TargetsTypeOK, IsProblem
  <2>4. CASE entry.image # NoImage /\ valid /\ SharesEndpoint(entry)
    BY <1>1, <1>2, <1>3, <1>4, <2>4 DEF TargetsTypeOK, SharesEndpoint, Without
  <2>5. CASE entry.image # NoImage /\ valid /\ BecomesTarget(entry)
    <3>1. ptTargets' \in [DOMAIN ptTargets' -> Endpoints] /\ DOMAIN ptTargets' = DOMAIN ptTargets \cup {entry.image}
      BY <1>3, <1>4, <2>5 DEF BecomesTarget
    <3> QED
      BY <1>1, <1>2, <1>3, <1>4, <2>5, <3>1 DEF TargetsTypeOK, BecomesTarget
  <2> QED
    BY <1>1, <2>1, <2>2, <2>3, <2>4, <2>5
<1>9. /\ new => Naming(entry.image) = {} \/ entry.image = NoImage
      /\ ~new => Naming(entry.image) # {}
  BY <1>5, <1>6, <1>e DEF Naming
<1>10. k \in 1..ptRead' /\ (Valid(k) <=> valid) /\ (\A a : Naming(a) \subseteq 1..ptRead) /\ NoImage \notin DOMAIN ptTargets
  BY <1>2, <1>3, <1>4, <1>e DEF Valid, Naming
<1> DEFINE Kept == \* the targets, but of the entry's image and of the owner of its endpoint
             /\ DOMAIN ptTargets' \subseteq DOMAIN ptTargets \ {entry.image}
             /\ \A a \in DOMAIN ptTargets' : ptTargets'[a] = ptTargets[a]
             /\ ptByEndpoint' = ptByEndpoint
             /\ DOMAIN ptTargets \cup ptProblems \subseteq DOMAIN ptTargets' \cup ptProblems'
             /\ entry.image # NoImage => entry.image \in ptProblems'
             /\ \A a \in ptProblems' : a \in DOMAIN ptTargets \cup ptProblems \/ (a = entry.image /\ a # NoImage)
             /\ DOMAIN ptTargets' \cap ptProblems' = {}
             /\ \A a \in DOMAIN ptTargets : a # entry.image /\ a \notin DOMAIN ptTargets' =>
                  entry.endpoint \in Endpoints /\ a = ptByEndpoint[entry.endpoint]
             /\ new /\ valid => entry.image = NoImage \/ (entry.endpoint \in Endpoints /\ ptByEndpoint[entry.endpoint] # Nobody)
           Added == \* a target for the entry's image
             /\ entry.image # NoImage /\ new /\ valid
             /\ entry.endpoint \in Endpoints /\ ptByEndpoint[entry.endpoint] = Nobody
             /\ DOMAIN ptTargets' = DOMAIN ptTargets \cup {entry.image}
             /\ ptTargets'[entry.image] = entry.endpoint
             /\ \A a \in DOMAIN ptTargets : ptTargets'[a] = ptTargets[a]
             /\ ptByEndpoint' = [ptByEndpoint EXCEPT ![entry.endpoint] = entry.image]
             /\ ptProblems' = ptProblems
<1>11. Kept \/ Added
  <2>1. CASE entry.image = NoImage /\ UNCHANGED <<ptTargets, ptProblems, ptByEndpoint>>
    BY <1>6, <1>10, <2>1
  <2>2. CASE entry.image # NoImage /\ NamedBefore(entry.image)
    BY <1>6, <2>2 DEF NamedBefore, Without
  <2>3. CASE entry.image # NoImage /\ new /\ ~valid /\ IsProblem(entry)
    BY <1>6, <2>3 DEF IsProblem
  <2>4. CASE entry.image # NoImage /\ new /\ valid /\ SharesEndpoint(entry)
    <3> DEFINE owner == ptByEndpoint[entry.endpoint]
    <3>1. owner # Nobody /\ entry.endpoint \in Endpoints
      BY <1>3, <2>4 DEF SharesEndpoint
    <3>2. /\ DOMAIN ptTargets' = DOMAIN ptTargets \ {owner}
          /\ \A a \in DOMAIN ptTargets' : ptTargets'[a] = ptTargets[a]
          /\ ptProblems' = ptProblems \cup {owner, entry.image} /\ ptByEndpoint' = ptByEndpoint
      BY <2>4 DEF SharesEndpoint, Without
    <3>3. owner \in DOMAIN ptTargets \cup ptProblems
      BY <1>3, <1>4, <1>5, <1>6, <3>1
    <3> HIDE DEF owner
    <3>4. entry.image \notin DOMAIN ptTargets
      BY <2>4
    <3>5. DOMAIN ptTargets' \cap ptProblems' = {}
      BY <1>6, <3>2, <3>4
    <3> QED
      BY <2>4, <3>1, <3>2, <3>3, <3>4, <3>5 DEF owner
  <2>5. CASE entry.image # NoImage /\ new /\ valid /\ BecomesTarget(entry)
    <3>1. entry.endpoint \in Endpoints
      BY <1>3, <2>5
    <3> QED
      BY <2>5, <3>1 DEF BecomesTarget
  <2> QED
    BY <1>1, <2>1, <2>2, <2>3, <2>4, <2>5
<1> HIDE DEF new, valid
<1>12. \A i \in 1..ptRead' : i \in 1..ptRead \/ i = k
  BY <1>2
<1>13. CASE Kept
  <2>1. \A a \in DOMAIN ptTargets' : a \in DOMAIN ptTargets /\ a # entry.image /\ Naming(a)' = Naming(a)
    BY <1>2, <1>13
  <2>2. \A a \in DOMAIN ptTargets' \cup ptProblems' : Naming(a)' # {}
    BY <1>2, <1>5, <1>13
  <2>3. \A a \in DOMAIN ptTargets' : ptByEndpoint'[ptTargets'[a]] = a
    BY <1>5, <1>13, <2>1
  <2>4. \A e \in Endpoints : ptByEndpoint'[e] # Nobody =>
          \E j \in 1..ptRead' : ptEntries'[j].image = ptByEndpoint'[e] /\ ptEntries'[j].endpoint = e
    BY <1>1, <1>2, <1>5, <1>13
  <2>5. \A a \in DOMAIN ptTargets' : \E i \in Naming(a)' : Naming(a)' = {i} /\ Valid(i)' /\ ptEntries'[i].endpoint = ptTargets'[a]
    BY <1>1, <1>6, <1>7, <1>13, <2>1
  <2>6. \A i \in 1..ptRead' : ptEntries'[i].image # NoImage => ptEntries'[i].image \in DOMAIN ptTargets' \cup ptProblems'
    BY <1>1, <1>6, <1>12, <1>13, <1>e
  <2>7. ASSUME NEW i \in 1..ptRead', ptEntries[i].image # NoImage, Naming(ptEntries[i].image)' = {i}, Valid(i),
               \A j \in 1..ptRead' \ {i} : ptEntries[j].endpoint # ptEntries[i].endpoint
        PROVE  ptEntries[i].image \in DOMAIN ptTargets'
    <3>1. CASE i = k
      <4>1. Naming(entry.image) = {} /\ entry.image # NoImage
        <5>1. entry = ptEntries[i]
          BY <3>1, <1>e
        <5>2. k \notin Naming(entry.image) /\ Naming(entry.image) \cup {k} = {k}
          BY <1>2, <1>10, <2>7, <3>1, <5>1
        <5> QED
          BY <2>7, <5>1, <5>2
      <4>2. new /\ valid
        BY <1>9, <1>10, <2>7, <3>1, <4>1
      <4>3. entry.endpoint \in Endpoints /\ ptByEndpoint[entry.endpoint] # Nobody
        BY <1>13, <4>1, <4>2
      <4>4. PICK j \in 1..ptRead : ptEntries[j].endpoint = entry.endpoint
        BY <1>5, <4>3
      <4>5. j \in 1..ptRead' \ {i} /\ ptEntries[i] = entry
        BY <1>2, <3>1, <1>e
      <4> QED
        BY <2>7, <4>4, <4>5
    <3>2. CASE i \in 1..ptRead
      <4>1. ptEntries[i].image # entry.image /\ Naming(ptEntries[i].image) = {i}
        BY <1>1, <1>2, <2>7, <3>2
      <4>2. ptEntries[i].image \in DOMAIN ptTargets
        BY <1>2, <1>6, <2>7, <3>2, <4>1
      <4>3. ASSUME ptEntries[i].image \notin DOMAIN ptTargets' PROVE FALSE
        <5>1. entry.endpoint \in Endpoints /\ ptEntries[i].image = ptByEndpoint[entry.endpoint]
          BY <1>13, <4>1, <4>2, <4>3
        <5>2. ptByEndpoint[entry.endpoint] # Nobody
          BY <1>3, <1>4, <4>2, <5>1
        <5>3. PICK j \in 1..ptRead : ptEntries[j].image = ptEntries[i].image /\ ptEntries[j].endpoint = entry.endpoint
          BY <1>5, <5>1, <5>2
        <5>4. j = i
          BY <4>1, <5>3 DEF Naming
        <5>5. k \in 1..ptRead' \ {i} /\ ptEntries[k] = entry
          BY <1>2, <3>2, <1>e
        <5> QED
          BY <2>7, <5>3, <5>4, <5>5
      <4> QED
        BY <4>3
    <3> QED
      BY <1>12, <3>1, <3>2
  <2>8. TargetsFit'
    BY <2>2, <2>3, <2>4 DEF TargetsFit
  <2>9. TargetsAreSafe'
    <3>1. \A a, b \in DOMAIN ptTargets' : ptTargets'[a] = ptTargets'[b] => a = b
      BY <2>3
    <3>2. \A i \in 1..ptRead' :
           /\ ptEntries'[i].image # NoImage /\ Naming(ptEntries[i].image)' = {i} /\ Valid(i)'
           /\ \A j \in 1..ptRead' \ {i} : ptEntries'[j].endpoint # ptEntries'[i].endpoint
           => ptEntries'[i].image \in DOMAIN ptTargets'
      BY <1>1, <1>7, <2>7
    <3> QED
      BY <1>1, <1>13, <2>5, <2>6, <3>1, <3>2 DEF TargetsAreSafe
  <2> QED
    BY <1>8, <2>8, <2>9 DEF TargetsInv
<1>14. CASE Added
  <2>1. entry.image \in Images /\ entry.image \notin DOMAIN ptTargets /\ entry.image \notin ptProblems
    BY <1>3, <1>14 DEF new
  <2>2. Naming(entry.image)' = {k}
    BY <1>2, <1>9, <1>14
  <2>3. \A a \in DOMAIN ptTargets : Naming(a)' = Naming(a)
    BY <1>2, <2>1
  <2>4. /\ ptByEndpoint'[entry.endpoint] = entry.image
        /\ \A e \in Endpoints : e # entry.endpoint => ptByEndpoint'[e] = ptByEndpoint[e]
    BY <1>4, <1>14
  <2>5. \A a \in DOMAIN ptTargets : ptTargets[a] # entry.endpoint
    BY <1>3, <1>4, <1>5, <1>14
  <2>6. \A a \in DOMAIN ptTargets' : ptByEndpoint'[ptTargets'[a]] = a
    BY <1>4, <1>5, <1>14, <2>1, <2>4, <2>5
  <2>7. \A a \in DOMAIN ptTargets' \cup ptProblems' : Naming(a)' # {}
    BY <1>2, <1>5, <1>14, <2>2
  <2>8. \A e \in Endpoints : ptByEndpoint'[e] # Nobody =>
          \E j \in 1..ptRead' : ptEntries'[j].image = ptByEndpoint'[e] /\ ptEntries'[j].endpoint = e
    <3>1. ptEntries[k] = entry /\ k \in 1..ptRead'
      BY <1>10, <1>e
    <3> QED
      BY <1>1, <1>2, <1>5, <2>4, <3>1
  <2>9. \A a \in DOMAIN ptTargets' : \E i \in Naming(a)' : Naming(a)' = {i} /\ Valid(i)' /\ ptEntries'[i].endpoint = ptTargets'[a]
    <3> SUFFICES ASSUME NEW a \in DOMAIN ptTargets'
                 PROVE  \E i \in Naming(a)' : Naming(a)' = {i} /\ Valid(i)' /\ ptEntries'[i].endpoint = ptTargets'[a]
      OBVIOUS
    <3>1. CASE a = entry.image
      BY <1>1, <1>7, <1>10, <1>14, <2>2, <3>1, <1>e
    <3>2. CASE a \in DOMAIN ptTargets
      BY <1>1, <1>6, <1>7, <1>14, <2>3, <3>2
    <3> QED
      BY <1>14, <3>1, <3>2
  <2>10. \A i \in 1..ptRead' : ptEntries'[i].image # NoImage => ptEntries'[i].image \in DOMAIN ptTargets' \cup ptProblems'
    BY <1>1, <1>6, <1>12, <1>14, <1>e
  <2>11. ASSUME NEW i \in 1..ptRead', ptEntries[i].image # NoImage, Naming(ptEntries[i].image)' = {i}, Valid(i),
                \A j \in 1..ptRead' \ {i} : ptEntries[j].endpoint # ptEntries[i].endpoint
         PROVE  ptEntries[i].image \in DOMAIN ptTargets'
    <3>1. CASE i = k
      BY <1>14, <3>1, <1>e
    <3>2. CASE i \in 1..ptRead
      <4>1. ptEntries[i].image # entry.image /\ Naming(ptEntries[i].image) = {i}
        BY <1>1, <1>2, <2>11, <3>2
      <4> QED
        BY <1>2, <1>6, <1>14, <2>11, <3>2, <4>1
    <3> QED
      BY <1>12, <3>1, <3>2
  <2>12. DOMAIN ptTargets' \cap ptProblems' = {}
    BY <1>6, <1>14, <2>1
  <2>13. TargetsFit'
    BY <2>6, <2>7, <2>8 DEF TargetsFit
  <2>14. TargetsAreSafe'
    <3>1. \A a, b \in DOMAIN ptTargets' : ptTargets'[a] = ptTargets'[b] => a = b
      BY <2>6
    <3>2. \A i \in 1..ptRead' :
           /\ ptEntries'[i].image # NoImage /\ Naming(ptEntries[i].image)' = {i} /\ Valid(i)'
           /\ \A j \in 1..ptRead' \ {i} : ptEntries'[j].endpoint # ptEntries'[i].endpoint
           => ptEntries'[i].image \in DOMAIN ptTargets'
      BY <1>1, <1>7, <2>11
    <3> QED
      BY <1>1, <2>9, <2>10, <2>12, <3>1, <3>2 DEF TargetsAreSafe
  <2> QED
    BY <1>8, <2>13, <2>14 DEF TargetsInv
<1> QED
  BY <1>11, <1>13, <1>14

\* Whatever the configuration: two phones never share an endpoint, and a mistake
\* in one entry takes no other phone away (playerTargets.ts, parsePlayerTargets).
THEOREM TargetsSafe == TargetsSpec => [](TargetsTypeOK /\ TargetsAreSafe)
<1>1. TargetsInv /\ UNCHANGED targetVars => TargetsInv'
  BY DEF TargetsInv, targetVars, TargetsTypeOK, TargetsFit, TargetsAreSafe, Naming, Valid
<1> QED
  BY InitTargetsInv, TargetsStep, <1>1, PTL DEF TargetsSpec, TargetsInv

-----------------------------------------------------------------------------
(* One connection to a player app (PlayerLink).                            *)

\* Only the last request waits, nobody was told of it, and the instance is known
\* once an answer was taken.
LinkFits ==
  /\ plPending \in {0, plAsked}
  /\ \A i \in DOMAIN plTold : LET told == plTold[i] IN
       /\ plPending # 0 => told.request # plPending
       /\ told.line.ok => plInstance # 0

LinkInv == LinkTypeOK /\ LinkFits /\ LinkIsHonest

LEMMA InitLinkInv == LinkInit => LinkInv
<1> SUFFICES ASSUME LinkInit PROVE LinkInv
  OBVIOUS
<1>1. MaxRequests \in Nat /\ MaxLines \in Nat /\ DOMAIN plTold = {} /\ 1..plAsked = {}
  BY LinkAssumption DEF LinkInit
<1> QED
  BY <1>1 DEF LinkInit, LinkInv, LinkTypeOK, LinkFits, LinkIsHonest

\* The caller that waits is told of a line, and waits no longer.
LEMMA TellingKeeps ==
  ASSUME LinkInv, plPending # 0, NEW line \in PlayerLine \cup {Failure}, Tell(line),
         plPending' = 0, plAsked' = plAsked, plInstance' \in {0, 1, 2},
         plInstance # 0 => plInstance' = plInstance,
         line.ok => line.id = plPending /\ line.inst = plInstance' /\ plInstance' # 0
  PROVE  /\ plTold' \in Seq([request : 0..plAsked, line : PlayerLine \cup {Failure}])
         /\ LinkFits' /\ LinkIsHonest'
<1> DEFINE Tellings == [request : 0..plAsked, line : PlayerLine \cup {Failure}]
           told == [request |-> plPending, line |-> line]
<1>1. plTold \in Seq(Tellings) /\ plPending \in 0..plAsked /\ plAsked \in Nat /\ told \in Tellings
  BY LinkAssumption DEF LinkInv, LinkTypeOK
<1>2. /\ plTold' \in Seq(Tellings) /\ Len(plTold') = Len(plTold) + 1 /\ Len(plTold) \in Nat
      /\ DOMAIN plTold = 1..Len(plTold) /\ DOMAIN plTold' = 1..(Len(plTold) + 1)
      /\ \A i \in 1..Len(plTold) : plTold'[i] = plTold[i]
      /\ plTold'[Len(plTold) + 1] = told
  BY <1>1 DEF Tell
<1>3. told.request = plPending /\ told.line = line
  OBVIOUS
<1> HIDE DEF Tellings, told
<1>l. PICK l : l = Len(plTold) + 1
  OBVIOUS
<1>4. /\ DOMAIN plTold' = DOMAIN plTold \cup {l} /\ l \notin DOMAIN plTold
      /\ plTold'[l] = told /\ \A i \in DOMAIN plTold : plTold'[i] = plTold[i]
  BY <1>2, <1>l
<1>5. /\ \A i \in DOMAIN plTold :
           /\ plTold[i].request # plPending
           /\ plTold[i].line.ok => plInstance # 0 /\ plTold[i].line.id = plTold[i].request /\ plTold[i].line.inst = plInstance
           /\ \A j \in DOMAIN plTold : plTold[i].request # 0 /\ plTold[j].request = plTold[i].request => i = j
      /\ \A r \in 1..plAsked : r = plPending \/ \E i \in DOMAIN plTold : plTold[i].request = r
  BY DEF LinkInv, LinkFits, LinkIsHonest
<1>6. \A i \in DOMAIN plTold' :
        /\ plTold'[i].line.ok => plInstance' # 0 /\ plTold'[i].line.id = plTold'[i].request /\ plTold'[i].line.inst = plInstance'
        /\ \A j \in DOMAIN plTold' : plTold'[i].request # 0 /\ plTold'[j].request = plTold'[i].request => i = j
  BY <1>3, <1>4, <1>5
<1>7. \A r \in 1..plAsked' : r = plPending' \/ \E i \in DOMAIN plTold' : plTold'[i].request = r
  BY <1>3, <1>4, <1>5
<1>8. LinkFits'
  BY <1>6 DEF LinkFits
<1>9. LinkIsHonest'
  BY <1>6, <1>7 DEF LinkIsHonest
<1> QED
  BY <1>2, <1>8, <1>9 DEF Tellings

\* An end tells the caller that waits, if there is one.
LEMMA FailingKeeps ==
  ASSUME LinkInv, LinkFails, plAsked' = plAsked, plInstance' = plInstance
  PROVE  /\ plTold' \in Seq([request : 0..plAsked, line : PlayerLine \cup {Failure}])
         /\ LinkFits' /\ LinkIsHonest'
<1>1. CASE plPending = 0
  BY <1>1 DEF LinkFails, LinkInv, LinkTypeOK, LinkFits, LinkIsHonest
<1>2. CASE plPending # 0
  <2>1. Tell(Failure) /\ plPending' = 0 /\ Failure \in PlayerLine \cup {Failure} /\ ~Failure.ok
    BY <1>2 DEF LinkFails, Failure
  <2>2. plInstance' \in {0, 1, 2}
    BY DEF LinkInv, LinkTypeOK
  <2> QED
    BY <1>2, <2>1, <2>2, TellingKeeps
<1> QED
  BY <1>1, <1>2

LEMMA RequestKeeps == LinkInv /\ Request => LinkInv'
<1> SUFFICES ASSUME LinkInv, Request PROVE LinkInv'
  OBVIOUS
<1>1. /\ plOpen' = plOpen /\ plInstance' = plInstance /\ plWire' = plWire /\ plBuffer' = plBuffer /\ plLines' = plLines
      /\ plAsked \in Nat /\ plAsked < MaxRequests /\ MaxRequests \in Nat /\ plPending \in 0..plAsked
  BY LinkAssumption DEF Request, LinkInv, LinkTypeOK
<1>2. CASE plPending # 0 \/ ~plOpen
  <2> DEFINE Tellings == [request : 0..plAsked, line : PlayerLine \cup {Failure}]
             told == [request |-> 0, line |-> Failure]
  <2>1. /\ \A i \in DOMAIN plTold : plTold[i].request # 0
        /\ plTold' = Append(plTold, told) /\ plPending' = plPending /\ plAsked' = plAsked
    BY <1>2 DEF Request
  <2>2. plTold \in Seq(Tellings) /\ told \in Tellings
    BY <1>1 DEF LinkInv, LinkTypeOK
  <2>3. told.request = 0 /\ ~told.line.ok
    BY DEF Failure
  <2> HIDE DEF told
  <2>l. PICK l : l = Len(plTold) + 1
    OBVIOUS
  <2>4. /\ plTold' \in Seq(Tellings)
        /\ DOMAIN plTold' = DOMAIN plTold \cup {l} /\ l \notin DOMAIN plTold
        /\ plTold'[l] = told /\ \A i \in DOMAIN plTold : plTold'[i] = plTold[i]
    <3>1. /\ plTold' \in Seq(Tellings) /\ DOMAIN plTold = 1..Len(plTold) /\ Len(plTold) \in Nat
          /\ DOMAIN plTold' = 1..(Len(plTold) + 1)
          /\ \A i \in 1..Len(plTold) : plTold'[i] = plTold[i]
          /\ plTold'[Len(plTold) + 1] = told
      BY <2>1, <2>2
    <3> QED
      BY <2>l, <3>1
  <2>5. LinkTypeOK'
    BY <1>1, <2>1, <2>4 DEF LinkInv, LinkTypeOK
  <2>6. LinkFits'
    BY <1>1, <2>1, <2>3, <2>4 DEF LinkInv, LinkFits
  <2>7. LinkIsHonest'
    BY <1>1, <2>1, <2>3, <2>4 DEF LinkInv, LinkIsHonest
  <2> QED
    BY <2>5, <2>6, <2>7 DEF LinkInv
<1>3. CASE ~(plPending # 0 \/ ~plOpen)
  <2>1. plAsked' = plAsked + 1 /\ plPending' = plAsked + 1 /\ plTold' = plTold
    BY <1>3 DEF Request
  <2>2. plTold \in Seq([request : 0..plAsked, line : PlayerLine \cup {Failure}])
    BY DEF LinkInv, LinkTypeOK
  <2>3. /\ \A i \in DOMAIN plTold : plTold[i] \in [request : 0..plAsked, line : PlayerLine \cup {Failure}]
        /\ DOMAIN plTold = 1..Len(plTold) /\ Len(plTold) \in Nat
        /\ plTold = [i \in 1..Len(plTold) |-> plTold[i]]
    <3> DEFINE Tellings == [request : 0..plAsked, line : PlayerLine \cup {Failure}]
    <3>1. plTold \in Seq(Tellings)
      BY <2>2
    <3> HIDE DEF Tellings
    <3>2. /\ \A i \in DOMAIN plTold : plTold[i] \in Tellings
          /\ DOMAIN plTold = 1..Len(plTold) /\ Len(plTold) \in Nat
          /\ plTold = [i \in 1..Len(plTold) |-> plTold[i]]
      BY <3>1
    <3> QED
      BY <3>2 DEF Tellings
  <2>4. \A i \in DOMAIN plTold : plTold[i].request \in 0..plAsked
    BY <2>3
  <2>5. \A i \in DOMAIN plTold : plTold[i] \in [request : 0..plAsked', line : PlayerLine \cup {Failure}]
    BY <1>1, <2>1, <2>3
  <2>6. plTold' \in Seq([request : 0..plAsked', line : PlayerLine \cup {Failure}])
    <3> DEFINE Larger == [request : 0..plAsked', line : PlayerLine \cup {Failure}]
    <3>1. \A i \in DOMAIN plTold : plTold[i] \in Larger
      BY <2>5
    <3> HIDE DEF Larger
    <3>2. plTold' \in Seq(Larger)
      BY <2>1, <2>3, <3>1
    <3> QED
      BY <3>2 DEF Larger
  <2>7. LinkTypeOK'
    BY <1>1, <2>1, <2>6 DEF LinkInv, LinkTypeOK
  <2>8. LinkFits'
    BY <1>1, <2>1, <2>4 DEF LinkInv, LinkFits
  <2>9. 1..plAsked' = 1..plAsked \cup {plPending'}
    BY <1>1, <2>1
  <2>10. LinkIsHonest'
    BY <1>1, <1>3, <2>1, <2>9 DEF LinkInv, LinkIsHonest
  <2> QED
    BY <2>7, <2>8, <2>10 DEF LinkInv
<1> QED
  BY <1>2, <1>3

LEMMA SendingKeeps == LinkInv /\ PhoneSends => LinkInv'
<1> SUFFICES ASSUME LinkInv, PhoneSends PROVE LinkInv'
  OBVIOUS
<1>1. PICK id \in 1..plAsked, inst \in {1, 2}, ok \in BOOLEAN : plWire' = Append(plWire, [id |-> id, inst |-> inst, ok |-> ok])
  BY DEF PhoneSends
<1>2. plAsked \in 0..MaxRequests /\ MaxRequests \in Nat /\ plLines \in 0..MaxLines /\ MaxLines \in Nat
  BY LinkAssumption DEF LinkInv, LinkTypeOK
<1>3. [id |-> id, inst |-> inst, ok |-> ok] \in PlayerLine
  BY <1>2 DEF PlayerLine
<1>4. plWire' \in Seq(PlayerLine)
  BY <1>1, <1>3 DEF LinkInv, LinkTypeOK
<1>5. plLines' \in 0..MaxLines
  BY <1>2 DEF PhoneSends
<1> QED
  BY <1>4, <1>5 DEF PhoneSends, LinkInv, LinkTypeOK, LinkFits, LinkIsHonest

\* Data is taken for the answer only by its id and its instance (playerProtocol.ts, take).
LEMMA DataKeeps == LinkInv /\ DataArrives => LinkInv'
<1> SUFFICES ASSUME LinkInv, DataArrives PROVE LinkInv'
  OBVIOUS
<1>1. PICK n \in 1..Len(plWire) :
       LET lines == plBuffer \o SubSeq(plWire, 1, n)
           line  == Head(lines)
       IN /\ plWire' = SubSeq(plWire, n + 1, Len(plWire))
          /\ plBuffer' = Tail(lines)
          /\ IF Answers(line) /\ plInstance \in {0, line.inst}
             THEN plInstance' = line.inst /\ plPending' = 0 /\ Tell(line) /\ UNCHANGED plOpen
             ELSE LinkFails /\ UNCHANGED plInstance
  BY DEF DataArrives
<1> DEFINE taken == SubSeq(plWire, 1, n)
           left  == SubSeq(plWire, n + 1, Len(plWire))
           lines == plBuffer \o taken
           line  == Head(lines)
<1>2. plWire \in Seq(PlayerLine) /\ plBuffer \in Seq(PlayerLine) /\ Len(plWire) \in Nat /\ n \in Int /\ n <= Len(plWire) /\ 1 <= n
  BY DEF LinkInv, LinkTypeOK
<1>3. taken \in Seq(PlayerLine) /\ Len(taken) = n
  <2>1. 1 \in Int /\ n \in Int /\ \A i \in 1..n : plWire[i] \in PlayerLine
    BY <1>2
  <2>2. taken \in Seq(PlayerLine) /\ Len(taken) = IF 1 <= n THEN n - 1 + 1 ELSE 0
    BY <2>1, SubSeqProperties
  <2> HIDE DEF taken
  <2> QED
    BY <1>2, <2>2
<1>4. left \in Seq(PlayerLine)
  <2>1. n + 1 \in Int /\ Len(plWire) \in Int /\ \A i \in (n + 1)..Len(plWire) : plWire[i] \in PlayerLine
    BY <1>2
  <2> QED
    BY <2>1, SubSeqProperties
<1> HIDE DEF taken, left
<1>5. lines \in Seq(PlayerLine) /\ lines # <<>>
  <2>1. Len(plBuffer) \in Nat /\ Len(lines) = Len(plBuffer) + Len(taken) /\ lines \in Seq(PlayerLine)
    BY <1>2, <1>3
  <2>2. Len(lines) # 0
    BY <1>2, <1>3, <2>1
  <2> QED
    BY <2>1, <2>2
<1> HIDE DEF lines
<1>6. line \in PlayerLine /\ Tail(lines) \in Seq(PlayerLine)
  BY <1>5
<1>7. plWire' = left /\ plBuffer' = Tail(lines) /\ plAsked' = plAsked /\ plLines' = plLines /\ plOpen
  BY <1>1 DEF DataArrives, left, lines, taken
<1>8. \/ /\ Answers(line) /\ plInstance \in {0, line.inst}
         /\ plInstance' = line.inst /\ plPending' = 0 /\ Tell(line) /\ plOpen' = plOpen
      \/ LinkFails /\ plInstance' = plInstance
  BY <1>1 DEF lines, taken
<1> HIDE DEF line
<1>9. CASE /\ Answers(line) /\ plInstance \in {0, line.inst}
           /\ plInstance' = line.inst /\ plPending' = 0 /\ Tell(line) /\ plOpen' = plOpen
  <2>1. line.inst \in {1, 2} /\ line.id = plPending /\ plPending # 0
    BY <1>6, <1>9 DEF PlayerLine, Answers
  <2> DEFINE found == line
  <2>0. /\ found \in PlayerLine \cup {Failure} /\ Tell(found) /\ plPending' = 0 /\ plAsked' = plAsked
        /\ plInstance' \in {0, 1, 2} /\ (plInstance # 0 => plInstance' = plInstance)
        /\ (found.ok => found.id = plPending /\ found.inst = plInstance' /\ plInstance' # 0)
    BY <1>6, <1>7, <1>9, <2>1
  <2> HIDE DEF found
  <2>2. /\ plTold' \in Seq([request : 0..plAsked, line : PlayerLine \cup {Failure}])
        /\ LinkFits' /\ LinkIsHonest'
    BY <2>0, <2>1, TellingKeeps
  <2>3. LinkTypeOK'
    BY <1>4, <1>6, <1>7, <1>9, <2>1, <2>2, LinkAssumption DEF LinkInv, LinkTypeOK
  <2> QED
    BY <2>2, <2>3 DEF LinkInv
<1>10. CASE LinkFails /\ plInstance' = plInstance
  <2>1. /\ plTold' \in Seq([request : 0..plAsked, line : PlayerLine \cup {Failure}])
        /\ LinkFits' /\ LinkIsHonest'
    BY <1>7, <1>10, FailingKeeps
  <2>2. plOpen' \in BOOLEAN /\ plPending' = 0
    BY <1>10 DEF LinkFails
  <2>3. LinkTypeOK'
    BY <1>4, <1>6, <1>7, <1>10, <2>1, <2>2, LinkAssumption DEF LinkInv, LinkTypeOK
  <2> QED
    BY <2>1, <2>3 DEF LinkInv
<1> QED
  BY <1>8, <1>9, <1>10

LEMMA EndingKeeps == LinkInv /\ LinkEnds => LinkInv'
<1> SUFFICES ASSUME LinkInv, LinkEnds PROVE LinkInv'
  OBVIOUS
<1>1. /\ plTold' \in Seq([request : 0..plAsked, line : PlayerLine \cup {Failure}])
      /\ LinkFits' /\ LinkIsHonest'
  BY FailingKeeps DEF LinkEnds
<1>2. LinkTypeOK'
  <2>1. /\ plOpen' = FALSE /\ plPending' = 0 /\ plAsked' = plAsked /\ plInstance' = plInstance
        /\ plWire' = plWire /\ plBuffer' = plBuffer /\ plLines' = plLines
    BY DEF LinkEnds, LinkFails
  <2>2. plAsked \in 0..MaxRequests /\ MaxRequests \in Nat
    BY LinkAssumption DEF LinkInv, LinkTypeOK
  <2>3. 0 \in 0..plAsked /\ plAsked' \in 0..MaxRequests
    BY <2>1, <2>2
  <2> QED
    BY <1>1, <2>1, <2>3 DEF LinkInv, LinkTypeOK
<1> QED
  BY <1>1, <1>2 DEF LinkInv

\* A caller is told of the answer to its own request and of no other, by one
\* instance of the app, once, and at the latest when the connection ends, for any
\* number of requests and lines (playerProtocol.ts, PlayerSocket).
THEOREM LinkHonest == LinkSpec => [](LinkTypeOK /\ LinkIsHonest)
<1>1. LinkInv /\ UNCHANGED linkVars => LinkInv'
  BY DEF LinkInv, linkVars, LinkTypeOK, LinkFits, LinkIsHonest
<1> QED
  BY InitLinkInv, RequestKeeps, SendingKeeps, DataKeeps, EndingKeeps, <1>1, PTL DEF LinkSpec, LinkNext, LinkInv

-----------------------------------------------------------------------------
(* The setup of a player app and its readiness (PlayerGateway).            *)

\* A setup that got past the credential has one, and asks while it may.
BootFits ==
  /\ gwBoot.pc \in {"push", "start", "poll", "ready"} => gwFile # NoCredential
  /\ gwBoot.pc \in {"connect", "stop", "provision", "push", "start", "poll"} => gwBoot.tries < MaxAsks

\* A check goes by the instance remembered, and that was named by a verdict.
MemoryFits ==
  /\ gwCheck.pc \in {"probe", "credential", "status", "sessions"} => gwCheck.remembered = gwMemory
  /\ gwCheck.pc = "sessions" => gwCheck.status.inst # 0
  /\ IF gwMemory = 0 THEN gwCounts.named = {} ELSE gwMemory \in gwCounts.named

GatewayInv == GatewayTypeOK /\ BootFits /\ MemoryFits /\ SetupHeals /\ VerdictsAreTrue

Phones == [reach : BOOLEAN, apk : BOOLEAN, token : Tokens \cup {Stranger}, app : AppStates]
Boots  == [pc : {"connect", "stop", "provision", "push", "start", "poll", "ready", "failed"}, tries : 0..MaxAsks]
Checks == [pc : {"idle", "probe", "credential", "status", "sessions", "ready"}, again : BOOLEAN,
           remembered : 0..MaxInstances, status : AppStates]
Lasts  == [code : {"NONE", "STARTING", "UNREACHABLE", "UNAUTHENTICATED", "APK_MISSING", "NOT_ACTIVATED",
                   "FOREIGN_SESSION", "RESTARTED", "BUSY", "READY"},
           status : AppStates, own : SUBSET Sessions, ours : SUBSET Sessions, named : SUBSET (1..MaxInstances)]
Counts == [inst : 0..MaxInstances, trips : 0..MaxTrips, upsets : 0..MaxUpsets, alone : BOOLEAN, named : SUBSET (1..MaxInstances)]

LEMMA GatewayTypes ==
  GatewayTypeOK <=>
    /\ gwMode \in {"RUN_AS", "OPERATOR_SUPPLIED"}
    /\ gwFile \in Tokens /\ gwLegacy \in {NoCredential, Legacy}
    /\ gwPhone \in Phones /\ gwBoot \in Boots /\ gwMemory \in 0..MaxInstances
    /\ gwAuthorized \subseteq Sessions /\ gwRows \subseteq Sessions
    /\ gwCheck \in Checks /\ gwLast \in Lasts /\ gwCounts \in Counts
BY DEF GatewayTypeOK, Phones, Boots, Checks, Lasts, Counts

LEMMA GatewayBounds ==
  /\ MaxAsks \in Nat /\ MaxAsks > 0 /\ MaxInstances \in Nat /\ MaxTrips \in Nat /\ MaxUpsets \in Nat
  /\ 0 \in 0..MaxInstances /\ 0 \in 0..MaxTrips /\ 0 \in 0..MaxUpsets /\ 0 \in 0..MaxAsks
  /\ Quiet \in AppStates /\ Quiet.sid = 0 /\ Quiet.inst = 0
BY GatewayAssumption DEF AppStates, Quiet, Sessions

LEMMA IdleFits ==
  /\ NoCheck \in Checks /\ NoCheck.pc = "idle" /\ NoCheck.again = FALSE
  /\ NoLast \in Lasts /\ NoLast.code = "NONE"
BY GatewayBounds DEF NoCheck, Checks, NoLast, Lasts

LEMMA InitGatewayInv == GatewayInit => GatewayInv
<1> SUFFICES ASSUME GatewayInit PROVE GatewayInv
  OBVIOUS
<1>1. gwPhone \in Phones
  BY GatewayBounds DEF GatewayInit, Phones, Tokens, NoCredential, Legacy, Minted
<1>2. gwBoot \in Boots /\ gwBoot.pc = "connect" /\ gwBoot.tries = 0
  BY GatewayBounds DEF GatewayInit, Boots
<1>3. gwCounts \in Counts /\ gwCounts.named = {}
  BY GatewayBounds DEF GatewayInit, Counts
<1>4. GatewayTypeOK
  BY <1>1, <1>2, <1>3, GatewayBounds, IdleFits, GatewayTypes DEF GatewayInit, Tokens, NoCredential, Legacy, Minted
<1>5. BootFits
  BY <1>2, GatewayBounds DEF BootFits
<1>6. MemoryFits
  BY <1>3, IdleFits DEF GatewayInit, MemoryFits
<1>7. SetupHeals /\ VerdictsAreTrue
  BY <1>2, IdleFits DEF GatewayInit, SetupHeals, VerdictsAreTrue
<1> QED
  BY <1>4, <1>5, <1>6, <1>7 DEF GatewayInv

-----------------------------------------------------------------------------
\* What a step of the setup, and one of a check, leaves as it was.
LEMMA BootStepKeeps ==
  ASSUME GatewayInv, BootOnly, gwFile' \in Tokens, gwPhone' \in Phones, gwBoot' \in Boots, gwCounts' \in Counts,
         gwCounts'.named = gwCounts.named, BootFits', SetupHeals'
  PROVE  GatewayInv'
<1>1. GatewayTypeOK'
  BY GatewayTypes DEF GatewayInv, BootOnly, GatewayTypeOK, Phones, Boots, Counts, Tokens, Sessions, AppStates
<1>2. MemoryFits' /\ VerdictsAreTrue'
  BY DEF GatewayInv, BootOnly, MemoryFits, VerdictsAreTrue
<1> QED
  BY <1>1, <1>2 DEF GatewayInv

LEMMA BootGoesFits ==
  ASSUME GatewayInv, NEW place \in {"connect", "stop", "provision", "push", "start", "poll", "ready", "failed"}, BootGoes(place)
  PROVE  gwBoot' \in Boots /\ gwBoot'.pc = place /\ gwBoot'.tries = gwBoot.tries
BY DEF GatewayInv, GatewayTypeOK, BootGoes, Boots

LEMMA BootReads ==
  ASSUME GatewayInv
  PROVE  /\ gwBoot \in Boots /\ gwBoot.tries \in 0..MaxAsks /\ gwPhone \in Phones /\ gwCounts \in Counts
         /\ gwFile \in Tokens /\ gwLegacy \in Tokens
         /\ gwPhone.app \in AppStates /\ gwPhone.app.inst \in 0..MaxInstances
         /\ gwCounts.inst \in 0..MaxInstances /\ gwCounts.named \in SUBSET (1..MaxInstances)
BY GatewayTypes DEF GatewayInv, Boots, Phones, Counts, AppStates, Tokens

LEMMA ConnectsKeeps == GatewayInv /\ Connects => GatewayInv'
<1> SUFFICES ASSUME GatewayInv, Connects PROVE GatewayInv'
  OBVIOUS
<1>1. PICK place \in {"stop", "failed"} : BootGoes(place)
  BY DEF Connects
<1>2. gwBoot' \in Boots /\ gwBoot'.pc = place /\ gwBoot'.tries = gwBoot.tries
  BY <1>1, BootGoesFits
<1>3. BootFits' /\ SetupHeals'
  BY <1>2 DEF Connects, BootAt, GatewayInv, BootFits, SetupHeals
<1> QED
  BY <1>2, <1>3, BootReads, BootStepKeeps DEF Connects

LEMMA ForceStopsKeeps == GatewayInv /\ ForceStops => GatewayInv'
<1> SUFFICES ASSUME GatewayInv, ForceStops PROVE GatewayInv'
  OBVIOUS
<1>1. PICK place \in {"provision", "failed"} : BootGoes(place)
  BY DEF ForceStops, PhoneDoes
<1>2. gwBoot' \in Boots /\ gwBoot'.pc = place /\ gwBoot'.tries = gwBoot.tries
  BY <1>1, BootGoesFits
<1>3. gwPhone' \in Phones
  BY BootReads, GatewayBounds DEF ForceStops, PhoneDoes, Phones
<1>4. BootFits' /\ SetupHeals'
  BY <1>2 DEF ForceStops, PhoneDoes, BootAt, GatewayInv, BootFits, SetupHeals
<1> QED
  BY <1>2, <1>3, <1>4, BootReads, BootStepKeeps DEF ForceStops

LEMMA ProvisionsKeeps == GatewayInv /\ Provisions => GatewayInv'
<1> SUFFICES ASSUME GatewayInv, Provisions PROVE GatewayInv'
  OBVIOUS
<1>1. CASE Adopted = NoCredential /\ gwMode # "RUN_AS"
  <2>1. BootGoes("failed") /\ gwFile' = gwFile
    BY <1>1 DEF Provisions
  <2>2. gwBoot' \in Boots /\ gwBoot'.pc = "failed"
    BY <2>1, BootGoesFits
  <2>3. BootFits' /\ SetupHeals'
    BY <2>2 DEF BootFits, SetupHeals
  <2> QED
    BY <2>1, <2>2, <2>3, BootReads, BootStepKeeps DEF Provisions
<1>2. CASE ~(Adopted = NoCredential /\ gwMode # "RUN_AS")
  <2>1. PICK place \in {"push", "start"} : BootGoes(place) /\ (place = "start" => gwMode # "RUN_AS")
    BY <1>2 DEF Provisions, PushesToken
  <2>2. gwBoot' \in Boots /\ gwBoot'.pc = place /\ gwBoot'.tries = gwBoot.tries
    BY <2>1, BootGoesFits
  <2>3. gwFile' \in Tokens /\ gwFile' # NoCredential
    BY <1>2, BootReads DEF Provisions, Adopted, Tokens, NoCredential, Legacy, Minted
  <2>4. BootFits' /\ SetupHeals'
    BY <2>1, <2>2, <2>3 DEF Provisions, BootOnly, BootAt, GatewayInv, BootFits, SetupHeals
  <2> QED
    BY <2>2, <2>3, <2>4, BootReads, BootStepKeeps DEF Provisions
<1> QED
  BY <1>1, <1>2

\* A push that breaks off ends the setup, and one that is known to be done left the token.
LEMMA PushesKeeps == GatewayInv /\ Pushes => GatewayInv'
<1> SUFFICES ASSUME GatewayInv, Pushes PROVE GatewayInv'
  OBVIOUS
<1>1. PICK place \in {"start", "failed"} : BootGoes(place) /\ (place = "start" => gwPhone' = [gwPhone EXCEPT !.token = gwFile])
  BY DEF Pushes, PhoneDoes
<1>2. gwBoot' \in Boots /\ gwBoot'.pc = place /\ gwBoot'.tries = gwBoot.tries
  BY <1>1, BootGoesFits
<1>3. gwPhone' \in Phones /\ gwFile' = gwFile
  BY BootReads DEF Pushes, PhoneDoes, Phones, Tokens, NoCredential
<1>4. place = "start" => gwPhone'.token = gwFile'
  BY <1>1, <1>3, BootReads DEF Phones
<1>5. gwCounts' \in Counts /\ gwCounts'.named = gwCounts.named
  BY BootReads DEF Pushes, Counts
<1>6. BootFits' /\ SetupHeals'
  BY <1>2, <1>3, <1>4 DEF Pushes, PhoneDoes, BootAt, GatewayInv, BootFits, SetupHeals
<1> QED
  BY <1>2, <1>3, <1>5, <1>6, BootReads, BootStepKeeps DEF Pushes

LEMMA StartedFits ==
  ASSUME GatewayInv, gwCounts.inst < MaxInstances, NEW clean \in BOOLEAN
  PROVE  Started(gwPhone, clean) \in Phones /\ Started(gwPhone, clean).token = gwPhone.token
<1> DEFINE app == [Quiet EXCEPT !.inst = gwCounts.inst + 1, !.clean = clean]
<1>1. gwCounts.inst + 1 \in 0..MaxInstances
  BY BootReads, GatewayBounds
<1>2. app \in AppStates
  BY <1>1, GatewayBounds DEF AppStates
<1> HIDE DEF app
<1>3. [gwPhone EXCEPT !.app = app] \in Phones /\ [gwPhone EXCEPT !.app = app].token = gwPhone.token
  BY <1>2, BootReads DEF Phones
<1> QED
  BY <1>3, BootReads DEF Started, app

LEMMA CountFits ==
  ASSUME GatewayInv, gwCounts.inst < MaxInstances, CountStart
  PROVE  gwCounts' \in Counts /\ gwCounts'.named = gwCounts.named /\ gwCounts'.alone = gwCounts.alone
<1>1. gwCounts.inst + 1 \in 0..MaxInstances
  BY BootReads, GatewayBounds
<1> QED
  BY <1>1, BootReads DEF CountStart, Counts

LEMMA LaunchesKeeps == GatewayInv /\ Launches => GatewayInv'
<1> SUFFICES ASSUME GatewayInv, Launches PROVE GatewayInv'
  OBVIOUS
<1>1. PICK clean \in BOOLEAN : PhoneDoes("start", "poll", Started(gwPhone, clean))
  BY DEF Launches
<1>2. PICK place \in {"poll", "failed"} : BootGoes(place)
  BY <1>1 DEF PhoneDoes
<1>3. gwBoot' \in Boots /\ gwBoot'.pc = place /\ gwBoot'.tries = gwBoot.tries
  BY <1>2, BootGoesFits
<1>4. gwPhone' \in Phones /\ gwPhone'.token = gwPhone.token
  BY <1>1, StartedFits, BootReads DEF Launches, PhoneDoes
<1>5. gwCounts' \in Counts /\ gwCounts'.named = gwCounts.named /\ gwCounts'.alone = gwCounts.alone
  BY CountFits DEF Launches
<1>6. BootFits' /\ SetupHeals'
  BY <1>1, <1>3, <1>4, <1>5 DEF Launches, BootOnly, PhoneDoes, BootAt, GatewayInv, BootFits, SetupHeals
<1> QED
  BY <1>3, <1>4, <1>5, <1>6, BootReads, BootStepKeeps DEF Launches

LEMMA PollsKeeps == GatewayInv /\ Polls => GatewayInv'
<1> SUFFICES ASSUME GatewayInv, Polls PROVE GatewayInv'
  OBVIOUS
<1>1. gwBoot.pc = "poll" /\ gwBoot.tries < MaxAsks /\ gwBoot.tries \in 0..MaxAsks /\ MaxAsks \in Nat
  BY BootReads, GatewayBounds DEF Polls, BootAt, GatewayInv, BootFits
<1>2. /\ gwBoot' \in Boots /\ gwBoot'.pc \in {"ready", "poll", "failed"}
      /\ gwBoot'.pc = "poll" => gwBoot'.tries < MaxAsks
  <2>1. CASE BootGoes("ready")
    BY <2>1, BootGoesFits
  <2>2. CASE gwBoot' = [pc |-> IF gwBoot.tries + 1 < MaxAsks THEN "poll" ELSE "failed", tries |-> gwBoot.tries + 1]
    BY <1>1, <2>2 DEF Boots
  <2> QED
    BY <2>1, <2>2 DEF Polls
<1>3. BootFits' /\ SetupHeals'
  BY <1>1, <1>2 DEF Polls, BootOnly, GatewayInv, BootFits, SetupHeals
<1> QED
  BY <1>2, <1>3, BootReads, BootStepKeeps DEF Polls

-----------------------------------------------------------------------------
\* The credential of a setup that is done is not replaced by a check.
LEMMA CheckStepKeeps ==
  ASSUME GatewayInv, CheckOnly, gwFile' \in Tokens, gwFile # NoCredential => gwFile' = gwFile,
         gwMemory' \in 0..MaxInstances, gwCheck' \in Checks, gwLast' \in Lasts, gwCounts' \in Counts,
         gwCounts'.alone = gwCounts.alone, MemoryFits', VerdictsAreTrue'
  PROVE  GatewayInv'
<1>1. GatewayTypeOK'
  BY GatewayTypes DEF GatewayInv, CheckOnly, GatewayTypeOK, Checks, Lasts, Counts, Tokens, Sessions, AppStates
<1>2. BootFits' /\ SetupHeals'
  BY DEF GatewayInv, CheckOnly, BootFits, SetupHeals
<1> QED
  BY <1>1, <1>2 DEF GatewayInv

LEMMA CheckReads ==
  ASSUME GatewayInv
  PROVE  /\ gwCheck \in Checks /\ gwCheck.status \in AppStates /\ gwCheck.remembered \in 0..MaxInstances
         /\ gwMemory \in 0..MaxInstances /\ gwLast \in Lasts
         /\ gwAuthorized \in SUBSET Sessions /\ gwRows \in SUBSET Sessions
BY GatewayTypes DEF GatewayInv, Checks

Endings == {"STARTING", "UNREACHABLE", "UNAUTHENTICATED", "APK_MISSING", "NOT_ACTIVATED"}

LEMMA ToldKeeps ==
  ASSUME GatewayInv, CheckOnly, gwFile' \in Tokens, gwFile # NoCredential => gwFile' = gwFile,
         gwCounts' = gwCounts, NEW code \in Endings, Told(code)
  PROVE  GatewayInv'
<1>1. gwLast' \in Lasts /\ gwLast'.code = code
  BY IdleFits DEF Told, Lasts, Endings
<1>2. VerdictsAreTrue'
  BY <1>1 DEF VerdictsAreTrue, Endings
<1>3. gwCheck' = NoCheck /\ gwMemory' = gwMemory
  BY DEF Told
<1>4. MemoryFits'
  BY <1>3, IdleFits DEF MemoryFits, GatewayInv
<1> QED
  BY <1>1, <1>2, <1>3, <1>4, IdleFits, BootReads, CheckReads, CheckStepKeeps

\* A check goes on, by what it remembers.
LEMMA GoingOnKeeps ==
  ASSUME GatewayInv, CheckOnly, gwFile' \in Tokens, gwFile # NoCredential => gwFile' = gwFile,
         gwCounts' = gwCounts, gwMemory' = gwMemory, gwLast' = gwLast,
         gwCheck' \in Checks, gwCheck'.remembered = gwMemory, gwCheck'.pc = "sessions" => gwCheck'.status.inst # 0
  PROVE  GatewayInv'
<1>1. MemoryFits' /\ VerdictsAreTrue'
  BY DEF GatewayInv, MemoryFits, VerdictsAreTrue
<1> QED
  BY <1>1, BootReads, CheckReads, CheckStepKeeps

LEMMA CheckBeginsKeeps == GatewayInv /\ CheckBegins => GatewayInv'
<1> SUFFICES ASSUME GatewayInv, CheckBegins PROVE GatewayInv'
  OBVIOUS
<1>1. CheckOnly /\ gwFile' = gwFile /\ gwFile' \in Tokens /\ gwCounts' = gwCounts
  BY BootReads DEF CheckBegins
<1>2. CASE gwCheck' = [NoCheck EXCEPT !.pc = "probe", !.remembered = gwMemory] /\ UNCHANGED <<gwMemory, gwLast>>
  <2>1. gwCheck' \in Checks /\ gwCheck'.remembered = gwMemory /\ gwCheck'.pc = "probe"
    BY <1>2, CheckReads, IdleFits DEF Checks
  <2> QED
    BY <1>1, <1>2, <2>1, GoingOnKeeps
<1>3. CASE \E code \in {"STARTING", "UNREACHABLE"} : Told(code)
  <2>1. PICK code \in Endings : Told(code)
    BY <1>3 DEF Endings
  <2> QED
    BY <1>1, <2>1, ToldKeeps
<1> QED
  BY <1>2, <1>3 DEF CheckBegins

LEMMA ProbesKeeps == GatewayInv /\ Probes => GatewayInv'
<1> SUFFICES ASSUME GatewayInv, Probes PROVE GatewayInv'
  OBVIOUS
<1>1. CheckOnly /\ gwFile' = gwFile /\ gwFile' \in Tokens /\ gwCounts' = gwCounts /\ gwCheck.pc = "probe"
  BY BootReads DEF Probes, CheckAt
<1>2. CASE gwCheck' = [gwCheck EXCEPT !.pc = "credential"] /\ UNCHANGED <<gwMemory, gwLast>>
  <2>1. gwCheck' \in Checks /\ gwCheck'.remembered = gwMemory /\ gwCheck'.pc = "credential"
    BY <1>1, <1>2, CheckReads DEF Checks, GatewayInv, MemoryFits
  <2> QED
    BY <1>1, <1>2, <2>1, GoingOnKeeps
<1>3. CASE \E code \in Endings : Told(code)
  BY <1>1, <1>3, ToldKeeps
<1> QED
  BY <1>2, <1>3 DEF Probes, Endings

LEMMA AdoptedFits ==
  ASSUME GatewayInv
  PROVE  Adopted \in Tokens /\ (gwFile # NoCredential => Adopted = gwFile)
BY BootReads DEF Adopted

LEMMA FindsCredentialKeeps == GatewayInv /\ FindsCredential => GatewayInv'
<1> SUFFICES ASSUME GatewayInv, FindsCredential PROVE GatewayInv'
  OBVIOUS
<1>1. CheckOnly /\ gwFile' \in Tokens /\ (gwFile # NoCredential => gwFile' = gwFile) /\ gwCounts' = gwCounts /\ gwCheck.pc = "credential"
  BY AdoptedFits DEF FindsCredential, CheckAt
<1>2. CASE gwCheck' = [gwCheck EXCEPT !.pc = "status"] /\ UNCHANGED <<gwMemory, gwLast>>
  <2>1. gwCheck' \in Checks /\ gwCheck'.remembered = gwMemory /\ gwCheck'.pc = "status"
    BY <1>1, <1>2, CheckReads DEF Checks, GatewayInv, MemoryFits
  <2> QED
    BY <1>1, <1>2, <2>1, GoingOnKeeps
<1>3. CASE Told("UNAUTHENTICATED")
  <2>1. "UNAUTHENTICATED" \in Endings
    BY DEF Endings
  <2> QED
    BY <1>1, <1>3, <2>1, ToldKeeps
<1> QED
  BY <1>2, <1>3 DEF FindsCredential

LEMMA ReadsStatusKeeps == GatewayInv /\ ReadsStatus => GatewayInv'
<1> SUFFICES ASSUME GatewayInv, ReadsStatus PROVE GatewayInv'
  OBVIOUS
<1>1. CheckOnly /\ gwFile' = gwFile /\ gwFile' \in Tokens /\ gwCounts' = gwCounts /\ gwCheck.pc = "status"
  BY BootReads DEF ReadsStatus, CheckAt
<1>2. CASE Reached /\ gwCheck' = [gwCheck EXCEPT !.pc = "sessions", !.status = gwPhone.app] /\ UNCHANGED <<gwMemory, gwLast>>
  <2>1. gwCheck' \in Checks /\ gwCheck'.remembered = gwMemory /\ gwCheck'.status.inst # 0
    BY <1>1, <1>2, BootReads, CheckReads DEF Reached, Checks, GatewayInv, MemoryFits
  <2> QED
    BY <1>1, <1>2, <2>1, GoingOnKeeps
<1>3. CASE \E code \in Endings : Told(code)
  BY <1>1, <1>3, ToldKeeps
<1> QED
  BY <1>2, <1>3 DEF ReadsStatus, Endings

\* A phone is ready by the instance that this process knew, if it knew one.
LEMMA ConcludesKeeps == GatewayInv /\ Concludes => GatewayInv'
<1> SUFFICES ASSUME GatewayInv, Concludes PROVE GatewayInv'
  OBVIOUS
<1> DEFINE status == gwCheck.status
           inst   == gwCheck.status.inst
<1>1. PICK own, code :
        /\ own \in {gwAuthorized \cup gwRows, gwAuthorized} /\ code = ReadinessOf(status, gwCheck.remembered, own)
        /\ gwLast' = [code |-> code, status |-> status, own |-> own, ours |-> gwAuthorized \cup gwRows, named |-> gwCounts.named]
        /\ gwCounts' = [gwCounts EXCEPT !.named = @ \cup {inst}]
        /\ gwMemory' = inst
        /\ gwCheck' = IF code = "RESTARTED" /\ ~gwCheck.again THEN [NoCheck EXCEPT !.pc = "probe", !.again = TRUE, !.remembered = inst]
                      ELSE IF code = "READY" THEN [NoCheck EXCEPT !.pc = "ready"]
                      ELSE NoCheck
  BY DEF Concludes
<1>2. /\ CheckOnly /\ gwFile' = gwFile /\ gwFile' \in Tokens /\ gwCheck.pc = "sessions"
      /\ gwCheck.remembered = gwMemory /\ inst # 0
  BY BootReads DEF Concludes, CheckAt, GatewayInv, MemoryFits
<1>3. /\ status \in AppStates /\ inst \in 0..MaxInstances /\ inst \in 1..MaxInstances /\ status.sid \in Sessions \cup {0, Stranger}
      /\ own \in SUBSET Sessions /\ gwAuthorized \cup gwRows \in SUBSET Sessions
  BY <1>1, <1>2, CheckReads, GatewayBounds DEF AppStates
<1>4. code \in {"FOREIGN_SESSION", "RESTARTED", "BUSY", "READY"}
  BY <1>1 DEF ReadinessOf
<1>5. /\ code = "FOREIGN_SESSION" => status.sid \notin own \cup {0}
      /\ code = "READY" => /\ status.sid \in own \cup {0} /\ gwMemory \in {0, inst}
                           /\ status.clean /\ status.state \notin Occupied
  BY <1>1, <1>2 DEF ReadinessOf
<1>6. Stranger \notin Sessions \cup {0}
  BY GatewayBounds DEF Stranger, Sessions
<1>7. /\ gwLast'.code = code /\ gwLast'.status = status /\ gwLast'.own = own
      /\ gwLast'.ours = gwAuthorized \cup gwRows /\ gwLast'.named = gwCounts.named
  BY <1>1
<1>8. gwLast' \in Lasts
  BY <1>1, <1>3, <1>4, BootReads DEF Lasts
<1>9. gwCounts' \in Counts /\ gwCounts'.named = gwCounts.named \cup {inst} /\ gwCounts'.alone = gwCounts.alone
  BY <1>1, <1>3, BootReads DEF Counts
<1>10. gwCheck' \in Checks /\ gwCheck'.pc \in {"idle", "ready", "probe"} /\ (gwCheck'.pc = "probe" => gwCheck'.remembered = inst)
  BY <1>1, <1>3, IdleFits DEF Checks
<1>11. MemoryFits'
  BY <1>1, <1>2, <1>9, <1>10 DEF MemoryFits
<1>12. gwMemory \in {0, inst} => gwCounts.named = {} \/ inst \in gwCounts.named
  BY DEF GatewayInv, MemoryFits
<1>13. VerdictsAreTrue'
  BY <1>3, <1>5, <1>6, <1>7, <1>12 DEF VerdictsAreTrue
<1> QED
  BY <1>1, <1>2, <1>3, <1>8, <1>9, <1>10, <1>11, <1>13, CheckStepKeeps

-----------------------------------------------------------------------------
LEMMA OpensKeeps == GatewayInv /\ Opens => GatewayInv'
<1> SUFFICES ASSUME GatewayInv, Opens PROVE GatewayInv'
  OBVIOUS
<1>1. /\ gwMode' = gwMode /\ gwFile' = gwFile /\ gwLegacy' = gwLegacy /\ gwPhone' = gwPhone /\ gwBoot' = gwBoot
      /\ gwMemory' = gwMemory /\ gwLast' = gwLast /\ gwCheck' = NoCheck
  BY DEF Opens
<1>2. /\ gwAuthorized' \subseteq Sessions /\ gwRows' \subseteq Sessions
      /\ gwCounts' \in Counts /\ gwCounts'.named = gwCounts.named /\ gwCounts'.alone = gwCounts.alone
  <2>1. CASE UNCHANGED <<gwCounts, gwRows, gwAuthorized>>
    BY <2>1, BootReads, CheckReads
  <2>2. CASE /\ gwCounts.trips < MaxTrips /\ gwCounts' = [gwCounts EXCEPT !.trips = @ + 1]
             /\ gwRows' = gwRows \cup {gwCounts.trips + 1} /\ gwAuthorized' = gwAuthorized \cup {gwCounts.trips + 1}
    <3>1. gwCounts.trips + 1 \in 0..MaxTrips /\ gwCounts.trips + 1 \in Sessions
      BY <2>2, BootReads, GatewayBounds DEF Counts, Sessions
    <3>2. gwCounts' \in Counts /\ gwCounts'.named = gwCounts.named /\ gwCounts'.alone = gwCounts.alone
      BY <2>2, <3>1, BootReads DEF Counts
    <3> QED
      BY <2>2, <3>1, <3>2, CheckReads
  <2> QED
    BY <2>1, <2>2 DEF Opens
<1>3. GatewayTypeOK'
  BY <1>1, <1>2, IdleFits, GatewayTypes DEF GatewayInv, GatewayTypeOK, Checks, Counts, Sessions
<1>4. BootFits' /\ MemoryFits' /\ SetupHeals' /\ VerdictsAreTrue'
  BY <1>1, <1>2, IdleFits DEF GatewayInv, BootFits, MemoryFits, SetupHeals, VerdictsAreTrue
<1> QED
  BY <1>3, <1>4 DEF GatewayInv

LEMMA TripStopsKeeps == GatewayInv /\ TripStops => GatewayInv'
<1> SUFFICES ASSUME GatewayInv, TripStops PROVE GatewayInv'
  OBVIOUS
<1>1. UNCHANGED <<gwMode, gwFile, gwLegacy, gwPhone, gwBoot, gwMemory, gwCheck, gwLast, gwCounts>>
  BY DEF TripStops
<1>2. gwAuthorized' \subseteq Sessions /\ gwRows' \subseteq Sessions
  BY CheckReads DEF TripStops
<1>3. GatewayTypeOK'
  BY <1>1, <1>2 DEF GatewayInv, GatewayTypeOK, Sessions
<1>4. BootFits' /\ MemoryFits' /\ SetupHeals' /\ VerdictsAreTrue'
  BY <1>1 DEF GatewayInv, BootFits, MemoryFits, SetupHeals, VerdictsAreTrue
<1> QED
  BY <1>3, <1>4 DEF GatewayInv

\* The phone goes its own way, and only the other deployment replaces its token.
LEMMA PhoneStepKeeps ==
  ASSUME GatewayInv, PhoneOnly, gwPhone' \in Phones, gwCounts' \in Counts, gwCounts'.named = gwCounts.named,
         gwCounts'.alone => gwCounts.alone /\ gwPhone'.token = gwPhone.token
  PROVE  GatewayInv'
<1>1. GatewayTypeOK'
  BY DEF GatewayInv, PhoneOnly, GatewayTypeOK, Phones, Counts
<1>2. BootFits' /\ MemoryFits' /\ SetupHeals' /\ VerdictsAreTrue'
  BY DEF GatewayInv, PhoneOnly, BootFits, MemoryFits, SetupHeals, VerdictsAreTrue
<1> QED
  BY <1>1, <1>2 DEF GatewayInv

LEMMA PlaysSessionFits ==
  ASSUME GatewayInv, NEW sid \in Sessions \cup {0, Stranger}, PlaysSession(sid)
  PROVE  gwPhone' \in Phones /\ gwPhone'.token = gwPhone.token
<1>1. [gwPhone.app EXCEPT !.sid = sid, !.state = "PLAYING", !.clean = FALSE] \in AppStates
  BY BootReads DEF AppStates
<1>2. gwPhone' = [gwPhone EXCEPT !.app = [gwPhone.app EXCEPT !.sid = sid, !.state = "PLAYING", !.clean = FALSE]]
  BY BootReads DEF PlaysSession, Phones
<1> QED
  BY <1>1, <1>2, BootReads DEF Phones

LEMMA PlaysTripKeeps == GatewayInv /\ PlaysTrip => GatewayInv'
<1> SUFFICES ASSUME GatewayInv, PlaysTrip PROVE GatewayInv'
  OBVIOUS
<1>1. PICK s \in Sessions \cup {0, Stranger} : PlaysSession(s)
  BY CheckReads DEF PlaysTrip
<1> QED
  BY <1>1, PlaysSessionFits, BootReads, PhoneStepKeeps DEF PlaysTrip

LEMMA SessionEndsKeeps == GatewayInv /\ SessionEnds => GatewayInv'
<1> SUFFICES ASSUME GatewayInv, SessionEnds PROVE GatewayInv'
  OBVIOUS
<1>1. PICK clean \in BOOLEAN : gwPhone' = [gwPhone EXCEPT !.app.state = "OVER", !.app.clean = clean]
  BY DEF SessionEnds
<1>2. [gwPhone.app EXCEPT !.state = "OVER", !.clean = clean] \in AppStates
  BY BootReads DEF AppStates
<1>3. gwPhone' = [gwPhone EXCEPT !.app = [gwPhone.app EXCEPT !.state = "OVER", !.clean = clean]]
  BY <1>1, BootReads DEF Phones
<1>4. gwPhone' \in Phones /\ gwPhone'.token = gwPhone.token
  BY <1>2, <1>3, BootReads DEF Phones
<1> QED
  BY <1>4, BootReads, PhoneStepKeeps DEF SessionEnds

LEMMA PhoneElsewhereKeeps == GatewayInv /\ PhoneElsewhere => GatewayInv'
<1> SUFFICES ASSUME GatewayInv, PhoneElsewhere PROVE GatewayInv'
  OBVIOUS
<1>1. CASE /\ Upset
           /\ \/ gwPhone.reach /\ gwPhone' = [gwPhone EXCEPT !.token = Stranger, !.app = Quiet]
              \/ gwPhone.reach /\ gwPhone.app.inst # 0 /\ PlaysSession(Stranger)
              \/ gwPhone' = [gwPhone EXCEPT !.app = Quiet, !.reach = FALSE]
              \/ gwPhone.app.inst # 0 /\ gwPhone' = [gwPhone EXCEPT !.app = Quiet]
           /\ gwCounts' = [gwCounts EXCEPT !.upsets = @ + 1, !.alone = @ /\ gwPhone'.token # Stranger]
  <2>1. gwPhone' \in Phones /\ (gwPhone'.token = gwPhone.token \/ gwPhone'.token = Stranger)
    <3>1. CASE \/ gwPhone' = [gwPhone EXCEPT !.token = Stranger, !.app = Quiet]
               \/ gwPhone' = [gwPhone EXCEPT !.app = Quiet, !.reach = FALSE]
               \/ gwPhone' = [gwPhone EXCEPT !.app = Quiet]
      BY <3>1, BootReads, GatewayBounds DEF Phones
    <3>2. CASE PlaysSession(Stranger)
      BY <3>2, PlaysSessionFits
    <3> QED
      BY <1>1, <3>1, <3>2
  <2>2. gwCounts.upsets + 1 \in 0..MaxUpsets /\ gwCounts.alone \in BOOLEAN
    BY <1>1, BootReads, GatewayBounds DEF Upset, Counts
  <2>3. PICK alone \in BOOLEAN : /\ alone <=> (gwCounts.alone /\ gwPhone'.token # Stranger)
                                 /\ gwCounts' = [gwCounts EXCEPT !.upsets = gwCounts.upsets + 1, !.alone = alone]
    BY <1>1, <2>2, BootReads DEF Counts
  <2>4. gwCounts' \in Counts /\ gwCounts'.named = gwCounts.named /\ gwCounts'.alone = alone
    BY <2>2, <2>3, BootReads DEF Counts
  <2> QED
    BY <2>1, <2>3, <2>4, PhoneStepKeeps DEF PhoneElsewhere
<1>2. CASE ~gwPhone.reach /\ gwPhone' = [gwPhone EXCEPT !.reach = TRUE] /\ UNCHANGED gwCounts
  <2>1. gwPhone' \in Phones /\ gwPhone'.token = gwPhone.token
    BY <1>2, BootReads DEF Phones
  <2> QED
    BY <1>2, <2>1, BootReads, PhoneStepKeeps DEF PhoneElsewhere
<1>3. CASE /\ gwPhone.reach /\ gwPhone.apk /\ gwPhone.app.inst = 0 /\ gwCounts.inst < MaxInstances
           /\ gwPhone' = Started(gwPhone, TRUE) /\ CountStart
  BY <1>3, StartedFits, CountFits, PhoneStepKeeps DEF PhoneElsewhere
<1> QED
  BY <1>1, <1>2, <1>3 DEF PhoneElsewhere

LEMMA RebootsKeeps == GatewayInv /\ Reboots => GatewayInv'
<1> SUFFICES ASSUME GatewayInv, Reboots PROVE GatewayInv'
  OBVIOUS
<1>1. /\ gwMode' = gwMode /\ gwFile' = gwFile /\ gwLegacy' = gwLegacy /\ gwPhone' = gwPhone /\ gwRows' = gwRows
      /\ gwMemory' = 0 /\ gwAuthorized' = {} /\ gwCheck' = NoCheck /\ gwLast' = NoLast
      /\ gwBoot' = [pc |-> "connect", tries |-> 0]
  BY DEF Reboots
<1>2. gwBoot' \in Boots /\ gwBoot'.pc = "connect" /\ gwBoot'.tries = 0
  BY <1>1, GatewayBounds DEF Boots
<1>3. gwCounts.upsets + 1 \in 0..MaxUpsets
  BY BootReads, GatewayBounds DEF Reboots, Upset, Counts
<1>4. gwCounts' \in Counts /\ gwCounts'.named = {}
  BY <1>3, BootReads DEF Reboots, Counts
<1>5. GatewayTypeOK'
  BY <1>1, <1>2, <1>4, GatewayBounds, IdleFits DEF GatewayInv, GatewayTypeOK, Boots, Checks, Lasts, Counts
<1>6. BootFits' /\ MemoryFits' /\ SetupHeals' /\ VerdictsAreTrue'
  BY <1>1, <1>2, <1>4, IdleFits, GatewayBounds DEF BootFits, MemoryFits, SetupHeals, VerdictsAreTrue
<1> QED
  BY <1>5, <1>6 DEF GatewayInv

\* For any number of trips, starts of the app, crashes and visits of the other
\* deployment: a setup that gets as far as starting the app leaves it with the
\* token of the file, and a verdict of the readiness check is true of what it
\* was made of (playerConnection.ts, initialize; playerReadiness.ts).
THEOREM GatewaySafe == GatewaySpec => [](GatewayTypeOK /\ SetupHeals /\ VerdictsAreTrue)
<1>1. GatewayInv /\ UNCHANGED gwVars => GatewayInv'
  BY DEF GatewayInv, gwVars, GatewayTypeOK, BootFits, MemoryFits, SetupHeals, VerdictsAreTrue
<1>2. GatewayInv /\ [GatewayNext]_gwVars => GatewayInv'
  BY <1>1, ConnectsKeeps, ForceStopsKeeps, ProvisionsKeeps, PushesKeeps, LaunchesKeeps, PollsKeeps, CheckBeginsKeeps,
     ProbesKeeps, FindsCredentialKeeps, ReadsStatusKeeps, ConcludesKeeps, OpensKeeps, PlaysTripKeeps, SessionEndsKeeps,
     TripStopsKeeps, PhoneElsewhereKeeps, RebootsKeeps DEF GatewayNext
<1>3. GatewayInv => GatewayTypeOK /\ SetupHeals /\ VerdictsAreTrue
  BY DEF GatewayInv
<1> QED
  BY InitGatewayInv, <1>2, <1>3, PTL DEF GatewaySpec

-----------------------------------------------------------------------------
(* The radio and the players together (RadioAndPlayers).                   *)

\* Whatever the radio and the players do beside each other, every type holds, and
\* the controller reaches the phone it means, with a credential that a crash left
\* usable, takes only a request's own answer, and calls a phone ready only if it is.
THEOREM PlayersReached == ReachSpec => []PlayersAreReached
<1>1. EngineInv => RadioEngineTypeOK
  BY DEF EngineInv
<1>2. ContractInv => RadioContractTypeOK
  BY DEF ContractInv
<1>3. RuntimeInv => RuntimeTypeOK
  BY DEF RuntimeInv
<1>4. /\ RadioTypeOK /\ RadioEngineTypeOK /\ RadioContractTypeOK /\ RuntimeTypeOK
      /\ TargetsTypeOK /\ TargetsAreSafe /\ LinkTypeOK /\ LinkIsHonest
      /\ GatewayTypeOK /\ SetupHeals /\ VerdictsAreTrue
      => PlayersAreReached
  BY DEF PlayersAreReached, ReachTypeOK
<1> QED
  BY <1>1, <1>2, <1>3, <1>4, RadioTypeCorrect, EngineInvariance, ContractInvariance, RuntimeInvariance,
     TargetsSafe, LinkHonest, GatewaySafe, PTL DEF ReachSpec
=============================================================================
