---------------------------- MODULE RadioDelivery ----------------------------
(***************************************************************************)
(* Radio frames written to one phone under the physical-image lease:       *)
(* RadioDeliveryAdapter (src/src/trips/radioDelivery.ts) over              *)
(* LineRadioTransport (radioTransport.ts), and the agent on the phone as   *)
(* radioStubReceiver.ts plays it.  Composes ImageLease: each call of the   *)
(* lease opens one radio session, with an adapter and a transport of its   *)
(* own (withOwnedRadioDelivery, radioSession.ts:69-79).                    *)
(*                                                                         *)
(* A frame is identified by its writer and its sequence; its epoch is the  *)
(* writer's.  Bytes written to a socket may reach the agent at any later   *)
(* time, also after that socket is gone, or never.                         *)
(***************************************************************************)
EXTENDS ImageLease, Integers

CONSTANTS MaxSequence  \* bound on frame sequences

ASSUME MaxSequenceAssumption == MaxSequence \in Nat

VARIABLES
  phase,     \* per writer: where deliver() is
  seq,       \* per writer: the sequence deliver() was called with
  lastSeq,   \* per writer: RadioDeliveryAdapter.lastSequence
  closed,    \* per writer: closedReason is set
  outcome,   \* per writer and sequence: what its latest deliver() returned
  wire,      \* frames on their way to the agent
  acks,      \* answers on their way back
  phone,     \* the agent's appliedEpoch, sessionId and lastSequence
  applied    \* history: the frames the agent applied

radioVars == <<phase, seq, lastSeq, closed, outcome, wire, acks, phone, applied>>
vars == <<leaseVars, radioVars>>

Sequences == 0..MaxSequence

Frames == [writer : Attempts, epoch : Nat, seq : Sequences]

\* What an answer says: applied, or received, rejected, unsupported.
AckStatus == {"applied", "not_applied"}

\* The `applied` and `uncertain` fields of a RadioDeliveryResult, which every
\* RadioDeliveryState sets: "not_applied" is neither.  CLOSED, REPLAY_REJECTED
\* and PAYLOAD_TOO_LARGE leave every variable alone and are not steps.
Outcomes == AckStatus \cup {"none", "uncertain"}

Frame(a) == [writer |-> a, epoch |-> epoch[a], seq |-> seq[a]]

RadioInit ==
  /\ phase = [a \in Attempts |-> "ready"]
  /\ seq = [a \in Attempts |-> 0]
  /\ lastSeq = [a \in Attempts |-> -1]
  /\ closed = [a \in Attempts |-> FALSE]
  /\ outcome = [a \in Attempts |-> [s \in Sequences |-> "none"]]
  /\ wire = {}
  /\ acks = {}
  /\ phone = [epoch |-> 0, session |-> NoToken, seq |-> -1]
  /\ applied = {}

-----------------------------------------------------------------------------
(* The adapter.                                                            *)

\* Mutant: the replay check compares with the last applied frame only.
DeliverAfterApplied(a, s) ==
  /\ pc[a] = "work" /\ phase[a] = "ready"
  /\ ~closed[a]
  /\ \A f \in applied : f.writer = a => s > f.seq
  /\ phase' = [phase EXCEPT ![a] = "asserting"]
  /\ seq' = [seq EXCEPT ![a] = s]
  /\ outcome' = [outcome EXCEPT ![a][s] = "none"]
  /\ UNCHANGED <<leaseVars, lastSeq, closed, wire, acks, phone, applied>>

\* deliver() passes the closed and replay checks and asks for ownership.
Deliver(a, s) ==
  /\ pc[a] = "work" /\ phase[a] = "ready"
  /\ ~closed[a]
  /\ s > lastSeq[a]
  /\ phase' = [phase EXCEPT ![a] = "asserting"]
  /\ seq' = [seq EXCEPT ![a] = s]
  /\ outcome' = [outcome EXCEPT ![a][s] = "none"]
  /\ UNCHANGED <<leaseVars, lastSeq, closed, wire, acks, phone, applied>>

\* Ownership is proved; transport.send is called.
Proved(a) ==
  /\ phase[a] = "asserting"
  /\ AssertOwned(a)
  /\ phase' = [phase EXCEPT ![a] = "sending"]
  /\ UNCHANGED <<seq, lastSeq, closed, outcome, wire, acks, phone, applied>>

\* deliver() returns result o.  `wrote` raises lastSequence, `shut` closes the
\* adapter and its transport for good.
Finish(a, o, wrote, shut) ==
  /\ phase' = [phase EXCEPT ![a] = "ready"]
  /\ outcome' = [outcome EXCEPT ![a][seq[a]] = o]
  /\ seq' = [seq EXCEPT ![a] = 0]
  /\ lastSeq' = IF wrote THEN [lastSeq EXCEPT ![a] = seq[a]] ELSE lastSeq
  /\ closed' = IF shut THEN [closed EXCEPT ![a] = TRUE] ELSE closed

\* assertOwned threw, because the lease is lost or because Redis gave no
\* answer in time; the second leaves the lease's own state alone.
NotProved(a) ==
  /\ phase[a] = "asserting"
  /\ AssertFails(a) \/ (pc[a] = "work" /\ UNCHANGED leaseVars)
  /\ Finish(a, "not_applied", FALSE, TRUE)
  /\ UNCHANGED <<wire, acks, phone, applied>>

\* The connection or its credential handshake fails before the frame is
\* written.  A handshake that got no answer fails with wrote = true, although
\* what was written is the credential.
ConnectFails(a) ==
  /\ phase[a] = "sending"
  /\ Write(a)
  /\ \/ Finish(a, "not_applied", FALSE, FALSE)
     \/ Finish(a, "uncertain", TRUE, FALSE)
  /\ UNCHANGED <<wire, acks, phone, applied>>

\* The frame is written to the socket.
SendFrame(a) ==
  /\ phase[a] = "sending"
  /\ Write(a)
  /\ phase' = [phase EXCEPT ![a] = "sent"]
  /\ wire' = wire \cup {Frame(a)}
  /\ UNCHANGED <<seq, lastSeq, closed, outcome, acks, phone, applied>>

\* An answer arrives on the socket it was asked on, and its identity matches.
Answered(a) ==
  /\ phase[a] = "sent"
  /\ \E k \in acks :
       /\ k.frame = Frame(a)
       /\ acks' = acks \ {k}
       /\ Finish(a, k.status, TRUE, FALSE)
  /\ UNCHANGED <<leaseVars, wire, phone, applied>>

\* The answer cannot be read, or names another agent, boot, session or frame.
AnswerInvalid(a) ==
  /\ phase[a] = "sent"
  /\ \E k \in acks : k.frame = Frame(a) /\ acks' = acks \ {k}
  /\ Finish(a, "uncertain", TRUE, TRUE)
  /\ UNCHANGED <<leaseVars, wire, phone, applied>>

\* Mutant: a missing answer is reported like a frame that was never written.
NoAnswerAsUnreachable(a) ==
  /\ phase[a] = "sent"
  /\ Finish(a, "not_applied", TRUE, FALSE)
  /\ acks' = {k \in acks : k.frame # Frame(a)}
  /\ UNCHANGED <<leaseVars, wire, phone, applied>>

\* No answer in time, or the connection failed after the write.  The socket is
\* destroyed, so a later answer reaches nobody.
NoAnswer(a) ==
  /\ phase[a] = "sent"
  /\ Finish(a, "uncertain", TRUE, FALSE)
  /\ acks' = {k \in acks : k.frame # Frame(a)}
  /\ UNCHANGED <<leaseVars, wire, phone, applied>>

-----------------------------------------------------------------------------
(* The agent on the phone.                                                 *)

\* StubBehavior, with RECEIVED, REJECTED and UNSUPPORTED as one.
Behaviors == AckStatus \cup {"silent"}

\* Mutant: only the order within one session is checked.
FencedWithinSession(f) == f.writer = phone.session /\ f.seq <= phone.seq

\* stale_epoch and late_frame.
Fenced(f) ==
  \/ f.epoch < phone.epoch
  \/ f.epoch = phone.epoch /\ f.writer = phone.session /\ f.seq <= phone.seq

\* An answer finds its socket only while its writer waits for it.
Answer(f, status) ==
  IF phase[f.writer] = "sent" /\ Frame(f.writer) = f
  THEN acks \cup {[frame |-> f, status |-> status]}
  ELSE acks

Receive(f, b) ==
  /\ f \in wire
  /\ wire' = wire \ {f}
  /\ IF Fenced(f)
     THEN acks' = Answer(f, "not_applied") /\ UNCHANGED <<phone, applied>>
     ELSE /\ acks' = IF b = "silent" THEN acks ELSE Answer(f, b)
          /\ IF b = "applied"
             THEN /\ phone' = [epoch |-> f.epoch, session |-> f.writer, seq |-> f.seq]
                  /\ applied' = applied \cup {f}
             ELSE UNCHANGED <<phone, applied>>
  /\ UNCHANGED <<leaseVars, phase, seq, lastSeq, closed, outcome>>

\* The frame is lost with its connection.
FrameLost(f) ==
  /\ f \in wire
  /\ wire' = wire \ {f}
  /\ UNCHANGED <<leaseVars, phase, seq, lastSeq, closed, outcome, acks, phone, applied>>

-----------------------------------------------------------------------------
(* The lease around the session.  Its work does not end while deliver() is *)
(* awaited, and ending it closes the session (radioSession.ts:76-77).      *)

EndSession(a) ==
  /\ phase[a] = "ready"
  /\ WorkEnds(a)
  /\ closed' = [closed EXCEPT ![a] = TRUE]
  /\ UNCHANGED <<phase, seq, lastSeq, outcome, wire, acks, phone, applied>>

Ownership(a) ==
  /\ \/ Start(a) \/ SetGranted(a) \/ SetRefused(a) \/ Retry(a) \/ GiveUp(a)
     \/ SetTimesOut(a) \/ LateSetExecutes(a) \/ IncrAnswered(a) \/ IncrFails(a)
     \/ RenewalFails(a) \/ Release(a) \/ ReleaseTimesOut(a)
     \/ LateReleaseExecutes(a) \/ CommandDropped(a)
  /\ UNCHANGED radioVars

\* The sockets of a dead process are gone; its frames in flight are not.
Die(a) ==
  /\ Crash(a)
  /\ phase' = [phase EXCEPT ![a] = "ready"]
  /\ seq' = [seq EXCEPT ![a] = 0]
  /\ acks' = {k \in acks : k.frame.writer # a}
  /\ closed' = [closed EXCEPT ![a] = TRUE]
  /\ UNCHANGED <<lastSeq, outcome, wire, phone, applied>>

TtlReached == Expire /\ UNCHANGED radioVars

RadioNext ==
  \/ TtlReached
  \/ \E a \in Attempts :
       \/ Ownership(a) \/ EndSession(a) \/ Die(a)
       \/ \E s \in Sequences : Deliver(a, s)
       \/ Proved(a) \/ NotProved(a) \/ ConnectFails(a) \/ SendFrame(a)
       \/ Answered(a) \/ AnswerInvalid(a) \/ NoAnswer(a)
  \/ \E f \in wire : FrameLost(f) \/ \E b \in Behaviors : Receive(f, b)

RadioSpec == Init /\ RadioInit /\ [][RadioNext]_vars

-----------------------------------------------------------------------------
(* Properties.                                                             *)

RadioTypeOK ==
  /\ TypeOK
  /\ phase \in [Attempts -> {"ready", "asserting", "sending", "sent"}]
  /\ seq \in [Attempts -> Sequences]
  /\ lastSeq \in [Attempts -> Sequences \cup {-1}]
  /\ closed \in [Attempts -> BOOLEAN]
  /\ outcome \in [Attempts -> [Sequences -> Outcomes]]
  /\ wire \subseteq Frames
  /\ acks \subseteq [frame : Frames, status : AckStatus]
  /\ phone \in [epoch : Nat, session : Attempts \cup {NoToken}, seq : Sequences \cup {-1}]
  /\ applied \subseteq Frames

(* An expired worker never overwrites what the present owner has put on    *)
(* the phone, "in flight or on retry" (tests/radio-delivery.test.ts:251):  *)
(* a frame of another writer is applied only while the owner has applied   *)
(* nothing yet.                                                            *)
ExpiredWriterNeverOverwrites ==
  [][\A a, b \in Attempts :
       holder = b /\ a # b /\ phone' # phone /\ phone'.session = a
         => ~\E f \in applied : f.writer = b]_vars

(* deliver() tells the truth about the phone, now and later: `applied`     *)
(* means the frame was applied, and neither applied nor `uncertain` means  *)
(* it was not and never will be                                            *)
(* (radioDelivery.ts:9-11,34,39; radioTransport.ts:13).          *)
ResultsAreHonest ==
  \A a \in Attempts, s \in Sequences :
    LET mine == {f \in wire \cup applied : f.writer = a /\ f.seq = s} IN
    /\ outcome[a][s] = "applied" => mine # {} /\ mine \subseteq applied
    /\ outcome[a][s] = "not_applied" => mine = {}

(* A sequence whose frame may have reached the phone is never written      *)
(* again: no frame leaves the adapter at or below one that is in flight,   *)
(* applied or of unknown fate (radioDelivery.ts:134-136,155,161).          *)
WrittenSequencesOnlyGrow ==
  [][\A a \in Attempts :
       phase[a] = "sending" /\ phase'[a] = "sent" =>
         /\ \A f \in wire \cup applied : f.writer = a => f.seq < seq[a]
         /\ \A s \in Sequences :
              outcome[a][s] = "uncertain" => s < seq[a]]_vars
=============================================================================
