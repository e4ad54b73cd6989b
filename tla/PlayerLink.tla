----------------------------- MODULE PlayerLink -----------------------------
(***************************************************************************)
(* One connection to a player app (trips/playerProtocol.ts, PlayerSocket): *)
(* one request at a time, its answer recognised by its id, a timer, and    *)
(* an end after which nothing is taken for an answer any more.             *)
(*                                                                         *)
(* The phone is external: it answers a request late, twice or not at all,  *)
(* and another instance of the app may answer in place of the first.       *)
(***************************************************************************)
EXTENDS Integers, Sequences

CONSTANTS
  MaxRequests,  \* bound on the requests of the connection, the first of which is "auth"
  MaxLines      \* bound on the lines the phone sends

ASSUME LinkAssumption == {MaxRequests, MaxLines} \subseteq Nat

VARIABLES
  plOpen,      \* the socket is not destroyed
  plPending,   \* the request that waits for its answer, 0 for none
  plInstance,  \* the instance of the app that answered first, 0 for none yet
  plAsked,     \* the requests that left; their ids are counted
  plWire,      \* lines of the phone on their way
  plBuffer,    \* lines received, of which one is taken at a time
  plLines,     \* (history) how many lines the phone sent
  plTold       \* (history) what the callers were told: requests with the lines that answered them

linkVars == <<plOpen, plPending, plInstance, plAsked, plWire, plBuffer, plLines, plTold>>

Failure == [id |-> 0, inst |-> 0, ok |-> FALSE]

LinkInit ==
  /\ plOpen = TRUE
  /\ plPending = 0 /\ plInstance = 0 /\ plAsked = 0
  /\ plWire = <<>> /\ plBuffer = <<>> /\ plLines = 0
  /\ plTold = <<>>

Tell(line) == plTold' = Append(plTold, [request |-> plPending, line |-> line])

\* fail: the caller that waits is told, and the socket destroyed.
LinkFails ==
  /\ plOpen' = FALSE /\ plPending' = 0
  /\ IF plPending = 0 THEN UNCHANGED plTold ELSE Tell(Failure)

\* request, refused while another one waits, or after the end.
Request ==
  /\ plAsked < MaxRequests
  /\ IF plPending # 0 \/ ~plOpen
     THEN /\ \A i \in DOMAIN plTold : plTold[i].request # 0
          /\ plTold' = Append(plTold, [request |-> 0, line |-> Failure])
          /\ UNCHANGED <<plPending, plAsked>>
     ELSE plAsked' = plAsked + 1 /\ plPending' = plAsked + 1 /\ UNCHANGED plTold
  /\ UNCHANGED <<plOpen, plInstance, plWire, plBuffer, plLines>>

\* The phone answers a request, or says no; an answer may be there twice.
PhoneSends ==
  /\ plLines < MaxLines /\ plLines' = plLines + 1
  /\ \E id \in 1..plAsked, inst \in {1, 2}, ok \in BOOLEAN : plWire' = Append(plWire, [id |-> id, inst |-> inst, ok |-> ok])
  /\ UNCHANGED <<plOpen, plPending, plInstance, plAsked, plBuffer, plTold>>

\* What is taken for the answer of the request that waits.
Answers(line) == plPending # 0 /\ line.id = plPending /\ line.ok

\* Data: one or more lines arrive at once, and the first that is not taken yet is.
DataArrives ==
  /\ plOpen
  /\ \E n \in 1..Len(plWire) :
       LET lines == plBuffer \o SubSeq(plWire, 1, n)
           line  == Head(lines)
       IN /\ plWire' = SubSeq(plWire, n + 1, Len(plWire))
          /\ plBuffer' = Tail(lines)
          /\ IF Answers(line) /\ plInstance \in {0, line.inst}
             THEN plInstance' = line.inst /\ plPending' = 0 /\ Tell(line) /\ UNCHANGED plOpen
             ELSE LinkFails /\ UNCHANGED plInstance
  /\ UNCHANGED <<plAsked, plLines>>

\* The request's timer, an error or the end of the socket, or close.
LinkEnds ==
  /\ plOpen /\ LinkFails
  /\ UNCHANGED <<plInstance, plAsked, plWire, plBuffer, plLines>>

LinkNext == Request \/ PhoneSends \/ DataArrives \/ LinkEnds

LinkSpec == LinkInit /\ [][LinkNext]_linkVars

-----------------------------------------------------------------------------
PlayerLine == [id : 1..MaxRequests, inst : {1, 2}, ok : BOOLEAN]

LinkTypeOK ==
  /\ plOpen \in BOOLEAN
  /\ plAsked \in 0..MaxRequests /\ plPending \in 0..plAsked /\ plInstance \in {0, 1, 2}
  /\ plWire \in Seq(PlayerLine) /\ plBuffer \in Seq(PlayerLine) /\ plLines \in 0..MaxLines
  /\ plTold \in Seq([request : 0..plAsked, line : PlayerLine \cup {Failure}])

\* A caller is told of an answer only if it is the answer to its own request,
\* every answer of the connection is of one instance of the app, no caller is
\* told twice, and none is left waiting when the connection ends.
LinkIsHonest ==
  /\ \A i \in DOMAIN plTold : LET told == plTold[i] IN
       /\ told.line.ok => told.line.id = told.request /\ told.line.inst = plInstance
       /\ \A j \in DOMAIN plTold : told.request # 0 /\ plTold[j].request = told.request => i = j
  /\ \A r \in 1..plAsked : r = plPending \/ \E i \in DOMAIN plTold : plTold[i].request = r
  /\ ~plOpen => plPending = 0
=============================================================================
