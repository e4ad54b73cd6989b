--------------------------- MODULE PlayerGateway ---------------------------
(***************************************************************************)
(* How the controller reaches the player app of one phone: the setup at    *)
(* boot with its credential (trips/playerConnection.ts, initialize;        *)
(* trips/playerCredentials.ts), and the readiness check before a trip      *)
(* starts (trips/playerReadiness.ts).                                      *)
(*                                                                         *)
(* Any command to the phone may fail, with or without its effect.  The app *)
(* is external: an instance of it accepts the token in its files, has at   *)
(* most one session, and names it also when it is over.  Another           *)
(* deployment may set the phone up for itself and play on it.  That the    *)
(* endpoint of a phone changes is left out: the configuration is read from *)
(* the environment of the process.                                         *)
(***************************************************************************)
EXTENDS Integers

CONSTANTS
  MaxAsks,       \* how often a setup asks the started app for its status
  MaxInstances,  \* bound on the starts of the app
  MaxTrips,      \* bound on the trips' sessions
  MaxUpsets      \* bound on crashes, losses of the phone and visits of the other deployment

ASSUME GatewayAssumption == MaxAsks \in Nat \ {0} /\ {MaxInstances, MaxTrips, MaxUpsets} \subseteq Nat

VARIABLES
  gwMode,        \* configuration: the credential's mode
  gwFile,        \* disk: the phone's credential, 0 if there is none
  gwLegacy,      \* disk: the credential from before there was one per phone
  gwPhone,       \* the phone: reachable, token, instance of the app (0: not running), its session
  gwBoot,        \* process: where the setup is, and how often it asked
  gwMemory,      \* process: the instance remembered, 0 for none
  gwAuthorized,  \* process: sessions this process opened
  gwRows,        \* SQL: sessions of trips that are not over
  gwCheck,       \* process: the check under way
  gwLast,        \* process: the last verdict, with what it was made of
  gwCounts       \* (history) starts of the app, sessions, upsets, whether the token was left alone,
                 \* and the instances that verdicts of this process have named

gwVars == <<gwMode, gwFile, gwLegacy, gwPhone, gwBoot, gwMemory, gwAuthorized, gwRows, gwCheck, gwLast, gwCounts>>

Stranger == -1                    \* the other deployment's token, and its session
Occupied     == {"READY", "PLAYING"}
NoCredential  == 0
Legacy   == 1                     \* the token in the legacy file
Minted   == 2                     \* one that this controller made

Quiet    == [inst |-> 0, sid |-> 0, state |-> "IDLE", clean |-> TRUE]
NoCheck  == [pc |-> "idle", again |-> FALSE, remembered |-> 0, status |-> Quiet]
NoLast   == [code |-> "NONE", status |-> Quiet, own |-> {}, ours |-> {}, named |-> {}]

GatewayInit ==
  /\ gwMode \in {"RUN_AS", "OPERATOR_SUPPLIED"}
  /\ gwLegacy \in {NoCredential, Legacy}
  /\ gwFile \in {NoCredential, Minted}
  /\ gwPhone \in [reach : BOOLEAN, apk : BOOLEAN, token : {NoCredential, gwLegacy, gwFile}, app : {Quiet}]
  /\ gwBoot = [pc |-> "connect", tries |-> 0]
  /\ gwMemory = 0 /\ gwAuthorized = {} /\ gwRows = {}
  /\ gwCheck = NoCheck /\ gwLast = NoLast
  /\ gwCounts = [inst |-> 0, trips |-> 0, upsets |-> 0, alone |-> TRUE, named |-> {}]

BootAt(place) == gwBoot.pc = place
BootGoes(place) == gwBoot' = [gwBoot EXCEPT !.pc = place]
Serving == gwBoot.pc \in {"ready", "failed"}

CheckOnly == UNCHANGED <<gwMode, gwLegacy, gwPhone, gwBoot, gwAuthorized, gwRows>>
BootOnly  == UNCHANGED <<gwMode, gwLegacy, gwMemory, gwAuthorized, gwRows, gwCheck, gwLast>>

\* A command is carried out or not, and is known to have been, or not.
PhoneDoes(place, next, phone) ==
  /\ BootAt(place)
  /\ \/ gwPhone.reach /\ gwPhone' = phone /\ (BootGoes(next) \/ BootGoes("failed"))
     \/ BootGoes("failed") /\ UNCHANGED gwPhone

-----------------------------------------------------------------------------
(* initialize, which every phone goes through before the controller serves.*)

Connects ==
  /\ BootAt("connect")
  /\ \/ gwPhone.reach /\ gwPhone.apk /\ BootGoes("stop")
     \/ BootGoes("failed")
  /\ UNCHANGED <<gwPhone, gwFile, gwCounts>> /\ BootOnly

\* A session on the phone, whoever plays it, ends with the app.
ForceStops ==
  /\ PhoneDoes("stop", "provision", [gwPhone EXCEPT !.app = Quiet])
  /\ UNCHANGED <<gwFile, gwCounts>> /\ BootOnly

\* readCredentialSlot adopts the legacy file; only a run-as slot makes a token of its own.
Adopted == IF gwFile = NoCredential THEN gwLegacy ELSE gwFile

\* Mutant: a token that is there already has been pushed before.
PushesNewToken(known) == known = NoCredential /\ gwMode = "RUN_AS"

PushesToken(known) == gwMode = "RUN_AS"

Provisions ==
  /\ BootAt("provision")
  /\ IF Adopted = NoCredential /\ gwMode # "RUN_AS" THEN BootGoes("failed") /\ UNCHANGED gwFile
     ELSE /\ gwFile' = IF Adopted = NoCredential THEN Minted ELSE Adopted
          /\ BootGoes(IF PushesToken(Adopted) THEN "push" ELSE "start")
  /\ UNCHANGED <<gwPhone, gwCounts>> /\ BootOnly

\* A transfer that breaks off leaves an empty file.
Pushes ==
  /\ \/ PhoneDoes("push", "start", [gwPhone EXCEPT !.token = gwFile])
     \/ BootAt("push") /\ gwPhone.reach /\ gwPhone' = [gwPhone EXCEPT !.token = NoCredential] /\ BootGoes("failed")
  /\ gwCounts' = [gwCounts EXCEPT !.alone = TRUE]
  /\ UNCHANGED gwFile /\ BootOnly

\* An app that runs already is only brought to the front.
Started(phone, clean) ==
  IF phone.app.inst # 0 THEN phone
  ELSE [phone EXCEPT !.app = [Quiet EXCEPT !.inst = gwCounts.inst + 1, !.clean = clean]]

CountStart == gwCounts' = [gwCounts EXCEPT !.inst = IF gwPhone.app.inst = 0 /\ gwPhone'.app.inst # 0 THEN @ + 1 ELSE @]

\* Permissions are granted, and the app started.
Launches ==
  /\ gwCounts.inst < MaxInstances
  /\ \E clean \in BOOLEAN : PhoneDoes("start", "poll", Started(gwPhone, clean))
  /\ CountStart
  /\ UNCHANGED gwFile /\ BootOnly

\* withPlayer: a connection of its own for each request, with the credential of the file.
Reached == gwPhone.reach /\ gwPhone.app.inst # 0 /\ gwFile # NoCredential /\ gwPhone.token = gwFile

Polls ==
  /\ BootAt("poll")
  /\ \/ Reached /\ gwPhone.app.clean /\ gwPhone.app.state = "IDLE" /\ BootGoes("ready")
     \/ gwBoot' = [pc |-> IF gwBoot.tries + 1 < MaxAsks THEN "poll" ELSE "failed", tries |-> gwBoot.tries + 1]
  /\ UNCHANGED <<gwPhone, gwFile, gwCounts>> /\ BootOnly

-----------------------------------------------------------------------------
(* PlayerLifecycle.check, for a trip that is to start.                     *)

CheckAt(place) == gwCheck.pc = place

\* A check that ends without a status leaves the memory as it is.
Told(code) ==
  /\ gwLast' = [NoLast EXCEPT !.code = code]
  /\ gwCheck' = NoCheck
  /\ UNCHANGED gwMemory

\* preparePlayerStart; the power is what the device's row says.
CheckBegins ==
  /\ Serving /\ CheckAt("idle")
  /\ \/ gwCheck' = [NoCheck EXCEPT !.pc = "probe", !.remembered = gwMemory] /\ UNCHANGED <<gwMemory, gwLast>>
     \/ \E code \in {"STARTING", "UNREACHABLE"} : Told(code)
  /\ UNCHANGED <<gwFile, gwCounts>> /\ CheckOnly

Probes ==
  /\ CheckAt("probe")
  /\ \/ gwPhone.reach /\ gwPhone.apk /\ gwCheck' = [gwCheck EXCEPT !.pc = "credential"] /\ UNCHANGED <<gwMemory, gwLast>>
     \/ gwPhone.reach /\ ~gwPhone.apk /\ Told("APK_MISSING")
     \/ \E code \in {"UNREACHABLE", "STARTING", "UNAUTHENTICATED"} : Told(code)    \* as adb has it
  /\ UNCHANGED <<gwFile, gwCounts>> /\ CheckOnly

\* hasCredential may adopt the legacy file as well.
FindsCredential ==
  /\ CheckAt("credential")
  /\ gwFile' = Adopted
  /\ IF Adopted = NoCredential THEN Told("UNAUTHENTICATED")
     ELSE gwCheck' = [gwCheck EXCEPT !.pc = "status"] /\ UNCHANGED <<gwMemory, gwLast>>
  /\ UNCHANGED gwCounts /\ CheckOnly

ReadsStatus ==
  /\ CheckAt("status")
  /\ \/ Reached /\ gwCheck' = [gwCheck EXCEPT !.pc = "sessions", !.status = gwPhone.app] /\ UNCHANGED <<gwMemory, gwLast>>
     \/ gwPhone.reach /\ gwPhone.app.inst # 0 /\ gwPhone.token # gwFile /\ Told("UNAUTHENTICATED")
     \/ \E code \in {"NOT_ACTIVATED", "UNREACHABLE"} : Told(code)
  /\ UNCHANGED <<gwFile, gwCounts>> /\ CheckOnly

\* evaluatePlayerReadiness, on a status.
ReadinessOf(status, remembered, own) ==
  IF status.sid \notin own \cup {0} THEN "FOREIGN_SESSION"
  ELSE IF remembered \notin {0, status.inst} THEN "RESTARTED"
  ELSE IF ~status.clean \/ status.state \in Occupied THEN "BUSY"
  ELSE "READY"

\* The sessions of this process and, unless they cannot be read, those of the
\* trips that are not over; a restart is looked at once more.
Concludes ==
  /\ CheckAt("sessions")
  /\ \E rows \in {gwRows, {}} :
       LET own  == gwAuthorized \cup rows
           code == ReadinessOf(gwCheck.status, gwCheck.remembered, own)
       IN /\ gwLast' = [code |-> code, status |-> gwCheck.status, own |-> own, ours |-> gwAuthorized \cup gwRows, named |-> gwCounts.named]
          /\ gwCounts' = [gwCounts EXCEPT !.named = @ \cup {gwCheck.status.inst}]
          /\ gwMemory' = gwCheck.status.inst
          /\ gwCheck' = IF code = "RESTARTED" /\ ~gwCheck.again THEN [NoCheck EXCEPT !.pc = "probe", !.again = TRUE, !.remembered = gwCheck.status.inst]
                        ELSE IF code = "READY" THEN [NoCheck EXCEPT !.pc = "ready"]
                        ELSE NoCheck
  /\ UNCHANGED gwFile /\ CheckOnly

-----------------------------------------------------------------------------
(* What a trip does with a phone that is ready (playerRunner.ts).          *)

\* Its session is stored and authorized before the phone hears of it; the start may fail before that.
Opens ==
  /\ CheckAt("ready")
  /\ gwCheck' = NoCheck
  /\ \/ /\ gwCounts.trips < MaxTrips /\ gwCounts' = [gwCounts EXCEPT !.trips = @ + 1]
        /\ gwRows' = gwRows \cup {gwCounts.trips + 1} /\ gwAuthorized' = gwAuthorized \cup {gwCounts.trips + 1}
     \/ UNCHANGED <<gwCounts, gwRows, gwAuthorized>>
  /\ UNCHANGED <<gwMode, gwFile, gwLegacy, gwPhone, gwBoot, gwMemory, gwLast>>

PhoneOnly == UNCHANGED <<gwMode, gwFile, gwLegacy, gwBoot, gwMemory, gwAuthorized, gwRows, gwCheck, gwLast>>

PlaysSession(sid) == gwPhone.app.state \notin Occupied /\ gwPhone' = [gwPhone EXCEPT !.app.sid = sid, !.app.state = "PLAYING", !.app.clean = FALSE]

PlaysTrip == Reached /\ (\E s \in gwAuthorized \cap gwRows : PlaysSession(s)) /\ UNCHANGED gwCounts /\ PhoneOnly

\* Completed, cancelled, or expired for want of heartbeats.
SessionEnds ==
  /\ gwPhone.app.state \in Occupied
  /\ \E clean \in BOOLEAN : gwPhone' = [gwPhone EXCEPT !.app.state = "OVER", !.app.clean = clean]
  /\ UNCHANGED gwCounts /\ PhoneOnly

\* A stop is confirmed by the phone: the session is released, and the trip ends
\* with it or is only paused.  A trip that arrives does not release its session.
TripStops ==
  /\ \E s \in gwRows :
       /\ gwPhone.app.state \notin Occupied \/ gwPhone.app.sid # s
       /\ \/ gwAuthorized' = gwAuthorized \ {s} /\ gwRows' \in {gwRows, gwRows \ {s}}
          \/ gwRows' = gwRows \ {s} /\ UNCHANGED gwAuthorized
  /\ UNCHANGED <<gwMode, gwFile, gwLegacy, gwPhone, gwBoot, gwMemory, gwCheck, gwLast, gwCounts>>

-----------------------------------------------------------------------------
Upset == gwCounts.upsets < MaxUpsets

\* The other deployment sets the phone up, or plays on it; the phone comes and
\* goes; the app is started by hand, or dies.
PhoneElsewhere ==
  /\ \/ /\ Upset
        /\ \/ gwPhone.reach /\ gwPhone' = [gwPhone EXCEPT !.token = Stranger, !.app = Quiet]
           \/ gwPhone.reach /\ gwPhone.app.inst # 0 /\ PlaysSession(Stranger)
           \/ gwPhone' = [gwPhone EXCEPT !.app = Quiet, !.reach = FALSE]
           \/ gwPhone.app.inst # 0 /\ gwPhone' = [gwPhone EXCEPT !.app = Quiet]
        /\ gwCounts' = [gwCounts EXCEPT !.upsets = @ + 1, !.alone = @ /\ gwPhone'.token # Stranger]
     \/ ~gwPhone.reach /\ gwPhone' = [gwPhone EXCEPT !.reach = TRUE] /\ UNCHANGED gwCounts
     \/ /\ gwPhone.reach /\ gwPhone.apk /\ gwPhone.app.inst = 0 /\ gwCounts.inst < MaxInstances
        /\ gwPhone' = Started(gwPhone, TRUE) /\ CountStart
  /\ PhoneOnly

Reboots ==
  /\ Upset
  /\ gwBoot' = [pc |-> "connect", tries |-> 0]
  /\ gwMemory' = 0 /\ gwAuthorized' = {} /\ gwCheck' = NoCheck /\ gwLast' = NoLast
  /\ gwCounts' = [gwCounts EXCEPT !.upsets = @ + 1, !.named = {}]
  /\ UNCHANGED <<gwMode, gwFile, gwLegacy, gwPhone, gwRows>>

GatewayNext ==
  \/ Connects \/ ForceStops \/ Provisions \/ Pushes \/ Launches \/ Polls
  \/ CheckBegins \/ Probes \/ FindsCredential \/ ReadsStatus \/ Concludes
  \/ Opens \/ PlaysTrip \/ SessionEnds \/ TripStops
  \/ PhoneElsewhere \/ Reboots

GatewaySpec == GatewayInit /\ [][GatewayNext]_gwVars

-----------------------------------------------------------------------------
Tokens    == {NoCredential, Legacy, Minted}
Sessions  == 1..MaxTrips
AppStates == [inst : 0..MaxInstances, sid : Sessions \cup {0, Stranger}, state : {"IDLE", "PLAYING", "OVER"}, clean : BOOLEAN]

GatewayTypeOK ==
  /\ gwMode \in {"RUN_AS", "OPERATOR_SUPPLIED"}
  /\ gwFile \in Tokens /\ gwLegacy \in {NoCredential, Legacy}
  /\ gwPhone \in [reach : BOOLEAN, apk : BOOLEAN, token : Tokens \cup {Stranger}, app : AppStates]
  /\ gwBoot \in [pc : {"connect", "stop", "provision", "push", "start", "poll", "ready", "failed"}, tries : 0..MaxAsks]
  /\ gwMemory \in 0..MaxInstances
  /\ gwAuthorized \subseteq Sessions /\ gwRows \subseteq Sessions
  /\ gwCheck \in [pc : {"idle", "probe", "credential", "status", "sessions", "ready"}, again : BOOLEAN,
                  remembered : 0..MaxInstances, status : AppStates]
  /\ gwLast \in [code : {"NONE", "STARTING", "UNREACHABLE", "UNAUTHENTICATED", "APK_MISSING", "NOT_ACTIVATED",
                         "FOREIGN_SESSION", "RESTARTED", "BUSY", "READY"},
                 status : AppStates, own : SUBSET Sessions, ours : SUBSET Sessions, named : SUBSET (1..MaxInstances)]
  /\ gwCounts \in [inst : 0..MaxInstances, trips : 0..MaxTrips, upsets : 0..MaxUpsets, alone : BOOLEAN,
                   named : SUBSET (1..MaxInstances)]

\* Wherever a setup crashed, the next one that gets as far as starting the app
\* leaves it with the token of the file, until the other deployment replaces it.
SetupHeals ==
  gwMode = "RUN_AS" /\ gwBoot.pc \in {"start", "poll", "ready"} /\ gwCounts.alone => gwPhone.token = gwFile

\* A phone is called ready only if the instance that answered was clean and
\* still, without a stranger's session, and was not put in the place of the one
\* this process knew; and a session is called foreign only if it is nobody's
\* here: a stranger's, one of a trip that is over, or one that could not be looked up.
VerdictsAreTrue ==
  /\ gwLast.code = "READY" =>
       /\ gwLast.status.clean /\ gwLast.status.state \notin Occupied
       /\ gwLast.status.sid # Stranger
       /\ gwLast.named = {} \/ gwLast.status.inst \in gwLast.named
  /\ gwLast.code = "FOREIGN_SESSION" => gwLast.status.sid \notin gwLast.ours \/ gwLast.ours # gwLast.own
=============================================================================
