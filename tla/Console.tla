------------------------------- MODULE Console -------------------------------
(***************************************************************************)
(* The page of the console (public/app.js, polling.js): the snapshot it    *)
(* shows of one device, the commands of the device's panels, the dialog of *)
(* keys, and its login.  Answers come late and in any order, also after    *)
(* the login they were asked under has ended; every change is a number, so *)
(* a field that shows a lower number shows something older.                *)
(*                                                                         *)
(* What a command says, and the checks of its input, are left out.         *)
(***************************************************************************)
EXTENDS Integers, FiniteSets

CONSTANTS
  Workspaces,    \* each with one device
  MaxSent,       \* bound on commands sent
  MaxUnasked,    \* bound on changes that the page did not ask for, and on logins
  MaxEvents      \* bound on all three together

ASSUME ConsoleAssumption ==
  MaxSent \in Nat /\ MaxUnasked \in Nat /\ MaxEvents \in Nat /\ "none" \notin Workspaces

VARIABLES
  csRows,      \* the server's row of each device: the number of each field's last change
  csWrites,    \* its number of changes
  csLive,      \* logins that the server accepts
  csCookie,    \* login of the browser
  csPage,      \* the page's state object, see PageInit
  csCalls,     \* commands under way, and their answers
  csLoad,      \* the snapshot request (polling.js), and whether another waits
  csSent, csUnasked,
  csOwner      \* (history) the workspace this page was last logged in to

consoleVars == <<csRows, csWrites, csLive, csCookie, csPage, csCalls, csLoad, csSent, csUnasked, csOwner>>

\* The fields of a device's row, and what a snapshot shows beside it.
\* "settings" are those that the anchor and the movement controls set;
\* "environment" also stands for the uploads, "trip" for the player's verification.
DeviceFields == {"radius", "settings", "power"}
PageFields   == DeviceFields \cup {"environment", "trip"}

\* The commands, the fields that their answers bring, and those whose failure
\* makes the page doubt the snapshots under way.
PanelKinds == {"radius", "anchor", "movement", "environment", "trip", "power", "location", "register"}
KeyKinds   == {"change", "wigle", "list"}

Brings(kind) ==
  CASE kind \in {"anchor", "movement"} -> DeviceFields
    [] kind \in {"radius", "environment", "trip", "power"} -> {kind}
    [] OTHER -> {}

FailureCounts(kind) == kind \in {"anchor", "environment"}

NoRow    == [ws |-> "none", at |-> [f \in PageFields |-> 0]]
NoLogin  == [n |-> 0, ws |-> "none"]
NoLoad   == [pc |-> "idle", session |-> 0, version |-> 0, login |-> NoLogin, row |-> NoRow, waiting |-> FALSE]
NoCall   == [n |-> 0, kind |-> "none", session |-> 0, login |-> NoLogin, answer |-> "none", row |-> NoRow]
PageInit == [auth |-> "unknown", session |-> 1, version |-> 1, shown |-> NoRow,
             pending |-> {}, keysBusy |-> FALSE, keys |-> "none"]

ConsoleInit ==
  /\ csRows = [w \in Workspaces |-> [f \in PageFields |-> 0]]
  /\ csWrites = 0
  /\ \E w \in Workspaces : csCookie \in {NoLogin, [n |-> 1, ws |-> w]}
  /\ csLive = {csCookie} \ {NoLogin}
  /\ csPage = PageInit
  /\ csCalls = {}
  /\ csLoad = [NoLoad EXCEPT !.pc = "asked", !.session = 1, !.version = 1, !.login = csCookie]
  /\ csSent = 0 /\ csUnasked = 0
  /\ csOwner = csCookie.ws

-----------------------------------------------------------------------------
(* The page's login, and its snapshots.                                    *)

\* clearWorkspace
Cleared(page) == [PageInit EXCEPT !.session = page.session + 1, !.version = page.version + 1]

\* showLogin
LoginShown(page) == [(IF page.auth = "out" THEN page ELSE Cleared(page)) EXCEPT !.auth = "out"]

\* A request that is under way is shared, or, if the page has changed since,
\* followed by another; a page that is logged out asks for nothing.
Ask(page) == IF page.auth = "out" THEN NoLoad
             ELSE [NoLoad EXCEPT !.pc = "asked", !.session = page.session, !.version = page.version, !.login = csCookie]

Loaded(load, page) ==
  IF load.pc = "idle" THEN Ask(page)
  ELSE IF load.session = page.session /\ load.version = page.version THEN load ELSE [load EXCEPT !.waiting = TRUE]

Server == UNCHANGED <<csRows, csWrites, csLive, csCookie>>

\* refreshVisibleWorkspace, and the button; the page may be hidden, and is not always shown its devices.
Poll ==
  /\ csPage.auth # "out" /\ Loaded(csLoad, csPage) # csLoad
  /\ csLoad' = Loaded(csLoad, csPage)
  /\ Server /\ UNCHANGED <<csPage, csCalls, csSent, csUnasked, csOwner>>

\* The server reads the rows, and then the trip of each.
SnapshotReads ==
  /\ csLoad.pc \in {"asked", "rows"}
  /\ csLoad' =
       IF csLoad.login \notin csLive /\ csLoad.pc = "asked" THEN [csLoad EXCEPT !.pc = "denied"]
       ELSE IF csLoad.pc = "asked" THEN [csLoad EXCEPT !.pc = "rows", !.row = [ws |-> csLoad.login.ws, at |-> csRows[csLoad.login.ws]]]
       ELSE [csLoad EXCEPT !.pc = "answered", !.row.at["trip"] = csRows[csLoad.login.ws]["trip"]]
  /\ Server /\ UNCHANGED <<csPage, csCalls, csSent, csUnasked, csOwner>>

\* A snapshot of this login, asked for after the last answer that was applied.
Current(load) == load.session = csPage.session /\ load.version = csPage.version

\* loadSnapshot, once it has its answer, a refusal, or an error or timeout.
TakeLoad ==
  /\ csLoad.pc # "idle"
  /\ \E page \in
       (IF csLoad.pc = "answered"
        THEN {IF Current(csLoad) THEN [csPage EXCEPT !.auth = "in", !.shown = csLoad.row] ELSE csPage}
        ELSE IF csLoad.pc = "denied" THEN {IF csLoad.session = csPage.session THEN LoginShown(csPage) ELSE csPage} ELSE {})
       \cup {csPage} :    \* a failure only shows its message
       /\ csPage' = page
       /\ csLoad' = IF csLoad.waiting THEN Ask(page) ELSE NoLoad
  /\ Server /\ UNCHANGED <<csCalls, csSent, csUnasked, csOwner>>

-----------------------------------------------------------------------------
(* Commands.                                                               *)

Issue(kind, page) ==
  /\ csSent < MaxSent /\ csSent + csUnasked < MaxEvents /\ csSent' = csSent + 1
  /\ csCalls' = csCalls \cup {[NoCall EXCEPT !.n = IF kind = "list" THEN csSent ELSE 0, !.kind = kind, !.session = csPage.session, !.login = csCookie]}
  /\ csPage' = page
  /\ Server /\ UNCHANGED <<csLoad, csUnasked, csOwner>>

\* One command of a kind at a time, for the device shown.
Command(kind) ==
  /\ csPage.shown # NoRow /\ kind \notin csPage.pending
  /\ Issue(kind, [csPage EXCEPT !.pending = @ \cup {kind}])

\* openKeys asks even while the dialog is busy: it can be closed and opened again.
OpenKeys == csPage.auth # "out" /\ Issue("list", [csPage EXCEPT !.keysBusy = TRUE, !.keys = "none"])

\* A DuoPlus key added or removed, WiGLE credentials removed ("change") or saved.
ChangeKeys(kind) ==
  /\ csPage.auth # "out" /\ ~csPage.keysBusy
  /\ Issue(kind, [csPage EXCEPT !.keysBusy = TRUE])

Logout == csPage.auth # "out" /\ Issue("logout", csPage)

Unasked == csUnasked < MaxUnasked /\ csSent + csUnasked < MaxEvents /\ csUnasked' = csUnasked + 1

\* The form of a page that is logged out; it is disabled while it waits.
LogIn(w) ==
  /\ csPage.auth = "out" /\ Unasked
  /\ \A call \in csCalls : call.kind # "login"
  /\ csCalls' = csCalls \cup {[NoCall EXCEPT !.kind = "login", !.session = csPage.session, !.login = [n |-> csCookie.n + 1, ws |-> w]]}
  /\ Server /\ UNCHANGED <<csPage, csLoad, csSent, csOwner>>

\* The field that a command changes at the server; what the keys are is left out.
Writes(kind) == IF kind \in {"anchor", "movement"} THEN {"settings"} ELSE {kind} \cap PageFields

Written(w, fields) ==
  IF fields = {} THEN UNCHANGED <<csRows, csWrites>>
  ELSE /\ csWrites' = csWrites + 1
       /\ csRows' = [csRows EXCEPT ![w] = [f \in PageFields |-> IF f \in fields THEN csWrites + 1 ELSE @[f]]]

\* What the answer brings of the row.
Part(kind, w) == [ws |-> w, at |-> [f \in PageFields |-> IF f \in Brings(kind) THEN csRows'[w][f] ELSE 0]]

Replied(call, answer, row) ==
  csCalls' = (csCalls \ {call}) \cup {[call EXCEPT !.answer = answer, !.row = row, !.login = IF call.kind = "login" THEN @ ELSE NoLogin]}

\* The server carries a command out, or refuses it; the answer can be lost either way.
CarryOut(call) ==
  /\ call \in csCalls /\ call.answer = "none" /\ call.kind # "reload"
  /\ CASE call.kind = "login" ->
            \/ /\ csCookie' = call.login /\ csLive' = csLive \cup {call.login}
               /\ Replied(call, "ok", NoRow) /\ UNCHANGED <<csRows, csWrites>>
            \/ Replied(call, "error", NoRow) /\ Server
       [] call.kind = "logout" ->
            /\ csLive' = csLive \ {call.login}
            /\ csCookie' = IF csCookie = call.login THEN [csCookie EXCEPT !.ws = "none"] ELSE csCookie
            /\ Replied(call, "ok", NoRow) \/ Replied(call, "error", NoRow)
            /\ UNCHANGED <<csRows, csWrites>>
       [] call.kind \notin {"login", "logout"} /\ call.login \notin csLive -> Replied(call, "denied", NoRow) /\ Server
       [] OTHER ->
            \/ /\ Written(call.login.ws, Writes(call.kind))
               /\ Replied(call, "ok", Part(call.kind, call.login.ws)) \/ Replied(call, "error", NoRow)
               /\ UNCHANGED <<csLive, csCookie>>
            \/ Replied(call, "error", NoRow) /\ Server
  /\ UNCHANGED <<csPage, csLoad, csSent, csUnasked, csOwner>>

\* The controller, or somebody else, changes the device; or the login expires.
Elsewhere ==
  /\ Unasked
  /\ \/ /\ \E login \in csLive, f \in PageFields : Written(login.ws, {f})
        /\ UNCHANGED <<csLive, csCookie>>
     \/ /\ csLive # {} /\ csLive' = {}
        /\ UNCHANGED <<csRows, csWrites, csCookie>>
  /\ UNCHANGED <<csPage, csCalls, csLoad, csSent, csOwner>>

-----------------------------------------------------------------------------
(* Answers.                                                                *)

\* The row shown, with what the answer of a command brings; a power reading
\* that is older than the one shown is dropped.
Merged(shown, call) ==
  IF shown.ws # call.row.ws \/ (call.kind = "power" /\ call.row.at["power"] < shown.at["power"]) THEN shown
  ELSE [shown EXCEPT !.at = [f \in PageFields |-> IF f \in Brings(call.kind) THEN call.row.at[f] ELSE @[f]]]

PanelAnswer(call) ==
  LET over == [csPage EXCEPT !.pending = @ \ {call.kind}]
      counts == IF call.answer = "ok" THEN call.kind # "location" ELSE FailureCounts(call.kind)
      after == [over EXCEPT !.version = IF counts THEN @ + 1 ELSE @,
                            !.shown = IF call.answer = "ok" THEN Merged(@, call) ELSE @]
  IN /\ csPage' = IF call.answer = "denied" THEN LoginShown(csPage) ELSE after
     /\ csLoad' = IF call.kind = "register" /\ call.answer = "ok" THEN Loaded(csLoad, after) ELSE csLoad
     /\ csCalls' = csCalls \ {call}
     /\ UNCHANGED csOwner

\* A change of the keys is followed by their list, and by a snapshot.
KeysAnswer(call) ==
  LET listed == [csPage EXCEPT !.keys = IF call.kind \notin {"list", "relist"} THEN @ ELSE IF call.answer = "ok" THEN call.row.ws ELSE "none"]
      Becomes(kind) == csCalls' = (csCalls \ {call}) \cup {[NoCall EXCEPT !.kind = kind, !.session = call.session, !.login = csCookie]}
      Reload == Becomes("reload") /\ csPage' = listed /\ csLoad' = Loaded(csLoad, csPage)
      Unlock == csCalls' = csCalls \ {call} /\ csPage' = [listed EXCEPT !.keysBusy = FALSE] /\ UNCHANGED csLoad
  IN /\ UNCHANGED csOwner
     /\ IF call.answer = "denied" THEN csCalls' = csCalls \ {call} /\ csPage' = LoginShown(csPage) /\ UNCHANGED csLoad
        ELSE IF call.kind = "change" /\ call.answer = "ok" THEN Becomes("relist") /\ UNCHANGED <<csPage, csLoad>>
        ELSE IF call.kind = "relist" \/ (call.kind = "wigle" /\ call.answer = "ok") THEN Reload
        ELSE Unlock

\* Neither answer is bound to the login of the page: they are what changes it.
LoginAnswer(call) ==
  /\ csCalls' = csCalls \ {call}
  /\ CASE call.kind = "login" /\ call.answer = "ok" ->
            LET page == [Cleared(csPage) EXCEPT !.auth = "in"]
            IN csPage' = page /\ csLoad' = Loaded(csLoad, page) /\ csOwner' = call.login.ws
       [] call.kind = "logout" /\ call.answer = "ok" -> csPage' = LoginShown(csPage) /\ UNCHANGED <<csLoad, csOwner>>
       [] OTHER -> UNCHANGED <<csPage, csLoad, csOwner>>

\* Mutant: the answer of a command counts whoever is logged in by then.
SentByAnyone(call) == TRUE

\* An answer counts for the login that sent the command.
SentHere(call) == call.session = csPage.session

ConsoleAnswer(call) ==
  /\ call \in csCalls /\ call.answer # "none"
  /\ IF call.kind \in {"login", "logout"} THEN LoginAnswer(call)
     ELSE IF ~SentHere(call) THEN csCalls' = csCalls \ {call} /\ UNCHANGED <<csPage, csLoad, csOwner>>
     ELSE IF call.kind \in PanelKinds THEN PanelAnswer(call) ELSE KeysAnswer(call)
  /\ Server /\ UNCHANGED <<csSent, csUnasked>>

\* The dialog stays busy until the snapshot is there as well.
ReloadEnds(call) ==
  /\ call \in csCalls /\ call.kind = "reload" /\ csLoad.pc = "idle"
  /\ csCalls' = csCalls \ {call}
  /\ csPage' = IF SentHere(call) THEN [csPage EXCEPT !.keysBusy = FALSE] ELSE csPage
  /\ Server /\ UNCHANGED <<csLoad, csSent, csUnasked, csOwner>>

ConsoleNext ==
  \/ Poll \/ SnapshotReads \/ TakeLoad \/ Elsewhere
  \/ \E kind \in PanelKinds : Command(kind)
  \/ OpenKeys \/ Logout
  \/ \E kind \in {"change", "wigle"} : ChangeKeys(kind)
  \/ \E w \in Workspaces : LogIn(w)
  \/ \E call \in csCalls : CarryOut(call) \/ ConsoleAnswer(call) \/ ReloadEnds(call)

-----------------------------------------------------------------------------
\* Calls of the page's login that are still to be answered.
Mine == {call \in csCalls : call.session = csPage.session}

\* What the page shows, in whatever order logins and answers come, is the
\* workspace it was logged in to and never that of an earlier login; a page
\* that is logged out shows and awaits nothing; and a panel is locked exactly
\* as long as its own command is under way, so that none stays locked.
ConsoleIsHonest ==
  /\ csPage.shown.ws \in {"none", csOwner} /\ csPage.keys \in {"none", csOwner}
  /\ csPage.auth = "out" => csPage.shown = NoRow /\ csPage.pending = {} /\ ~csPage.keysBusy
  /\ csPage.pending = {call.kind : call \in Mine} \cap PanelKinds
  /\ csPage.keysBusy => \E call \in Mine : call.kind \notin PanelKinds \cup {"login", "logout"}

TookBack == {f \in PageFields : csPage'.shown.at[f] < csPage.shown.at[f]}

\* A snapshot never takes back anything shown, so a saved change does not
\* disappear again; only the answer of a command can be older than what is
\* shown, in what it brings itself, and a power reading never is.
ConsoleStays ==
  TookBack # {} /\ csPage'.session = csPage.session =>
    \E call \in csCalls \ csCalls' : TookBack \subseteq Brings(call.kind) /\ call.kind # "power"
=============================================================================
