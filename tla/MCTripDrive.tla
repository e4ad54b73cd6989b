----------------------------- MODULE MCTripDrive -----------------------------
(* Side by side: a trip and its steps (TripDrive), the trigger that makes   *)
(* and starts a trip, and the console's pages that command trips and       *)
(* devices, the driving panel and the page with its snapshots and logins.  *)
EXTENDS TripDrive, TripTrigger, BrowserPages

VARIABLE part    \* which of the four a behaviour is about

MCInit ==
  /\ part \in {"drive", "trigger", "panel", "console"}
  /\ Init /\ TriggerInit /\ PanelInit /\ ConsoleInit
  /\ part # "drive" => trip = Preview("off") /\ ~device.active
  /\ part # "trigger" => tgOther = FALSE
  /\ part # "console" => csCookie = NoLogin

DriveStep   == part = "drive"   /\ Next        /\ UNCHANGED <<triggerVars, panelVars, consoleVars, part>>
TriggerStep == part = "trigger" /\ TriggerNext /\ UNCHANGED <<vars, panelVars, consoleVars, part>>
PanelStep   == part = "panel"   /\ PanelNext   /\ UNCHANGED <<vars, triggerVars, consoleVars, part>>
ConsoleStep == part = "console" /\ ConsoleNext /\ UNCHANGED <<vars, triggerVars, panelVars, part>>

MCNext == DriveStep \/ TriggerStep \/ PanelStep \/ ConsoleStep

MCSpec == MCInit /\ [][MCNext]_<<vars, triggerVars, panelVars, consoleVars, part>>
=============================================================================
