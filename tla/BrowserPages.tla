---------------------------- MODULE BrowserPages ----------------------------
(***************************************************************************)
(* The pages of the browser, side by side: the driving panel and the page  *)
(* around it with its snapshots and logins, and what they promise.         *)
(***************************************************************************)
EXTENDS DrivingPanel, Console

PagesSpec == (PanelInit /\ [][PanelNext]_panelVars) /\ (ConsoleInit /\ [][ConsoleNext]_consoleVars)

\* The console shows nothing of another login, and none of its panels stays
\* locked; the types of the driving panel come with it.
PagesAreHonest == ConsoleIsHonest /\ PanelTypeOK

\* Neither the driving panel nor the page around it goes back to what it showed
\* before, in whatever order answers and snapshots arrive.
PagesKeepUp == [][PanelStays /\ ConsoleStays]_<<panelVars, consoleVars>>
=============================================================================
