--------------------------- MODULE MCRadioDelivery ---------------------------
(* The radio side by side: the delivery of frames by two calls of the      *)
(* lease with one session each (an owner and the call that takes the phone *)
(* over), two frames each; the engine that models the frames; and the      *)
(* contract under which a request, a result and a readback are read; the   *)
(* runtime with its evidence; and how the controller reaches the apps of   *)
(* a phone: its configuration, a connection, the player's setup.           *)
EXTENDS RadioAndPlayers, TLC

CONSTANTS c1, c2

MCAttempts == {c1, c2}

\* The two calls are interchangeable; only safety is checked.
SwapCalls == Permutations(MCAttempts)

VARIABLE part    \* which of the seven a behaviour is about

deliveryVars == vars

MCInit ==
  /\ part \in {"delivery", "engine", "contract", "runtime", "targets", "link", "gateway"}
  /\ Init /\ RadioInit
  /\ EngineInit /\ (part # "engine" => rEvent = "A3")
  /\ ContractInit
  /\ part # "contract" => /\ build = [mode |-> "ADDITIVE", supported |-> {}]
                          /\ before = [i \in Interfaces |-> Silence]
  /\ RuntimeInit
  /\ part # "runtime" => rtSource = "PLUGIN" /\ rtMode = "DELIVERED"
  /\ IF part = "targets" THEN TargetsInit ELSE TargetsEmpty
  /\ LinkInit
  /\ GatewayInit
  /\ part # "gateway" => /\ gwMode = "RUN_AS" /\ gwLegacy = NoCredential /\ gwFile = NoCredential
                         /\ ~gwPhone.reach /\ ~gwPhone.apk

everyRadioVar == <<deliveryVars, engineVars, contractVars, runtimeVars>>
phoneVars      == <<targetVars, linkVars, gwVars>>

DeliveryStep == part = "delivery" /\ RadioNext /\ UNCHANGED <<engineVars, contractVars, runtimeVars, phoneVars, part>>
EngineStep   == part = "engine"   /\ EngineNext   /\ UNCHANGED <<deliveryVars, contractVars, runtimeVars, phoneVars, part>>
ContractStep == part = "contract" /\ ContractNext /\ UNCHANGED <<deliveryVars, engineVars, runtimeVars, phoneVars, part>>
RuntimeStep  == part = "runtime"  /\ RuntimeNext  /\ UNCHANGED <<deliveryVars, engineVars, contractVars, phoneVars, part>>
TargetsStep  == part = "targets"  /\ TakeEntry    /\ UNCHANGED <<everyRadioVar, linkVars, gwVars, part>>
LinkStep     == part = "link"     /\ LinkNext     /\ UNCHANGED <<everyRadioVar, targetVars, gwVars, part>>
GatewayStep  == part = "gateway"  /\ GatewayNext  /\ UNCHANGED <<everyRadioVar, targetVars, linkVars, part>>

MCNext == DeliveryStep \/ EngineStep \/ ContractStep \/ RuntimeStep \/ TargetsStep \/ LinkStep \/ GatewayStep

MCSpec == MCInit /\ [][MCNext]_<<everyRadioVar, phoneVars, part>>
=============================================================================
