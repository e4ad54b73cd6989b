----------------------------- MODULE MCServices -----------------------------
(* The services around the trips, one device, one site, one pair of keys   *)
(* each, side by side: a behaviour is about one of them.                   *)
EXTENDS Services, TLC

CONSTANTS c1, c2, t1, t2

\* Two calls, one of each tenant, that share two keys.
MCTenantOf == c1 :> t1 @@ c2 :> t2

VARIABLE part

Parts == {"operations", "site", "library", "keys", "environment", "fleet", "import"}

operationVars == vars

MCInit ==
  /\ part \in Parts
  /\ Init /\ SiteInit /\ LibraryInit /\ KeysInit /\ EnvInit /\ FleetInit /\ ImportInit
  /\ part # "environment" => anchor = CHOOSE a \in Anchors : TRUE
  /\ part # "fleet" => power = "ON"

\* One step of the part that the behaviour is about.
OperationStep == part = "operations" /\ Next
  /\ UNCHANGED <<siteVars, libraryVars, keyVars, envVars, fleetVars, importVars, part>>
SiteStep == part = "site" /\ SiteNext
  /\ UNCHANGED <<operationVars, libraryVars, keyVars, envVars, fleetVars, importVars, part>>
LibraryStep == part = "library" /\ LibraryNext
  /\ UNCHANGED <<operationVars, siteVars, keyVars, envVars, fleetVars, importVars, part>>
KeyStep == part = "keys" /\ KeysNext
  /\ UNCHANGED <<operationVars, siteVars, libraryVars, envVars, fleetVars, importVars, part>>
EnvironmentStep == part = "environment" /\ EnvNext
  /\ UNCHANGED <<operationVars, siteVars, libraryVars, keyVars, fleetVars, importVars, part>>
FleetStep == part = "fleet" /\ FleetNext
  /\ UNCHANGED <<operationVars, siteVars, libraryVars, keyVars, envVars, importVars, part>>
ImportStep == part = "import" /\ ImportNext
  /\ UNCHANGED <<operationVars, siteVars, libraryVars, keyVars, envVars, fleetVars, part>>

MCNext ==
  \/ OperationStep \/ SiteStep \/ LibraryStep \/ KeyStep
  \/ EnvironmentStep \/ FleetStep \/ ImportStep

allVars == <<operationVars, siteVars, libraryVars, keyVars, envVars, fleetVars, importVars, part>>

\* Fairness is about steps of DeviceOperations: elsewhere none is ever enabled.
MCSpec == MCInit /\ [][MCNext]_allVars /\ Fairness
=============================================================================
