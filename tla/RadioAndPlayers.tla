--------------------------- MODULE RadioAndPlayers ---------------------------
(***************************************************************************)
(* The radio of one trip and how the controller reaches the player apps:   *)
(* the delivery of frames, the engine that models them, the contract under *)
(* which results are read, the runtime with its evidence; the targets of   *)
(* the configuration, a connection, the player's setup and readiness.      *)
(* They share no state of the model, so a behaviour of all of them is one  *)
(* of each: their composition is the conjunction of their specifications.  *)
(***************************************************************************)
EXTENDS RadioDelivery, RadioEngine, RadioContract, RadioRuntime,
        PlayerTargets, PlayerLink, PlayerGateway

ReachSpec ==
  /\ RadioSpec /\ EngineSpec /\ ContractSpec /\ RuntimeSpec
  /\ TargetsSpec /\ LinkSpec /\ GatewaySpec

ReachTypeOK ==
  /\ RadioTypeOK /\ RadioEngineTypeOK /\ RadioContractTypeOK /\ RuntimeTypeOK
  /\ TargetsTypeOK /\ LinkTypeOK /\ GatewayTypeOK

\* The controller reaches the phone it means, with a credential that a crash
\* leaves usable; it takes only a request's own answer for its answer, and
\* calls a phone ready only if it is.  The types of the seven modules come with it.
PlayersAreReached == ReachTypeOK /\ TargetsAreSafe /\ LinkIsHonest /\ SetupHeals /\ VerdictsAreTrue
=============================================================================
