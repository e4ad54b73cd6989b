------------------------------ MODULE Services ------------------------------
(***************************************************************************)
(* The services around the trips, of one device and one site each.  They   *)
(* share no state of the model, so a behaviour of all of them is one of    *)
(* each: their composition is the conjunction of their specifications.     *)
(***************************************************************************)
EXTENDS DeviceOperations, SiteJobs, SiteLibrary, ProviderKeys, EnvironmentApply,
        FleetPower, InventoryImport

ServicesSpec ==
  /\ Spec /\ SiteSpec /\ LibrarySpec /\ KeysSpec
  /\ EnvSpec /\ FleetSpec /\ ImportSpec

ServicesTypeOK ==
  /\ TypeOK /\ SiteTypeOK /\ LibraryTypeOK /\ KeysTypeOK
  /\ EnvTypeOK /\ FleetTypeOK /\ ImportTypeOK

\* A provider call that may have been carried out is not sent again: not on the
\* tenant's next key (ProviderKeys), and not for the same revision of an
\* environment (EnvironmentApply).  The types of all seven modules come with it.
NothingIsSentTwice == ServicesTypeOK /\ FailoverSendsOnce /\ RevisionIsSentOnce
=============================================================================
