--------------------------- MODULE PlayerTargets ---------------------------
(***************************************************************************)
(* Which phones the controller may drive, and where (trips/playerTargets   *)
(* .ts): the entries of the configuration are taken in their order, and an *)
(* image with a problem has no target, for no other phone may be driven in *)
(* its place.                                                              *)
(***************************************************************************)
EXTENDS Integers, Sequences

CONSTANTS
  Images,       \* well-formed image identifiers
  Endpoints,    \* well-formed ADB endpoints
  MaxEntries    \* bound on the entries

NoEndpoint == "invalid"
NoImage    == "invalid"
Nobody     == "nobody"

ASSUME TargetsAssumption ==
  /\ MaxEntries \in Nat
  /\ NoImage \notin Images /\ Nobody \notin Images /\ NoEndpoint \notin Endpoints

VARIABLES
  ptEntries,    \* the configuration
  ptRead,       \* how many entries were taken
  ptTargets,    \* image -> endpoint, of the images that may be driven
  ptProblems,   \* images that were configured and may not
  ptByEndpoint  \* endpoint -> the image that named it first

targetVars == <<ptEntries, ptRead, ptTargets, ptProblems, ptByEndpoint>>

\* sound: its ports, packages, modules and credential modes are valid, and the two ports differ.
Entries == [image : Images \cup {NoImage}, endpoint : Endpoints \cup {NoEndpoint}, sound : BOOLEAN]

\* DUOMOVE_IMAGE_ID with ADB_PREFLIGHT_ENDPOINT.
Legacies == {e \in Entries : e.sound}

\* The phone of the old settings, if there is one, comes last, unless an entry names it.
Configured(list) ==
  {list} \cup {Append(list, old) : old \in {l \in Legacies : \A i \in DOMAIN list : list[i].image # l.image}}

TargetsEmpty ==
  /\ ptEntries = <<>> /\ ptRead = 0
  /\ ptTargets = <<>> /\ ptProblems = {}
  /\ ptByEndpoint = [e \in Endpoints |-> Nobody]

TargetsInit ==
  /\ \E n \in 0..MaxEntries : \E list \in [1..n -> Entries] : ptEntries \in Configured(list)
  /\ ptRead = 0
  /\ ptTargets = <<>> /\ ptProblems = {}
  /\ ptByEndpoint = [e \in Endpoints |-> Nobody]

Without(image) == [i \in DOMAIN ptTargets \ {image} |-> ptTargets[i]]

\* Of two entries for one image neither is believed.
NamedBefore(image) ==
  /\ image \in DOMAIN ptTargets \cup ptProblems
  /\ ptTargets' = Without(image) /\ ptProblems' = ptProblems \cup {image}
  /\ UNCHANGED ptByEndpoint

\* Of two images on one endpoint neither is driven.
SharesEndpoint(entry) ==
  LET owner == ptByEndpoint[entry.endpoint] IN
  /\ owner # Nobody
  /\ ptTargets' = Without(owner) /\ ptProblems' = ptProblems \cup {owner, entry.image}
  /\ UNCHANGED ptByEndpoint

BecomesTarget(entry) ==
  /\ ptByEndpoint[entry.endpoint] = Nobody
  /\ ptByEndpoint' = [ptByEndpoint EXCEPT ![entry.endpoint] = entry.image]
  /\ ptTargets' = [i \in DOMAIN ptTargets \cup {entry.image} |-> IF i = entry.image THEN entry.endpoint ELSE ptTargets[i]]
  /\ UNCHANGED ptProblems

IsProblem(entry) == ptProblems' = ptProblems \cup {entry.image} /\ UNCHANGED <<ptTargets, ptByEndpoint>>

\* parsePlayerTargets, one entry; the problem of a nameless one concerns no image.
TakeEntry ==
  /\ ptRead < Len(ptEntries) /\ ptRead' = ptRead + 1
  /\ LET entry == ptEntries[ptRead + 1]
         new   == entry.image \notin DOMAIN ptTargets \cup ptProblems
         valid == entry.endpoint # NoEndpoint /\ entry.sound
     IN \/ entry.image = NoImage /\ UNCHANGED <<ptTargets, ptProblems, ptByEndpoint>>
        \/ entry.image # NoImage /\ NamedBefore(entry.image)
        \/ entry.image # NoImage /\ new /\ ~valid /\ IsProblem(entry)
        \/ entry.image # NoImage /\ new /\ valid /\ (SharesEndpoint(entry) \/ BecomesTarget(entry))
  /\ UNCHANGED ptEntries

TargetsSpec == TargetsInit /\ [][TakeEntry]_targetVars

-----------------------------------------------------------------------------
TargetsTypeOK ==
  /\ ptEntries \in Seq(Entries) /\ ptRead \in 0..Len(ptEntries)
  /\ DOMAIN ptTargets \subseteq Images /\ ptTargets \in [DOMAIN ptTargets -> Endpoints]
  /\ ptProblems \subseteq Images
  /\ ptByEndpoint \in [Endpoints -> Images \cup {Nobody}]

Naming(image) == {i \in 1..ptRead : ptEntries[i].image = image}

Valid(i) == ptEntries[i].endpoint # NoEndpoint /\ ptEntries[i].sound

\* Two phones never have one endpoint; a phone is driven where its only entry
\* says; and neither a mistake in another entry nor the order of the entries
\* takes a phone away whose entry is sound and whose endpoint is its own.
TargetsAreSafe ==
  /\ \A a, b \in DOMAIN ptTargets : ptTargets[a] = ptTargets[b] => a = b
  /\ \A a \in DOMAIN ptTargets : \E i \in Naming(a) : Naming(a) = {i} /\ Valid(i) /\ ptEntries[i].endpoint = ptTargets[a]
  /\ \A i \in 1..ptRead :
       LET own == ptEntries[i] IN
       /\ own.image # NoImage => own.image \in DOMAIN ptTargets \cup ptProblems
       /\ own.image # NoImage /\ Naming(own.image) = {i} /\ Valid(i) /\ (\A j \in 1..ptRead \ {i} : ptEntries[j].endpoint # own.endpoint)
            => own.image \in DOMAIN ptTargets
  /\ DOMAIN ptTargets \cap ptProblems = {}
=============================================================================
