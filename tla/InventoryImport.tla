-------------------------- MODULE InventoryImport --------------------------
(***************************************************************************)
(* The background import of the phones that a fleet scan found             *)
(* (orchestrator/importInventory.ts): every pulse has a budget of phones   *)
(* it may look up and register, the ones tried longest ago first, and a    *)
(* phone that failed backs off (importBackoff.ts) until its delay is over  *)
(* or the inventory says something new about it.  Time is in pulses.       *)
(***************************************************************************)
EXTENDS Integers, FiniteSets, FiniteSetsExt

CONSTANTS
  NewPhones,       \* phones that the inventory may list and nobody registered
  Pinned,          \* those whose inventory entry has coordinates: they go first
  ImportBudget,    \* config.autoImportPerPulse
  MaxDelay,        \* the longest delay of the backoff, the first one is 1
  MaxPulse

ASSUME ImportAssumption ==
  /\ IsFiniteSet(NewPhones) /\ Pinned \subseteq NewPhones
  /\ ImportBudget \in Nat \ {0} /\ MaxDelay \in Nat \ {0} /\ MaxPulse \in Nat

VARIABLES
  pulse,
  listed,      \* the phones of this pulse's inventory
  left,        \* those the import has not come to
  budget,
  lastTry,     \* `attempts`: the number of each phone's last attempt, 0 if none
  backoff,     \* per phone: attempts that failed, nextRetryAt, their signature
  signature,   \* what the inventory says of each phone
  registered,
  overtaken    \* history, per phone: the phones still listed that were tried
               \* since it began to wait

importVars == <<pulse, listed, left, budget, lastTry, backoff, signature, registered, overtaken>>

NoFailure == [failed |-> 0, retry |-> 0, said |-> 0]

ImportInit ==
  /\ pulse = 0
  /\ listed = {} /\ left = {} /\ budget = 0
  /\ lastTry = [p \in NewPhones |-> 0]
  /\ backoff = [p \in NewPhones |-> NoFailure]
  /\ signature = [p \in NewPhones |-> 0]
  /\ registered = {}
  /\ overtaken = [p \in NewPhones |-> {}]

\* An inventory arrives; what is kept of phones it does not list is forgotten.
ImportBegins ==
  /\ left = {} /\ pulse < MaxPulse
  /\ pulse' = pulse + 1
  /\ \E phones \in SUBSET NewPhones, news \in SUBSET NewPhones :
       /\ Cardinality(NewPhones \ phones) <= 1 /\ Cardinality(news) <= 1
       /\ listed' = phones /\ left' = phones \ registered
       /\ lastTry' = [p \in NewPhones |-> IF p \in phones THEN lastTry[p] ELSE 0]
       /\ backoff' = [p \in NewPhones |-> IF p \in phones THEN backoff[p] ELSE NoFailure]
       /\ signature' = [p \in NewPhones |-> IF p \in news THEN 1 - signature[p] ELSE signature[p]]
       /\ overtaken' = [p \in NewPhones |-> IF p \in phones THEN overtaken[p] \cap phones ELSE {}]
  /\ budget' = ImportBudget
  /\ UNCHANGED registered

SameClass(p, q) == p \in Pinned <=> q \in Pinned

\* Mutant: within a class the inventory's order decides.
InInventoryOrder(p) ==
  \A q \in left : q \in Pinned /\ q # p => p \in Pinned

\* The sort of the batch: class first, then the last attempt.
IsNext(p) ==
  \A q \in left : IF SameClass(p, q) THEN lastTry[p] <= lastTry[q] ELSE p \in Pinned

\* canAttempt: no failure that still holds, or its delay is over.
CanAttempt(p) ==
  backoff[p].failed = 0 \/ backoff[p].said # signature[p] \/ pulse >= backoff[p].retry

Delay(failures) == Min({MaxDelay, 2 ^ (failures - 1)})

Failure(p) ==
  LET failures == IF backoff[p].said = signature[p] THEN backoff[p].failed + 1 ELSE 1 IN
  [failed |-> failures, retry |-> pulse + Delay(failures), said |-> signature[p]]

\* The lookup and the registration, of which any part may fail.
Attempt(p) ==
  /\ budget' = budget - 1
  /\ lastTry' = [lastTry EXCEPT ![p] = Max({lastTry[q] : q \in NewPhones}) + 1]
  /\ \/ registered' = registered \cup {p} /\ backoff' = [backoff EXCEPT ![p] = NoFailure]
     \/ backoff' = [backoff EXCEPT ![p] = Failure(p)] /\ UNCHANGED registered
  /\ overtaken' = [q \in NewPhones |->
       IF q = p THEN {} ELSE IF q \in left /\ CanAttempt(q) THEN overtaken[q] \cup {p} ELSE overtaken[q]]

ImportPhone(p) ==
  /\ p \in left /\ IsNext(p)
  /\ left' = left \ {p}
  /\ IF budget > 0 /\ CanAttempt(p) THEN Attempt(p)
     ELSE /\ overtaken' = [overtaken EXCEPT ![p] = IF CanAttempt(p) THEN @ ELSE {}]
          /\ UNCHANGED <<budget, lastTry, backoff, registered>>
  /\ UNCHANGED <<pulse, listed, signature>>

\* What is remembered of attempts and failures is in memory.
ImportRestarts ==
  /\ left' = {}
  /\ lastTry' = [p \in NewPhones |-> 0]
  /\ backoff' = [p \in NewPhones |-> NoFailure]
  /\ overtaken' = [p \in NewPhones |-> {}]
  /\ UNCHANGED <<pulse, listed, budget, signature, registered>>

ImportNext == ImportBegins \/ ImportRestarts \/ \E p \in NewPhones : ImportPhone(p)

ImportSpec == ImportInit /\ [][ImportNext]_importVars

-----------------------------------------------------------------------------

ImportTypeOK ==
  /\ pulse \in 0..MaxPulse
  /\ listed \subseteq NewPhones /\ registered \subseteq NewPhones
  /\ left \subseteq listed \ registered
  /\ budget \in 0..ImportBudget
  /\ lastTry \in [NewPhones -> Nat] /\ signature \in [NewPhones -> {0, 1}]
  /\ DOMAIN backoff = NewPhones
  /\ overtaken \in [NewPhones -> SUBSET NewPhones]
  /\ \A p \in NewPhones : p \notin overtaken[p]

\* No phone starves of the others' failures: while a phone that may be tried
\* waits for budget, pulse after pulse, no other phone of its class that stays in
\* the inventory is tried twice, although their delays end and the inventory
\* changes what it says.  (One that leaves it and comes back is new.)
NoPhoneIsStarved ==
  [][\A p, q \in NewPhones :
       SameClass(p, q) /\ p \in left /\ CanAttempt(p) /\ lastTry'[q] > lastTry[q] /\ p # q
         => q \notin overtaken[p]]_importVars
=============================================================================
