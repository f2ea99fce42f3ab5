--------------------------- MODULE CatalogueProofs ---------------------------
(***************************************************************************)
(* Theorems on brains and their versions, for every catalogue that clients *)
(* have posted, every number of writers of each kind, every schedule of    *)
(* derivations, and every page.                                            *)
(*                                                                         *)
(* A version never changes once it is inserted (Grows), so what a writer   *)
(* has read stays true of the version it has read; what may become false   *)
(* is only that no number is higher, and CanCreate looks at that again.    *)
(***************************************************************************)
EXTENDS BrainCatalogue, FiniteSetTheorems, SequenceTheorems, TLAPS

------------------------------------------------------------------------------
(* The inductive invariant.                                                *)

\* The versions are finitely many, the first ones are still there, and numbers count.
VersionTypes ==
  /\ IsFiniteSet(DOMAIN versions)
  /\ \A id \in DOMAIN First : id \in DOMAIN versions /\ versions[id] = First[id]
  /\ \A id \in DOMAIN versions :
       versions[id].number \in Nat /\ versions[id].brain \in Brain

\* What may stand under an identifier: the store's own name for what a client or a
\* match saves, and a derived table under a name that is made of what it was
\* derived from.
Named(id, v) ==
  \/ DOMAIN id = {"fresh"} /\ v.by \in {"post", "update", "match"}
  \/ /\ v.by \in Policy
     /\ \E w \in Worm :
          /\ v.rules = Derived[v.by][w]
          /\ \/ id = SharedId(w, Derived[v.by][w])
             \/ id = DerivedId(v.by, w) /\ v.brain = BrainOf(w)

NamesTell == \A id \in DOMAIN versions : Named(id, versions[id])

\* The place of an appended version in its brain.
Full(b) == Cardinality(NumberedIn(b)) > Page

InLine(v) ==
  IF v.parent = NoVersion THEN v.number = 1
  ELSE /\ v.parent \in DOMAIN versions
       /\ versions[v.parent].brain = v.brain
       /\ \/ versions[v.parent].number + 1 = v.number
          \/ v.by = "match" /\ (versions[v.parent].number < v.number \/ Full(v.brain))

LinesHold ==
  \A id \in DOMAIN versions \ DOMAIN First : Appended(id) => InLine(versions[id])

NumbersAreTaken ==
  \A id \in DOMAIN versions \ DOMAIN First : \A other \in DOMAIN versions \ {id} :
    <<versions[other].brain, versions[other].number>>
      # <<versions[id].brain, versions[id].number>>

VersionsInv == VersionTypes /\ NamesTell /\ LinesHold /\ NumbersAreTaken

\* What a writer holds between its queries and its insert.
Known == DOMAIN versions \cup {NoVersion}

UpdateState == [at : {"idle", "compare", "append"}, base : Known]
UpdateHolds(state) == state.at # "idle" => state.base \in DOMAIN versions

Lesson == {<<x[1], x[2], Derived[x[2]][x[1]]>> : x \in Worm \X Policy}
ShareState ==
  [at : {"idle", "append"}, brain : Brain \cup {"none"}, todo : Seq(Lesson), last : Known]
ShareHolds(state) == state.at = "append" => state.brain \in Brain /\ state.todo # <<>>

PupilState == [at : {"idle", "append"}, version : DOMAIN versions, number : Nat]
PupilHolds(state) ==
  state.at = "append" => \/ versions[state.version].number < state.number
                         \/ Full(versions[state.version].brain)

RunState ==
  [at : {"look", "list", "append", "done", "failed"}, done : Seq(DOMAIN versions),
   last : Known, listed : SUBSET Nat]

\* What a run has settled is what the experiment asks for, in its order, and the
\* version it appends to is the last it has seen.
RunHolds(state) ==
  /\ Len(state.done) <= Len(Derivations)
  /\ state.at \in {"look", "list", "append"} => Len(state.done) < Len(Derivations)
  /\ state.at = "done" => Len(state.done) = Len(Derivations)
  /\ \A i \in DOMAIN state.done :
       state.done[i] = DerivedId(Derivations[i][1], Derivations[i][2])
  /\ state.at = "append" =>
       /\ state.last \in DOMAIN versions
       /\ versions[state.last].brain = BrainOf(Derivations[Len(state.done) + 1][2])
       /\ \/ Cardinality(state.listed) > Page
          \/ \A n \in state.listed : n <= versions[state.last].number

UpdatersHold == updater \in [Updater -> UpdateState] /\ \A u \in Updater : UpdateHolds(updater[u])
SharersHold  == sharer \in [Sharer -> ShareState] /\ \A s \in Sharer : ShareHolds(sharer[s])
PupilsHold   == pupil \in [Pupil -> PupilState] /\ \A p \in Pupil : PupilHolds(pupil[p])
RunsHold     == run \in [Run -> RunState] /\ \A r \in Run : RunHolds(run[r])

CatalogueInv == VersionsInv /\ UpdatersHold /\ SharersHold /\ PupilsHold /\ RunsHold

------------------------------------------------------------------------------
(* Smallest and largest.                                                   *)

\* Every set of numbers that has a member has a smallest one.
LEMMA SmallestExists ==
  ASSUME NEW S \in SUBSET Nat, S # {}
  PROVE  \E x \in S : \A y \in S : x <= y
<1>. DEFINE less == OpToRel(<, Nat)
<1>1. IsWellFoundedOn(less, Nat)
  BY NatLessThanWellFounded
<1>2. \A x, y \in Nat : y < x => <<y, x>> \in less
  BY DEF OpToRel
<1>. HIDE DEF less
<1>3. PICK x \in S : \A y \in S : ~ (<<y, x>> \in less)
  BY <1>1, WFMin
<1>4. \A y \in S : ~ (y < x)
  BY <1>2, <1>3
<1>. QED  BY <1>4

\* What Earliest chooses is one of the donors, for labels are numbers.
LEMMA EarliestIsOne ==
  ASSUME NEW S \in SUBSET Nat, S # {}
  PROVE  Earliest(S) \in S
BY SmallestExists DEF Earliest

\* A finite set of numbers has a largest, so that Highest has something to choose:
\* of the sets without one, one with the fewest elements would have an element
\* less.
LEMMA LargestExists ==
  ASSUME NEW S \in SUBSET Nat, IsFiniteSet(S), S # {}
  PROVE  \E m \in S : \A n \in S : n <= m
<1>. DEFINE Lacks(X) == IsFiniteSet(X) /\ X # {} /\ \A m \in X : \E n \in X : m < n
            Sizes    == {k \in Nat : \E X \in SUBSET Nat : Lacks(X) /\ Cardinality(X) = k}
<1>1. Sizes = {}
  <2>. SUFFICES ASSUME Sizes # {} PROVE FALSE
    OBVIOUS
  <2>1. PICK k \in Sizes : \A j \in Sizes : k <= j
    BY SmallestExists
  <2>2. PICK X \in SUBSET Nat : Lacks(X) /\ Cardinality(X) = k
    OBVIOUS
  <2>3. PICK x \in X : TRUE
    BY <2>2
  <2>4. IsFiniteSet(X \ {x}) /\ Cardinality(X \ {x}) = k - 1
    BY <2>2, <2>3, FS_RemoveElement
  <2>5. Cardinality(X \ {x}) \in Nat
    BY <2>4, FS_CardinalityType
  <2>6. \E n \in X : x < n
    BY <2>2, <2>3
  <2>7. X \ {x} # {} /\ X \ {x} \in SUBSET Nat
    BY <2>6
  <2>8. k - 1 \notin Sizes
    BY <2>1, <2>4, <2>5
  <2>9. ~ Lacks(X \ {x})
    BY <2>4, <2>5, <2>7, <2>8
  <2>10. PICK m \in X \ {x} : \A n \in X \ {x} : ~ m < n
    BY <2>4, <2>7, <2>9
  <2>11. PICK n \in X : m < n
    BY <2>2, <2>10
  <2>12. m < x
    BY <2>10, <2>11
  <2>13. PICK o \in X : x < o
    BY <2>6
  <2>. QED  BY <2>10, <2>12, <2>13
<1>2. Cardinality(S) \in Nat
  BY FS_CardinalityType
<1>3. ~ Lacks(S)
  BY <1>1, <1>2
<1>4. PICK m \in S : \A n \in S : ~ m < n
  BY <1>3
<1>. QED  BY <1>4

------------------------------------------------------------------------------
(* What Derive gives.                                                      *)

\* The table of derivations says what Derive gives.
LEMMA DerivedIs ==
  \A policy \in Policy, w \in Worm : Derived[policy][w] = Derive(policy, SourceTables, w)
BY DEF Derived

\* What a source's table says under one of its keys is an action of the engine.
LEMMA TableSpeaks ==
  ASSUME NEW v \in Worm, NEW k \in DOMAIN SourceTables[v]
  PROVE  SourceTables[v][k] \in Value
<1>1. SourceTables[v] \in Table
  BY CatalogueAssumption DEF SourceTables
<1>. QED  BY <1>1 DEF Table

\* corrupt gives a spoke, whatever it is given.
LEMMA CorruptIsASpoke ==
  ASSUME NEW v \in Value
  PROVE  Corrupt(v) \in 0 .. 5
BY DEF Corrupt, Value

\* Donors of the three policies that share.
LEMMA DonorsAreAllowed ==
  ASSUME NEW policy \in Policy, NEW w \in Worm, NEW v \in Donors(policy, w)
  PROVE  /\ v \in Worm
         /\ policy \in {"same_team", "all_worms", "seeded_noisy"}
         /\ policy = "same_team" => TeamOf[w] # Teamless /\ TeamOf[v] = TeamOf[w]
BY DEF Policy, Donors

\* Under every key a table says what the recipient's says, or what an
\* allowed donor's says, or what the seed makes of that; and it has every key of the
\* recipient: what RulesHaveASource asks of one table.
Sourced(by, w, rules) ==
  LET own(k)     == k \in DOMAIN SourceTables[w] /\ rules[k] = SourceTables[w][k]
      from(v, k) == k \in DOMAIN SourceTables[v] /\
                      \/ rules[k] = SourceTables[v][k]
                      \/ /\ by = "seeded_noisy" /\ <<w, v, k>> \in Noise
                         /\ rules[k] \in 0 .. 5
  IN  /\ DOMAIN SourceTables[w] \subseteq DOMAIN rules
      /\ \A k \in DOMAIN rules :
           \/ own(k)
           \/ by \in {"all_worms", "seeded_noisy"} /\ \E v \in Worm : from(v, k)
           \/ /\ by = "same_team" /\ TeamOf[w] # Teamless
              /\ \E v \in Worm : TeamOf[v] = TeamOf[w] /\ from(v, k)

\* So is every table that Derive gives.
LEMMA DerivedHasSources ==
  ASSUME NEW by \in Policy, NEW w \in Worm
  PROVE  Sourced(by, w, Derived[by][w])
<1>. DEFINE rules == Derived[by][w]
            tellers(k) == Tellers(by, SourceTables, w, k)
            keys == DOMAIN SourceTables[w] \cup {k \in Key : tellers(k) # {}}
            own(k) == k \in DOMAIN SourceTables[w] /\ rules[k] = SourceTables[w][k]
            from(v, k) == k \in DOMAIN SourceTables[v] /\
                            \/ rules[k] = SourceTables[v][k]
                            \/ /\ by = "seeded_noisy" /\ <<w, v, k>> \in Noise
                               /\ rules[k] \in 0 .. 5
<1>1. rules = [k \in keys |->
                 IF tellers(k) = {} THEN SourceTables[w][k]
                 ELSE Heard(by, SourceTables, w, Earliest(tellers(k)), k)]
  <2>1. rules = Derive(by, SourceTables, w)
    BY DerivedIs
  <2>. HIDE DEF rules
  <2>. QED  BY <2>1 DEF Derive
<1>2. DOMAIN rules = keys
  BY <1>1
<1>3. ASSUME NEW k \in keys, tellers(k) = {}
      PROVE  own(k)
  BY <1>1, <1>3
<1>4. ASSUME NEW k \in keys, tellers(k) # {}
      PROVE  \E v \in Donors(by, w) : from(v, k)
  <2>1. tellers(k) \in SUBSET Nat
    BY SharingAssumption, DonorsAreAllowed DEF Tellers
  <2>2. PICK v : v = Earliest(tellers(k))
    OBVIOUS
  <2>3. v \in Donors(by, w) /\ k \in DOMAIN SourceTables[v]
    BY <1>4, <2>1, <2>2, EarliestIsOne DEF Tellers
  <2>4. rules[k] = Heard(by, SourceTables, w, v, k)
    BY <1>1, <1>4, <2>2
  <2>5. CASE by = "seeded_noisy" /\ <<w, v, k>> \in Noise
    BY <2>3, <2>4, <2>5, TableSpeaks, CorruptIsASpoke, DonorsAreAllowed DEF Heard
  <2>6. CASE ~ (by = "seeded_noisy" /\ <<w, v, k>> \in Noise)
    BY <2>3, <2>4, <2>6 DEF Heard
  <2>. QED  BY <2>5, <2>6
<1>5. DOMAIN SourceTables[w] \subseteq DOMAIN rules
  BY <1>2
<1>. HIDE DEF from, own, rules, keys, tellers
<1>6. ASSUME NEW k \in DOMAIN rules
      PROVE  \/ own(k)
             \/ by \in {"all_worms", "seeded_noisy"} /\ \E v \in Worm : from(v, k)
             \/ /\ by = "same_team" /\ TeamOf[w] # Teamless
                /\ \E v \in Worm : TeamOf[v] = TeamOf[w] /\ from(v, k)
  <2>1. own(k) \/ \E v \in Donors(by, w) : from(v, k)
    BY <1>2, <1>3, <1>4
  <2>. QED  BY <2>1, DonorsAreAllowed
<1>. QED  BY <1>5, <1>6 DEF from, own, rules, Sourced

------------------------------------------------------------------------------
(* The store.                                                              *)

\* A brain has finitely many numbers.
LEMMA NumbersFinite ==
  ASSUME VersionTypes, NEW b
  PROVE  NumberedIn(b) \in SUBSET Nat /\ IsFiniteSet(NumberedIn(b))
<1>. DEFINE ids == {i \in DOMAIN versions : versions[i].brain = b}
            f   == [i \in ids |-> versions[i].number]
<1>1. IsFiniteSet(ids)
  BY FS_Subset DEF VersionTypes
<1>2. f \in Surjection(ids, NumberedIn(b))
  BY DEF NumberedIn, Surjection
<1>3. IsFiniteSet(NumberedIn(b))
  BY <1>1, <1>2, FS_Surjection
<1>. QED  BY <1>3 DEF NumberedIn, VersionTypes

\* Highest chooses a version whose number no other exceeds.
LEMMA HighestIsHighest ==
  ASSUME VersionTypes, NEW ids \in SUBSET DOMAIN versions, ids # {}
  PROVE  /\ Highest(ids) \in ids
         /\ \A i \in ids : versions[i].number <= versions[Highest(ids)].number
<1>. DEFINE numbers == {versions[i].number : i \in ids}
            f       == [i \in ids |-> versions[i].number]
<1>1. IsFiniteSet(ids)
  BY FS_Subset DEF VersionTypes
<1>2. f \in Surjection(ids, numbers)
  BY DEF Surjection
<1>3. IsFiniteSet(numbers)
  BY <1>1, <1>2, FS_Surjection
<1>4. numbers \in SUBSET Nat /\ numbers # {}
  BY DEF VersionTypes
<1>5. \E m \in numbers : \A n \in numbers : n <= m
  <2>. HIDE DEF numbers
  <2>. QED  BY <1>3, <1>4, LargestExists
<1>6. \E i \in ids : \A other \in ids : versions[other].number <= versions[i].number
  BY <1>5
<1>. QED  BY <1>6 DEF Highest

\* A page shows every version of a brain that has no more than that.
LEMMA ListedUnlessFull ==
  ASSUME VersionTypes, NEW id \in DOMAIN versions, ~ Full(versions[id].brain)
  PROVE  id \in Listed(versions[id].brain, Page)
<1>. DEFINE numbers == NumberedIn(versions[id].brain)
            below   == {n \in numbers : n < versions[id].number}
<1>1. numbers \in SUBSET Nat /\ IsFiniteSet(numbers)
  BY NumbersFinite
<1>2. versions[id].number \in numbers /\ versions[id].number \in Nat
  BY DEF NumberedIn, VersionTypes
<1>3. below \in SUBSET numbers /\ below # numbers
  BY <1>2
<1>4. Cardinality(below) <= Cardinality(numbers) /\ Cardinality(below) # Cardinality(numbers)
  BY <1>1, <1>3, FS_Subset
<1>5. Cardinality(below) \in Nat /\ Cardinality(numbers) \in Nat
  BY <1>1, <1>3, FS_Subset, FS_CardinalityType
<1>6. Cardinality(numbers) <= Page /\ Page \in Nat
  BY <1>5, CatalogueAssumption DEF Full
<1>7. Cardinality(below) < Page
  BY <1>4, <1>5, <1>6
<1>. QED  BY <1>7 DEF Listed

\* What no step takes back: a version stays as it was inserted, and a brain with
\* more versions than a page shows stays one.
Grows ==
  /\ DOMAIN versions \subseteq DOMAIN versions'
  /\ \A id \in DOMAIN versions : versions'[id] = versions[id]
  /\ \A b \in Brain : Full(b) => Full(b)'

\* An insert adds one version and changes none.
LEMMA CreateGrows ==
  ASSUME VersionTypes, NEW id, NEW v, v.number \in Int, v.brain \in Brain,
         CanCreate(id, v), Create(id, v)
  PROVE  /\ VersionTypes' /\ Grows
         /\ DOMAIN versions' = DOMAIN versions \cup {id} /\ versions'[id] = v
<1>1. /\ DOMAIN versions' = DOMAIN versions \cup {id} /\ versions'[id] = v
      /\ \A i \in DOMAIN versions : versions'[i] = versions[i]
  BY DEF Create, CanCreate
<1>2. IsFiniteSet(DOMAIN versions')
  BY <1>1, FS_AddElement DEF VersionTypes
<1>3. VersionTypes'
  BY <1>1, <1>2 DEF VersionTypes, CanCreate
<1>4. ASSUME NEW b \in Brain, Full(b)
      PROVE  Full(b)'
  <2>1. NumberedIn(b)' = NumberedIn(b) \/ NumberedIn(b)' = NumberedIn(b) \cup {v.number}
    BY <1>1 DEF NumberedIn
  <2>2. IsFiniteSet(NumberedIn(b)) /\ Cardinality(NumberedIn(b)) \in Nat
    BY NumbersFinite, FS_CardinalityType
  <2>3. CASE NumberedIn(b)' = NumberedIn(b)
    BY <1>4, <2>3 DEF Full
  <2>4. CASE NumberedIn(b)' = NumberedIn(b) \cup {v.number}
    <3>1. PICK N, n : N = NumberedIn(b) /\ n = v.number
      OBVIOUS
    <3>2. Cardinality(N \cup {n}) = IF n \in N THEN Cardinality(N) ELSE Cardinality(N) + 1
      BY <2>2, <3>1, FS_AddElement
    <3>3. Cardinality(N) > Page /\ Cardinality(N) \in Nat
      BY <1>4, <2>2, <3>1 DEF Full
    <3>4. Cardinality(N \cup {n}) > Page
      BY <3>2, <3>3, CatalogueAssumption
    <3>. QED  BY <2>4, <3>1, <3>4 DEF Full
  <2>. QED  BY <2>1, <2>3, <2>4
<1>. QED  BY <1>1, <1>3, <1>4 DEF Grows

\* An insert of a version that is named and numbered as the writers do it keeps
\* everything that holds of the versions: what its writer has read has not changed,
\* and CanCreate has compared the rest.
LEMMA CreateKeepsVersions ==
  ASSUME VersionsInv, NEW id, NEW v, v.number \in Int, v.brain \in Brain,
         Named(id, v), v.by # "post" => InLine(v),
         CanCreate(id, v), Create(id, v)
  PROVE  VersionsInv' /\ Grows /\ id \in DOMAIN versions' /\ versions'[id] = v
<1>1. /\ VersionTypes' /\ Grows
      /\ DOMAIN versions' = DOMAIN versions \cup {id} /\ versions'[id] = v
  BY CreateGrows DEF VersionsInv
<1>2. \A i \in DOMAIN versions : versions'[i] = versions[i]
  BY <1>1 DEF Grows
<1>3. NamesTell'
  BY <1>1, <1>2 DEF VersionsInv, NamesTell, Named
<1>4. ASSUME NEW x, x.brain \in Brain, InLine(x)
      PROVE  InLine(x)'
  BY <1>1, <1>2, <1>4 DEF InLine, Grows
<1>5. ASSUME NEW i \in DOMAIN versions' \ DOMAIN First, Appended(i)'
      PROVE  InLine(versions[i])'
  <2>1. PICK x : x = versions'[i]
    OBVIOUS
  <2>2. x.brain \in Brain /\ InLine(x)
    <3>1. CASE i = id
      BY <1>1, <1>5, <2>1, <3>1 DEF Appended
    <3>2. CASE i # id
      BY <1>1, <1>2, <1>5, <2>1, <3>2 DEF Appended, VersionsInv, LinesHold, VersionTypes
    <3>. QED  BY <3>1, <3>2
  <2>3. InLine(x)'
    BY <1>4, <2>2
  <2>. QED  BY <2>1, <2>3 DEF InLine
<1>6. LinesHold'
  BY <1>5 DEF LinesHold
<1>7. \A i \in DOMAIN versions : <<versions[i].brain, versions[i].number>> # <<v.brain, v.number>>
  BY DEF CanCreate, NumberedIn
<1>8. ASSUME NEW i \in DOMAIN versions' \ DOMAIN First, NEW other \in DOMAIN versions' \ {i}
      PROVE  <<versions'[other].brain, versions'[other].number>>
               # <<versions'[i].brain, versions'[i].number>>
  <2>1. CASE i = id
    BY <1>1, <1>2, <1>7, <2>1
  <2>2. CASE other = id
    BY <1>1, <1>2, <1>7, <2>2
  <2>3. CASE i # id /\ other # id
    BY <1>1, <1>2, <2>3 DEF NumbersAreTaken, VersionsInv
  <2>. QED  BY <2>1, <2>2, <2>3
<1>9. NumbersAreTaken'
  BY <1>8 DEF NumbersAreTaken
<1>. QED  BY <1>1, <1>3, <1>6, <1>9 DEF VersionsInv

\* Without an insert everything that holds of the versions goes on holding.
LEMMA NothingCreated ==
  ASSUME VersionsInv, UNCHANGED versions
  PROVE  VersionsInv' /\ Grows
<1>1. VersionTypes' /\ NamesTell'
  BY DEF VersionsInv, VersionTypes, NamesTell, Named
<1>2. \A b : Full(b)' = Full(b)
  BY DEF Full, NumberedIn
<1>3. ASSUME NEW i \in DOMAIN versions \ DOMAIN First, Appended(i)'
      PROVE  InLine(versions[i])'
  <2>1. InLine(versions[i])
    BY <1>3 DEF VersionsInv, LinesHold, Appended
  <2>. QED  BY <1>2, <2>1 DEF InLine
<1>4. LinesHold'
  BY <1>3 DEF LinesHold
<1>5. NumbersAreTaken'
  BY DEF VersionsInv, NumbersAreTaken
<1>. QED  BY <1>1, <1>2, <1>4, <1>5 DEF VersionsInv, Grows

------------------------------------------------------------------------------
(* The writers: what each holds stays true while the versions grow.        *)

\* What a writer knows it goes on knowing.
LEMMA KnownGrows ==
  ASSUME Grows
  PROVE  Known \subseteq Known' /\ Seq(DOMAIN versions) \subseteq Seq((DOMAIN versions)')
BY DEF Grows, Known

\* One update goes on, and the others keep what they hold.
LEMMA UpdatersGoOn ==
  ASSUME UpdatersHold, Grows, NEW u \in Updater, NEW x,
         updater' = [updater EXCEPT ![u] = x], x \in UpdateState', UpdateHolds(x)'
  PROVE  UpdatersHold'
<1>1. UpdateState \subseteq UpdateState'
  BY KnownGrows DEF UpdateState
<1>2. \A y \in UpdateState : UpdateHolds(y) => UpdateHolds(y)'
  BY DEF UpdateHolds, Grows
<1>3. updater' \in [Updater -> UpdateState']
  BY <1>1 DEF UpdatersHold
<1>4. ASSUME NEW v \in Updater
      PROVE  UpdateHolds(updater[v])'
  <2>1. PICK y : y = updater'[v]
    OBVIOUS
  <2>2. UpdateHolds(y)'
    BY <1>2, <2>1 DEF UpdatersHold
  <2>. QED  BY <2>1, <2>2 DEF UpdateHolds
<1>. QED  BY <1>3, <1>4 DEF UpdatersHold

\* Updates that wait keep what they hold while another writer inserts.
LEMMA UpdatersStay ==
  ASSUME UpdatersHold, Grows, UNCHANGED updater
  PROVE  UpdatersHold'
<1>1. UpdateState \subseteq UpdateState'
  BY KnownGrows DEF UpdateState
<1>. QED  BY <1>1 DEF UpdatersHold, UpdateHolds, Grows

\* One share goes on, and the others keep what they hold.
LEMMA SharersGoOn ==
  ASSUME SharersHold, Grows, NEW s \in Sharer, NEW x,
         sharer' = [sharer EXCEPT ![s] = x], x \in ShareState', ShareHolds(x)
  PROVE  SharersHold'
<1>1. ShareState \subseteq ShareState'
  BY KnownGrows DEF ShareState
<1>2. sharer' \in [Sharer -> ShareState']
  BY <1>1 DEF SharersHold
<1>. QED  BY <1>2 DEF SharersHold, ShareHolds

\* Shares that wait keep what they hold while another writer inserts.
LEMMA SharersStay ==
  ASSUME SharersHold, Grows, UNCHANGED sharer
  PROVE  SharersHold'
<1>1. ShareState \subseteq ShareState'
  BY KnownGrows DEF ShareState
<1>. QED  BY <1>1 DEF SharersHold, ShareHolds

\* What a match holds goes on holding while the versions grow.
LEMMA PupilHoldsOn ==
  ASSUME VersionTypes, Grows
  PROVE  /\ PupilState \subseteq PupilState'
         /\ \A y \in PupilState : PupilHolds(y) => PupilHolds(y)'
BY DEF PupilState, PupilHolds, Grows, VersionTypes

\* One match goes on, and the others keep what they hold.
LEMMA PupilsGoOn ==
  ASSUME VersionTypes, PupilsHold, Grows, NEW p \in Pupil, NEW x,
         pupil' = [pupil EXCEPT ![p] = x], x \in PupilState', PupilHolds(x)'
  PROVE  PupilsHold'
<1>1. pupil' \in [Pupil -> PupilState']
  BY PupilHoldsOn DEF PupilsHold
<1>2. ASSUME NEW q \in Pupil
      PROVE  PupilHolds(pupil[q])'
  <2>1. PICK y : y = pupil'[q]
    OBVIOUS
  <2>2. PupilHolds(y)'
    BY <2>1, PupilHoldsOn DEF PupilsHold
  <2>. QED  BY <2>1, <2>2 DEF PupilHolds
<1>. QED  BY <1>1, <1>2 DEF PupilsHold

\* Matches that wait keep what they hold while another writer inserts.
LEMMA PupilsStay ==
  ASSUME VersionTypes, PupilsHold, Grows, UNCHANGED pupil
  PROVE  PupilsHold'
<1>1. pupil' \in [Pupil -> PupilState']
  BY PupilHoldsOn DEF PupilsHold
<1>2. ASSUME NEW q \in Pupil
      PROVE  PupilHolds(pupil[q])'
  <2>1. PICK y : y = pupil'[q]
    OBVIOUS
  <2>2. PupilHolds(y)'
    BY <2>1, PupilHoldsOn DEF PupilsHold
  <2>. QED  BY <2>1, <2>2 DEF PupilHolds
<1>. QED  BY <1>1, <1>2 DEF PupilsHold

\* What a run holds goes on holding while the versions grow.
LEMMA RunHoldsOn ==
  ASSUME Grows
  PROVE  /\ RunState \subseteq RunState'
         /\ \A y \in RunState : RunHolds(y) => RunHolds(y)'
<1>1. RunState \subseteq RunState'
  BY KnownGrows DEF RunState
<1>2. ASSUME NEW y \in RunState, RunHolds(y)
      PROVE  RunHolds(y)'
  BY <1>2 DEF RunHolds, Grows
<1>. QED  BY <1>1, <1>2

\* One run goes on, and the others keep what they hold.
LEMMA RunsGoOn ==
  ASSUME RunsHold, Grows, NEW r \in Run, NEW x,
         run' = [run EXCEPT ![r] = x], x \in RunState', RunHolds(x)'
  PROVE  RunsHold'
<1>1. run' \in [Run -> RunState']
  BY RunHoldsOn DEF RunsHold
<1>2. ASSUME NEW q \in Run
      PROVE  RunHolds(run[q])'
  <2>1. PICK y : y = run'[q]
    OBVIOUS
  <2>2. RunHolds(y)'
    BY <2>1, RunHoldsOn DEF RunsHold
  <2>. QED  BY <2>1, <2>2 DEF RunHolds
<1>. QED  BY <1>1, <1>2 DEF RunsHold

\* Runs that wait keep what they hold while another writer inserts.
LEMMA RunsStay ==
  ASSUME RunsHold, Grows, UNCHANGED run
  PROVE  RunsHold'
<1>1. run' \in [Run -> RunState']
  BY RunHoldsOn DEF RunsHold
<1>2. ASSUME NEW q \in Run
      PROVE  RunHolds(run[q])'
  <2>1. PICK y : y = run'[q]
    OBVIOUS
  <2>2. RunHolds(y)'
    BY <2>1, RunHoldsOn DEF RunsHold
  <2>. QED  BY <2>1, <2>2 DEF RunHolds
<1>. QED  BY <1>1, <1>2 DEF RunsHold

------------------------------------------------------------------------------
(* The routes, the shares and the matches keep the invariant.              *)

\* No version is stored under the name that stands for none.
LEMMA NoVersionIsNone ==
  ASSUME NamesTell
  PROVE  NoVersion \notin DOMAIN versions
<1>1. "none" \in DOMAIN NoVersion /\ {"label", "brain"} \cap DOMAIN NoVersion = {}
  BY DEF NoVersion
<1>2. ASSUME NEW w, NEW rules
      PROVE  "label" \in DOMAIN SharedId(w, rules)
  BY DEF SharedId
<1>3. ASSUME NEW policy, NEW w
      PROVE  "brain" \in DOMAIN DerivedId(policy, w)
  BY DEF DerivedId
<1>4. ASSUME NEW id, NEW v, Named(id, v)
      PROVE  id # NoVersion
  <2>1. CASE DOMAIN id = {"fresh"}
    BY <1>1, <2>1
  <2>2. ASSUME NEW w \in Worm, id = SharedId(w, Derived[v.by][w])
        PROVE  id # NoVersion
    BY <1>1, <1>2, <2>2
  <2>3. ASSUME NEW w \in Worm, id = DerivedId(v.by, w)
        PROVE  id # NoVersion
    BY <1>1, <1>3, <2>3
  <2>. QED  BY <1>4, <2>1, <2>2, <2>3 DEF Named
<1>. QED  BY <1>4 DEF NamesTell

\* What a client posts.
LEMMA PostKeeps ==
  ASSUME CatalogueInv, NEW p \in Posted, PostVersion(p[1], p[2], p[3])
  PROVE  CatalogueInv' /\ Grows
<1>. DEFINE id == Fresh(Cardinality(DOMAIN versions))
            v  == VersionOf(p[1], p[2], p[3], <<>>, "post")
<1>1. v.number \in Int /\ v.brain \in Brain /\ v.by = "post"
  BY CatalogueAssumption DEF VersionOf
<1>2. DOMAIN id = {"fresh"}
  BY DEF Fresh
<1>3. CanCreate(id, v) /\ Create(id, v) /\ UNCHANGED <<updater, sharer, pupil, run>>
  BY DEF PostVersion
<1>. HIDE DEF id, v
<1>4. Named(id, v)
  BY <1>1, <1>2 DEF Named
<1>5. VersionsInv' /\ Grows
  BY <1>1, <1>3, <1>4, CreateKeepsVersions DEF CatalogueInv
<1>. QED  BY <1>3, <1>5, UpdatersStay, SharersStay, PupilsStay, RunsStay
          DEF CatalogueInv, VersionsInv

\* updateBrainVersion reads its base.
LEMMA BeginUpdateKeeps ==
  ASSUME CatalogueInv, NEW u \in Updater, NEW id \in DOMAIN versions, BeginUpdate(u, id)
  PROVE  CatalogueInv' /\ Grows
<1>. DEFINE x == [at |-> "compare", base |-> id]
<1>1. /\ updater' = [updater EXCEPT ![u] = x]
      /\ UNCHANGED <<versions, sharer, pupil, run>>
  BY DEF BeginUpdate
<1>2. VersionsInv' /\ Grows
  BY <1>1, NothingCreated DEF CatalogueInv
<1>3. x \in UpdateState' /\ UpdateHolds(x)'
  BY <1>1 DEF UpdateState, UpdateHolds, Known
<1>. HIDE DEF x
<1>4. UpdatersHold'
  BY <1>1, <1>2, <1>3, UpdatersGoOn DEF CatalogueInv
<1>. QED  BY <1>1, <1>2, <1>4, SharersStay, PupilsStay, RunsStay DEF CatalogueInv, VersionsInv

\* UpdateBrainVersion compares its base with the highest number.
LEMMA CompareUpdateKeeps ==
  ASSUME CatalogueInv, NEW u \in Updater, CompareUpdate(u)
  PROVE  CatalogueInv' /\ Grows
<1>1. PICK x :
        /\ x \in {[updater[u] EXCEPT !.at = "append"], IdleUpdate}
        /\ updater' = [updater EXCEPT ![u] = x] /\ updater[u].at = "compare"
        /\ UNCHANGED <<versions, sharer, pupil, run>>
  BY DEF CompareUpdate
<1>2. VersionsInv' /\ Grows
  BY <1>1, NothingCreated DEF CatalogueInv
<1>3. updater[u] \in UpdateState /\ updater[u].base \in DOMAIN versions
  BY <1>1 DEF CatalogueInv, UpdatersHold, UpdateHolds
<1>4. x \in UpdateState' /\ UpdateHolds(x)'
  BY <1>1, <1>3 DEF UpdateState, UpdateHolds, Known, IdleUpdate
<1>5. UpdatersHold'
  BY <1>1, <1>2, <1>4, UpdatersGoOn DEF CatalogueInv
<1>. QED  BY <1>1, <1>2, <1>5, SharersStay, PupilsStay, RunsStay DEF CatalogueInv, VersionsInv

\* The base is a version still, and nothing else of what was compared is relied on.
LEMMA AppendUpdateKeeps ==
  ASSUME CatalogueInv, NEW u \in Updater, AppendUpdate(u)
  PROVE  CatalogueInv' /\ Grows
<1>. DEFINE base == updater[u].base
            id   == Fresh(Cardinality(DOMAIN versions))
            v    == VersionOf(versions[base].brain, versions[base].number + 1, base,
                              <<>>, "update")
<1>1. /\ updater[u].at = "append"
      /\ CanCreate(id, v) => Create(id, v)
      /\ ~ CanCreate(id, v) => UNCHANGED versions
      /\ updater' = [updater EXCEPT ![u] = IdleUpdate]
      /\ UNCHANGED <<sharer, pupil, run>>
  BY DEF AppendUpdate
<1>2. /\ base \in DOMAIN versions /\ base # NoVersion
      /\ versions[base].number \in Nat /\ versions[base].brain \in Brain
  BY <1>1, NoVersionIsNone
     DEF CatalogueInv, UpdatersHold, UpdateHolds, VersionsInv, VersionTypes
<1>3. /\ v.number \in Int /\ v.brain \in Brain /\ v.by = "update"
      /\ v.parent = base /\ v.brain = versions[base].brain
      /\ versions[base].number + 1 = v.number
  BY <1>2 DEF VersionOf
<1>4. DOMAIN id = {"fresh"}
  BY DEF Fresh
<1>. HIDE DEF base, id, v
<1>5. Named(id, v) /\ InLine(v)
  BY <1>2, <1>3, <1>4 DEF Named, InLine
<1>6. VersionsInv' /\ Grows
  BY <1>1, <1>3, <1>5, CreateKeepsVersions, NothingCreated DEF CatalogueInv
<1>7. IdleUpdate \in UpdateState' /\ UpdateHolds(IdleUpdate)'
  BY DEF IdleUpdate, UpdateState, UpdateHolds, Known
<1>8. UpdatersHold'
  BY <1>1, <1>6, <1>7, UpdatersGoOn DEF CatalogueInv
<1>. QED  BY <1>1, <1>6, <1>8, SharersStay, PupilsStay, RunsStay DEF CatalogueInv, VersionsInv

------------------------------------------------------------------------------
(* Sharing and matches.                                                    *)

\* The tables that a share may have to write.
LEMMA LessonIs ==
  /\ \A w \in Worm, policy \in Policy : <<w, policy, Derived[policy][w]>> \in Lesson
  /\ \A x \in Lesson : \E w \in Worm, policy \in Policy : x = <<w, policy, Derived[policy][w]>>
<1>1. ASSUME NEW w \in Worm, NEW policy \in Policy
      PROVE  <<w, policy, Derived[policy][w]>> \in Lesson
  <2>1. PICK x \in Worm \X Policy : x = <<w, policy>>
    OBVIOUS
  <2>. QED  BY <2>1 DEF Lesson
<1>2. ASSUME NEW x \in Lesson
      PROVE  \E w \in Worm, policy \in Policy : x = <<w, policy, Derived[policy][w]>>
  BY DEF Lesson
<1>. QED  BY <1>1, <1>2

\* shareExperiment derives the tables, and Persist reads the latest version.
LEMMA BeginShareKeeps ==
  ASSUME CatalogueInv, NEW s \in Sharer, NEW x \in Shared, BeginShare(s, x[1], x[2], x[3])
  PROVE  CatalogueInv' /\ Grows
<1>1. PICK policy, recipients, b :
        policy = x[1] /\ recipients = x[2] /\ b = x[3]
  OBVIOUS
<1>2. policy \in Policy /\ recipients \in Seq(Worm) /\ recipients # <<>> /\ b \in Brain
  BY <1>1, CatalogueAssumption
<1>3. PICK todo, last :
        /\ todo = [i \in DOMAIN recipients |->
                     <<recipients[i], policy, Derived[policy][recipients[i]]>>]
        /\ last = Highest({id \in DOMAIN versions : versions[id].brain = b})
  OBVIOUS
<1>4. /\ sharer' = [sharer EXCEPT ![s] =
           [at |-> "append", brain |-> b, todo |-> todo, last |-> last]]
      /\ UNCHANGED <<versions, updater, pupil, run>>
  BY <1>1, <1>3 DEF BeginShare
<1>5. VersionsInv' /\ Grows
  BY <1>4, NothingCreated DEF CatalogueInv
<1>6. todo \in Seq(Lesson) /\ todo # <<>>
  <2>1. \A i \in 1 .. Len(recipients) : recipients[i] \in Worm
    BY <1>2
  <2>2. Len(recipients) \in Nat /\ Len(recipients) # 0 /\ DOMAIN recipients = 1 .. Len(recipients)
    BY <1>2
  <2>3. todo \in [1 .. Len(recipients) -> Lesson]
    BY <1>2, <1>3, <2>1, <2>2, LessonIs
  <2>4. todo \in Seq(Lesson) /\ Len(todo) = Len(recipients)
    BY <2>2, <2>3
  <2>. QED  BY <2>2, <2>4
<1>7. last \in Known
  <2>. DEFINE ids == {id \in DOMAIN versions : versions[id].brain = b}
  <2>1. CASE ids = {}
    BY <1>3, <2>1 DEF Highest, Known
  <2>2. CASE ids # {}
    BY <1>3, <2>2, HighestIsHighest DEF Known, CatalogueInv, VersionsInv
  <2>. QED  BY <2>1, <2>2
<1>8. PICK y : y = [at |-> "append", brain |-> b, todo |-> todo, last |-> last]
  OBVIOUS
<1>9. y \in ShareState' /\ ShareHolds(y)
  BY <1>2, <1>4, <1>6, <1>7, <1>8 DEF ShareState, ShareHolds, Known
<1>10. SharersHold'
  BY <1>4, <1>5, <1>8, <1>9, SharersGoOn DEF CatalogueInv
<1>. QED  BY <1>4, <1>5, <1>10, UpdatersStay, PupilsStay, RunsStay DEF CatalogueInv, VersionsInv

\* What is next on a list of tables to write.
LEMMA NextLesson ==
  ASSUME NEW todo \in Seq(Lesson), todo # <<>>
  PROVE  /\ \E w \in Worm, policy \in Policy : Head(todo) = <<w, policy, Derived[policy][w]>>
         /\ Tail(todo) \in Seq(Lesson)
         /\ Len(todo) > 1 => Tail(todo) # <<>>
<1>1. Head(todo) \in Lesson /\ Tail(todo) \in Seq(Lesson) /\ Len(Tail(todo)) = Len(todo) - 1
  BY HeadTailProperties
<1>2. Len(todo) \in Nat /\ \A t : t = <<>> => Len(t) = 0
  OBVIOUS
<1>3. ASSUME Len(todo) > 1, Tail(todo) = <<>>
      PROVE  FALSE
  <2>1. PICK t : t = Tail(todo)
    OBVIOUS
  <2>2. Len(t) = 0
    BY <1>2, <1>3, <2>1
  <2>. QED  BY <1>1, <1>2, <1>3, <2>1, <2>2
<1>. QED  BY <1>1, <1>3, LessonIs

\* Persist writes the next table as a child of the last version, or gives up.
LEMMA AppendShareKeeps ==
  ASSUME CatalogueInv, NEW s \in Sharer, AppendShare(s)
  PROVE  CatalogueInv' /\ Grows
<1>. DEFINE state == sharer[s]
            next  == Head(state.todo)
            id    == SharedId(next[1], next[3])
            last  == state.last
            v     == VersionOf(state.brain,
                               IF last = NoVersion THEN 1 ELSE versions[last].number + 1,
                               last, next[3], next[2])
<1>1. /\ state.at = "append"
      /\ CanCreate(id, v) => Create(id, v)
      /\ ~ CanCreate(id, v) => UNCHANGED versions
      /\ UNCHANGED <<updater, pupil, run>>
  BY DEF AppendShare
<1>2. sharer' = [sharer EXCEPT ![s] =
        IF CanCreate(id, v) /\ Len(state.todo) > 1
        THEN [at |-> "append", brain |-> state.brain, todo |-> Tail(state.todo), last |-> id]
        ELSE IdleShare]
  BY DEF AppendShare
<1>3. /\ state \in ShareState /\ state.brain \in Brain
      /\ state.todo \in Seq(Lesson) /\ state.todo # <<>> /\ last \in Known
  BY <1>1 DEF CatalogueInv, SharersHold, ShareHolds, ShareState
<1>4. PICK w \in Worm, policy \in Policy : next = <<w, policy, Derived[policy][w]>>
  BY <1>3, NextLesson
<1>5. /\ v.brain = state.brain /\ v.parent = last
      /\ v.rules = Derived[policy][w] /\ v.by = policy
      /\ v.number = IF last = NoVersion THEN 1 ELSE versions[last].number + 1
  BY <1>4 DEF VersionOf
<1>6. id = SharedId(w, Derived[policy][w])
  BY <1>4
<1>. HIDE DEF state, next, id, last, v
<1>7. Named(id, v)
  BY <1>5, <1>6 DEF Named
<1>8. v.number \in Int
  BY <1>3, <1>5 DEF Known, CatalogueInv, VersionsInv, VersionTypes
<1>9. CanCreate(id, v) => InLine(v)
  BY <1>5 DEF CanCreate, InLine
<1>10. /\ VersionsInv' /\ Grows
       /\ CanCreate(id, v) => id \in DOMAIN versions'
  BY <1>1, <1>3, <1>5, <1>7, <1>8, <1>9, CreateKeepsVersions, NothingCreated DEF CatalogueInv
<1>11. PICK y : y = IF CanCreate(id, v) /\ Len(state.todo) > 1
                    THEN [at |-> "append", brain |-> state.brain, todo |-> Tail(state.todo),
                          last |-> id]
                    ELSE IdleShare
  OBVIOUS
<1>12. y \in ShareState' /\ ShareHolds(y)
  <2>1. CASE CanCreate(id, v) /\ Len(state.todo) > 1
    <3>1. Tail(state.todo) \in Seq(Lesson) /\ Tail(state.todo) # <<>>
      BY <1>3, <2>1, NextLesson
    <3>. QED  BY <1>3, <1>10, <1>11, <2>1, <3>1 DEF ShareState, ShareHolds, Known
  <2>2. CASE ~ (CanCreate(id, v) /\ Len(state.todo) > 1)
    BY <1>11, <2>2 DEF IdleShare, ShareState, ShareHolds, Known
  <2>. QED  BY <2>1, <2>2
<1>13. SharersHold'
  BY <1>2, <1>10, <1>11, <1>12, SharersGoOn DEF CatalogueInv
<1>. QED  BY <1>1, <1>10, <1>13, UpdatersStay, PupilsStay, RunsStay DEF CatalogueInv, VersionsInv

\* The number that a match chooses is beyond that of the version it plays, unless
\* that version is on no page.
LEMMA ContinueNumberKeeps ==
  ASSUME CatalogueInv, NEW p \in Pupil, ContinueNumber(p)
  PROVE  CatalogueInv' /\ Grows
<1>1. PICK b, found, n, y :
        /\ b = versions[pupil[p].version].brain /\ found = Listed(b, Page)
        /\ n = IF found = {} THEN 1 ELSE versions[Highest(found)].number + 1
        /\ y = [at |-> "append", version |-> pupil[p].version, number |-> n]
  OBVIOUS
<1>2. pupil' = [pupil EXCEPT ![p] = y] /\ UNCHANGED <<versions, updater, sharer, run>>
  BY <1>1 DEF ContinueNumber
<1>3. VersionsInv' /\ Grows
  BY <1>2, NothingCreated DEF CatalogueInv
<1>4. pupil[p] \in PupilState /\ pupil[p].version \in DOMAIN versions
  BY DEF CatalogueInv, PupilsHold, PupilState
<1>7. found \in SUBSET DOMAIN versions
  BY <1>1 DEF Listed
<1>8. n \in Nat
  BY <1>1, <1>7, HighestIsHighest DEF CatalogueInv, VersionsInv, VersionTypes
<1>9. versions[pupil[p].version].number < n \/ Full(b)
  <2>. SUFFICES ASSUME ~ Full(b) PROVE versions[pupil[p].version].number < n
    OBVIOUS
  <2>1. pupil[p].version \in found
    BY <1>1, <1>4, ListedUnlessFull DEF CatalogueInv, VersionsInv
  <2>2. /\ Highest(found) \in found
        /\ versions[pupil[p].version].number <= versions[Highest(found)].number
    BY <1>7, <2>1, HighestIsHighest DEF CatalogueInv, VersionsInv
  <2>3. /\ versions[pupil[p].version].number \in Nat
        /\ versions[Highest(found)].number \in Nat
    BY <1>4, <1>7, <2>2 DEF CatalogueInv, VersionsInv, VersionTypes
  <2>. QED  BY <1>1, <2>1, <2>2, <2>3
<1>10. y \in PupilState' /\ PupilHolds(y)'
  <2>1. y \in PupilState /\ PupilHolds(y)
    BY <1>1, <1>4, <1>8, <1>9 DEF PupilState, PupilHolds
  <2>. QED  BY <1>3, <2>1, PupilHoldsOn DEF CatalogueInv, VersionsInv
<1>11. PupilsHold'
  BY <1>2, <1>3, <1>10, PupilsGoOn DEF CatalogueInv, VersionsInv
<1>. QED  BY <1>2, <1>3, <1>11, UpdatersStay, SharersStay, RunsStay DEF CatalogueInv, VersionsInv

\* ContinueBrainVersion saves a child of the version the slot plays.
LEMMA ContinueAppendKeeps ==
  ASSUME CatalogueInv, NEW p \in Pupil, ContinueAppend(p)
  PROVE  CatalogueInv' /\ Grows
<1>1. PICK parent, id, v :
        /\ parent = pupil[p].version /\ id = Fresh(Cardinality(DOMAIN versions))
        /\ v = VersionOf(versions[parent].brain, pupil[p].number, parent, <<>>, "match")
  OBVIOUS
<1>2. /\ pupil[p].at = "append"
      /\ CanCreate(id, v) => Create(id, v)
      /\ ~ CanCreate(id, v) => UNCHANGED versions
      /\ pupil' = [pupil EXCEPT ![p] =
           [at |-> "idle", version |-> IF CanCreate(id, v) THEN id ELSE parent, number |-> 0]]
      /\ UNCHANGED <<updater, sharer, run>>
  BY <1>1 DEF ContinueAppend
<1>3. /\ parent \in DOMAIN versions /\ pupil[p].number \in Nat
      /\ versions[parent].number < pupil[p].number \/ Full(versions[parent].brain)
  BY <1>1, <1>2 DEF CatalogueInv, PupilsHold, PupilHolds, PupilState
<1>4. parent # NoVersion /\ versions[parent].brain \in Brain
  BY <1>3, NoVersionIsNone DEF CatalogueInv, VersionsInv, VersionTypes
<1>5. /\ v.brain = versions[parent].brain /\ v.parent = parent
      /\ v.number = pupil[p].number /\ v.by = "match"
  BY <1>1 DEF VersionOf
<1>6. DOMAIN id = {"fresh"}
  BY <1>1 DEF Fresh
<1>7. Named(id, v) /\ InLine(v)
  BY <1>3, <1>4, <1>5, <1>6 DEF Named, InLine
<1>8. /\ VersionsInv' /\ Grows
      /\ CanCreate(id, v) => id \in DOMAIN versions'
  BY <1>2, <1>3, <1>4, <1>5, <1>7, CreateKeepsVersions, NothingCreated DEF CatalogueInv
<1>9. PICK y : y = [at |-> "idle", version |-> IF CanCreate(id, v) THEN id ELSE parent,
                    number |-> 0]
  OBVIOUS
<1>10. y \in PupilState' /\ PupilHolds(y)'
  BY <1>3, <1>8, <1>9 DEF PupilState, PupilHolds, Grows
<1>11. PupilsHold'
  BY <1>2, <1>8, <1>9, <1>10, PupilsGoOn DEF CatalogueInv, VersionsInv
<1>. QED  BY <1>2, <1>8, <1>11, UpdatersStay, SharersStay, RunsStay DEF CatalogueInv, VersionsInv

\* hydrateSAME goes back to a version that is still there.
LEMMA PlayAgainKeeps ==
  ASSUME CatalogueInv, NEW p \in Pupil, PlayAgain(p)
  PROVE  CatalogueInv' /\ Grows
<1>1. /\ pupil' = [pupil EXCEPT ![p].version = Plays[p]] /\ pupil[p].at = "idle"
      /\ UNCHANGED <<versions, updater, sharer, run>>
  BY DEF PlayAgain
<1>2. VersionsInv' /\ Grows
  BY <1>1, NothingCreated DEF CatalogueInv
<1>3. Plays[p] \in DOMAIN versions
  BY CatalogueAssumption DEF CatalogueInv, VersionsInv, VersionTypes
<1>4. pupil[p] \in PupilState
  BY DEF CatalogueInv, PupilsHold
<1>5. PICK y : y = [pupil[p] EXCEPT !.version = Plays[p]]
  OBVIOUS
<1>6. pupil' = [pupil EXCEPT ![p] = y]
  BY <1>1, <1>5 DEF CatalogueInv, PupilsHold
<1>7. y \in PupilState' /\ PupilHolds(y)'
  BY <1>1, <1>3, <1>4, <1>5 DEF PupilState, PupilHolds
<1>8. PupilsHold'
  BY <1>2, <1>6, <1>7, PupilsGoOn DEF CatalogueInv, VersionsInv
<1>. QED  BY <1>1, <1>2, <1>8, UpdatersStay, SharersStay, RunsStay DEF CatalogueInv, VersionsInv

------------------------------------------------------------------------------
(* The runs of the experiment.                                             *)

\* A run that has just begun, or has just failed, has settled nothing.
LEMMA StartedHolds ==
  /\ Started \in RunState /\ RunHolds(Started)
  /\ [Started EXCEPT !.at = "failed"] \in RunState
  /\ RunHolds([Started EXCEPT !.at = "failed"])
<1>1. Started \in RunState /\ [Started EXCEPT !.at = "failed"] \in RunState
  <2>1. <<>> \in Seq(DOMAIN versions) /\ {} \in SUBSET Nat /\ NoVersion \in Known
    BY DEF Known
  <2>2. [Started EXCEPT !.at = "failed"]
          = [at |-> "failed", done |-> <<>>, last |-> NoVersion, listed |-> {}]
    BY DEF Started
  <2>. QED  BY <2>1, <2>2 DEF Started, RunState
<1>2. Len(Derivations) \in Nat /\ Len(Derivations) # 0
  BY CatalogueAssumption
<1>. QED  BY <1>1, <1>2 DEF Started, RunHolds

\* The derivation a run is at is one of the experiment's.
LEMMA DerivationIs ==
  ASSUME RunsHold, NEW r \in Run, run[r].at \in {"look", "list", "append"}
  PROVE  /\ Len(run[r].done) \in Nat /\ Len(run[r].done) < Len(Derivations)
         /\ Derivation(r)[1] \in Policy /\ Derivation(r)[2] \in Worm
<1>1. run[r].done \in Seq(DOMAIN versions) /\ Len(run[r].done) < Len(Derivations)
  BY DEF RunsHold, RunState, RunHolds
<1>2. Len(run[r].done) \in Nat /\ Len(Derivations) \in Nat
  BY <1>1, CatalogueAssumption
<1>3. Len(run[r].done) + 1 \in 1 .. Len(Derivations)
  BY <1>1, <1>2
<1>4. Derivation(r) \in Policy \X Worm
  BY <1>3, CatalogueAssumption DEF Derivation
<1>. QED  BY <1>1, <1>2, <1>4

\* A run whose derivation was settled with its version: the list of what is settled has
\* grown by it, and nothing is listed yet for the next.
SettlesAs(state, S) ==
  \E done \in Seq(S) :
    /\ state = [at |-> IF Len(done) = Len(Derivations) THEN "done" ELSE "look",
                done |-> done, last |-> NoVersion, listed |-> {}]
    /\ Len(done) \in Nat /\ Len(done) <= Len(Derivations) /\ Len(Derivations) \in Nat
    /\ \A i \in DOMAIN done : done[i] = DerivedId(Derivations[i][1], Derivations[i][2])

\* What Settled makes of a run.
LEMMA SettledIs ==
  ASSUME NEW S, NEW state, state.done \in Seq(S), Len(state.done) < Len(Derivations),
         \A i \in DOMAIN state.done :
           state.done[i] = DerivedId(Derivations[i][1], Derivations[i][2]),
         NEW id \in S,
         id = DerivedId(Derivations[Len(state.done) + 1][1], Derivations[Len(state.done) + 1][2])
  PROVE  SettlesAs(Settled(state, id), S)
<1>. DEFINE done == Append(state.done, id)
<1>1. Len(Derivations) \in Nat
  BY CatalogueAssumption
<1>2. /\ done \in Seq(S) /\ Len(done) = Len(state.done) + 1
      /\ DOMAIN done = 1 .. Len(state.done) + 1 /\ DOMAIN state.done = 1 .. Len(state.done)
      /\ Len(state.done) \in Nat
      /\ \A i \in 1 .. Len(state.done) : done[i] = state.done[i]
      /\ done[Len(state.done) + 1] = id
  OBVIOUS
<1>3. \A i \in DOMAIN done : done[i] = DerivedId(Derivations[i][1], Derivations[i][2])
  BY <1>2
<1>4. Settled(state, id) =
        [at |-> IF Len(done) = Len(Derivations) THEN "done" ELSE "look",
         done |-> done, last |-> NoVersion, listed |-> {}]
  BY DEF Settled
<1>5. Len(done) \in Nat /\ Len(done) <= Len(Derivations)
  BY <1>1, <1>2
<1>6. done \in Seq(S)
  BY <1>2
<1>. HIDE DEF done
<1>. QED  BY <1>1, <1>3, <1>4, <1>5, <1>6 DEF SettlesAs

\* A run whose derivation is settled holds what it should about the next.
LEMMA SettledHolds ==
  ASSUME Grows, NEW state \in RunState, RunHolds(state), Len(state.done) < Len(Derivations),
         NEW id \in (DOMAIN versions)',
         id = DerivedId(Derivations[Len(state.done) + 1][1], Derivations[Len(state.done) + 1][2])
  PROVE  Settled(state, id) \in RunState' /\ RunHolds(Settled(state, id))'
<1>1. PICK y, S : y = Settled(state, id) /\ S = (DOMAIN versions)'
  OBVIOUS
<1>2. state.done \in Seq(S)
  BY <1>1, KnownGrows DEF RunState
<1>3. \A i \in DOMAIN state.done :
        state.done[i] = DerivedId(Derivations[i][1], Derivations[i][2])
  BY DEF RunHolds
<1>4. PICK done \in Seq(S) :
        /\ y = [at |-> IF Len(done) = Len(Derivations) THEN "done" ELSE "look",
                done |-> done, last |-> NoVersion, listed |-> {}]
        /\ Len(done) \in Nat /\ Len(done) <= Len(Derivations) /\ Len(Derivations) \in Nat
        /\ \A i \in DOMAIN done : done[i] = DerivedId(Derivations[i][1], Derivations[i][2])
  <2>1. id \in S
    BY <1>1
  <2>2. SettlesAs(Settled(state, id), S)
    BY <1>2, <1>3, <2>1, SettledIs
  <2>. QED  BY <1>1, <2>2 DEF SettlesAs
<1>5. y \in RunState'
  BY <1>1, <1>4 DEF RunState, Known
<1>6. /\ y.done = done /\ y.at \in {"done", "look"}
      /\ y.at = "done" <=> Len(done) = Len(Derivations)
  BY <1>4
<1>7. RunHolds(y)'
  BY <1>4, <1>6 DEF RunHolds
<1>. QED  BY <1>1, <1>5, <1>7 DEF RunHolds

\* persistDerived looks for the version of an earlier run.
LEMMA LookUpKeeps ==
  ASSUME CatalogueInv, NEW r \in Run, LookUp(r)
  PROVE  CatalogueInv' /\ Grows
<1>1. PICK id, x :
        /\ id = DerivedId(Derivation(r)[1], Derivation(r)[2])
        /\ x = IF id \in DOMAIN versions THEN Settled(run[r], id)
               ELSE [run[r] EXCEPT !.at = "list"]
  OBVIOUS
<1>2. /\ run[r].at = "look" /\ run' = [run EXCEPT ![r] = x]
      /\ UNCHANGED <<versions, updater, sharer, pupil>>
  BY <1>1 DEF LookUp
<1>3. VersionsInv' /\ Grows
  BY <1>2, NothingCreated DEF CatalogueInv
<1>4. run[r] \in RunState /\ RunHolds(run[r]) /\ Len(run[r].done) < Len(Derivations)
  BY <1>2, DerivationIs DEF CatalogueInv, RunsHold
<1>5. CASE id \in DOMAIN versions
  <2>1. id \in (DOMAIN versions)'
    BY <1>2, <1>5
  <2>2. Settled(run[r], id) \in RunState' /\ RunHolds(x)'
    <3>1. PICK state : state = run[r]
      OBVIOUS
    <3>2. Settled(state, id) \in RunState' /\ RunHolds(Settled(state, id))'
      BY <1>1, <1>3, <1>4, <2>1, <3>1, SettledHolds DEF Derivation
    <3>. QED  BY <1>1, <1>5, <3>1, <3>2 DEF RunHolds
  <2>. QED  BY <1>1, <1>2, <1>3, <1>5, <2>2, RunsGoOn, UpdatersStay, SharersStay, PupilsStay
            DEF CatalogueInv, VersionsInv
<1>6. CASE id \notin DOMAIN versions
  <2>1. x = [run[r] EXCEPT !.at = "list"]
    BY <1>1, <1>6
  <2>2. /\ x \in RunState /\ x.at = "list" /\ x.done = run[r].done
    BY <1>4, <2>1 DEF RunState
  <2>3. RunHolds(x)
    BY <1>4, <2>2 DEF RunHolds
  <2>4. x \in RunState' /\ RunHolds(x)'
    BY <1>3, <2>2, <2>3, RunHoldsOn
  <2>. QED  BY <1>2, <1>3, <2>4, RunsGoOn, UpdatersStay, SharersStay, PupilsStay
            DEF CatalogueInv, VersionsInv
<1>. QED  BY <1>5, <1>6

\* A run that lists a brain no larger than a page has the highest of its versions.
LEMMA LatestIsLatest ==
  ASSUME VersionTypes, NEW w \in Worm
  PROVE  /\ Latest(w) \in DOMAIN versions /\ versions[Latest(w)].brain = BrainOf(w)
         /\ \/ Full(BrainOf(w))
            \/ \A n \in NumberedIn(BrainOf(w)) : n <= versions[Latest(w)].number
<1>. DEFINE ids == {Source[w]} \cup Listed(BrainOf(w), Page)
<1>1. /\ Source[w] \in DOMAIN versions /\ versions[Source[w]].brain = BrainOf(w)
  BY CatalogueAssumption DEF VersionTypes, BrainOf
<1>2. /\ ids \in SUBSET DOMAIN versions /\ ids # {}
      /\ \A i \in ids : versions[i].brain = BrainOf(w)
  BY <1>1 DEF Listed
<1>. HIDE DEF ids
<1>3. /\ Highest(ids) \in ids
      /\ \A i \in ids : versions[i].number <= versions[Highest(ids)].number
  BY <1>2, HighestIsHighest
<1>4. Latest(w) = Highest(ids)
  BY DEF Latest, ids
<1>5. ASSUME ~ Full(BrainOf(w)), NEW n \in NumberedIn(BrainOf(w))
      PROVE  n <= versions[Latest(w)].number
  <2>1. PICK i \in DOMAIN versions : versions[i].brain = BrainOf(w) /\ versions[i].number = n
    BY DEF NumberedIn
  <2>2. i \in ids
    BY <1>5, <2>1, ListedUnlessFull DEF ids
  <2>. QED  BY <1>3, <1>4, <2>1, <2>2
<1>. QED  BY <1>2, <1>3, <1>4, <1>5

\* persistDerived lists a page and remembers the latest version.
LEMMA ListVersionsKeeps ==
  ASSUME CatalogueInv, NEW r \in Run, ListVersions(r)
  PROVE  CatalogueInv' /\ Grows
<1>1. PICK w, x :
        /\ w = Derivation(r)[2]
        /\ x = [at |-> "append", done |-> run[r].done, last |-> Latest(w),
                listed |-> NumberedIn(BrainOf(w))]
  OBVIOUS
<1>2. /\ run[r].at = "list" /\ run' = [run EXCEPT ![r] = x]
      /\ UNCHANGED <<versions, updater, sharer, pupil>>
  BY <1>1 DEF ListVersions
<1>3. VersionsInv' /\ Grows
  BY <1>2, NothingCreated DEF CatalogueInv
<1>4. /\ run[r] \in RunState /\ RunHolds(run[r])
      /\ Len(run[r].done) < Len(Derivations) /\ w \in Worm
  BY <1>1, <1>2, DerivationIs DEF CatalogueInv, RunsHold
<1>5. /\ Latest(w) \in DOMAIN versions /\ versions[Latest(w)].brain = BrainOf(w)
      /\ \/ Full(BrainOf(w))
         \/ \A n \in NumberedIn(BrainOf(w)) : n <= versions[Latest(w)].number
  BY <1>4, LatestIsLatest DEF CatalogueInv, VersionsInv
<1>6. NumberedIn(BrainOf(w)) \in SUBSET Nat
  BY NumbersFinite DEF CatalogueInv, VersionsInv
<1>7. /\ x.at = "append" /\ x.done = run[r].done /\ x.last = Latest(w)
      /\ x.listed = NumberedIn(BrainOf(w))
  BY <1>1
<1>8. x \in RunState
  BY <1>1, <1>4, <1>5, <1>6 DEF RunState, Known
<1>9. RunHolds(x)
  BY <1>1, <1>4, <1>5, <1>7 DEF RunHolds, Full, Derivation
<1>10. x \in RunState' /\ RunHolds(x)'
  BY <1>3, <1>8, <1>9, RunHoldsOn
<1>11. RunsHold'
  BY <1>2, <1>3, <1>10, RunsGoOn DEF CatalogueInv
<1>. QED  BY <1>2, <1>3, <1>11, UpdatersStay, SharersStay, PupilsStay DEF CatalogueInv, VersionsInv

\* The insert of a derived version.  What was listed may be old; the version that is
\* its parent is still there, and CanCreate compares the number again.
LEMMA AppendDerivedKeeps ==
  ASSUME CatalogueInv, NEW r \in Run, AppendDerived(r)
  PROVE  CatalogueInv' /\ Grows
<1>. DEFINE policy == Derivation(r)[1]
            w      == Derivation(r)[2]
            id     == DerivedId(policy, w)
            last   == run[r].last
            v      == VersionOf(BrainOf(w), versions[last].number + 1, last,
                                Derived[policy][w], policy)
<1>1. /\ run[r].at = "append"
      /\ CanCreate(id, v) => Create(id, v) /\ run' = [run EXCEPT ![r] = Settled(run[r], id)]
      /\ ~ CanCreate(id, v) =>
           /\ UNCHANGED versions
           /\ run' = [run EXCEPT ![r] = IF id \in DOMAIN versions THEN Settled(run[r], id)
                                        ELSE [Started EXCEPT !.at = "failed"]]
      /\ UNCHANGED <<updater, sharer, pupil>>
  BY DEF AppendDerived, FoundAfterRefusal
<1>2. /\ run[r] \in RunState /\ RunHolds(run[r]) /\ Len(run[r].done) < Len(Derivations)
      /\ policy \in Policy /\ w \in Worm
  BY <1>1, DerivationIs DEF CatalogueInv, RunsHold
<1>3. last \in DOMAIN versions /\ versions[last].brain = BrainOf(w)
  BY <1>1, <1>2 DEF RunHolds, Derivation
<1>4. versions[last].number \in Nat /\ BrainOf(w) \in Brain /\ last # NoVersion
  BY <1>3, NoVersionIsNone DEF CatalogueInv, VersionsInv, VersionTypes
<1>5. id = DerivedId(Derivations[Len(run[r].done) + 1][1], Derivations[Len(run[r].done) + 1][2])
  BY DEF Derivation
<1>. HIDE DEF policy, w
<1>6. /\ v.brain = BrainOf(w) /\ v.parent = last /\ v.by = policy
      /\ v.number = versions[last].number + 1 /\ v.rules = Derived[policy][w]
  BY DEF VersionOf
<1>7. Named(id, v)
  BY <1>2, <1>6 DEF Named
<1>. HIDE DEF id, last, v
<1>8. InLine(v)
  BY <1>3, <1>4, <1>6 DEF InLine
<1>9. /\ VersionsInv' /\ Grows
      /\ CanCreate(id, v) => id \in DOMAIN versions'
  BY <1>1, <1>4, <1>6, <1>7, <1>8, CreateKeepsVersions, NothingCreated DEF CatalogueInv
<1>10. PICK state, name, x : state = run[r] /\ name = id /\ x = Settled(state, name)
  OBVIOUS
<1>11. RunsHold'
  <2>1. CASE name \in (DOMAIN versions)'
    <3>1. run' = [run EXCEPT ![r] = x]
      BY <1>1, <1>10, <2>1
    <3>2. Settled(state, name) \in RunState' /\ RunHolds(Settled(state, name))'
      BY <1>2, <1>5, <1>9, <1>10, <2>1, SettledHolds
    <3>3. x \in RunState' /\ RunHolds(x)'
      BY <1>10, <3>2 DEF RunHolds
    <3>. QED  BY <1>9, <3>1, <3>3, RunsGoOn DEF CatalogueInv
  <2>2. CASE name \notin (DOMAIN versions)'
    <3>1. run' = [run EXCEPT ![r] = [Started EXCEPT !.at = "failed"]]
      BY <1>1, <1>9, <1>10, <2>2
    <3>2. PICK y : y = [Started EXCEPT !.at = "failed"]
      OBVIOUS
    <3>3. y \in RunState' /\ RunHolds(y)'
      BY <1>9, <3>2, StartedHolds, RunHoldsOn
    <3>. QED  BY <1>9, <3>1, <3>2, <3>3, RunsGoOn DEF CatalogueInv
  <2>. QED  BY <2>1, <2>2
<1>. QED  BY <1>1, <1>9, <1>11, UpdatersStay, SharersStay, PupilsStay DEF CatalogueInv, VersionsInv

\* A run that stops or failed begins anew.
LEMMA StartKeeps ==
  ASSUME CatalogueInv, NEW r \in Run, Restart(r) \/ Stop(r)
  PROVE  CatalogueInv' /\ Grows
<1>1. run' = [run EXCEPT ![r] = Started] /\ UNCHANGED <<versions, updater, sharer, pupil>>
  BY DEF Restart, Stop
<1>2. VersionsInv' /\ Grows
  BY <1>1, NothingCreated DEF CatalogueInv
<1>3. PICK x : x = Started
  OBVIOUS
<1>4. x \in RunState' /\ RunHolds(x)'
  BY <1>2, <1>3, StartedHolds, RunHoldsOn
<1>5. RunsHold'
  BY <1>1, <1>2, <1>3, <1>4, RunsGoOn DEF CatalogueInv
<1>. QED  BY <1>1, <1>2, <1>5, UpdatersStay, SharersStay, PupilsStay DEF CatalogueInv, VersionsInv

------------------------------------------------------------------------------
(* The specification.                                                      *)

\* A catalogue that begins with what clients have posted, and nobody under way.
LEMMA InitHolds ==
  ASSUME CatalogueInit
  PROVE  CatalogueInv
<1>1. versions = First
  BY DEF CatalogueInit
<1>2. VersionTypes
  BY <1>1, CatalogueAssumption DEF VersionTypes
<1>3. NamesTell
  <2>1. ASSUME NEW id \in DOMAIN First
        PROVE  DOMAIN id = {"fresh"} /\ First[id].by = "post"
    BY CatalogueAssumption DEF Fresh
  <2>. QED  BY <1>1, <2>1 DEF NamesTell, Named
<1>4. LinesHold /\ NumbersAreTaken
  BY <1>1 DEF LinesHold, NumbersAreTaken
<1>5. UpdatersHold
  BY DEF CatalogueInit, UpdatersHold, UpdateState, UpdateHolds, IdleUpdate, Known
<1>6. SharersHold
  <2>1. <<>> \in Seq(Lesson) /\ NoVersion \in Known
    BY DEF Known
  <2>2. IdleShare \in ShareState /\ ShareHolds(IdleShare)
    BY <2>1 DEF IdleShare, ShareState, ShareHolds
  <2>. QED  BY <2>2 DEF CatalogueInit, SharersHold
<1>7. PupilsHold
  <2>1. \A p \in Pupil : Plays[p] \in DOMAIN versions
    BY <1>1, CatalogueAssumption
  <2>. QED  BY <2>1 DEF CatalogueInit, PupilsHold, PupilState, PupilHolds
<1>8. RunsHold
  BY StartedHolds DEF CatalogueInit, RunsHold
<1>. QED  BY <1>2, <1>3, <1>4, <1>5, <1>6, <1>7, <1>8 DEF CatalogueInv, VersionsInv

\* One step of any writer keeps the invariant, and takes no version back.
LEMMA StepHolds ==
  ASSUME CatalogueInv, [CatalogueNext]_catalogue
  PROVE  CatalogueInv' /\ Grows
<1>1. CASE Requests
  <2>1. CASE \E p \in Posted : PostVersion(p[1], p[2], p[3])
    BY <2>1, PostKeeps
  <2>2. CASE \E u \in Updater :
               \/ \E id \in DOMAIN versions : BeginUpdate(u, id)
               \/ CompareUpdate(u) \/ AppendUpdate(u)
    BY <2>2, BeginUpdateKeeps, CompareUpdateKeeps, AppendUpdateKeeps
  <2>3. CASE \E s \in Sharer :
               (\E x \in Shared : BeginShare(s, x[1], x[2], x[3])) \/ AppendShare(s)
    BY <2>3, BeginShareKeeps, AppendShareKeeps
  <2>4. CASE \E p \in Pupil : ContinueNumber(p) \/ ContinueAppend(p) \/ PlayAgain(p)
    BY <2>4, ContinueNumberKeeps, ContinueAppendKeeps, PlayAgainKeeps
  <2>. QED  BY <1>1, <2>1, <2>2, <2>3, <2>4 DEF Requests
<1>2. CASE \E r \in Run : RunStep(r) \/ Stop(r)
  BY <1>2, LookUpKeeps, ListVersionsKeeps, AppendDerivedKeeps, StartKeeps DEF RunStep
<1>3. CASE UNCHANGED catalogue
  <2>1. UNCHANGED <<versions, updater, sharer, pupil, run>>
    BY <1>3 DEF catalogue
  <2>2. VersionsInv' /\ Grows
    BY <2>1, NothingCreated DEF CatalogueInv
  <2>. QED  BY <2>1, <2>2, UpdatersStay, SharersStay, PupilsStay, RunsStay
            DEF CatalogueInv, VersionsInv
<1>. QED  BY <1>1, <1>2, <1>3 DEF CatalogueNext

\* The invariant holds of every catalogue that the writers can make of the first.
THEOREM CatalogueInvariant == CatalogueSpec => []CatalogueInv
<1>1. CatalogueInit => CatalogueInv
  BY InitHolds
<1>2. CatalogueInv /\ [CatalogueNext]_catalogue => CatalogueInv'
  BY StepHolds
<1>. QED  BY <1>1, <1>2, PTL DEF CatalogueSpec

\* However many clients, shares, matches and experiments append to a brain, and
\* whatever they had read when they did: no number is used twice, and what updates,
\* shares and runs append is the next after its parent (UpdateBrainVersion, Persist,
\* persistDerived), while only a match branches.
THEOREM AppendsFormLines == CatalogueSpec => []AppendsNeverFork
<1>1. CatalogueInv => AppendsNeverFork
  BY DEF CatalogueInv, VersionsInv, LinesHold, InLine, Full, NumbersAreTaken, AppendsNeverFork
<1>. QED  BY <1>1, CatalogueInvariant, PTL

\* Every rule of every derived table that is ever stored comes from a source that
\* the policy allows, and no key of the recipient is lost (Derive).
THEOREM SharedRulesHaveSources == CatalogueSpec => []RulesHaveASource
<1>1. ASSUME CatalogueInv, NEW id \in DOMAIN versions, versions[id].by \in Policy
      PROVE  \E w \in Worm :
               /\ w = IF "label" \in DOMAIN id THEN id.label ELSE id.worm
               /\ versions[id].rules = Derived[versions[id].by][w]
  <2>1. Named(id, versions[id])
    BY <1>1 DEF CatalogueInv, VersionsInv, NamesTell
  <2>2. versions[id].by \notin {"post", "update", "match"}
    BY <1>1 DEF Policy
  <2>3. PICK w \in Worm :
          /\ versions[id].rules = Derived[versions[id].by][w]
          /\ \/ id = SharedId(w, Derived[versions[id].by][w])
             \/ id = DerivedId(versions[id].by, w)
    BY <2>1, <2>2 DEF Named
  <2>4. CASE id = SharedId(w, Derived[versions[id].by][w])
    BY <2>3, <2>4 DEF SharedId
  <2>5. CASE id = DerivedId(versions[id].by, w)
    BY <2>3, <2>5 DEF DerivedId
  <2>. QED  BY <2>3, <2>4, <2>5
<1>2. ASSUME CatalogueInv, NEW id \in DOMAIN versions, versions[id].by \in Policy
      PROVE  Sourced(versions[id].by, IF "label" \in DOMAIN id THEN id.label ELSE id.worm,
                     versions[id].rules)
  BY <1>1, <1>2, DerivedHasSources
<1>3. CatalogueInv => RulesHaveASource
  BY <1>2 DEF RulesHaveASource, Sourced
<1>. QED  BY <1>3, CatalogueInvariant, PTL

\* Runs of one experiment, together or one after the other, end with the same
\* versions, each with the table that the policy gives, and derive none of them twice
\* (deriveParticipants, persistDerived).
THEOREM RunsAlwaysAgree == CatalogueSpec => []RunsAgree
<1>. DEFINE Settles(i) == DerivedId(Derivations[i][1], Derivations[i][2])
<1>1. ASSUME RunsHold, NEW r \in Run, NEW q \in Run, run[r].at = "done", run[q].at = "done"
      PROVE  run[r].done = run[q].done
  <2>1. /\ run[r].done \in Seq(DOMAIN versions) /\ run[q].done \in Seq(DOMAIN versions)
        /\ Len(run[r].done) = Len(run[q].done)
    BY <1>1 DEF RunsHold, RunHolds, RunState
  <2>2. /\ DOMAIN run[r].done = DOMAIN run[q].done
        /\ \A i \in DOMAIN run[r].done : run[r].done[i] = run[q].done[i]
    BY <1>1, <2>1 DEF RunsHold, RunHolds
  <2>. QED  BY <2>1, <2>2
<1>2. ASSUME CatalogueInv, NEW policy \in Policy, NEW w \in Worm, NEW id \in DOMAIN versions,
             id = DerivedId(policy, w)
      PROVE  /\ versions[id].brain = BrainOf(w) /\ versions[id].by = policy
             /\ versions[id].rules = Derived[policy][w]
  <2>1. Named(id, versions[id])
    BY <1>2 DEF CatalogueInv, VersionsInv, NamesTell
  <2>2. "target" \in DOMAIN id /\ id.worm = w /\ id.policy = policy
    BY <1>2 DEF DerivedId
  <2>3. ASSUME NEW u, NEW rules
        PROVE  "target" \notin DOMAIN SharedId(u, rules)
    BY DEF SharedId
  <2>4. PICK u \in Worm :
          /\ versions[id].rules = Derived[versions[id].by][u]
          /\ id = DerivedId(versions[id].by, u) /\ versions[id].brain = BrainOf(u)
    BY <2>1, <2>2, <2>3 DEF Named
  <2>5. u = w /\ versions[id].by = policy
    BY <2>2, <2>4 DEF DerivedId
  <2>. QED  BY <2>4, <2>5
<1>3. ASSUME CatalogueInv, NEW r \in Run, NEW i \in DOMAIN run[r].done
      PROVE  LET id == run[r].done[i]
                 w  == Derivations[i][2]
             IN  /\ id \in DOMAIN versions
                 /\ versions[id].brain = BrainOf(w)
                 /\ versions[id].by = Derivations[i][1]
                 /\ versions[id].rules = Derive(Derivations[i][1], SourceTables, w)
  <2>1. /\ run[r].done \in Seq(DOMAIN versions) /\ Len(run[r].done) <= Len(Derivations)
        /\ run[r].done[i] = Settles(i)
    BY <1>3 DEF CatalogueInv, RunsHold, RunHolds, RunState
  <2>2. run[r].done[i] \in DOMAIN versions /\ i \in 1 .. Len(Derivations)
    BY <2>1, CatalogueAssumption
  <2>3. Derivations[i][1] \in Policy /\ Derivations[i][2] \in Worm
    BY <2>2, CatalogueAssumption
  <2>. QED  BY <1>2, <1>3, <2>1, <2>2, <2>3, DerivedIs
<1>4. ASSUME CatalogueInv, NEW id \in DOMAIN versions, "target" \in DOMAIN id
      PROVE  id = DerivedId(id.policy, id.worm)
  <2>1. Named(id, versions[id])
    BY <1>4 DEF CatalogueInv, VersionsInv, NamesTell
  <2>2. ASSUME NEW u, NEW rules
        PROVE  "target" \notin DOMAIN SharedId(u, rules)
    BY DEF SharedId
  <2>3. PICK u \in Worm : id = DerivedId(versions[id].by, u)
    BY <1>4, <2>1, <2>2 DEF Named
  <2>. QED  BY <2>3 DEF DerivedId
<1>5. ASSUME CatalogueInv, NEW id \in DOMAIN versions, NEW other \in DOMAIN versions,
             "target" \in DOMAIN id /\ "target" \in DOMAIN other,
             <<id.worm, id.policy>> = <<other.worm, other.policy>>
      PROVE  id = other
  BY <1>4, <1>5
<1>. HIDE DEF Settles
<1>6. CatalogueInv => RunsAgree
  BY <1>1, <1>3, <1>5 DEF RunsAgree, CatalogueInv
<1>. QED  BY <1>6, CatalogueInvariant, PTL

\* A run that fails was refused: the step that fails is the insert.
LEMMA FailureIsRefusal ==
  ASSUME CatalogueInv, [CatalogueNext]_catalogue, NEW r \in Run,
         run[r].at # "failed", run'[r].at = "failed"
  PROVE  AppendDerived(r) /\ run[r].at = "append"
<1>1. run' # run /\ run \in [Run -> RunState]
  BY DEF CatalogueInv, RunsHold
<1>2. ~ Requests /\ ~ UNCHANGED catalogue
  BY <1>1 DEF Requests, catalogue, PostVersion, BeginUpdate, CompareUpdate, AppendUpdate,
     BeginShare, AppendShare, ContinueNumber, ContinueAppend, PlayAgain
<1>3. PICK q \in Run : RunStep(q) \/ Stop(q)
  BY <1>2 DEF CatalogueNext
<1>4. ASSUME NEW x, run' = [run EXCEPT ![q] = x]
      PROVE  q = r /\ x.at = "failed"
  BY <1>1, <1>4
<1>5. ASSUME NEW state, NEW id
      PROVE  Settled(state, id).at # "failed"
  BY DEF Settled
<1>6. ~ LookUp(q)
  <2>1. SUFFICES ASSUME LookUp(q) PROVE FALSE
    OBVIOUS
  <2>2. PICK id, x :
          /\ run' = [run EXCEPT ![q] = x]
          /\ x \in {Settled(run[q], id), [run[q] EXCEPT !.at = "list"]}
    BY <2>1 DEF LookUp
  <2>3. [run[q] EXCEPT !.at = "list"].at = "list"
    BY <1>1 DEF RunState
  <2>4. x.at = "failed"
    BY <1>4, <2>2
  <2>5. Settled(run[q], id).at # "failed"
    BY <1>5
  <2>. QED  BY <2>2, <2>3, <2>4, <2>5
<1>7. ~ ListVersions(q)
  <2>1. SUFFICES ASSUME ListVersions(q) PROVE FALSE
    OBVIOUS
  <2>2. PICK x : run' = [run EXCEPT ![q] = x] /\ x.at = "append"
    BY <2>1 DEF ListVersions
  <2>. QED  BY <1>4, <2>2
<1>8. ~ (Restart(q) \/ Stop(q))
  <2>1. SUFFICES ASSUME run' = [run EXCEPT ![q] = Started] PROVE FALSE
    BY DEF Restart, Stop
  <2>2. Started.at = "look"
    BY DEF Started
  <2>. QED  BY <1>4, <2>1, <2>2
<1>9. AppendDerived(q)
  BY <1>3, <1>6, <1>7, <1>8 DEF RunStep
<1>10. q = r
  <2>1. \E x : run' = [run EXCEPT ![q] = x]
    BY <1>9 DEF AppendDerived
  <2>. QED  BY <1>4, <2>1
<1>. QED  BY <1>9, <1>10 DEF AppendDerived

\* A run of an experiment fails only because its number was taken since it listed the
\* brain, or because the brain has more versions than a page shows; never because of a
\* version that another run has stored for it (persistDerived, page).
THEOREM RunsFailOnlyForCause == CatalogueSpec => FailsOnlyForCause
<1>. DEFINE w(r)      == Derivation(r)[2]
            number(r) == versions[run[r].last].number + 1
            Cause(r)  ==
              /\ DerivedId(Derivation(r)[1], w(r)) \notin DOMAIN versions
              /\ number(r) \in NumberedIn(BrainOf(w(r)))
              /\ number(r) \notin run[r].listed \/ Cardinality(run[r].listed) > Page
<1>1. ASSUME CatalogueInv, [CatalogueNext]_catalogue, NEW r \in Run,
             run[r].at # "failed", run'[r].at = "failed"
      PROVE  Cause(r)
  <2>. DEFINE policy == Derivation(r)[1]
              id     == DerivedId(policy, w(r))
              last   == run[r].last
              v      == VersionOf(BrainOf(w(r)), number(r), last, Derived[policy][w(r)], policy)
  <2>1. AppendDerived(r) /\ run[r].at = "append" /\ run \in [Run -> RunState]
    BY <1>1, FailureIsRefusal DEF CatalogueInv, RunsHold
  <2>2. ASSUME NEW state, NEW name, run' = [run EXCEPT ![r] = Settled(state, name)]
        PROVE  FALSE
    BY <1>1, <2>1, <2>2 DEF Settled
  <2>3. ~ CanCreate(id, v) /\ id \notin DOMAIN versions
    BY <2>1, <2>2 DEF AppendDerived, FoundAfterRefusal
  <2>4. /\ RunHolds(run[r]) /\ run[r] \in RunState /\ w(r) \in Worm /\ policy \in Policy
    BY <1>1, <2>1, DerivationIs DEF CatalogueInv, RunsHold
  <2>5. /\ last \in DOMAIN versions /\ versions[last].brain = BrainOf(w(r))
        /\ \/ Cardinality(run[r].listed) > Page
           \/ \A n \in run[r].listed : n <= versions[last].number
    BY <2>1, <2>4 DEF RunHolds, Derivation
  <2>6. versions[last].number \in Nat
    BY <1>1, <2>5 DEF CatalogueInv, VersionsInv, VersionTypes
  <2>7. /\ v.number = number(r) /\ v.parent = last /\ v.brain = BrainOf(w(r))
    BY DEF VersionOf
  <2>8. number(r) \in NumberedIn(BrainOf(w(r)))
    <3>. HIDE DEF v, id
    <3>. QED  BY <2>3, <2>5, <2>6, <2>7 DEF CanCreate
  <2>9. number(r) \notin run[r].listed \/ Cardinality(run[r].listed) > Page
    <3>1. run[r].listed \in SUBSET Nat
      BY <2>4 DEF RunState
    <3>. QED  BY <2>5, <2>6, <3>1
  <2>. QED  BY <2>3, <2>8, <2>9
<1>2. CatalogueInv /\ [CatalogueNext]_catalogue =>
        [\A r \in Run : (run[r].at # "failed" /\ run'[r].at = "failed") => Cause(r)]_catalogue
  <2>. HIDE DEF Cause
  <2>. QED  BY <1>1
<1>3. CatalogueSpec => [][\A r \in Run :
        (run[r].at # "failed" /\ run'[r].at = "failed") => Cause(r)]_catalogue
  <2>. HIDE DEF Cause
  <2>. QED  BY <1>2, CatalogueInvariant, PTL DEF CatalogueSpec
<1>. QED  BY <1>3 DEF FailsOnlyForCause

=============================================================================
