---------------------------- MODULE BrainCatalogue ----------------------------
(***************************************************************************)
(* Brains and their versions, and those who write them at the same time:   *)
(* CreateBrainVersion and UpdateBrainVersion of internal/store/store.go,   *)
(* the routes of internal/server/server.go that call them, Persist of      *)
(* internal/sharing, deriveParticipants of internal/experiment and         *)
(* ContinueBrainVersion of internal/match.                                 *)
(*                                                                         *)
(* A version is immutable and has a number within its brain.  The insert   *)
(* is one transaction, but every writer chooses the number before it, from *)
(* what it read in queries of its own, and none of the routes takes the    *)
(* service's mutex.                                                        *)
(*                                                                         *)
(* A run is a process that executes one experiment's configuration; it may *)
(* stop at any point and be started again.                                 *)
(***************************************************************************)
EXTENDS Sharing, Sequences

CONSTANTS Brain,
          Source,        \* Source[w]: the version worm w is a source with
          First,         \* the versions the catalogue begins with, by identifier
          Updater,       \* requests that update a version
          Sharer,        \* requests that share
          Pupil,         \* slots of matches that go on from the version they play
          Plays,         \* Plays[p]: the version slot p begins with
          Run,           \* runs of the experiment
          Derivations,   \* the <<policy, recipient>> of the experiment, in order
          Page,          \* the longest page the store returns for a limit out of range
          Posted,        \* the <<brain, number, parent>> that clients post
          Shared,        \* the <<policy, recipients, brain>> that are shared
          MaxRequests    \* the bound on requests of clients and stops of a run

NoVersion == [none |-> "no version"]
Fresh(n)  == [fresh |-> n]               \* newID

ASSUME CatalogueAssumption ==
  /\ \A w \in Worm : Source[w] \in DOMAIN First
  /\ IsFiniteSet(DOMAIN First)
  /\ DOMAIN First \subseteq {Fresh(n) : n \in 0 .. Cardinality(DOMAIN First) - 1}
  /\ \A id \in DOMAIN First :
       /\ First[id].brain \in Brain /\ First[id].rules \in Table
       /\ First[id].number \in Nat /\ First[id].by = "post"
  /\ Derivations \in Seq(Policy \X Worm) \ {<<>>}
  /\ \A p \in Posted : p[1] \in Brain /\ p[2] \in Int
  /\ Plays \in [Pupil -> DOMAIN First]
  /\ Shared \subseteq Policy \X (Seq(Worm) \ {<<>>}) \X Brain
  /\ {Page, MaxRequests} \subseteq Nat

VARIABLES
  versions,    \* brain_versions, by identifier
  updater,     \* the requests under way ...
  sharer,
  pupil,       \* the version each slot plays, and the number chosen for its child
  run,         \* ... and the runs of the experiment
  budget       \* what is left of MaxRequests

catalogue == <<versions, updater, sharer, pupil, run, budget>>

------------------------------------------------------------------------------
(* The store.                                                              *)

NumberedIn(b) == {versions[id].number : id \in {i \in DOMAIN versions : versions[i].brain = b}}

\* Fault: the pair of brain and number is not unique.
CanCreateTwins(id, v) ==
  /\ id \notin DOMAIN versions
  /\ v.number > 0
  /\ v.parent # NoVersion =>
       v.parent \in DOMAIN versions /\ versions[v.parent].brain = v.brain

\* CreateBrainVersion and the table's keys: what the transaction commits.
CanCreate(id, v) ==
  /\ id \notin DOMAIN versions
  /\ v.number > 0
  /\ v.number \notin NumberedIn(v.brain)
  /\ v.parent # NoVersion =>
       v.parent \in DOMAIN versions /\ versions[v.parent].brain = v.brain

Create(id, v) ==
  versions' = [i \in DOMAIN versions \cup {id} |-> IF i = id THEN v ELSE versions[i]]

VersionOf(b, number, parent, rules, by) ==
  [brain |-> b, number |-> number, parent |-> parent, rules |-> rules, by |-> by]

\* ListBrainVersions in the order of the numbers, one page from the start.
Listed(b, limit) ==
  {id \in DOMAIN versions :
     /\ versions[id].brain = b
     /\ Cardinality({n \in NumberedIn(b) : n < versions[id].number}) < limit}

\* The highest number of a set of versions, or NoVersion.
Highest(ids) ==
  IF ids = {} THEN NoVersion
  ELSE CHOOSE id \in ids : \A other \in ids : versions[other].number <= versions[id].number

\* The sources' versions are immutable, so what is derived from them is too.
SourceTables == [w \in Worm |-> First[Source[w]].rules]
BrainOf(w)   == First[Source[w]].brain
Derived      == [policy \in Policy |-> [w \in Worm |-> Derive(policy, SourceTables, w)]]

IdleUpdate   == [at |-> "idle", base |-> NoVersion]
IdleShare    == [at |-> "idle", brain |-> "none", todo |-> <<>>, last |-> NoVersion]
Started      == [at |-> "look", done |-> <<>>, last |-> NoVersion, listed |-> {}]

CatalogueInit ==
  /\ versions = First
  /\ updater = [u \in Updater |-> IdleUpdate]
  /\ sharer = [s \in Sharer |-> IdleShare]
  /\ pupil = [p \in Pupil |-> [at |-> "idle", version |-> Plays[p], number |-> 0]]
  /\ run = [r \in Run |-> Started]
  /\ budget = MaxRequests

------------------------------------------------------------------------------
(* The routes.                                                             *)

\* POST versions: the client names the number and the parent.
PostVersion(b, number, parent) ==
  LET id == Fresh(Cardinality(DOMAIN versions))
      v  == VersionOf(b, number, parent, <<>>, "post")
  IN  /\ budget > 0
      /\ CanCreate(id, v)
      /\ Create(id, v)
      /\ budget' = budget - 1
      /\ UNCHANGED <<updater, sharer, pupil, run>>

\* PUT versions: the base is read ...
BeginUpdate(u, id) ==
  /\ updater[u].at = "idle"
  /\ budget > 0
  /\ updater' = [updater EXCEPT ![u] = [at |-> "compare", base |-> id]]
  /\ budget' = budget - 1
  /\ UNCHANGED <<versions, sharer, pupil, run>>

IsCurrent(id) == \A n \in NumberedIn(versions[id].brain) : n <= versions[id].number

\* ... compared with the highest number, and refused if there is a newer one ...
CompareUpdate(u) ==
  /\ updater[u].at = "compare"
  /\ updater' = [updater EXCEPT ![u] =
       IF IsCurrent(@.base) THEN [@ EXCEPT !.at = "append"] ELSE IdleUpdate]
  /\ UNCHANGED <<versions, sharer, pupil, run, budget>>

\* ... and its child is inserted, if the number is still free.
AppendUpdate(u) ==
  LET base == versions[updater[u].base]
      id   == Fresh(Cardinality(DOMAIN versions))
      v    == VersionOf(base.brain, base.number + 1, updater[u].base, <<>>, "update")
  IN  /\ updater[u].at = "append"
      /\ IF CanCreate(id, v) THEN Create(id, v) ELSE UNCHANGED versions
      /\ updater' = [updater EXCEPT ![u] = IdleUpdate]
      /\ UNCHANGED <<sharer, pupil, run, budget>>

------------------------------------------------------------------------------
(* Persist: the service writes the table of one recipient into its brain, a   *)
(* caller of the library those of all recipients into any one.               *)

\* The identifier names the recipient's label and the rules, not the brain.
SharedId(w, rules) == [label |-> w, rules |-> rules]

\* The tables are derived and the latest version of the target is read.
BeginShare(s, policy, recipients, b) ==
  /\ sharer[s].at = "idle"
  /\ budget > 0
  /\ sharer' = [sharer EXCEPT ![s] =
       [at    |-> "append",
        brain |-> b,
        todo  |-> [i \in DOMAIN recipients |->
                     <<recipients[i], policy, Derived[policy][recipients[i]]>>],
        last  |-> Highest({id \in DOMAIN versions : versions[id].brain = b})]]
  /\ budget' = budget - 1
  /\ UNCHANGED <<versions, updater, pupil, run>>

\* A child of the last one; the first refusal ends the request.
AppendShare(s) ==
  LET next == Head(sharer[s].todo)
      id   == SharedId(next[1], next[3])
      last == sharer[s].last
      v    == VersionOf(sharer[s].brain,
                        IF last = NoVersion THEN 1 ELSE versions[last].number + 1,
                        last, next[3], next[2])
      ok   == CanCreate(id, v)
  IN  /\ sharer[s].at = "append"
      /\ IF ok THEN Create(id, v) ELSE UNCHANGED versions
      /\ sharer' = [sharer EXCEPT ![s] =
           IF ok /\ Len(@.todo) > 1
           THEN [at |-> "append", brain |-> @.brain, todo |-> Tail(@.todo), last |-> id]
           ELSE IdleShare]
      /\ UNCHANGED <<updater, pupil, run, budget>>

------------------------------------------------------------------------------
(* ContinueBrainVersion: a match saves what a slot has been taught as a child  *)
(* of the version the slot plays, which need not be the latest.                *)

\* nextBrainVersion: one more than the highest number on a page.
ContinueNumber(p) ==
  LET b     == versions[pupil[p].version].brain
      found == Listed(b, Page)
  IN  /\ pupil[p].at = "idle"
      /\ budget > 0
      /\ pupil' = [pupil EXCEPT ![p] =
           [at |-> "append", version |-> @.version,
            number |-> IF found = {} THEN 1 ELSE versions[Highest(found)].number + 1]]
      /\ budget' = budget - 1
      /\ UNCHANGED <<versions, updater, sharer, run>>

\* The slot plays the child from now on; a refused insert changes nothing.
ContinueAppend(p) ==
  LET parent == pupil[p].version
      id     == Fresh(Cardinality(DOMAIN versions))
      v      == VersionOf(versions[parent].brain, pupil[p].number, parent, <<>>, "match")
      ok     == CanCreate(id, v)
  IN  /\ pupil[p].at = "append"
      /\ IF ok THEN Create(id, v) ELSE UNCHANGED versions
      /\ pupil' = [pupil EXCEPT ![p] =
           [at |-> "idle", version |-> IF ok THEN id ELSE parent, number |-> 0]]
      /\ UNCHANGED <<updater, sharer, run, budget>>

\* The match is finished and a SAME worm plays the slot again: hydrateSAME takes the
\* version from the participants of the newest finished game, and those still name the
\* version that the game was created with.  The child is not forgotten, but not played.
PlayAgain(p) ==
  /\ pupil[p].at = "idle"
  /\ pupil[p].version # Plays[p]
  /\ pupil' = [pupil EXCEPT ![p].version = Plays[p]]
  /\ UNCHANGED <<versions, updater, sharer, run, budget>>

------------------------------------------------------------------------------
(* The experiment: deriveParticipants.                                     *)

Derivation(r) == Derivations[Len(run[r].done) + 1]

\* Fault: the identifier names the recipient only.
DerivedIdOfTarget(policy, w) ==
  [brain |-> BrainOf(w), target |-> Source[w], policy |-> "any", worm |-> w, rules |-> <<>>]

\* The identifier of a derived version: the brain, the recipient's version, the
\* policy, the rules, the lineage and the provenance, all of them determined by
\* the policy and the recipient.
DerivedId(policy, w) ==
  [brain |-> BrainOf(w), target |-> Source[w], policy |-> policy, worm |-> w,
   rules |-> Derived[policy][w]]

\* The derivation under way is settled with a version, and the next one begins.
Settled(state, id) ==
  LET done == Append(state.done, id)
  IN  [at |-> IF Len(done) = Len(Derivations) THEN "done" ELSE "look",
       done |-> done, last |-> NoVersion, listed |-> {}]

\* The version may be there from an earlier run; it is verified and used.
LookUp(r) ==
  LET id == DerivedId(Derivation(r)[1], Derivation(r)[2])
  IN  /\ run[r].at = "look"
      /\ run' = [run EXCEPT ![r] =
           IF id \in DOMAIN versions THEN Settled(@, id) ELSE [@ EXCEPT !.at = "list"]]
      /\ UNCHANGED <<versions, updater, sharer, pupil, budget>>

\* Fault: only the recipient's own version is looked at.
LatestIsBase(w) == Source[w]

\* The latest of the recipient's version and of one page of its brain's versions:
\* the limit that is asked for is out of range.
Latest(w) == Highest({Source[w]} \cup Listed(BrainOf(w), Page))

ListVersions(r) ==
  /\ run[r].at = "list"
  /\ run' = [run EXCEPT ![r] =
       [at |-> "append", done |-> @.done, last |-> Latest(Derivation(r)[2]),
        listed |-> NumberedIn(BrainOf(Derivation(r)[2]))]]
  /\ UNCHANGED <<versions, updater, sharer, pupil, budget>>

\* Fault: a refused insert is an error, whoever was faster.
FoundAfterRefusalNever(id) == FALSE

FoundAfterRefusal(id) == id \in DOMAIN versions

\* The insert, and after a refusal another look for the same version.
AppendDerived(r) ==
  LET policy == Derivation(r)[1]
      w      == Derivation(r)[2]
      id     == DerivedId(policy, w)
      v      == VersionOf(BrainOf(w), versions[run[r].last].number + 1, run[r].last,
                          Derived[policy][w], policy)
  IN  /\ run[r].at = "append"
      /\ IF CanCreate(id, v)
         THEN Create(id, v) /\ run' = [run EXCEPT ![r] = Settled(@, id)]
         ELSE /\ UNCHANGED versions
              /\ run' = [run EXCEPT ![r] = IF FoundAfterRefusal(id) THEN Settled(@, id)
                                           ELSE [Started EXCEPT !.at = "failed"]]
      /\ UNCHANGED <<updater, sharer, pupil, budget>>

\* A run that failed is started again.
Restart(r) ==
  /\ run[r].at = "failed"
  /\ run' = [run EXCEPT ![r] = Started]
  /\ UNCHANGED <<versions, updater, sharer, pupil, budget>>

\* A run stops, and is started again from the beginning.
Stop(r) ==
  /\ budget > 0
  /\ run[r].at # "failed"
  /\ run' = [run EXCEPT ![r] = Started]
  /\ budget' = budget - 1
  /\ UNCHANGED <<versions, updater, sharer, pupil>>

------------------------------------------------------------------------------

Requests ==
  \/ \E p \in Posted : PostVersion(p[1], p[2], p[3])
  \/ \E u \in Updater :
       (\E id \in DOMAIN versions : BeginUpdate(u, id)) \/ CompareUpdate(u) \/ AppendUpdate(u)
  \/ \E s \in Sharer :
       \/ \E x \in Shared : BeginShare(s, x[1], x[2], x[3])
       \/ AppendShare(s)
  \/ \E p \in Pupil : ContinueNumber(p) \/ ContinueAppend(p) \/ PlayAgain(p)

RunStep(r) == LookUp(r) \/ ListVersions(r) \/ AppendDerived(r) \/ Restart(r)

CatalogueNext == Requests \/ \E r \in Run : RunStep(r) \/ Stop(r)

\* A run that has begun goes on, and one that failed is started again.
CatalogueSpec ==
  CatalogueInit /\ [][CatalogueNext]_catalogue /\ \A r \in Run : WF_catalogue(RunStep(r))

------------------------------------------------------------------------------
(* Properties.                                                             *)

Appended(id) == versions[id].by # "post"

\* Whatever the writers read and whenever they insert, no number of a brain is used
\* twice, and what updates, shares and runs append forms lines: a version has the
\* number after its parent's, and one without a parent is the first of its brain.  So
\* of two updates of one version only one succeeds, and neither overwrites what the
\* other saved.  Only a match may branch, from the version it plays to a later one,
\* or, in a brain with more versions than a page shows, to a number that was left out.
AppendsNeverFork ==
  \A id \in DOMAIN versions \ DOMAIN First : Appended(id) =>
    LET v == versions[id] IN
      /\ IF v.parent = NoVersion THEN v.number = 1
         ELSE /\ versions[v.parent].brain = v.brain
              /\ \/ versions[v.parent].number + 1 = v.number
                 \/ /\ v.by = "match"
                    /\ \/ versions[v.parent].number < v.number
                       \/ Cardinality(NumberedIn(v.brain)) > Page
      /\ \A other \in DOMAIN versions \ {id} :
           <<versions[other].brain, versions[other].number>> # <<v.brain, v.number>>

\* Every rule of a derived table has a source that the policy allows: the
\* recipient, a worm of its own team, any worm, or a rule that the seed corrupts;
\* and no key of the recipient is lost.
RulesHaveASource ==
  \A id \in DOMAIN versions : versions[id].by \in Policy =>
    LET w     == IF "label" \in DOMAIN id THEN id.label ELSE id.worm
        by    == versions[id].by
        rules == versions[id].rules
        own(k)     == k \in DOMAIN SourceTables[w] /\ rules[k] = SourceTables[w][k]
        from(v, k) == k \in DOMAIN SourceTables[v] /\
                        \/ rules[k] = SourceTables[v][k]
                        \/ /\ by = "seeded_noisy" /\ <<w, v, k>> \in Noise
                           /\ rules[k] \in 0 .. 5
    IN  /\ DOMAIN SourceTables[w] \subseteq DOMAIN rules
        /\ \A k \in DOMAIN rules :
             \/ own(k)
             \/ by \in {"all_worms", "seeded_noisy"} /\ \E v \in Worm : from(v, k)
             \/ /\ by = "same_team" /\ TeamOf[w] # Teamless
                /\ \E v \in Worm : TeamOf[v] = TeamOf[w] /\ from(v, k)

\* Runs of one experiment, at the same time or again after a stop, end with the
\* same versions: each recipient plays a version of its own brain with the table
\* the policy gives it, and nothing is derived twice.
RunsAgree ==
  /\ \A r, q \in Run : run[r].at = "done" /\ run[q].at = "done" => run[r].done = run[q].done
  /\ \A r \in Run : \A i \in DOMAIN run[r].done :
       LET id == run[r].done[i]
           w  == Derivations[i][2]
       IN  /\ id \in DOMAIN versions
           /\ versions[id].brain = BrainOf(w)
           /\ versions[id].by = Derivations[i][1]
           /\ versions[id].rules = Derive(Derivations[i][1], SourceTables, w)
  /\ \A id, other \in DOMAIN versions :
       (/\ "target" \in DOMAIN id /\ "target" \in DOMAIN other
        /\ <<id.worm, id.policy>> = <<other.worm, other.policy>>) => id = other

\* A run fails only for a reason: the version it wants is not there, and its number
\* was taken since the run listed the brain's versions, or there are more of them
\* than a page shows.
FailsOnlyForCause ==
  [][\A r \in Run : (run[r].at # "failed" /\ run'[r].at = "failed") =>
       LET w      == Derivation(r)[2]
           number == versions[run[r].last].number + 1
       IN  /\ DerivedId(Derivation(r)[1], w) \notin DOMAIN versions
           /\ number \in NumberedIn(BrainOf(w))
           /\ number \notin run[r].listed \/ Cardinality(run[r].listed) > Page
    ]_catalogue

\* Every run gets all its versions in the end, whoever writes beside it, unless a
\* brain has more versions than a page shows.
RunsComplete ==
  \A r \in Run : <>(\/ run[r].at = "done"
                    \/ \E b \in Brain : Cardinality(NumberedIn(b)) > Page)

=============================================================================
