# Worms NG: verification project

TLA+ modules for Worms NG, model-checked with TLC; the turn engine and its replay, the
extension, the game service with its exports, the client's request control, the match,
the tournament with its experiment and the catalogue of brains are also proved about
with TLAPS. Every definition is translated from the Go source;
`PROJECT.json` says which lines each one stands for, which run checks which
property, which fault of the code each property would catch, and which theorems
are proved.

- [1. The system](#1-the-system): parts, state, operations, interactions, hazards
- [2. The modules](#2-the-modules): what models what, and how
- [3. The runs](#3-the-runs): what each checks, its bounds, its fairness
- [4. The proofs](#4-the-proofs)
- [5. Where the code disagrees with its documentation](#5-where-the-code-disagrees-with-its-documentation)
- [6. What is not modelled](#6-what-is-not-modelled)
- [7. Plan](#7-plan)

## 1. The system

One Go process serves a browser client, external agents and a command line over
HTTP; it owns a SQLite database through one connection. Everything about a game
is decided by a deterministic engine.

| part | state | operations | hard behaviour | what makes it correct |
|---|---|---|---|---|
| **engine** `internal/engine` | board, trails, territories with a cached mask and an owner, worms with a rule table, scan position, pending decision, events | `AdvanceRound`, `Submit`, `Step`, `Validate`, `Replay` | a question interrupts the scan of the slots; roll-back of a failed round; caches refreshed in two places only; wrap-around | slots in order and once a round, decisions that describe the present, fresh masks, scores that match the board, nothing undone, every game ends, events that reproduce the state |
| **store** `internal/store` | rows of games, a hash chain of events, snapshots, brains and versions | append with compared head, status update, completion, verification | reads in several queries beside writers; retries | the chain only grows until the row is terminal |
| **game service** `internal/server` | the mutex, the request in progress | act, teach, tick, resign, pause, abort, plan, resume | two transactions for the last event; a resume without the mutex; clients that repeat | a request takes effect once; answers belong to their row; a finished game is recorded |
| **client** `internal/ui` | three atomic flags, the view | pause, abort, move, plan, tick, open a game | intents that arrive while a request is out | one request at a time; no intent lost; the last press wins |
| **agent sessions** `internal/agent` | the pending decision, its deadline, resolved decisions | begin, submit, time out, disconnect, close | late, duplicate, stale answers | what is accepted is what is played |
| **match** `internal/match` | a game in memory and its stored copy, the deadline | advance, submit, resolve, stop, resume | refused writes, crashes, deadlines across restarts | memory equals store; one outcome per decision; deadlines are kept |
| **tournament** `internal/tournament` | a row per match with a report | run, resume | a crash between two writes; the turn cap across restarts | the row says what the game says, counts are right, an interrupted match resumes, the round ends |
| **experiment** `internal/experiment` | a definition, held-out results, the result in the match's row | run, run again | a second write to a row that another component owns; two definitions under one identifier | every report tells the stored game; whoever keeps asking gets one |
| **extension** `internal/extension` | the engine's state with weights, energy, temporary and one-way trails, teams | the engine's turn loop with rules of its own | three score counters, expiry inside a scan, a world drawn again at every load, snapshots that must load again | the counters agree, only expiry takes back, questions have answers |
| **brains, sharing** `internal/store`, `internal/sharing` | immutable versions with parents and numbers | post, update, share, derive for an experiment, save what a match taught | numbers chosen outside the transaction, listings cut to a page | no fork among appended versions, rules with a source, runs that agree |
| **diagnostics** `internal/debug` | a document | export, redact, validate, restore, replay | three queries without a transaction beside the writer | the copy is a piece of the game's history, or is refused |
| board generation, planner, protocol, policies, rendering | none that lasts | pure computations and projections | | not modelled |

Interactions: the service and the match call the engine under a lock of their
own and store every result with the head they read; a match asks a controller,
which may be a session that outsiders can reach; a tournament drives matches and
keeps a row about each, and an experiment drives a tournament and writes into the
same row; clients, shares, experiments and matches append versions to the same
brains; the diagnostic reader opens the file the service is writing to; the client
names in each request the head of the last
answer it saw. `PROJECT.json` lists the hazards of this code line by line, each
with the property that would catch it or with the reason why none does yet.

## 2. The modules

A state of the engine is a Go value, and so it is here: `WormsEngine` defines
operators from a state to the set of states an operation may return. The set is
empty when the operation returns an error, which leaves the value as it was; it
has several members only where the code breaks a tie with its generator. The
modules above the engine call these operators as the code calls the functions.

| module | models | extends |
|---|---|---|
| `Lattice` | the two boards: neighbours on a torus of even height with alternating rows, and on a bounded axial board | |
| `WormsEngine` | `controller.go`, `engine.go`: variable `game` is a `State` | `Lattice` |
| `EngineReplay` | `Replay`: a second state fed with the events of the first | `WormsEngine` |
| `WormsEngineProofs` | theorems on the boards and the engine | `WormsEngine` |
| `ReplayProofs` | theorems on the replay | `EngineReplay`, `WormsEngineProofs` |
| `ExtensionProofs` | theorems on the extension | `Extension`, `WormsEngineProofs` |
| `ServiceProofs` | theorems on the service, its resumes and its exports | `Diagnostics`, `WormsEngineProofs` |
| `ShellProofs` | theorems on the client | `ShellActions` |
| `MatchProofs` | theorems on the match | `Match`, `WormsEngineProofs` |
| `ExperimentProofs` | theorems on the tournament and the experiment | `Experiment`, `MatchProofs` |
| `CatalogueProofs` | theorems on the brains' versions and their writers | `BrainCatalogue` |
| `GameStore` | the rows of one game as a value, its transactions as operators | |
| `GameLog` | **abstract**: a list of events that only grows until it is closed | |
| `GameService` | `gameOperation`, `planGame`, `getGame`: clients, a handler, a reader | `WormsEngine`, `GameStore` |
| `ShellActions` | `finishAction` and the goroutines around it, one step per atomic operation | |
| `AgentSession` | a session as a value, the methods of `SessionManager` as operators | |
| `Diagnostics` | `debug.go`: export beside the service, validation, restore, replay | `GameService` |
| `Match` | a match, its stored copy, a session, outsiders, time, crashes | `WormsEngine`, `AgentSession` |
| `Tournament` | one round: `Run` and `runRound`, step by step | `Match` |
| `HeldOut` | `RunHeldOut`: training and held-out evaluation as operators | |
| `Experiment` | `Run` and `runPolicy` around a tournament, called again and again | `Tournament`, `HeldOut` |
| `Extension` | `extension.go`: variable `game` holds the engine's state in its field `base`, and the extension's fields | `WormsEngine` |
| `ExtendedGame` | the service's operations on an extended game | `Extension` |
| `Sharing` | `Derive` as an operator on tables | |
| `BrainCatalogue` | the versions and all who append them, query by query | `Sharing` |
| `MCEngine`, `MCService`, `MCShell`, `MCMatch`, `MCExperiment`, `MCExtension`, `MCCatalogue` | instances for TLC | |

**Engine.** The fields of `State` are those of the record: `tick`, `round`,
`slot` (`ActiveSlot`, `None` for -1), `pending`, `over`, `trails` (by edge),
`cached` and `owner` (`Territory.Mask`, `Territory.Owner`), `alive`, `pos`,
`rules`, `score`, `events`, and `seq`, the length of the event list so far. The
list itself is kept only for the handler in progress (`Quiet` empties it), because
it would otherwise make every state different; `EngineReplay` feeds on it before it
is dropped. `Visit` is one iteration of the loop of `AdvanceRound`, `Dispatch` the
choice by the rule table, `Step` the move with its two calls of `recolorCapture`,
`EndRound` the lines after the loop. A WILD, SAME or NAMED worm brings a complete
table (`Table`); the tie-break among AUTO's best moves is nondeterministic. Two
actions are the two handlers that callers use: `AdvanceRound` and `Answer`
(`Submit` with some legal direction).

**Game service.** `gameOperation` holds a mutex from the first read to the answer,
so a request is one step up to the append (`Store`) or the change of status
(`SetStatus`), a second step for the completion (`Finish`), and a last one in which
the client sees the answer (`Receive`) — or does not, after `Crash`, in which case
it sends the same request again. `GET resume` takes no mutex, and each of its
queries is a step (`ReadRow`, `ReadHead`, `ReadChain`, `ReadSnapshot`, `EndRead`).
The hash of an event covers its predecessor's, so the head is represented by the
whole chain. `GameLog` is implemented: `GameService!LogOnlyGrows` is
`GameLog!LogSpec` with `log <- db.chain`, `closed <- db.status \in Terminal`. `Handle` reads as
`gameOperation` does: the row, the conditions, the outcomes of the engine, the write.

**Diagnostics.** `wormsctl diagnostic export` is a second, read-only connection: the
row, the events and the snapshot are three queries and three steps, and requests of the
service fall between them. What follows (redaction, validation, restore, replay) works
on the document and on an empty database, and is one step with the last query. The
redaction chains the events anew and gives the row the new hash, and keeps the row's
sequence, which is what the validation then compares. The replay keeps nothing of the state
it reaches: what it tells the caller is whether one could be reached, and so do the two ends
of the model's reader (`replayed`, `unreadable`). One reader is out at a time, a
resume or an export: neither writes, so neither can see the other. Participants are no
part of the document: they change at the completion only, and that never succeeds
(`service_completion`). `docs/brain-debug.md` advises a backup or a quiet database;
`CopyIsHistory` says what happens without.

**Client.** Each load, store, swap and compare-and-swap of the three flags is a
step, as are sending a request and its return. The event thread interleaves with
the goroutines. A request is carried out, refused, or carried out with its answer
lost.

**Match and session.** The match's mutex is held through the call of a controller,
so a method in progress is a phase (`calling`, `waiting`, `replied`) of `memory`.
`Persist` is the one place where `game`, `stored` and `outcomes` change, and where
a write may be refused: the method then restores what it had. Time is one bit per
deadline: `none`, `ahead`, `passed`. `Outsider` calls any method of the session
between any two steps. `Crash` forgets `memory` and the session; `ResumeMatch` reads
both back.

**Tournament and experiment.** `runner.at` is the line `runRound` is at, `row` the row
of `tournament_matches`, and every write may be refused or be the last before a crash: the
row's, the match's, and the two by which `NewMatch` creates a game and stores its first
snapshot. `HasSnapshot` says whether there is one to resume from; a game without one is
found by the next `NewMatch`, which then writes nothing.
`Tournament` has no specification of its own: it is what `Experiment` calls. There
`run` is where `Run` is and what it holds in memory: the phase of the planner, the row
of the tournament with the definition (`Ensure`), the row of the match, the runner, and
`AugmentStoredMatch`, the second writer of that row. A run may start under the right
definition, under another one with the same identifier, or under one whose seeds
overlap; every one of its writes may be refused, and it may stop anywhere and be started
again. One process, one policy and one board; definitions other than `Own` are tried
once each, after `Own` is stored.

**Extension.** The code's state embeds the engine's as `Base`, and so does the record
here: its field `base` is a state of `WormsEngine`, whose operators stand for the calls
on `Base`. What dots count together is a cardinality (`Total`: the dots, each as often
as its weight says), so that no recursive sum is needed. `Apply` is the whole move:
the engine's step, the weights, the teams, energy, the trail's expiry, and `Expire` of
the trails that are due. Obstacles and holes are two marks of a dot in `barred`.
`LoadsAgain` is what `UnmarshalSnapshot` asks of a stored state: the checks of `Validate`
and `validateVariant` (`ValidVariant`), no living worm that is boxed in (`BoxedIn`), and a
world that `New`, run again on the stored base, draws as it is stored (`SameWorld`). The
configuration's `seed` is the sequence of draws that the generator makes of it, one for each
dot that `generateWorld` does not pass over, so a world is a function of the dots it passes
over (`World`, `Reserved`); at a reload
`initialPositions` takes those from the first moves on record (`moved`) and from the
positions of the living. `ExtendedGame` puts those operations
behind the service, where every request, abort included, begins with a load.

**Brains.** A version is immutable and an insert is one transaction with unique keys;
what can go wrong is between the queries that choose a number and the insert, and each
of those is a step. `BrainCatalogue` has every writer of the repository: clients that
post a version, `UpdateBrainVersion`, `sharing.Persist` (with `DeriveFromStore` before
it), `deriveParticipants` of an experiment, which looks up, lists a page, and appends,
and `ContinueBrainVersion` of a match that saves what it was taught. `PlayAgain` is the
next game of a SAME worm: it takes the version of the participants' rows, which still
name the one the game was created with, so a taught child is not what it plays. The
fallback number from the clock, when the listing fails, is left out.

**Fault operators.** Definitions marked `Fault:` are not part of the model. Each is
a variant of a definition with a plausible bug (a dropped comparison, a missing
reset, a swapped order), and `PROJECT.json` names for every property the one that
breaks it: no property here holds whatever the code does.

## 3. The runs

States are the distinct states of the instance below; a run takes between ten seconds
and a minute and a half with two workers.

| run | instance | states | what it shows |
|---|---|---|---|
| `engine_torus` | classic 2 x 4, slots NEW, WILD, AUTO, SAME | 9 201 | the engine's invariants, replay and termination over whole games |
| `service` | 2 x 2, three worms, two clients, a reader, an export, a crash | 271 887 (up to symmetry of the clients) | at-most-once, consistent resumes, a sound board under out-of-turn moves, a log that only grows, exports that are history |
| `extension` | modern 3 x 3, a taught and a WILD worm, four configurations | 9 609 | counters that agree, two reasons not to load, expiry, energy, answerable questions, one reason to stall |
| `catalogue` | two brains, three sources, two runs, two updates, a share, a match, a page of four | 80 223 | no forks, rules with a source, runs that agree, fail for cause and complete |
| `shell` | two goroutines beside the event thread | 100 124 | one owner, no stranded intent, the last press wins, every intent served |
| `match` | 2 x 2, the worms of a session, a policy and a human, outsiders, one crash, one refused write | 50 538 | one outcome per decision, kept deadlines, accounted deaths, memory equals store |
| `experiment` | 2 x 2, cap 4, two reports, one stop, one refused write, two other definitions | 464 475 | a row that says what the game says, final and capped, counted outcomes, reports that tell the game, and one way not to get them |
| `engine_modern_stall`, `service_stale`, `service_completion`, `extended_abort`, `experiment_stopped` | | | violations, see section 5 |

What the properties say:

- *Engine.* `StateValidates`: every state returned passes `Validate`, so a stored
  snapshot can be loaded again. `CachedMasksAreFresh`: the mask cached in a
  territory is the one the trails give. `SlotOrder`: by counting trails, a living
  worm has made exactly the moves of the turns served. `PendingIsCurrent`: the
  worm that is asked lives, sees the pattern it asked about and has an answer.
  `OverAfterWholeScan`: the game is over when a scan ends with nobody alive.
  `Permanent`: no trail, completed territory, death or learned rule is taken back.
  `GameEnds`: every game ends. `ReplayReproducesState`: after every handler the
  replayed state is the state.
- *Service.* `AtMostOnce`: a repeated request appends one event at most, also when a
  crash swallowed the answer and another client wrote in between.
  `ResumeAnswersTheRow`: the state in a resume's answer belongs to the row in it.
  `BoardStaysSound`: `act` may move any worm at any time; masks and scores still
  agree with the trails. `LogOnlyGrows`: the refinement of `GameLog`.
- *Diagnostics.* `CopyIsHistory`: an export taken beside the writers is refused only
  when the game has moved on since its row was read; otherwise its events begin the
  chain, a closed game is whole, and the document replays unless the very state of its
  last event does not load: a snapshot in it that is newer does not matter.
- *Extension.* `RefusedOnlyForCause`: base, weighted and team scores tell one story
  whatever is captured, lost and captured again, and a stored state loads, with two
  exceptions that section 5 is about: a living worm is boxed in, or a worm of a generated
  world died where it started. `ExpiryFreesBothEnds`, `OnlyExpiryTakesBack`:
  an expired trail is forgotten at both dots, and nothing else is taken back.
  `EnergyIsPaidPerTurn`: one unit per turn, whichever path found the move.
  `QuestionIsAnswerable`: a decision survives the expiries before it.
  `StallNeedsAnIllegalRule`: only a remembered direction that a wall, a one-way edge,
  the border or a worm closes can stop a game.
- *Brains.* `AppendsNeverFork`: what updates, shares, runs and matches append forms lines
  and no number is used twice; only a match that saves what it was taught may branch, to a
  later number, or, in a brain with more versions than a page shows, to one that is free. `RulesHaveASource`: a derived rule is the recipient's, an
  allowed donor's, or one the seed corrupts. `RunsAgree`: two runs of an experiment end
  with the same versions. `FailsOnlyForCause`, `RunsComplete`: a run fails only when its
  number was taken since it listed, or the brain has more versions than a page shows,
  and otherwise completes when it is started again.
- *Client.* `OneOwner`, `NothingStranded`, `LastPauseWins`, `IntentsAreServed`: at most
  one goroutine owns the action flag, an intent that is recorded has somebody who will
  look at it, is served in the order of the presses, and is served.
- *Match.* `MemoryIsStored`: after any method, failed or not, the game in memory is
  the one that `ResumeMatch` would bring back, and so is its deadline if one is stored. `OneOutcomePerDecision`,
  `DeathsAreAccounted` (deaths in the middle of a round included), `DeadlineIsKept` (a
  decision whose deadline passed is never accepted, restart or not),
  `PlaysWhatWasAccepted` (whoever answered the session).
- *Tournament and experiment.* `TerminalRowIsTrue`: a row that is reported as finished
  or stopped is about a game that is over and has its scores; a stopped one has no winners,
  a finished one the leaders of a game that was played to its last death, or of one that
  was stopped by a run that did not come as far as the row (section 5). `FinishedIsFinal`: nothing
  changes it afterwards, the experiment's own write into it included.
  `OutcomesAreCounted`: an interruption loses a count at most. `CapHolds`: the cap on
  turns across restarts. `ReportsTellTheGame`: every report, of whichever run, is given
  under the stored definition, of the terminal game, with an evaluation on tables that
  no training touched. `ExperimentCompletes`: no stop, refused write or foreign
  definition leaves something on which every later run fails, but for a match that was
  interrupted twice before its first turn (`Stranded`, section 5).

**Bounds, and why they are enough.** `MaxTick = 100` never binds: a torus of 2 x 4
has 20 trails (4 within rows, where east and west lead to the same dot, and 16 between
rows) and a 3 x 3 board 16, and every move takes one. On 2 x 4 the rows above and
below a dot are different ones, both row offsets and both seams are crossed, and double
captures and the death of several worms in one scan occur; that a spoke and its
opposite agree on wider and higher boards is what `OppositeLeadsBack` proves.
2 x 2 still wraps in both directions, and pairs of dots there share several
spokes, so dots fill up after few moves. The engine's runs follow every game to
its end. In the service `MaxEvents = 2` (3 in `service_stale`) bounds the chain,
which is enough for a request, a lost answer, another client's write and the
repetition, and for an export that begins before a write and ends after it, with a newer
snapshot or without; `MoveDir` bounds the directions clients send (the engine is explored
in full elsewhere), `PauseStatus` the status that pause is asked for. In the client
`Worker` bounds the goroutines that run at once: two can collide, and a third would
find the flag taken like the second. `Reply` bounds what is answered for each
slot: one or two moves, a resignation, an error; in `match` the answers differ from slot
to slot, which keeps three kinds of controllers in one game affordable, and the games
still reach captures and deaths on complete dots. `MaxCrashes` and `MaxFailures` are 1: the hazards
are about one interruption at the worst place, and every place is tried. `MaxTurns
= 4` in `experiment` lets some games end by themselves and caps the others;
`MaxReports = 2` makes a run meet what a complete one left. The extension's
configurations are plain, fading (a time to live of 9, energy 9, two teams, the middle
dot worth three), walled (a barred corner, a one-way edge, energy 6) and seeded (energy 2,
every sequence of draws for holes that leaves both worms a move): trails expire while a decision is pending, dots are captured and lost, worms
run out of energy and are boxed in, and the games are followed to their end. In the
catalogue `Page = 4` stands for the hundred versions a listing returns, so that two
posts and the appends pass it; `MaxRequests = 2` bounds what clients post, and likewise
the stops of each run.

**Deadlock.** The engine's, the extension's, the match's, the catalogue's and the
experiment's runs turn the check off because a game ends, every request may be answered
and the reports may all be given; `GameEnds`, `StallNeedsAnIllegalRule`, `RunsComplete`
and `ExperimentCompletes` say that nothing stops before. The service and the client can
always go on, and TLC checks it.

**Fairness.** `ReplayFairness`: whoever runs a game keeps calling `AdvanceRound`, and
a pending decision is answered by its controller or resolved at its deadline. It is
weak fairness of the whole next-state relation, written out with `CanGoOn` for
`ENABLED`. `ShellSpec`: a goroutine that can run does, every request having a
timeout of eight seconds (`context.WithTimeout`); the event thread leaves its
handlers; the player need not press anything. `CatalogueSpec`: a run that has begun goes
on, one that stopped or failed is started again; nothing is assumed of the other
writers. `ExperimentFairness`: `Run` goes on, a controller returns by its deadline (its
context ends there), and somebody asks again until the reports are there. No fairness is
assumed of the service, the extension or the match alone; no liveness is claimed of them.

## 4. The proofs

`WormsEngineProofs` proves, for every board, one to four worms, every choice of
controllers and frozen slots and every accepted rule table:

| theorem | property |
|---|---|
| `TypeCorrect` | `[]TypeOK` |
| `MasksFresh` | `[]CachedMasksAreFresh` |
| `StatesValidate` | `[](Wide => StateValidates)` |
| `DecisionsCurrent` | `[]PendingIsCurrent` |
| `NothingUndone` | `Permanent` |
| `EndsWithTheScan` | `[]OverAfterWholeScan` |
| `SlotsTakeTurns` | `[]SlotOrder` |

(`Wide == Classic => Width > 1`: `newState` admits a width of 1, on whose torus East leads
from a dot to itself, and `Validate` refuses the trail that such a move leaves,
engine.go:488; every other statement holds there too) and, about the boards,
`OppositeLeadsBack`: for every even height, stepping in a
direction and back in the opposite one returns to the dot, which is why a trail is
seen from both of its ends. `ReplayProofs` adds `EventsReproduceTheState`, that is
`ReplaySpec => []ReplayReproducesState`, under the same assumptions.

*Assumptions* (checked by TLC on every instance): positive width and height, an even
height on the torus (`Validate` refuses an odd one, engine.go:447), one to four worms
on dots of the board, together at first on the classic board and apart on the modern
one, and tables that `ValidateRules` accepts.

*Argument.* None of the invariants is inductive alone. A cached mask is refreshed
only at the two ends of the trail just taken, so `Fresh` needs that no other
pattern changes (`TrailMaskGrows`); that a capture is scored once needs that a dot
has an owner exactly when its cached mask is full (`Owned`), which needs `Fresh`; that
the table stays acceptable needs that a learned direction was free under its pattern
(`LearnLeads`); and that a decision is current needs that nobody moves between the
question and the end of the handler. So the inductive invariant is

    Inductive == Good(game) /\ ScanEnded(game)
    Good(s)   == s \in State /\ Sound(s) /\ PendingCurrent(s)
    Sound(s)  == Fresh(s) /\ Owned(s) /\ Scored(s) /\ Apart(s) /\ accepted tables

`Leads(s, t)` says that `t` is sound and undoes nothing of `s`. It is transitive, so a
lemma per helper (`StepLeads`, `KillLeads`, `LearnLeads`, `FollowLeads`, `AskLeads`,
`DispatchLeads`, `VisitLeads`, `ScanLeads`, `EndRoundLeads`) follows the code from the
single move up to `AdvanceLeads` and `SubmitLeads`. The loop over the slots is
unrolled over the four slots the code allows, so no induction over data is needed.

*The order of the slots.* `SlotOrder` counts, so it needs an invariant that counts too:
after `k` slots of a round (`Counted(s, k)`) a living worm among them has one trail more
than there were rounds, a living worm behind them as many as there were rounds, a dead one
no more than that, and the clock shows the number of all trails. Between two handlers
`k` is 0 with the cursor at rest, or the slot that has to answer (`Ordered`). A trail more
is a cardinality more because a board has finitely many spokes; `VisitServes` takes
`Counted(s, k)` to `Counted(t, k + 1)` or to a question, and `EndRoundServes` turns the
last of them into 0 of the next round.

*The replay.* `EventsReproduceTheState` needs an argument inside a handler, for its
events are told one by one while the state changes. `Told(b, s, r)` says that the events
of `s`, a state in the middle of a handler, lead from `b`, the state at its beginning, to
`r` and nowhere else, and that `r` has every part of `s` but two: where the worms are,
because a worm is moved before `worm_moved` is emitted, and where the scan is, because
only a question and the end of a round tell it. Each of the eleven kinds of event has a lemma
(`ClaimTold`, `RecolorTold`, `MoveTold`, `DeathTold`, `LearnTold`, `AnswerTold`,
`UseTold`, `AskTold`, `RoundTold`, `OverTold`), each rests on `EventTold`, and the
engine's helpers follow (`StepTold` to `ScanTold`), until `HandlerTold` finds both parts
told as well. `recolorCapture` emits nothing for a dot that has an owner but refreshes its
mask, so that nothing is lost needs that such a dot is complete already (`Owned`), which
is where the engine's invariant comes in. The loop over the events is a recursive
function: that it has a value, that the value depends on the events so far only, and that
one more event is applied to it (`ReachesExists`, `ReachesAgree`, `ReplayOneMore`) are
least-counterexample arguments (`LeastExists`) in place of an induction.

The other six modules rest on the same facts about the engine where they need them.
They hold for every board, every number of clients, goroutines, crashes and refused
writes, and every bound that TLC needs; the constants' assumptions are the named ones of
the modules they extend.

| theorem | property | module |
|---|---|---|
| `AppliedOnce` | `[]AtMostOnce` | `ServiceProofs` |
| `ResumeTellsTheTruth` | `[]ResumeAnswersTheRow` | |
| `BoardsStaySound` | `[]BoardStaysSound` | |
| `ExportsAreHistory` | `[]CopyIsHistory` | |
| `ServiceKeepsALog` | `LogOnlyGrows`, the refinement of `GameLog` | |
| `OneOwnerAlways` | `[]OneOwner` | `ShellProofs` |
| `NothingStrandedEver` | `[]NothingStranded` | |
| `LastPauseWinsAlways` | `[]LastPauseWins` | |
| `MemoryIsAlwaysStored` | `[]MemoryIsStored` | `MatchProofs` |
| `OneOutcomeEver` | `[]OneOutcomePerDecision` | |
| `DeadlineAlwaysKept` | `DeadlineIsKept` | |
| `DeathsAlwaysAccounted` | `[](Classic => DeathsAreAccounted)` | |
| `TerminalRowsAreTrue` | `[]TerminalRowIsTrue` | `ExperimentProofs` |
| `FinishedStaysFinal` | `FinishedIsFinal` | |
| `CapAlwaysHolds` | `[]CapHolds` | |
| `OutcomesAlwaysCounted` | `[]OutcomesAreCounted` | |
| `ReportsAlwaysTellTheGame` | `[]ReportsTellTheGame` | |
| `CatalogueInvariant` | `[]CatalogueInv` | `CatalogueProofs` |
| `AppendsFormLines` | `[]AppendsNeverFork` | |
| `SharedRulesHaveSources` | `[]RulesHaveASource` | |
| `RunsAlwaysAgree` | `[]RunsAgree` | |
| `RunsFailOnlyForCause` | `FailsOnlyForCause` | |
| `StatesReload` | `[](Wide => RefusedOnlyForCause)` | `ExtensionProofs` |
| `ExpiryForgotten` | `[](Tidy(game) => ExpiryFreesBothEnds)` | |
| `ExpiryTakesBack` | `Roomy => OnlyExpiryTakesBack` | |
| `EnergyPaidPerTurn` | `[]EnergyIsPaidPerTurn` | |
| `QuestionsAnswerable` | `[]QuestionIsAnswerable` | |
| `StallsForOneReason` | `Solo /\ Complete => []StallNeedsAnIllegalRule` | |

*The service.* Its theorems are about `DiagnosticsSpec`, the service with a reader that
resumes or exports. Clients move worms out of turn and answer stale questions, which
can leave a decision that describes nothing and a table that `ValidateRules` would
refuse, so `Good` is not invariant there. What survives is weaker,

    Whole(s) == s \in State /\ Fresh(s) /\ Owned(s) /\ Scored(s)

and the engine's helpers are followed once more for it. Around it stand `Once` (a
request that was stored names a head that the chain has passed, so `CanWrite` refuses it
the second time), `ReadsTheRow` (as long as the chain is no longer than the row a resume
has read, the state it has seen is the stored one) and `ReadsHistory` (what an export has
read is a prefix of the chain, and a closed chain is whole). Every step of the invariant's
proof is either an append, a change of the row that keeps the chain, or a reader's query;
each of the three is a lemma. `StepsGrowTheLog` maps them to an append, the closing and a
stutter of `GameLog`.

*The client.* `OneOwner` is inductive with the types of the flags. `NothingStranded`
needs `Attended`: an intent that is raised finds the flag taken, or the event thread on
its way to look, or a goroutine that has let go and will look back. `LastPauseWins` needs
in addition where the target of the last press is on its way, from the store of the event
thread to the request.

*The match.* The engine numbers a decision by the count of its event, so a later decision
has a greater number. The first half of `MatchProofs` follows that count through the
engine's helpers up to `AdvanceCounts` and `SubmitCounts`: a question that is open when a
handler returns was counted during it. The invariant says that what is on record is about
decisions before the one that is open (`Story`), and that the process holds nothing, or
the stored game with a deadline that is the stored one if there is one (`Holds`).
`PersistHolds` is the one write, `JudgeHolds` the ways a decision ends.

For the deaths, `DiesWell` follows the engine's helpers a third time: the table of a NEW
or AUTO worm says DIE for the complete dot only (`NoOtherDeath`), and on the torus every
spoke leads to some dot and nothing but a trail blocks it, so such a worm dies by the
engine's hand on a complete dot only. On a bounded board the border or another worm may block
it, so the theorem is about the classic one. `StepStores` sorts what a step of the match
can store into four ways (a round, an answer, a death, a stop), and each keeps the account
(`Accounted`).

*The tournament and the experiment.* `ExperimentInv` adds to the match's invariant what
`runRound` holds at each of its places (`RunnerAgrees`), that a terminal row has the scores
and winners of the stored game (`RowIsTrue`) and says that it was stopped if it was, unless
something interrupted (`StopShows`), that each outcome is paid for with a turn of the row, an interruption
or the turn about to be saved (`Paid`), and that the counts of timeouts and resignations
never exceed those of the outcomes and equal them as long as nothing interrupted
(`Tallied`). `CapHolds` follows from `Paid`, `OutcomesAreCounted` from `Tallied`. Of the
experiment it adds that the phases of the planner keep training apart from evaluation
(`RunAgrees`) and that the second writer of the row stores what the first one left
(`StoreAgrees`).

*The catalogue.* Versions are immutable and never deleted, so every step lets the
catalogue grow (`Grows`), and whatever a writer has read between its queries stays true.
What may have become false is that a number is free, and the insert's unique keys
(`CanCreate`) compare that again. `CatalogueInv` says of each writer what it has read; of
versions, that the identifier tells how they came about (`NamesTell`), that appended ones
are in line (`LinesHold`) and that no number is taken twice (`NumbersAreTaken`).
`LargestExists` is a least-counterexample argument, which replaces an induction.
`CatalogueAssumption` asks that finitely many versions exist at first, under identifiers
that are not given out again, that a run derives something (`Config.Validate` refuses an
experiment without policies), and that a share names a recipient.

*The extension.* Its theorems hold for every board, every set of configurations that
`Config.Validate` accepts (`ExtensionAssumption`) and every generated world. A game is
plain, and then the engine's own invariant holds of its base, or it rests between two
handlers:

    ExtensionInv == PlainGame(game) \/ Rests(game)
    Rests(s)     == Held(s) /\ Asked(s) /\ AtRest(s)

`Held` is what is true between two moves and `Stirred` what is left of it inside one: a
worm that has not moved stands where it started, so that a world drawn again passes over
the dots of the first draw as long as all of them live (`Placed`, `WorldStays`); the
weighted scores are the worth of the dots owned (`Weighed`), the teams' scores too but for
a credit that a capture has earned and `Credit` has yet to book (`Owing`), every trail
that fades has an expiry that is not overdue (`Timed`; between two moves nothing is due), and energy is there
for whoever lives (`Fed`). A move goes through `Gained`, `Mark` and `Spend` to the expiries, each with
a lemma about what it does to these parts, and the four slots are unrolled as in the
engine (`SlotsUnrolled`). `Paid(s, k)` counts turns: after `k` slots a living worm has the
limit less the rounds and, if it is one of them, one more. `Onward(s, t)` says that from
`s` to `t` only an expiry took something back; it is transitive, and it keeps the tables
of frozen worms.

Two theorems have a condition, because without it the statement is false. The spokes of a
dot lead to different dots on a bounded board and on a torus with more than two columns
and two rows (`Roomy`); on a smaller torus an expiry leaves a stale bit behind (section 5),
unless no trail fades (`Tidy`). `StallsForOneReason` is about games in which only the
first worm is not WILD (`Solo`, as in the run), since the property speaks of the state in
which the handler began, and with several taught worms the one that is stuck may be a
later one, which is stuck only after the others have moved; and about tables of frozen
worms without gaps (`Complete`), which `fillWild` guarantees for WILD: a frozen worm with
a gap asks a question that nobody may answer. `LoopGoesOn` shows that a handler fails
at a `Stuck` worm only.

*Only model-checked:* `PlaysWhatWasAccepted` of the match, which needs conditions on
bounded boards like those above; and all liveness (`GameEnds`, `IntentsAreServed`,
`RunsComplete`, `ExperimentCompletes`), which is out of the prover's reach together with
`ENABLED` and induction over data.

## 5. Where the code disagrees with its documentation

Each run below checks one property and ends with a counterexample.

| run | property | what happens |
|---|---|---|
| `engine_modern_stall` | `NeverStuck` | On a bounded board a rule table is keyed by trails only. An AUTO worm remembers a direction that later leaves the board or enters a worm; `Step` refuses, the round is rolled back, and every later round does the same. |
| `service_stale` | `TaughtAnswersAreCurrent` | `act` moves a worm whose decision is pending; the answer to the old decision is then accepted and filed under a pattern the worm no longer sees. |
| `service_completion` | `CompletionIsRecorded` | The completion of a finished game names the head from before its own event; the store refuses it, the client gets an error, and the row never becomes `completed`. |
| `extended_abort` | `AbortGoesThrough` | Every operation on an extended game loads its state first, and loading refuses a living worm without a legal move. Legal play comes to such a state (the other worm closes the last exit), and from then on not even abort with the right cursor goes through. |
| `experiment_stopped` | `NoWinnerIsFabricated` | That a match was stopped is a local variable of `runRound`. After a crash or a refused write between `Stop` and the last write of the row, the next run finds the match over, and writes a finished row with the leaders as winners. |

Found on the way, without a run of their own:

- A generated world is drawn again at every load and compared with the stored one. The
  comment on `NormalizeConfig` (extension.go:60-61) says that the normalized configuration
  makes this comparison stable, but the world also depends on the dots that are passed over,
  and `initialPositions` passes over the starts of worms that have moved or live. A worm
  that is blocked before its first move is neither, so its start gets a draw and every later
  dot the draw of the one before; the load fails with "variant immutable fields differ from
  config". It is the case `StartGivenUp` of `RefusedOnlyForCause`; without that case TLC
  finds a counterexample in the seeded configuration.
- `NewMatch` creates the game and stores its first snapshot in two writes. Interrupted
  between them, the next run takes the game as made and creates an active row; interrupted
  once more before a turn is stored, that row stays, and every later run fails in
  `ResumeMatch`, which finds no snapshot, although the comment on the tournament's `Run`
  says that active matches resume. It is the case `Stranded` of `ExperimentCompletes`, which
  does not hold without it.
- The request that a match publishes to a session lists moves only as legal, so a
  resignation through a session is refused as illegal and recorded as a disconnection, while
  the comment at adapters.go:268-270 says that in-process and external policies share
  identical outcome semantics.
- A resume reads the head before a writer appends and the chain after it, and reports
  an intact chain as corrupt; the client has to ask again.
- `newState` admits a width of 1, and on such a torus East leads from a dot back to itself.
  The move leaves a trail that `Validate` refuses, so the stored state does not load; it is
  why `StatesValidate` and `StatesReload` ask for `Wide`.
- After a crash, or a refused write, between the tournament's last write and
  `augmentStoredMatch`, every later report is the tournament's own: no policy, round 0,
  the derived seed, no hashes of brains.
- On a torus of two columns or two rows two spokes of a dot lead to the same dot. When a
  trail there expires, `expire` clears the bit of the first spoke that leads to the other
  end (`direction`), while the trail had set both; the other bit stays in the cached mask
  and closes a spoke that holds no trail, for good. TLC finds it on 2 x 2 and 2 x 4 with a
  time to live of 3; it is why `ExpiryForgotten` asks for `Tidy`.
- The row of a tournament that an experiment created stays `active` for ever.

## 6. What is not modelled

- Colours, layout, rendering, the HTTP and JSON layers, logging, state hashes: no
  guard of the modelled code reads them.
- The seeded choices (`chooseAuto`'s tie-break, `GenerateBoard`, tournament seeds):
  nondeterministic or constant.
- A SAME worm's search for its previous table inside the engine: a loaded table.
- Two processes on one match. `persistAtomic` reads the head again just before it
  writes, so two would overwrite each other; the code assumes one.
- The replay of a match: a timeout or a resignation kills a worm without an engine
  event, so `ReplayReproducesState` is claimed of the engine alone.
- Pause and abort requests that arrive late and twice: they do not move the head.
  The model has them, but no document forbids the second effect, so nothing is
  claimed.
- A state that a client sends when it creates a game (`validInitialState`): the service
  begins with the state that `createGame` makes.
- The extension's replay of its own events, fog and what clients may see of it.
- Games that reference a brain (`ListGamesReferencingBrain`, one query inside
  the rows of another on a pool of one connection), brains as rows, diffs, provenance.
- Experiments with several policies, boards or processes, the sum over rounds of a
  tournament, and the comparison of policies. `VerifyFrozen` compares hashes of rows that
  triggers keep from changing, so it cannot fail here.
- Planner look-ahead, protocol schemas, policies behind HTTP, projections of the debug
  reader, migrations, listings: pure computations or plumbing.

## 7. Plan

What a continuation would take up, in this order:

1. Proofs: `PlaysWhatWasAccepted`, under the conditions it needs on bounded boards;
   `StallsForOneReason` for several taught worms, with a property that speaks of the
   state in which the stuck worm's turn comes; the replay of a whole game's events
   from the initial state, by joining those of the handlers.
2. Experiments with two policies, whose tournaments share brains (`BrainCatalogue` and
   `Experiment` composed).
3. The extension's replay of its events, and the match over an extended game, should
   the code come to offer one.
