# Verification of ContextRDL: windowed rule evaluation with a step store

ContextRDL evaluates rules over the events of a time window and an RDF state
graph, decides which of the resulting actions are carried out, and commits the
result as one durable step.  This directory holds TLA+ models of that program,
the TLC configurations that check them, and proofs checked by TLAPS.  Paths
below are relative to the repository (`src/persistence.py` and the like are in
its `src/` directory; `ev/` and `scripts/` stand beside it).

    tlc -workers 2 -config StepStore.cfg MCStepStore.tla    one run
    tlapm StepStoreProofs.tla                               one proof module

`PROJECT.json` lists every run with its properties, every definition with the
source lines it stands for, the hazards of the code, a mutant per property (a
plausible bug which makes that property fail) and the theorems.

## 1. The system

A step goes through the following parts, in one process and one thread:

    event log --> window --> rule engine --> schedule --> resolver --> step store
    (JSON)       (dataset_   (rule_engine)  (rule_engine) (resolver,   (persistence)
                  builder)                                 admissibility)
                        \_______ engine.py ______________/
                 run_controller.py: ledger in, engine, commit
                 experiment_restart_delivery.py: scripts of calls, crashes, restarts

| Part | State it keeps | Operations | What makes it correct |
|---|---|---|---|
| Step store (`persistence.py`) | `CURRENT`, one directory per step with `trace.json` and `state.nt` | `commit_step`, `recover`, readers and verifiers | A crash anywhere leaves a store that verifies; what is committed stays; the parent chain is the history |
| Run controller (`run_controller.py`) | none of its own: the ledger is in the last trace | `run_committed_step` in redelivery or consume-once mode | An event identifier is evaluated by one committed step at most; ledger, state and evaluated events agree |
| Restart scenarios (`experiment_restart_delivery.py`) | none | straight-line scripts: call, injected crash, open the store again, recover, call again; nothing in them catches a `ValueError` | Each script ends with the events applied as often as its delivery mode says |
| Window selection (`dataset_builder.py`) | none | `validate_event_records`, window bounds and identifiers | One meaning per identifier; an event on a boundary is in the windows it should be in |
| Rule engine and scheduler (`rule_engine.py`, `configs/`) | none | match, construct actions, deduplicate, sort | A total order that does not depend on evaluation order |
| Resolver (`resolver.py`, `state_transition.py`) | working graph, winner per target, decisions | four gates per action, then apply | Only admissible graphs; no lost update; every refusal has its reason |
| Incremental resolver (`resolver_incremental.py`) | the same, one graph written in place | write, check, keep or undo | Same decisions and graphs as the resolver |
| Admissibility (`admissibility.py`, `shapes/`) | none | SHACL validation, compiled checker | The compiled checker agrees with the shapes wherever it is used |
| EV profile (`ev/`) | charging points and feeder | nine rules, cross-target shapes, policy | Emergencies curtail, faults isolate, capacity signals hold |
| Traces and replay (`trace.py`, `replay_full.py`, `ev/experiment_ev.py`) | trace files; the process-wide validator regime and shapes path | record, replay and compare | A trace replays as recorded; one modelled alteration of it that passes the replay has changed nothing of what the trace tells; the process has its regime and its shapes again when a replay has returned or raised |
| Second implementation (`independent_resolver.py`) | none | sort and resolve | The decisions of the first |
| Multi-window run (`experiment_multiwindow.py`) | the graph and an in-memory ledger, from step to step | one step per anchor, in either delivery mode | Each event is evaluated by the steps its mode says; a relative change is applied as often as it is evaluated |
| Comparisons (`experiment_hvac_v3.py`, `baseline_scheduler.py`, `experiment_semantic_boundaries.py`, `ev/experiment_operational.py`) | none | other orders, fewer gates, generated windows with an oracle | What they report of the resolver is due to the resolver |
| Campaign (`scripts/regenerate.py`, `scripts/verify_results.py`) | result files and their manifest | begin, resume, stamp, verify | What verifies was produced by the source at hand, as far as stamps, hashes and recorded fingerprints can tell |

What is hard here is neither threads nor messages but files and order: a crash
between two file writes; a retry that finds a half-written step of an earlier
attempt, for another set of events; a ledger read before the commit that will
replace it; recovery deleting directories while it decides by a chain read from
the same directories; an action whose value was computed from the input graph and
which is applied to a later one; a focused check which relies on a fact about the
graph that a write may have ended.  The `hazards` of `PROJECT.json` name each of
them at its line, with the properties that would notice it going wrong.

## 2. Modules

| Module | Models | Built from |
|---|---|---|
| `StepLog` | what the store promises: an append-only log of steps with a head | - |
| `StepStore` | `persistence.py`, file by file | refines `StepLog` |
| `StepStoreDamage` | the store with files damaged from outside | extends `StepStore` |
| `RunController` | `run_controller.py`, ledger logic around the store | instantiates `StepStore` |
| `WindowSelection` | bounds, identifier and contents of the window of an anchor | - |
| `RestartDelivery` | the straight-line scenarios of the restart experiment | extends `RunController`, `WindowSelection` |
| `Resolver` | `resolve_actions` for any shapes, policy and schedule | - |
| `ResolverIncremental` | `resolve_actions_incremental` | refines `Resolver` |
| `HvacProfile` | shapes and policy of the building | - |
| `FastPath` | the compiled checker and when it is used | extends `HvacProfile` |
| `CompiledResolver` | the in-place resolver of the building with that checker | extends `ResolverIncremental`, `FastPath` |
| `Schedule` | identity, deduplication and order of actions | - |
| `RuleEngine` | the eight building rules, from event to action | extends `Schedule`, `HvacProfile` |
| `HvacStep` | a whole evaluation step of the building | extends `Resolver`, `RuleEngine` |
| `EvProfile` | rules, shapes and policy of the charging cluster | extends `Schedule` |
| `EvStep` | a whole evaluation step of the cluster | extends `Resolver`, `EvProfile` |
| `IndependentResolver` | the second implementation of sorting and resolving | extends `Schedule` |
| `CrossCheck` | its comparison with the first on a building step | extends `HvacStep`, instantiates `IndependentResolver` |
| `Replay` | the trace of a building step, its alteration and its replay | extends `CrossCheck` |
| `EvReplay` | trace, comparison and replay of a cluster step | extends `EvStep`, instantiates `IndependentResolver` |
| `Orders` | whole resolutions as functions: every order, with the gates or without | extends `Resolver` |
| `Strategies` | the strategies the resolver is compared with on a building step | extends `HvacStep`, `Orders` |
| `EvWorkloads` | the windows of the charging experiments and what they expect | extends `EvReplay`, `Orders` |
| `MultiWindow` | a run of several steps with the in-memory ledger | extends `Resolver`, `RuleEngine`, `WindowSelection` |
| `Campaign` | the campaign over the result files, and what verifies | - |
| `MC...` | values of the constants for TLC | one per checked module |
| `StepStoreProofs`, `StepStoreDamageProofs`, `RunControllerProofs`, `ResolverProofs`, `ResolverIncrementalProofs`, `BuildingProofs`, `ChargingProofs`, `CampaignProofs` | theorems | extend their module and `TLAPS`; `ResolverIncrementalProofs` extends `CompiledResolver`, `BuildingProofs` extends `MultiWindow`, `Replay`, `Strategies` and `ResolverProofs`, `ChargingProofs` extends `EvWorkloads` and `ResolverProofs`, `StepStoreDamageProofs` also extends `StepStoreProofs`, `RunControllerProofs` instantiates the proofs of the store |

### The store (`StepStore`, `StepLog`, `StepStoreDamage`)

`current` is the file `CURRENT`; `dirs` the step directories that exist; `traces`
and `states` their two files (`None` for a missing one); `writer` where the
process is (`idle`, one of the three writes of a commit, or sweeping); `job` the
commit under way; `keep` the chain recovery decided to keep; `committed` is a
history variable, the steps `CURRENT` has ever named.

`BeginCommit` is `commit_step` up to its first write: it verifies the store, then
refuses a duplicate, then a submission that does not extend `CURRENT`, in that
order, and builds the trace.  `WriteTrace`, `WriteState` and `SwitchPointer` are
its three atomic file replacements.  `BeginRecover` reads the chain; `SweepTrace`,
`SweepState`, `SweepDir` delete one file or directory of one step outside it at a
time, in any order, as `rmtree` may; `EndRecover` ends the sweep.  `Crash` forgets
`writer`, `job` and `keep` and nothing else, between any two of these.  A write
is a single action because the code writes a temporary file and renames it.  The
checksum fields of the trace and the pointer are kept as the graph they are the
digest of; a digest matches exactly when the graphs are equal, so collisions are
not modelled.  A step's identifier is the pair of input graph and window, which is
what `step_id_for` hashes.

`StepStoreDamage` adds one action per kind of damage to a file of a committed step: a
lost trace or state, an altered state, an altered ledger, input digest, successor digest
or input graph in a trace, a hollow or a dropped snapshot, a link of the head moved
elsewhere, and a link behind the head cut, moved to the step itself or moved to another
step.  `verify_current` notices some of it and not the rest:

| Damage | Noticed |
|---|---|
| lost trace or state; altered state or successor digest; hollow snapshot; link of the head; link to the step itself; link to a step that produced another graph (`wrong-link`) | yes |
| input digest | where the step has a parent, whose successor it is compared with; a first step's is compared with nothing |
| ledger, input graph, dropped snapshot; the decisions, which are not in the model and which no reader of the store looks at (`UnreadKinds`) | no |
| link behind the head cut, or moved to another step that produced the same graph (`ShortcutKinds`) | no: the walk goes on, or ends, as if that were the parent |

`CURRENT` itself is not damaged.  `archive` remembers what the last commit of each step
wrote (a step that a shortcut made the store forget may be committed again).

### Delivery (`RunController`, `RestartDelivery`)

`arrived` are the records in the log, `Covers[w]` those a window would show,
`ran` (history) what each step evaluated and in which mode.  `RunStep` reads the
ledger from the last trace without verification, filters the window by it, rejects
two different records with one identifier, computes the successor (the constant
`Engine` maps a graph and a set of records to a graph) and starts the commit; the
rest is `StepStore`.  Events may arrive between any two actions, also between the
evaluation and the pointer switch.  Who calls, and whether a caller that crashed calls
again, is left open: any call may come whenever the store is idle, and none must.

`RestartDelivery` is the one program in the repository that calls `run_committed_step` across
restarts.  A script is a
sequence of statements: `Run(anchor, mode, crash)`, `Recover`, and `Log(R)`, after which
the next call is handed a longer log.  `Call` is the call up to its first write, `WriteFiles` and
`Return` the rest of it, `Restart` the injected `CrashPoint` with the store opened again.
`CallRaises` is a call that is refused: no caller of `run_committed_step` catches the
`ValueError`, so it ends the script.  The windows are those
`WindowSelection` gives the anchors, a sliding one closed at both ends and a tumbling
one half-open.  The instance has the experiment's own scripts and those like them: one or
two attempts that crash after the trace, after the state or not at all, each with a
recovery after it or none, and a last call for the same or the later anchor, in either mode.

`MultiWindow` is the in-memory counterpart: one graph that each step reads and
replaces, the ledger `consumed` held in a variable of the loop, and real steps, that
is, the rules of `RuleEngine` evaluated on that graph and resolved by `Resolver`.
`BeginStep` is one turn of the loop up to the resolution, `EndStep` the rest of it;
`Arrive` may add any event of the log before any step, of which the late event of the
experiment is one case.

### Resolution (`Resolver`, `ResolverIncremental`)

`input` holds the arguments; `current`, `winner`, `accepted` and `decisions` are
the locals of the loop.  One action of the model is one iteration: `RejectRole`,
`RejectPolicy`, `RejectShadowed`, `RejectInadmissible` and `Accept` are the exits
of the four gates in their order.  A graph is a function from slots (subject and
predicate) to sets of values, so a missing and a repeated value are states too.
In `ResolverIncremental` the graph is `work`; `Write` writes in place and keeps
the old values in `saved`, `Keep` and `Undo` follow the check.  `focused` is the
variable `use_incremental`.  Its refinement maps `current` to the graph without
the write in progress.

### Profiles and whole steps

`HvacProfile` and `EvProfile` give the shapes of the two `.ttl` files one operator
per shape, and the policy checks.  Zones, modes and values are the few the shapes
tell apart.  Literals are integers, and one the shapes refuse is a value out of range.
That a literal may be one the compiled checker declines whatever its value
(`admissibility.py:158-190`, asked at 216 and 231) is abstracted in `Eligible` and
`PreservedByWrite`: literals that conform and are not eligible, such as
`"1"^^xsd:boolean`, do not occur.
`RuleEngine` and `EvProfile` state each rule as the event type it matches, the
rows its query binds in the input graph, and the value it computes from them.
`Schedule` orders by role rank, priority, timestamp, rule identifier and the bound
values, the last as text (10 before 5, a minus sign before digits), because that is
how `rule_engine.py` compares them.  `HvacStep` and `EvStep` start from `request`
(a graph, a set of events, the precedence), compute the schedule in their initial
state, as the pipeline does before the resolver is called, and then are `Resolver`.
`FastPath` has a third zone, `Annex`, whose subclass axiom makes it a target of
the shapes: the case the eligibility test exists for.

### Traces, replay and the second implementation

`IndependentResolver` is a function of the input graph and the unordered actions:
`Resolve` inserts each action where its key belongs and folds the gates over the
result; `st` is the record of the locals of the loop, and a refused write is taken
back slot by slot (`Revert`).  `CrossCheck` and `EvReplay` compare its result with
the first implementation's at the end of every step.

`Replay` continues a finished step: `SaveTrace` records what `build_trace` records,
`Alter` changes one field of the file or several that belong together (rules with
their hash and snapshot, a graph with its digest), `LoadTrace` sets the regime of a
process that has any regime in its environment, and `ReplayBody` starts the
resolver's variables again from what the trace alone determines; the same gates
then run, and `CompareTrace` or `ReplayRaises` ends the replay.  A graph stands for its own
digest.  The embedded rules are a set of identifiers of the shipped rules: a replay
with some left out is modelled, one with an edited rule body is not.  `EvReplay`
does the same for the cluster, whose trace has no events: replay starts from the
recorded actions and gives them their ranks by the recorded precedence.  `shapesPath` is
the global `SHAPES_PATH`, which the replay sets to the recorded file and restores.  The file a trace
names may be the cluster's, the building's (whose targets no graph of the cluster has, so that what
reaches the validator is accepted), one that is no Turtle, or none.  A missing file raises
where it is hashed, before the switch (`ReplayTraceRaises`); one that is no Turtle in the
middle of the resolution, when an action first reaches the validator (`ReplayRaises`);
`previous` is the local from which the `finally` clause restores.

An alteration is one field of the file, or several that belong together.
Forging several fields consistently, and the summary file beside the traces, are outside the models.

### Comparisons and workloads (`Orders`, `Strategies`, `EvWorkloads`)

A strategy of the comparison is a function of the step's input graph and enabled
actions; `FourGates` is the resolver as such a function.  A random order stands for
every order the shuffle can give, so a statement about a random strategy is one about
all of its outcomes.  The strategies are compared at the end of each step, on windows
of at most `MaxCompared` events.

`EvWorkloads` adds the windows of the experiments to those of `EvStep`: the cases of
`ev/experiment_operational.py`, the generated matrix of one command and one signal over
every state of a point, requests around the budget, and the headline, emergency and
governance windows of `ev/experiment_ev.py`.  `MatrixOracle` is the expectation the
experiment computes without a schedule.

### The campaign (`Campaign`)

`results` maps each file to its content: the source that was loaded when it was produced, the
source it records, its regime and its stamp.  There are three classes of files:

| Files | Stamped by the campaign | Compared with the source by the verification |
|---|---|---|
| reports | yes | no; by hash |
| full traces of the building (`FullTraces`: in `results/hvac/traces`, with enabled actions), some of which are asked for by name (`RequiredTraces`) | no, like every file in a directory named `traces` | yes: the fingerprint each records |
| other traces (`OtherTraces`: those of `ev/`, and action-based ones) | no | no; by hash |

A file may have several scripts that write it, as `results/ev/traces` has.  `manifest` is
`regeneration.json`, and `phase`, `start`, `env`, `commands`, `pending`, `loaded` are where
the process is and its locals.  `Backup` and `Invoke` are the three ways to start; `Begin` or
`Refuse` is the code from the fingerprint to the first manifest.  `LoadCommand`,
`WriteResult` and `EndCommand` are a command: it loads its modules from the source there
is, writes its files one by one, of which a full trace records the
fingerprint of the moment it is built, and passes or fails; `RecordCommand` is the rest of the turn of the
loop, `StampFile` one file of the finishing loop, `Finish` the verdict with the hashes.
Around it, `Kill` ends the process anywhere and may tear the file whose write is due,
with it the running command; `Edit` changes the source between any two steps, also while a
command runs; `RunByHand` runs one experiment outside.  Which files a script writes
depends on the version of the source, so an earlier campaign leaves files that a
later one does not write.  `Verifies` is `verify_campaign` for the source at hand.
`edited`, `raced` (files written after an edit in the middle of their own command),
`byHand` and `adopted` are history and decide nothing.

## 3. Runs

All runs finish with `-workers 2` in less than four minutes.  "Deadlock off" means
the run has `CHECK_DEADLOCK FALSE` because the modelled program may stop there.

| Run | Question | States | Bounds, and why they are enough |
|---|---|---|---|
| `step_store` | Does a crash or a retry at any point leave a store that verifies, an unchanged history and an append-only log? | 503,132 | 2 graphs, 2 windows, 1 ledger: four step identifiers, so the chain can return to a graph it left, meet a window twice, and a half-written directory can be staged over by another successor.  Submissions embed both, one or the wrong graphs. No bound on crashes or recoveries |
| `store_damage` | Is one damaged file noticed, and does recovery never delete history because of it? Can two make a store verify that gives its readers a state that was never committed? | 750,302 | `MCScenarios`: 1 damage of any kind but a shortcut, or 2 among the shortcuts and the kinds that change what readers are given; at any moment, also in the middle of a commit or of a sweep. Symmetric in the windows, which only identity tells apart. Deadlock off: a damaged store refuses every call |
| `store_cut_link` | Does the text "committed history is never deleted" hold when a link behind the head is lost? | violated | 1 damage; with `MCSkipLink` for `MCCutLink`, a redirected link, the same property is violated too |
| `run_controller` | Do ledger, state and evaluated events agree under crashes, retries, late arrivals and a repeated identifier, and which calls are refused? | 846,058 | 2 overlapping windows; 4 records, three that flip the state, so that a step may return to an earlier graph, one that changes nothing, and two with one identifier, which a window shows together (and is refused for ever, which leaves other actions and thus no deadlock) or one after the other's step |
| `run_controller_modes` | "At most one committed evaluation step per event identifier across restarts", when steps of both modes are mixed | violated | 2 windows, 2 records, both modes |
| `restart_delivery` | Do the restart scenarios, wherever they crash and whether they recover or not, end as the experiment asserts? | 10,944 | 624 scripts: in each mode one or two attempts with each crash point or none and a recovery or none after it, over the experiment's two anchors, and a last call. Two records of one event at the time that is the lower bound of the second window. Two attempts reach the retry of a crashed retry, staged over what the first left. Deadlock off: a script ends |
| `restart_delivery_late` | "Late events (never covered by a later window) are dropped", and no others? | violated | the two anchors in one tumbling bucket, with a log that may grow between the calls; no crash |
| `hvac_step` | What does a step of the building guarantee for every window, and how much of it depends on the order of the schedule; what is due to the gates; does the second implementation agree; what does the replay of its trace establish? | 377,192 | all subsets of 9 events that compete for each target, from 7 input graphs of which 4 are inadmissible or malformed. Windows of at most `MaxCompared` = 3 events are resolved in every order: three reach two actions that conflict beside one that the shapes relate to them. Traces of windows of at most `MaxSaved` = 2 events are saved, altered at most once and replayed by a process with no regime or one: two events are enough to conflict, shadow and interact through the shapes. Deadlock off: a step ends, and so does a replay |
| `resolver_incremental` | Does the compiled checker agree with the shapes, is the focused check enough, and does the in-place resolver take the decisions of the cloning one? | 129,621 | every schedule of at most 3 of 11 actions from 7 graphs under 2 role sets: two actions reach "accepted, then focused", three "left the fragment, then checked again". Every single write from each conforming graph, and the check of every graph, in which zone A takes every combination of at most two values per slot from representatives inside, at and outside each limit; a second zone and a subclass zone in a few conditions each. Deadlock off as `hvac_step` |
| `ev_step` | What does a step of the cluster guarantee; are the outcomes those that an oracle without a schedule and the experiments expect; does the second implementation agree; what does the replay of its trace establish? | 314,046 | all subsets of 10 events, 6 input graphs, both role precedences, with and without an active driver, and the windows of the experiments. 3 points are the fewest for which each pair fits the feeder budget and the three together do not. Traces as in `hvac_step`. Deadlock off as above |
| `multi_window` | Which steps of a run evaluate an event, and what becomes of a relative change, in either delivery mode and whenever events arrive? | 51,475 | the 3 anchors of the experiment; its 4 events, an event of two later windows and an alarm on the bound of two: events of one, two and three windows, two in one place under two identifiers, and arrivals before, between and after the windows that cover them. The zone starts at 21 degrees, two below the occupant's limit, so that runs meet the limit. Deadlock off: the run ends after the last anchor |
| `campaign` | Is what verifies the work of the source at hand, whatever failed, was killed, edited or resumed before? | 2,988,700 | 3 commands: one writes a required full trace and a trace that nothing checks, one that last trace too and a report in the older source, a full trace nobody asks for in the newer, one a report of the other regime. 3 invocations, 2 edits, 1 run by hand: a campaign, a second one over its results and a resumption, with an edit that comes and goes while a command runs. Deadlock off: the bounds end the behaviour |

What the properties say:

* `AlwaysVerifies`: `verify_current` succeeds between any two file operations.
  `ChainIsHistory`: following parent links from `CURRENT` gives exactly the steps
  `CURRENT` has named.  `CommittedImmutable`: no operation alters or removes a
  file of a committed step.  `ImplementsLog`: the file protocol,
  crashes and sweeps included, is an append-only log whose only step is the
  pointer switch.
* `DamageIsNoticed`: a store that verifies after one damaged file has every committed step
  with the state, the parent link and the digests it was committed with; not covered are the
  parts nothing compares and the shortcuts (the table in section 2).
  `StatesAreGenuine`: also after two, what the readers of a store that verifies are given is what was
  last committed under that step.
  `HistoryNotDeleted`: after one damaged file that is no shortcut, no step removes the
  directory of a committed step.
* `AtMostOnce`: two committed consume-once steps share no event identifier.
  `LedgerIsExact`: the ledger a restart resumes from is exactly what committed
  steps have evaluated.  `StateMatchesEvents`: each committed state is what the engine
  computes from its parent's and the events recorded for it.
* `CallsGoThrough`: whatever crashed before, a call is refused for two reasons only: its
  window shows two records of one identifier, or the very step is committed.  Nothing that
  an attempt has staged stands in the way of its retry or of another call.
  `ScenariosHold` (liveness): every script of the restart experiment ends, under consume-once
  with the events applied once and on the ledger, under redelivery with no call refused and the
  events applied once more by each.
* `DeliveredByMode`: under redelivery an event is evaluated by every step whose window
  covers it once it has arrived, under consume-once by the first of these only, whether
  or not its action is accepted.  `IncrementsAccounted`: however often and under however
  many identifiers an occupancy event comes, each step that evaluates one raises the
  setpoint by one degree from where the last step left it, unless an operator's request of
  that window decides it or the setpoint is at the occupant's limit; nothing else moves it.
* `AdmissibilityKept`, `SuccessorIsOverlay`, `NoLostUpdate`, `DecisionsJustified`: an admissible input or one accepted action makes all later
  graphs admissible; the successor is the input with the accepted writes on top
  and nothing else; a value that was computed from the input is applied over the
  value it was computed from; each decision is what the gates say on the overlay of the
  actions accepted before it.
* `EmergencyHandled`: in a step from an admissible graph the earliest alarm of a
  zone decides its emergency state and its ventilation goes to emergency, whatever
  else the window asks for and whichever other roles are inactive.
* `ZonesCommute`: from an admissible graph only the order within a zone matters; any order
  of the schedule that keeps it ends in the same graph.  `TiesKeepAlarms`: whatever the
  order among actions of equal role, priority and time, a zone with an alarm ends with
  emergency ventilation and the state of one of its earliest alarms.  `StrategiesAgree`:
  where no role, policy or conflict refuses an action, the shapes alone commit what the
  four gates commit; where nothing is refused, the gates make no difference, nor does the order
  in which whole events arrive, as long as none overtakes another of its zone; and a validated
  arrival order never leaves the admissible states.
* `KernelAgrees`, `FocusSuffices`, `FocusJustified`, `ImplementsResolver`: the fast
  path, the incremental check and the in-place resolver change nothing but speed.
* From an admissible graph, `EmergencyCurtails`: after a grid emergency the feeder is
  curtailed, unless the
  role order lets a fleet command above 5 kW take a reduction's slot.
  `FaultIsolates`: a faulty point draws nothing and is out of service.
  `CapacityHeld`: with the grid before the fleet, a capacity signal bounds the power
  its point ends with, unless it was refused as inadmissible, or by the policy for a negative
  value, or another grid action had the point first.  A signal refused for the budget leaves its slot open.
* `OracleAgrees`: every step that is one command for a point and at most one plug-in,
  fault or emergency ends as the oracle of the generated matrix says, which knows no
  schedule and no gates, in the windows of the experiment and in every other of that kind;
  and requests that reach the feeder budget exactly are granted, one more kilowatt is not.
  `OperationalOutcomes`: each case of the operational run ends as its expectation says;
  competing commands end as the precedence says; and of the three headline requests every
  order grants two, which two depends on the order alone, while without gates every order
  ends beyond the budget.
* `ImplementationsAgree`, `EvImplementationsAgree`: the second implementation, given
  the actions in no order, takes every decision of the first for the same reason and
  passes through the same graphs, also from graphs the shapes reject.
* `ReplayReproduces`: an unaltered trace passes every comparison, whatever environment the
  replaying process has, and when a replay has returned or raised the process has its regime back.
  `PassedTraceIsGenuine`: where one of the modelled alterations passes, the trace still tells of
  the step that was recorded; what was altered made no difference, such as a role that none of
  the actions has or a rule that enabled nothing.  `EvReplayTells`: both, for the traces of
  the cluster, and whether the replay returns, raises before it sets the shapes or raises while it
  resolves under the recorded ones, the process has the shapes it had.  Forgeries of several
  fields that agree with each other are not covered by either.
* `VerifiedIsGenuine`: where results verify, each file the source at hand writes was produced
  by it under the regime its stamp states.  `NothingLeftBehind`: after `--fresh`, where no edit fell
  into the campaign, that is true of every file in the directory, stamped or not, but for a
  file that a run by hand left there since and that has no hash, about which the
  verification does not ask.  `UnfinishedIsNoEvidence`: from its start to its end,
  and after a kill or a failure, a campaign does not verify.  The first two leave out,
  and name, what the code cannot know (TLC finds each exception necessary):
  * a file from an experiment run by hand before the campaign hashed it;
  * where the source was edited and restored while the campaign ran, the reports, whose stamp
    is the campaign's, and the EV and action-based traces, which are neither stamped nor
    compared with the source;
  * full traces written after an edit during their own command.  The fingerprint in a trace is taken when
    the trace is built, not when the modules were loaded, so "the sources actually
    executed" (`trace.py:86-87`) is true of a trace only without such an edit.

Fairness.  Safety runs assume none.  `restart_delivery` and `restart_delivery_late` assume
`WF(ScriptNext)`: the script is executed by one thread, whose next statement is always
possible until the script ends, and which does not stop by itself.  The crashes in it
are those the script injects.  Nothing is assumed of callers in general: that a window is called
again after a crash, or that a caller goes on after a `ValueError`, is said of no code in
the repository, and no property rests on it.

### Disagreements between text and code

* `store_cut_link`: `chain_status` ends its walk at the first trace without a
  parent and calls the chain intact.  If a trace behind the head has lost
  `parent_step_id`, the shorter chain verifies and `recover` deletes the steps
  before the cut (or, where the link was redirected to an earlier step that produced the same graph, the
  steps in between), although the module's documentation says committed history is never
  deleted.  The link of the head itself is protected by the pointer.
* `run_controller_modes`: the mode is an argument of each call and the store does
  not record it.  A redelivery step commits an empty ledger, and the next
  consume-once step evaluates identifiers again.
* `restart_delivery_late`: two anchors in one tumbling bucket have one window identifier.
  After a step that changed nothing the call for the second raises as a duplicate (`persistence.py:122-123`), and
  no caller catches it, so an event that arrived between the two is never evaluated, with no crash
  anywhere, and though a later call's window covers it.  Sliding windows, which the shipped settings
  use, have a window per anchor and do not lose it.

## 4. Theorems

TLC checks the instances above; the following hold for every value of the
constants, under the assumptions named.

* `StepStoreProofs`, under `StoreConstants` (the submissions have their type,
  `None` is none of the values a file may hold): `TypeCorrect`, `Consistency`,
  `History`, `TraceIdentity` (a committed trace describes the step it is filed under),
  `Immutability`, `Refinement`.
  The inductive invariant `IInv` is `TypeOK` and four parts.  `HistoryInv`: the
  files of committed steps agree with each other and their parents are committed.
  `JobInv`: a commit under way writes a step that is not committed, and what it has
  written so far is its job.  `KeepInv`: recovery keeps exactly the committed steps.
  `ReachInv` is the one which is not obvious: the chain is defined as the smallest
  parent-closed set with `CURRENT`'s step, and that it contains the whole history
  would need induction along the chain.  Instead the invariant says that every
  parent-closed set with that step contains the history, which each action preserves:
  a pointer switch adds one step whose parent is the old head, so a closed set
  with the new head has the old head and with it all the rest.
  `OffHistory` is the lemma for the actions that touch no committed file.
* `RunControllerProofs`, under `ControllerConstants` (any engine on graphs and sets of
  records, any windows): `RunUsesStore`, each step of the controller is one of the store,
  so the theorems above hold of it; `RunStateMatchesEvents`; and for callers that use
  consume-once only, `RunLedgerIsExact` and `RunAtMostOnce`.  `RunCallsGoThrough` holds of both
  modes: the store verifies at every point, its chain is the history and the call starts from
  the graph `CURRENT` names, so of the refusals of `commit_step` only the duplicate is left.  The invariant `RunInv` is
  the store's `IInv` with three parts more: the call under way evaluated nothing that is
  on the ledger it resumed from, and its trace adds what it evaluated (`CallInv`: true
  until the pointer switch since nothing else changes what `CURRENT` names); each
  committed state is the engine's result (`EvaluatedInv`); the ledger is the union of
  what was evaluated, without overlap (`LedgerInv`).
* `ResolverProofs`, under `ResolverConstants` (actions and inputs have
  their types; `Admissible` and `PolicyOK` are any predicates whatever):
  `ResolverTypeCorrect`, `ResolverAdmissibility`, `ResolverOverlay`,
  `ResolverJustified`, `ResolverNoLostUpdate`, from one inductive invariant that
  relates `winner`, `accepted`, `current` and the decisions.  Both profiles are
  instances: that no accepted set exceeds the feeder budget is `ResolverAdmissibility`.
* `ResolverIncrementalProofs`: `IncrementalFocus` and `IncrementalRefinement`, under
  `IncrementalConstants` and the assumption `KernelSound` in each statement: the
  compiled checker agrees with the shapes on the fragment and a preserving write
  may be checked at the written zone alone.
  For the building the assumption is a theorem: under `BuildingConstants` (values are
  integers, finitely many, because the shapes count them) and `CompiledBuilding` (the
  resolver's parameters are the building's), `BuildingKernelSound` proves it for
  every graph of the building; with it `BuildingFocus` and `BuildingRefinement` have no
  hypothesis left, and `KernelAlwaysAgrees` and `FocusAlwaysSuffices` follow from the
  type invariant.  The argument is per zone: `ZoneAgrees` (kernel and shapes of one
  zone), `FragmentConforms` (on the fragment the targets are the two typed zones),
  `WriteIsLocal` (a preserving write leaves what the other zones' shapes read).
* `StepStoreDamageProofs`, under `StoreConstants`, for any scenarios: `GenuineStates`,
  `DamageNoticed`, and `NothingDeleted`.  `DamageNoticed` claims what `AsCommitted` lists, and
  like `NothingDeleted` nothing where a link behind the head is cut or redirected to a step with the same
  successor; there the run `store_cut_link` refutes the second.  `GenuineStates`
  has the hypothesis `NoForging`: no damage alters an input digest or redirects a link behind
  the head to another step.  (Altering a step's state, digest and snapshot together with the
  input digest of the step that follows would agree on a state that was never committed;
  the run shows that two alterations do not.)  There are
  two invariants because the two claims survive different damage.
  `GenuineInv` holds for any number of damaged files.  It speaks of the steps reached
  from `CURRENT` over the links on disk (`Live`), where `CURRENT` itself gives the link of
  its own step: the parent of a live step was committed with the graph that is that
  step's input.  A store that verifies has compared each state with the digest in `CURRENT` or
  with the input of the step that follows, so that no combination of these alterations
  agrees on another state.  Two facts of `commit_step` keep this true when a forgotten
  step is committed again: it verifies the chain it joins, and it refuses a step of it.
  `ShadowInv` is about one damaged file.  The archive's own links form the history
  (`ArchiveInv`, `ReachArchived`, `PathInv`), and either nothing differs from it or one step
  does, in one of the ways `Differs` lists; `DifferenceNoticed` shows that
  `verify_current()` fails on each.  The ways are not those of the damage but their
  consequences: the head's link is compared with `CURRENT`, a
  lost trace or a link to the step itself breaks the walk, anything else breaks a digest.  `PathInv` is
  what shows that the walk reaches the damaged step unless it fails before.
* `ResolutionUnique`, also in `ResolverProofs`: two finished resolutions of one schedule from
  one input have the same decisions and the same successor.  It needs no sorting and no
  induction over the run: where two finished runs differ there is a first position, up
  to it both accepted the same, and `VerdictsExact` (inductive) makes the record of a
  position a function of what was accepted before it.  The same module has the lemmas about
  schedules: `ScheduleIsSorted` (actions with distinct keys of one length, in the order of
  the keys), and what the digits of `Text` compare as.
* The two implementations: `SecondImplementationAgrees` in `BuildingProofs` and
  `ChargingImplementationsAgree` in `ChargingProofs`, for every window, graph and choice of
  roles: the second implementation, which is given the actions in no order, ends with the
  decisions, reasons, graphs and accepted actions of the first.  The common part is the third part of
  `ResolverProofs` and has two halves.
  * The schedule.  The second implementation sorts by insertion in a fold over the set of
    actions.  Whatever order the fold takes, each set is sorted into a sequence
    (`SortsEach`, by a smallest set for which it is not), a set whose actions have distinct
    keys has one sorted sequence (`SortedUnique`), and the schedule of the first
    implementation is one (`SortIsSchedule`).
  * The run.  The second keeps one working graph and takes rejected writes back.
    `Matches` relates its state after k actions to the resolution: the graph is the overlay of
    what was accepted so far, the written targets are the slots of these actions,
    the decisions are the first's with its reasons, the accepted actions are in order.
    `GatesStep` shows what the gates do to such a state (in particular that taking a write back
    restores the slot, whatever number of values it had), `StepVerdict` that they decide as
    `Verdict` does, and `SecondAgrees` that the states match up to the end, since there is no
    first one that does not.
  * What is left for each profile is that its guard refuses the same commands
    (`SameGuard`; the roles of all rules have a cap, and values are integers), that its
    actions have distinct keys, and that the operators of its instance are those of the
    lemmas (`SameGates`, `SameRuns`, `SameSort`).
* `BuildingProofs`, about the building's own modules.  Its hypothesis `BuildingProfile` says
  that the resolver's parameters are the building's, as the runs' configurations make
  them; `StepConstants` says that an identifier names one event, that windows are finite
  and that numbers have at most two digits, since only the texts of such numbers are
  modelled; `RunConstants` that an identifier names one event of the log.
  * `AlarmsAreHandled`, for any windows, graphs and active roles with the emergency role.  A
    schedule's keys name the rule, the row and the event (`KeysDistinct`), so it is
    sorted; actions of alarms come first, ventilation before state, earlier alarms before
    later ones of the zone (`AlarmsFirst`, `SameRuleOrder`).  So nothing that precedes the
    earliest alarm's two actions has their slots, and since every state on the way is
    admissible (`PrefixesInvariant`), so is that state with emergency ventilation and then
    with the alarm's state: neither action can be refused, and no later one takes the slot.
  * `ReplaysReproduce` and `PassedTracesAreGenuine`, for any step and any alteration that is
    modelled.  `ReplayInv` says what the trace at hand owes to the one that was
    saved (`Version`: the same but for one field, one event or one role) and that a replay
    whose problem is the recorded one is a resolution of it, so that `ResolutionUnique` applies.
    For the second theorem: the record of the first decision tells the input graph, the
    reason `inactive_role` tells the roles, and the recorded actions tell the events and the
    rules, as no two (rule, row, event) make one action.
  * `DeliveryByMode`, for any log, anchors, windows and rules.  `DeliveryInv` ties the
    ledger to the steps done (`LedgerIs`) and each step to what it was given: the events of
    its log and window and, under consume-once, of no earlier step (`StepsGiven`).
  * `ZonesNeverInterfere`, `AlarmsSurviveTies` and `StrategiesAreComparable`, for any
    windows, graphs, active roles and orders of a schedule.  The operators they are about are folds
    over a sequence; `FoldExists` turns each into its set of accepted positions, the one `Run`
    of that sequence (`ResolutionUnique` in terms of sets).  The gates of an action read its own zone only
    (`GatesByZone`; the shapes are a conjunction over zones, `ByZone`), so that two runs in which
    every zone has the same actions in the same order accept the same ones.
    For ties: of the alarms of a zone the earliest stay before all other actions on
    its two slots however ties are broken, so one of them is taken.  For strategies: each
    of the weaker runs is related to the full one where the gates it lacks refuse nothing, and a
    unit that is taken back leaves the graph it found.
  * `IncrementsAreAccounted`, for any anchors, windows, delivery mode and order of arrival, under
    two hypotheses.  `RunProfile`: the run's parameters are the building's, with one
    admissible start.  `RequestLog`: in the zones no occupant sits in, the log has no request of an occupant and
    no peak, and all operators' requests for one zone ask for one setpoint that operators may ask
    for, which is how the experiment's log is made; the claim is false of other logs (a
    peak caps the setpoint it finds).  `StepAccounts` is the step: in a schedule the requests for a
    zone come before the increments (rank 1 before 2), the setpoint of a zone cannot be refused for its shape
    when the policy allows it, and the first of several actions on a slot that may be
    accepted is (`FirstWrites`).  `StepsInv` is the run: each step done is such a resolution
    (`Stepped`) from the graph the one before it left, and the one under way has
    that graph as its input.
* `ChargingProofs`, about the charging cluster.  `ChargingProfile` says that the resolver's
  parameters are the cluster's, as the configuration makes them; `ChargingConstants` that
  the points are finitely many and numbered; `EvStepConstants` that an identifier names one
  event, that windows are finite, that numbers have at most two digits, that a grid
  emergency names the feeder and every other event a point, and that the requests of the
  experiments are windows of that kind.  The theorems are `FaultsIsolate`,
  `EmergenciesCurtail` and `CapacitiesHold`, `ChargingReplaysTell` for the trace and its
  replay, and `OracleMatches` for the oracle of the generated matrix, for any points, graphs
  and windows.
  * Safety ranks before every other role in each precedence (`SafetyFirst`), so what precedes the
    power and the state of a faulty point in their slots is another fault's, with the same
    value; the reductions of an emergency are preceded in their slots by faults, by other
    emergencies and, as the precedence may have it, by the fleet (`BeforeCurtailment`), and a
    capacity signal by nothing but the grid and safety (`BeforeCapacity`).
  * None of them can be refused as inadmissible: a graph with one power lowered to an allowed
    value stays admissible (`LowerKeepsAdmissible`), because the total of the powers, a fold over the points, falls
    with it (`TotalFalls`); a point without power may be out of service; a feeder may be curtailed
    when no power is above the limit, which is the case when the reductions have been taken,
    as they come before it.
  * `Total` is a fold, and a fold is what the prover has no induction for.  What stands for it is
    the least counterexample: among the finite sets there would be a smallest for which no run
    of the fold (`IsFold`) reaches an end, and taking an element from it gives a
    contradiction.  `FoldExists` in `ResolverProofs` states it for any fold; `SumExists`,
    `SumUnique` and `TotalIs` make the total of it, whatever the order the fold picks.
  * `EvReplayInv` follows a trace from the step through its edit to the replay.  The recorded
    actions rank as the recorded precedence says (`RerankedIsSame`), so a replay whose graph, actions and
    settings are the recorded ones resolves the input of the step, and `ResolutionUnique`
    gives its outcome.  An edit of the graph with its digest is told by the first decision, or
    by the successor where nothing was decided (`GraphTold`); one of the settings or actions that
    passes has changed nothing of the outcome.  `previous` is the shipped path from the switch
    on, and both ways out of the replay restore it.
  * `OracleMatches` is about a window of one command and at most one signal (`OneCommand`).
    What its schedule may hold is known (`OfWindow`), and so is what the command finds when its turn
    comes: the feeder curtailed in an emergency (`CommandSeesFeeder`), the connector as
    it was, unless a driver's command follows a plug-in (`CommandSeesConnector`), and a
    load that is no higher than at the start (`CommandFits`).  So the command is granted
    exactly where the oracle says it is allowed (`CommandDecides`), and power, connector
    and feeder state end as the oracle has them.  At the boundary of the budget the three
    requests come in the order of their points (`AskOrder`), since their keys differ in the point only,
    each finds those before it granted (`AskFinds`), and the load of the feeder changes by what
    one point does (`TotalShifts`), so what is left decides the third.  That every state on the
    way is admissible (`EvPrefixesInv`) is inductive while the step runs.
* `CampaignProofs`, under `CampaignConstants` (the required traces are full traces and the
  two kinds of traces disjoint, a report's name states the regime of every script that writes it, and
  nothing missing or torn is content): `VerifiedAreGenuine`, `FreshLeavesNothing`,
  `UnfinishedNeverVerifies`, for any commands, versions, files, scripts to a file and bounds, with the
  exceptions of the properties.  `IInv` says of
  each point of the campaign what its files then owe to it: the command that runs has written what
  it no longer has to write, from the source it loaded (`Executing`); a command that passed
  has left its files, torn or of the version it ran with (`Kept`), from the moment it ends and over
  every resumption; what the campaign wrote has the regime of a script that writes it (`RegimesKept`);
  a full trace records the source its command had loaded, unless that was edited in between
  (`TracesRecord`); after `--fresh` there is nothing but what this campaign has written
  (`FreshKept`); the finishing loop has stamped what it has passed (`Stamped`); and what a hash
  stands for does not change with the files (`Hashed`), so that edits and runs by hand after the
  hashing need no care.

Invariants were checked by TLC on the runs of their modules before they were proved, and
properties before their theorems.  The proofs showed six things about the models.  `NothingLeftBehind` had been stated
without the report that a run by hand leaves after the hashing; the earlier
instance was too small to reach it.  `archive` used to keep the first commit of a
step, although a step the store has forgotten may be committed again.  `CapacityHeld` did not
mention a signal with a negative value, which the policy refuses and which no instance had.
`StrategiesAgree` had said that
whole events may arrive in any order where nothing is refused, which is false when a later event
of a zone overtakes one that leaves it the room it needs; the instances now have a state in
which that happens.  `IncrementsAccounted` had not mentioned the occupant's limit, which no run
of the earlier instance met.  And two definitions of the cluster (`Subjects`, `PrimedState`) had a CASE with guards that overlap, which TLC
reads from the top and the logic does not.

Only model-checked:

* liveness (`ScenariosHold`), which is out of the prover's reach;
* `OperationalOutcomes`, the computed outcomes of the named cases, of the order control and of
  the baselines, which are not claims about every window.

## 5. Not modelled, and the plan

| Part | Why not, or when |
|---|---|
| The case `policy_role_cap` of `ev/experiment_operational.py`; the malformed and zero budgets of `experiment_semantic_boundaries.py` | the policy node and the feeder budget are constants of the models |
| Decimal precision (`numeric_boundaries`, `numeric_plumbing`) | values are integers in the models, so digits beyond the comparison with a bound are not seen |
| `collect_results.py`, `verify_governance_fix.py` | packing a directory; a linear script with a report of its own |
| `numeric_profile.py`, `policy_profile.py`, `rule_loader.py` | parsing and validation of text without state; the models start from validated configurations |
| other experiments, `paths.py`, wrappers | scripts that call the parts above on fixed workloads and write measurements |
| SPARQL and SHACL engines | external; a rule is modelled by what its query selects, a shape by what it accepts |
| concurrent writers | the store's documentation excludes them ("single-writer") |

The order of the modules was: the store and its abstract log; the controller and
the restart scenarios on top; the resolver in general, then for the building; the fast path
and the in-place resolver; the charging cluster; the second implementation, traces and their replay; the campaign;
comparisons, workloads and runs of several windows.  Each abstract specification is the
refinement target of the module below it (`StepLog` of `StepStore`, `Resolver` of
`ResolverIncremental`).  What is left is the first row of the table above.
