# A verification development for the DER evaluator

The program evaluates distributed energy resources of a site (PV, battery,
electric vehicles, heat pump, loads, common assets): it dispatches
representative days, turns quantities into cash flows, computes indicators, seeks
the support a project needs, compares models, writes reports, and serves all of
it through a web application with a scenario store, on a container whose disk
does not last.

This directory holds TLA+ modules of its parts, TLC configurations that check
them on small instances, and proofs checked by TLAPS of what matters most.
Paths below are relative to the repository. `PROJECT.json` maps every definition
to the lines it models, lists the runs, the hazards and the theorems.

Contents: 1 inventory, 2 modules, 3 runs, 4 bounds, 5 fairness, 6 proofs,
7 findings, 8 what is not modelled, 9 plan.


## 1. Inventory

### The web application (`app/`)

| part | state | operations | hard behaviours | what makes it correct |
|---|---|---|---|---|
| JSON file scenario store, `services/scenario_store_file.py` | one file: records, histories, `next_id`; a staging file per write | save, load, list, list_versions, restore_version, soft_delete, restore, purge_expired | several processes and no lock: read, fingerprint, re-read, compare, write beside, rename; one retry; crashes and disk errors; edits by hand | the file is always whole, nothing acknowledged is lost, ids are issued once, each call takes effect at most once |
| in-memory store, `services/scenario_store.py` | dictionaries whose entries are objects shared with the histories | the same | aliasing of record and history | callers cannot tell it from the file store |
| scenario routes and screens, `routers/scenarios.py`, `routers/ui_scenarios.py` | none of their own | create, get, update, delete, restore, purge, versions; list, run, save, delete screens | check in one store call, act in another | the checks still hold, for the same scenario, when the act takes place |
| model composer, `services/model_composer.py`, `routers/models.py`, `routers/ui_forms.py` | one composition in memory | add, remove, copy a resource; the form of all parameters | every edit reads, makes a new composition and registers it, in threads without a lock; fields numbered when the form was drawn | adding, removing and copying touch one resource; a form reaches the resources it was drawn for; an edit is lost only to a request that was under way |
| regulation administration, `services/regulation_admin.py`, `core/regulation/profile.py` | current profile per name, history | create, clone, upsert, publish, restore | handlers in a thread pool read, change and publish without a lock; version names chosen by callers | every profile that was current is in the history, in order |
| sign-up and login, `routers/auth.py`, `security/` | users table; signed tokens, no server sessions | sign up, log in, change password | look for an address, then insert, over one connection that all sessions share | one account per address; what was granted is kept |
| settings of a run, `services/ui_run.py` and the settings form of `routers/ui_scenarios.py` | a record in the scenario store | save what the form says, lay it over the ledger, run | saved under the ledger of one day, run under that of another | what a report lists as changed is what changed its result |
| run, verification, report screens, `routers/ui*.py`, `reports.py`, `services/ui_charts.py`, `verify_steps.py` | none between requests | compute from the form and answer | - | they show what the core computed |
| router collection, start-up checks, `routers/collect.py`, `main.py`, `security/sc3_check.py` | none after start-up | find the router modules; check the deployment | - | every router is mounted |
| run executor, command line, `run/` | none | run what it is given in the calling thread; no route uses it | - | - |
| audit, `audit/recorder.py` | append-only rows in the caller's transaction | record | commit with what it records | - |

### The infrastructure (`infra/`)

| part | state | operations | hard behaviours | what makes it correct |
|---|---|---|---|---|
| free-tier storage, `freetier.py` | database file, replica, staging file of a push | restore on start-up, replicate now | kills at any step, a disk that comes back empty | nothing replicated is lost; a replica is whole; the container comes up |
| backup, `backup.py` | main file and `-wal`, copies of both | take a backup, restore | two files that belong together | a backup holds every transaction, a restore brings it back |
| time series, `tsstore.py` | Parquet file per series, hash in the database | write, read | written in place; hashed and read in two opens | what is read is one table that was written, with the recorded hash |
| ORM, migrations, engine, `orm/`, `migrations/`, `database.py` | tables | declarations | - | - |

### The core (`core/`)

| part | state | operations | hard behaviours | what makes it correct |
|---|---|---|---|---|
| case execution, `casegrid/execution.py` | futures, results, progress | `run_cases` in one thread or a pool | completion in any order, stop requests, raising cases, dying workers | all results in order or one reason; the call ends; nothing runs on |
| the day of a case, `casegrid/pv_allocation.py`, `ess_build.py`, `ess_share.py`, `der/ess.py`, `engine/rule_based.py` | surplus, plans and dispatch per hour | allocate PV, split the battery, plan, dispatch, balance | decisions in a fixed order over shared energy; divided and undivided fields | no energy is used twice, the site buys nothing to charge from surplus, limits of the one battery hold |
| case runner, `casegrid/e2e_runner.py`, `operating_lines.py`, `incentive/` | one case while it runs | streams, settlement, rows, perspectives, support, views | one dispatch feeds six accounts, each by code of its own | every won has one payer, attributions add up, the investment is borne once |
| value streams, `valuestream/` | none | what a stream earns, exclusions, contract structures, benefit report | order of streams, rules by profile and quantity | nothing is counted twice |
| resources over their years, `der/pv.py`, `ess.py`, `load.py`, `heatpump.py`, `thermal_load.py`, `ev_v2g.py` | state of charge within a day | dispatch a series; energy of a year; cost of a year | hourly series and yearly formula are two computations; heat shifted to other hours; stays over midnight | what is billed is what is dispatched; heat is supplied or missing; a car leaves as charged as it came |
| replacement and salvage, `der/*.py`, `asset/common_asset.py` | none | `replacement_schedule`, `salvage_value` | boundaries of life and horizon; parts; retirement | a unit in service every year; value only of what was bought |
| common assets, `asset/common_asset.py` | none | allocate to community and households | shares rounded to the won | nothing of a cost is lost |
| indicators, `cba/metrics.py`, `contracts/units.py` | none | npv, bcr, two paybacks, irr, mirr | signs, rounding per row, several rows in one year | the indicators of one flow agree with each other |
| baselines and comparison, `cba/baseline.py`, `casegrid/comparison.py` | none | arrange a baseline, subtract rows, compare models | ledgers of one name and two versions; tags on one side only | like is compared with like; rows come to the total |
| goal seek, `incentive/solver.py` | bracket, loop counters | one goal, several goals, curve over loans | non-monotone metrics, precision, several goals sharing an answer | the answer meets its target and is the least that does |
| regulation and tariffs, `regulation/` | tables and profiles, loaded once | lookup by day, bills, duty to supply, differences of profiles | periods that overlap, blocks, rounding per line | list, preview and calculation agree; what is saved line by line is what the bills differ by |
| constraints, `constraint/registry.py` | declarations | register, compose, find conflicts | bounds from several benefits on one target | a conflict is reported where nothing meets the bounds |
| assumption ledger, `assumption/provider.py`, `scenario_overrides.py`, `casegrid/ledger_levels.py` | ledger, loaded once; overrides; keys read | load, lay over, read, levels of a case variable | two units, bases and levels, blocked items | a level is the ledger's in its own unit |
| time-series data, `assumption/timeseries*.py` | registry, references | upload, fill gaps, estimate, register, bind, delete | gaps filled from filled values; sets shared by scenarios | what was measured stays; a set in use is kept |
| case grid, `casegrid/grid.py`, `analysis.py`, `profiles.py` | none | cases of the axes, cells, region, ranking; shapes of a day | coupled variables, slices, several seasons | cases are the choices of the grid; totals are kept |
| reports, `report/*.py` | none | influences, thresholds, capacities, what is left out, loss, sizing | sweeps over a case computed before | one thing moves; what is not counted is listed |
| contracts, registries, layout, text | none | declarations, rendering | - | - |

`web/` renders, `scripts/` checks the repository itself, `fixtures/`, `docs/`
and `tests/` are inputs, rules and tests.

### How the parts interact

A request enters a route, which calls the store twice or more: first to check
who owns a scenario and whether it is deleted, then to act. A store call is atomic
in memory and a read-compare-rename protocol on a file. A run reads a
scenario, then the settings record it names, lays them over the ledger and calls
the case runner, which composes resources, dispatches a day with the rule-based
engine, turns it into rows and asks for indicators; the goal seek calls an
evaluation again and again. Analyses call `run_cases` over the cases of a grid; a
report sweeps one input after the other over a finished case. Beneath all this the
container restores its database before the application starts and replicates it on
demand; backups are taken with the engine stopped.


## 2. Modules and what they correspond to

Scenarios:

* `ScenarioRecords` - what each protocol operation does to
  records, histories and `next_id`, as operators from a state and a request
  to an outcome (`SaveNew`, `SaveExisting`, `RestoreVersion`, `SoftDelete`,
  `Restore`, `PurgeExpired`, the reads), and what it means for a state
  to be sound. A body is a model value; a record keeps its id, owner, version,
  date of saving and deletion mark. `_checked_next_id` is `IdsBelowNext`.
* `ScenarioStore` - the abstract specification: a call takes effect at one
  instant between its start and its answer, or is refused without effect.
* `FileScenarioStore` - `_update` system call by system call:
  `ReadBytes`, `ReadStat`, `CheckBytes`, `CheckStat` (the two fingerprints, two
  system calls each), `OpenStaging`, `WriteStaging`, `Replace`, `WriteFails`,
  `Crash`, `EditByHand`. The local variables of a call are per-process variables.
  As long as nobody intrudes upon the gap before a rename (`KeepsGap`) it refines
  `ScenarioStore` (`ImplementsProtocol`): the store is the state in the file, the
  three failures are refusals.
* `MemoryScenarioStore` - the in-memory store with a heap of records, because a
  record and the last entry of its history are the same object; run
  beside the file store's operations on the same requests.
* `ScenarioRouter` - requests in flight, each a program counter over the store
  calls of its route (`LoadAndCheck`, the act, the reads for the screens).

Accounts, profiles and compositions:

* `AccountRequests` - sign-up, login and change of password in a pool of threads,
  each `Select`, `Flush` (INSERT or UPDATE), `Commit`, `Close`. `StaticPool`
  (`deps.py:37`) gives all sessions one connection, and so one transaction: `users`
  is what it sees, `committed` what it last committed, and the end of any session
  (`Close`) rolls back the difference.
* `RegulationAdmin` - create, clone and upsert as handlers without a lock:
  `Require` reads the current profile, `Publish` replaces it, `ReadHistory` and
  `Record` are the two halves of the line that extends the history.
* `ModelComposer` - users who draw a form, read the composition, and register what
  they made of it, in three steps that others come between; the read registers
  the demo model when there is none.

Infrastructure:

* `ContainerStorage` - `restore_on_startup`, `replicate_now`, the pull and push
  of `FilesystemReplica`, kills at any step with or without the disk.
* `BackupFiles` - SQLite's main file and log, `take_backup` and
  `restore_from_backup` file by file.
* `SeriesFiles` - writers of one Parquet path in steps, killed at any of them, and
  a reader that opens it to hash it and again to read it.

One case and its report:

* `DayDispatch` - PV allocation, the shares, the hourly plan, dispatch with its
  power check, the exchange with the grid.
* `ValueStreams` - what every stream earns, its payer, the exclusion table and the
  six contract structures; `BenefitReport` - the table of benefits with its
  refusals.
* `CaseRun` extends both: `run_single_case_e2e` from its inputs to its outcome, after
  the day `FleetStreams`, `Settle` and `Conclude`, the last with the rows, the net
  present value, the perspectives, the attribution and the lines of cost; any of them may
  refuse. It also has what is measured from the finished case: the items a report
  lists as not counted, and its stages of verification.
* `Influences` - sweeps of one input and of a bundle, the bisection for a turn, the
  ranking, the break-even rate, the samples of a capacity.
* `CashFlow` - the sign of costs, npv, bcr, the payback loops, the sign changes.
* `MinSubsidySolver` - `solve_min_subsidy_rate` (`CheckEnds`, `CheckShape`,
  `Bisect`, `Scan`), the largest over several goals, the least cost over loans.

Resources and shared assets:

* `AssetLifecycle` - the loop of `replacement_schedule` and `salvage_value` of
  every class, a resource being a record of parts, lives, costs and flags.
* `SiteYears` (PV, battery, load), `HeatSupply` (heat pump beside a heat load in
  the balancing engine), `EvV2G` (cars in half hours) - a resource is declared or
  refused, dispatched in a year, and billed by its yearly formula.
* `CommonCosts` - costs of shared assets, their allocation, the rows of a household.

What a case is computed from:

* `AssumptionLedger` - load, lay over, read, report; the settings form under one
  ledger and the run under another.
* `TariffBills`, `RegulationRules` - tables and items valid on a day, bills before
  and after, the duty to supply, the preview of a change of profile.
* `TimeSeriesData` - upload, gaps, estimate from months, registry and bindings.
* `CaseGridAxes`, `DayShapes` - the cases of a grid and what is read off them; the
  three levels of a case variable between two units, and the sizing table; the
  spread of a total over a year.
* `ConstraintBounds` - declarations composed to the tightest of every step.

Many cases:

* `CaseGridRun` - abstract: progress and one outcome. `CaseGridExecution` -
  `run_cases` with its two halves and the pool (an external library, modelled by
  how it is used); it refines `CaseGridRun` (`KeepsContract`).
* `ModelComparison` - several models in one table, and the difference of a project
  from its baseline; the split of a loss into its rows and the two sentences. It
  instantiates `CashFlow` for its indicators.

`*Proofs` modules hold the theorems. `MC*` modules hold instances; three of them
put components side by side that share nothing (`MCScenarioRequests`: routes, and the two
stores; `MCPlatform`: container, backup, cases, accounts, profiles, and the end of
the calls of the file store; `MCEconomics`: the twenty-four calculations). The
initial state chooses one of them and the others stay put at one arbitrary input,
so that one run answers for several components without multiplying their states.
`MCCalculations` holds the inputs of `MCEconomics` and nine of its calculations, those
`RulesProofs`, `SeriesProofs` and the last part of `CalculationProofs` are about: the
rules of a community (`commune`, `regulation`), the table of benefits and the bounds of
streams (`benefits`, `bounds`), and what users put in (`ledger`, `series`, `files`,
`shapes`, `composer`). Its specification `CalculationsSpec` runs any one of them;
`MCEconomics` takes its steps up among its own.
`SumTheorems` has what these proof modules need of induction, folds and sums.
A definition whose comment begins with `Variant:`
is a plausible mistake in a definition after it; no specification uses it, and each
serves to show that a property notices that mistake.


## 3. Runs

| run | checks | shows |
|---|---|---|
| `file_store` | `TypeOK` `FileSound` `ConflictMeansTwoOthers` `WritesFollowAcceptedReads` | with every race, a crash, disk errors and an edit, the file stays sound; a damaged file is neither repaired nor used; "changed twice" is never said for nothing |
| | `AckedVersionsStay` `IdsNeverReissued` `ImplementsProtocol` | until another rename or an edit falls into the gap between the second read and the rename, the file is an atomic store |
| `scenario_requests` | `HeldStaysItself` `OnlyOwnerTouches` `SameUpToHistoryDates` | what a route checked still concerns the same scenario and owner when it acts; the two stores agree but for dates in histories |
| `platform` | `NoDataLost` `CopiesAreWhole` `LostOnlyToAnotherEnd` `HistoryIsWhole` `KeepsContract` `Progresses` | storage survives kills and lost disks (a kill inside the restore excepted, see 7); a granted account is lost only to another request's end, a history only to two publications at a time; case execution keeps its contract; the container comes up, and calls over cases and of the file store end |
| `economics` | the properties of the table below | the calculations behind a report are right on over a hundred thousand inputs |
| `router_update_deleted`, `solver_goals`, `container_pull`, `lifecycle_retire`, `accounts`, `cost_lines`, `compared_models`, `drawn_form` | one property each, violated | the findings of section 7 |

The properties of `economics`, each over the calculations it names:

| property | says |
|---|---|
| `TypesOK`, `CalculationsEnd` | types; the goal seek and the replacement loop end |
| `AnswerMeets`, `LeastSupport`, `GoalsDecide` | an answer meets its target, nothing less by the precision does, a metric that turns is answered on its grid, the neediest of several goals decides |
| `EveryYearServed`, `SalvageOfWhatWasBought` | one unit of each part in service in every year; a salvage value has been paid for |
| `IndicatorsAgree` | npv is benefits less costs however it is summed, npv and payback agree up to rounding, payback is the first recovery, irr is unique where mirr is not preferred; a loss is split without a rest or not printed |
| `SharesFillOneBattery` | shares stay within one battery; the plan stores what it can, as early as it can, from what the PV leaves |
| `AttributionAddsUp`, `EveryWonHasAPayer`, `OmissionsAreListed`, `NothingCountedTwice` | of a whole case: what resources earned is the benefit of the year and what is sold is from the PV; one payer for every won, one bearer of the investment; what is not counted is listed and what is listed is not counted; of two streams that exclude each other no more than one has an amount, and no mode of the battery makes the streams of a case exclude each other |
| `OneThingMoves` | a sweep moves what it says and what it names as a turn is one |
| `BilledIsDispatched`, `HeatIsAccountedFor` | what a year is billed for is what its dispatch moved, a battery is replaced when it is spent, a car leaves as charged as it came; heat is supplied or reported as missing |
| `BillsAddUp`, `DemandsAreReal`, `AllocatedWhole` | savings by line come to the difference of the bills; list, preview and calculation of a duty see the same items, and composed bounds conflict exactly where nothing meets what was demanded; shares of a cost come to the cost |
| `ChangesAreThoseUsed`, `WorkIsKept` | the list of changes of a report is what changed its result; measured values and data sets in use stay, what is read is what was written; adding, removing and copying touch one resource of a composition, a form the resources it was drawn for as long as they have their places (afterwards see 7), and edits are lost only to requests that were under way |
| `GridMeansItsAxes`, `TotalsAreKept`, `ComparesLikeWithLike` | the cases are the choices of the grid and its readings agree, and a level is the ledger's in its own unit; a total spread over a year is kept by step and by season; models in one table see the same values or are marked, the support of every row reaches its goal and none smaller by the precision does, a comparison comes to its total |

The invariants of components are checked through these: for example
`Progresses` includes `FileScenarioStore!CallsAreAnswered`, and `WorkIsKept`
includes `SeriesFiles!ReadIsWritten`. The definitions in `MCEconomics` and
`MCPlatform` name the parts.

The gap before a rename is real and is admitted in the docstring
(`scenario_store_file.py:63-65`): between the second reading and the
rename nothing keeps another process away. `file_store` leaves it
open; a history variable, `intruded`, says whether a rename or an edit has fallen
into it, and the last three properties of that run speak of the time before. Without
that condition `NoAckedVersionLost` fails, as the docstring says.

### Behaviours behind the conditions of properties

These behaviours of the code are why some properties carry a condition. Most of them
no document speaks of; where one does, it is named.

* Scenarios: a run whose settings record was overwritten between the two reads goes
  on without the overrides (`ui_scenarios.py:220`). `list_versions` in memory shows
  the deletion date on the last version, which the file store does not
  (`scenario_store.py:148-152`, `scenario_store_file.py:249-253`), hence "up to
  history dates".
* Storage: a backup or restore over an existing destination can leave an old `-wal`
  beside a new main file (`BackupFiles` with `Reuse = TRUE`), hence "to a fresh
  path". A reader of a series whose file is rewritten between its two openings gets
  another table than the one it checked (`tsstore.py:182,193`), hence "a reader
  nobody disturbs".
* Profiles and compositions: two handlers that publish one profile at a time leave
  one of them out of its history (`regulation_admin.py:92-93`); `create` over an
  existing name empties the current profile; of two users who edit a composition at
  a time one edit is lost (`model_composer.py:47-51`).
* Indicators: `npv` rounds every row and `payback_discounted` every year
  (`metrics.py:53,270`), so that an unchanging flow may be recovered with a net
  present value of minus one won, hence "up to rounding"
  (`test_metrics.py:521-522` calls the two equivalent).
* Resources: the yearly formulas of PV and battery go on after the resource has
  retired; a series stops with it.
* Tariffs: blocks out of order charge some energy twice, and what is above a last
  block that ends is free; `BillsAddUp` is stated for blocks that rise to an open one.
* Shared costs: the residue of rounding goes to the last household, which may even be
  paid a won: of two won, four households bear 1, 1, 1 and -1 (`common_asset.py:329`).
* Series: a gap with nothing before it becomes 0 under one policy
  (`timeseries_validation.py:110`); swapping a binding leaves the reference in the
  registry where it was.
* Reports: with an override above the high level of an input the bisection runs
  backwards and names a middle as a turn (`sensitivity.py:76`), what the
  docstring (`sensitivity.py:43-56`) calls the defect of an earlier, absolute tolerance;
  hence overrides within the levels or at most one above the high one.
* Comparison: a model that no support saves would be listed with 100 %, where
  `comparison.py:163-165` wants the miss reported. With yearly amounts of zero and more
  there is none, and the property asks the goal of every row; a negative operating cost,
  which a battery or a heat pump may be given (`ess.py:234`, `heatpump.py:304`), is
  not among the inputs. Of two rows of one tag only the later is in the difference.

`PROJECT.json` says the same of each hazard, at its line.


## 4. Bounds

* File store: two processes, three calls, a clock of two values, one crash or one
  edit (the theorems of section 6 hold for any number of each). Every race of `_update` needs a reader, one other writer, and at most a
  third call for the retry; `ConflictMeansTwoOthers` needs exactly three. A clock
  that may stand still between writes gives equal file times. A retention of 0
  ticks makes a deletion purgeable after one tick. Processes are symmetric.
  Each execution has one of two sets of requests (`Bounded`): five requests that
  change the file, and then anything may happen; or all ten, reads among them, and then
  it ends at the first crash, edit or intrusion. The store inside `platform` serves
  liveness only and has fewer requests.
* Routes: two requests in flight at a time, four in all, over a store that is
  empty or holds three records (two owners, a settings record, one
  deleted): enough to delete, purge and reissue an id between a check and
  its act. Clients are symmetric. The two stores run six calls.
* Accounts and profiles: two threads, two addresses or names, two passwords or
  versions, three requests: the finding needs two, `HistoryIsWhole` a third that
  clones or repeats a version. Items are two validity periods of one key.
* Composer: two users, four registrations, the demo model of two resources, forms
  drawn from it: a read, two registrations of another user and
  one's own.
* Container and backup: three transactions, kills and copies: one before, one
  during and one after a copy.
* Cases: up to four in some order, two workers, threshold three, one death: more
  cases than workers, and exactly, above and below the threshold.
* Goal seek: 20 units of support, a tenth being 2 and the precision 1; step
  curves with breaks on and off the tenths, and dips inside and across them.
  `solver_goals` needs only a precision of 3.
* Lifecycle: horizons of 1 to 7 years and lives of 1, 2, 3 and 5: divisors,
  non-divisors, equal, longer. Cash flows: three years, rows with years left
  out, three rates.
* Day and case: six hours, capacity and power of 8 or 16, losses of one half,
  shares of halves, PV with a dark hour at noon; horizons of 1, 3 and 5 years;
  every contract structure with a whole and with an empty contract, every support
  scheme under three viewpoints. Quantities are chosen so that divisions are exact
  where rounding is not the subject (`TypeOK` says so).
* Resources over their years: two days of four hours, months of a day each; fleets
  on days of six hours in half hours, with stays over midnight and of a whole day, and
  grid limits that bind never, sometimes and always. PV, cars and heat pumps fade by
  half or not at all, a load doubles or stays, so that powers stay whole.
* Tariffs and profiles: periods that meet, overlap, leave a gap and end before they
  begin; days before, in and after; consumption at and beside the border of a block.
* Ledgers: five items, one per way an item is read; overrides in the right and in the
  wrong form. Series: two months of one and two days of three hours; gaps at both ends,
  in a row, everywhere. Grids: up to four variables of up to three levels, coupled
  or not. Comparisons: no models or two, ledgers of one name and two versions.

`CHECK_DEADLOCK` is off: calculations, bounded calls and kills do end.
All these bounds are constants of the modules; the guards name them.


## 5. Fairness

* The file store in `MCPlatform`: a process that entered a call keeps taking its
  steps (a thread is scheduled): weak fairness of `Step(p)` for every process.
  Calls, failures, crashes, edits owe nothing.
* `MCEconomics`: goal seek and replacement loop run in one thread that nothing
  interrupts; weak fairness of their steps.
* `ContainerStorage`: the platform starts a killed container again and runs its
  start-up hook; weak fairness of the container's own steps. Kills are bounded: a
  container killed for ever need not come up.
* `CaseGridExecution`: the calling thread runs on and the pool runs what it was
  given; weak fairness of each. That every runner returns is an assumption about the
  case runner, a program without loops that wait.


## 6. Proofs

Everything here holds for every value of the constants under their assumptions, which
are named in the modules that declare the constants (`RequestsAssumption`,
`BoundsAssumption`, `RetentionAssumption`, `UnitsAssumption`, `ProblemsAssumption`,
`LifecycleAssumption`, `CasesAssumption`, `StoreRequestsAssumption`,
`ProfilesAssumption`, `CommunesAssumption`, `TablesAssumption`, `DemandsAssumption`,
`SettingsAssumption`, `UploadsAssumption`, `ShapesAssumption`, `ComposerAssumption`). TLC
evaluates every one of them in the runs. A condition that is more than the shape of the
constants is named below with the theorem it belongs to.

### The scenario store

* `ScenarioRecordsProofs`: `OutcomeSound` - any request applied to a sound state
  leaves a sound one. One lemma per operation.
* `FileScenarioStoreProofs`: for any number of processes, calls, crashes and edits,
  with every race in the gap, `FileStaysSound`, `TypeCorrect`, `DamageIsNotUsed`
  and `NoRefusalForNothing`. The invariant is
  `TypeOK /\ FileSound /\ PlansSound /\ StagedSound`: soundness of the file alone is
  not inductive, because a rename puts in place what some process staged long ago; so
  every plan and every staged file must already be sound, and `OutcomeSound` gives that
  at the read. That a damaged file is not used needs that a plan was made from a reading
  that was accepted; that "changed twice" is not said for nothing needs that every
  rename gives the file a new version that no earlier reading holds.
* `AcknowledgedIsKept`, `IdsIssuedOnce` and `FileIsAtomic` (the refinement of
  `ScenarioStore`) are about `WatchedSpec`, the store with the history variable
  `intruded` (`WatchedIsStore`: it has no other executions), for any requests and
  without the bound of the run, and say what holds until the first intrusion: without
  that condition `NoAckedVersionLost` is false, as the docstring says. The last two
  except the edit itself: a person who edits the file may set `next_id` back, which
  nothing in the abstract store corresponds to.
  What carries them is that, before an intrusion, whoever has passed its second
  reading holds a plan made from the very file that is in place, so that its rename is
  the operation applied to the present state; every other step changes neither the
  abstract state nor any answer.
* `ScenarioRequestsProofs`: the routes over the store, and the store in memory.
  `HeldStaysItself`, `OnlyOwnerTouches` and `ReadingsStay` hold for any number of
  requests in flight. The invariant says of each request what its program counter
  promises: it follows its route (`Scripted`), with a request its client may send
  (`Allowed`), holds a version of a scenario that is its own (`HeldIsTheirs`), which is
  still listed or was removed by somebody since (`ListedOrGone`); an id is never given
  to another owner, so what was checked still concerns the same scenario.
  `StoresAgree` - `SameUpToHistoryDates` for any run of requests: the heap of the
  store in memory mirrors the records of the file (`Mirrors`), a record and the
  last entry of its history being one object, and each operation keeps the two alike.

### The goal seek and the replacement loop

* `CalculationProofs`: `AnswersReachTheirTargets`, `AnswersAreLeast`,
  `NeediestGoalDecides` and `SolverTypes`, for every metric, unit and precision. The
  invariant is `TypeOK /\ Bracket /\ AnswersGood`: the lower end of the bracket misses
  the target and the upper end meets it, and for monotone metrics nothing below the
  lower end does; what was found before stays as good as it was.
* `ServedThroughout` - every resource that is replaced has
  exactly one unit of each part in service in every year of any horizon - with
  `LoopInv`: the units bought so far form a chain up to the loop's year, each a life
  after the one before. `SalvageIsOfThePaid` - a salvage value is of a unit that was
  bought and not of more than it cost - for the classes that do not retire, the others
  being finding 4. The provers know no laws of `^`; what they are told of the factor
  by which prices rise - that it is a natural number, 1 in the first year, and always 1
  without a rise - is part of `LifecycleAssumption`, which TLC evaluates.

### The rules of a community

`RulesProofs`, `SeriesProofs` and the ledger in `CalculationProofs` are about
`CalculationsSpec`, the nine calculations of `MCCalculations`, of which one runs; their inputs are any that the named assumptions
allow, whatever their number, length and signs.

* `SharesAreWhole` - `AllocatedWhole`. `CommuneInv` says that what has been allocated
  for the years so far is, year by year, the allocation of that year's cost, and
  that nothing is allocated before the commune was declared well and can be split
  (`Splittable`). The property itself is not inductive: it says nothing of a commune
  that was not declared well, whose costs would be negative. Given the
  invariant it rests on three facts: rounding is at most half a won off and keeps the
  order; when the last household takes what the others leave, the shares come to the
  total and the last is off by at most half a won for every household
  (`LastGetsTheRest`); and a table adds up to the same by rows, what a household pays,
  and by columns, what an asset costs (`SumByRowsAndColumns`). That a salvage value
  is never more than the last purchase is arithmetic of lives and horizons. The
  provers know no laws of `^`: that a power of two is a natural number is part of
  `CommunesAssumption`.
* `DemandsStayReal` - `DemandsAreReal`, which has two parts.
  For duties, `RegulationInv` says which question each stage
  answers: the preview is of the two profiles asked about, and a duty is assessed
  only where both profiles have the numbers it needs. The heart is `ListsAreLookedUp`:
  the list of items in force is made in one pass that keeps the later of two entries of
  a key, the lookup of a key takes the latest of its entries, and for every profile and
  every day both come to the same entry, the earliest of several with the same first day.
  It is shown along the fold: after any number of entries the selection has,
  under each key, the lookup's answer for the entries so far.
  For bounds, `BoundsInv` says that what is composed is composed of declarations of
  one length. `BoundIsTightest` - the upper limit of a step is the least and the lower
  limit the greatest of all that was declared for it, and there is none where nobody said
  anything - is shown along the fold over the declarations, and from it that a step
  is a conflict exactly where no value meets all declarations.
* `NoneIsCountedTwice` - `NothingCountedTwice`. `BenefitsInv` says that a stream whose
  amount is accounted was put into that column by the rules of the table, and that there
  is a line for every stream so far. That no two accounted streams exclude each other
  needs both places where the code looks: pairs of the types A and E are refused before
  the first line (`assert_no_exclusions`), and line by line either stream of any other
  pair, and what is only an increment (type B), is kept out of that column, whatever the
  order of the table and of the streams.

### What users put in

* `ChangesStayThoseUsed` (in `CalculationProofs`) - `ChangesAreThoseUsed`, for any
  ledgers, keys and submissions. `LedgerInv` follows one run: what it opens is the
  ledger of the day with the rows over it, the numbers are computed from that, and
  which keys were read is settled before the appendix reads every key. That each
  row is listed with its own value rests on `Resolves`, which admits every key once
  (`RowsSay`, `RowsAreListed`); that a row marked as not read could be left out is
  shown number by number, since no number looks at a key outside `Direct` and `Backed`
  (`UnreadCountsNothing`). A level of a case variable is read from the file and
  not from the provider; that it is nevertheless the number the appendix shows
  (`LevelsAreOfTheItem`) needs what `scripts/check_assumptions.py` checks of the file and
  the loader does not: a blocked item has no levels, and the base of the levels is the
  value. `IsLedgerFile` says so and `SettingsAssumption` demands it. That a
  change the comparison does not name changes no number is claimed where an unedited
  run exists under both ledgers.
* `WorkStaysKept` - `WorkIsKept`, which has three parts.
  For series, `SeriesInv`: a value that was measured is never
  changed, a gap is filled once and from the left, so that the values beside a
  gap are the measured ones of the upload or, to its left, ones that were filled from
  them (`GapByGap`); an estimated year is what the months and weights give.
  What follows is that a filled value lies between the measured ones
  beside its gap, on the straight line where it is interpolated, and that the hours of
  a month add up to its reading (`PartsOfFlattened`). A data set that a scenario refers to
  is registered and as the scenario saw it.
  For files, `FilesInv`, with any number of writers, killed at any step: a reader past
  its first opening that nobody disturbed holds what it expects, and what a writer
  who was alone has written is its own whole table.
  For the composer, `ComposerInv`, with any number of users and registrations: the
  names of a composition are distinct, each edit touched what it should (`EditKeeps`;
  that a form changes the resources it was drawn for while they have their places rests
  on the names of the demo model being distinct), and an edit that all later ones have seen is still there. Along the history this is not
  inductive without what a user holds who has read but not yet registered
  (`UnderWay`): the same facts of the composition it saw.
* `TotalsStayKept` - `TotalsAreKept`. `ShapesInv` says that what is spread is spread of
  the seasons that were read and checked. Spreading a quantity by weights that divide it
  leaves nothing over (`SpreadByWeights`); a season has its share in whole and at each
  step (`SeasonIsWhole`), the seasons put end to end have all of it
  (`YearIsWhole`, `SumOfFlattened`, `ColumnsOfFlattened`), and the representative
  day as often as the year has days has the same at every step. The
  code spreads floating-point numbers; `ShapesAssumption` demands of the shapes
  that no division leaves a rest (`NoRest`), which is what exactness means here.

### Induction and sums

The induction theorems of the library take an operator as parameter, which none of the
provers can instantiate. `SumTheorems` therefore starts with induction over finite
sets and numbers (`SetInduction`, `NumberInduction`), where the property to be
shown is given as the set of what has it, derived from the well-foundedness of the
numbers; then that a fold from the left is an iteration (`LeftFold`), how sums
behave (`SumTake`, `SumPlus`, `SumOfParts`, `SumOfImage`, `SumOfJoined`,
`SumByRowsAndColumns`), and where in a sequence that was put together of others each of
them lies and what it adds up to (`FlattenPlaces`, `SumOfFlattened`, `PartsOfFlattened`,
`ColumnsOfFlattened`), and that a mean lies within its values (`MeanWithin`).

### Storage, cases and accounts

* `PlatformProofs`, over the specification of the run `platform`:
  `ContainerKeepsData` - in a container no replicated transaction is lost, for any
  number of transactions and kills, if no kill falls into the restore
  (`KillsDuringPull = FALSE`; with it, finding 3). The invariant says at each step of
  a push or a pull which file is whole.
  `CopiesCarryAll` - a backup to a fresh path (`Reuse = FALSE`) holds every transaction,
  and a restore brings it back; the log belongs to the main file beside it.
* `AccountsLost` - an account that was granted is lost only to the end of another
  request, for any number of threads: the table has one row per address and what is
  committed was in it (`TablesOK`), and a sign-up past its INSERT finds its row unless
  another session closed since (`SignupsOK`).
* `HistoryKept` - every profile that was current is in the history, in order, unless two
  publications of one name met: a handler that is alone with a name finds the book as
  it left it (`BookOK`, `Alone`).
* `CasesKeepTheContract` - `CaseGridExecution` implements `CaseGridRun`, for any cases
  with distinct indices, any order of completion, any number of workers, stop requests,
  errors and deaths. `SequentialOK` and `ParallelOK` say which cases are done, pending
  and still in the pool; `EndingOK` what may have ended the call. The results are in
  order because the one increasing function onto the indices is the one that counts
  the members below each.

### What is not proved

Liveness under fairness, and `ENABLED`. Of the calculations in `MCEconomics` eleven
are proved: the goal seek, the replacement loop and the nine of `MCCalculations`. The others
- cash flow, day, case, influences, resources over their years, tariffs, grids,
comparisons and levels - are model-checked only. Of a case, `NothingCountedTwice` says
what holds of any streams; that the streams a case makes never exclude each other
(`ModesAreRunnable`) is an enumeration of modes and contracts, and TLC's.
`TypesOK` is about all calculations and stays with TLC for that reason.
What resists is different from one to the next: the day is a search for a plan that is
best in a sense the properties compare with all other plans; the case is a long
sequence of formulas without a loop, in which a proof would repeat every one of them;
indicators and bills multiply and divide unknowns by unknowns, which no prover here
decides.


## 7. Findings

Each is a run that TLC refutes, quoted in `PROJECT.json` with the line that says
otherwise.

1. `router_update_deleted`: an update checks that a scenario is active and saves
   in a second call; deleted in between, it is updated while deleted.
2. `solver_goals`: the largest of several least supports can miss a goal whose
   metric is not monotone, while the docstring says it satisfies them all.
3. `container_pull`: a kill inside the restore leaves an empty file the next
   start trusts, and the next push replaces the good replica with it.
4. `lifecycle_retire`: EV, load and thermal load keep a salvage value of a unit
   that was never bought when they retire.
5. `accounts`: a request that ends rolls back the INSERT of a sign-up that has not
   committed yet; the sign-up then commits nothing and answers with success.
6. `cost_lines`: with a pool baseline the yearly cost includes the self-consumption
   that is given up, and no line of cost shows it; the report's stages of
   verification refer the comparison to a stage that compares something else.
7. `compared_models`: the comparison of models hands benefits and costs to the
   indicators in one list of positive amounts, so that operating costs raise the net
   present value; the case runner was corrected for exactly this.
8. `drawn_form`: the form of all parameters is numbered by the demo model and applied
   by place to the composition that is kept; a user who removes a resource and then
   submits the form changes another resource than the one the screen named
   (`ui_forms.py:441`), which `tests/app/test_ui_forms.py:407-413` calls a defect.


## 8. What is not modelled

`PROJECT.json` gives the reason for each component. Left out as a whole: hashing,
tokens and transport (libraries); audit rows, declarations of tables and migrations,
start-up checks, the run executor and the command line, layout, wording, charts,
templates and the repository's own scripts, which keep no state a property could be
about; `compute_perspective_npv`, `salvage.py`, the schedule of a loan and the catalogue
of technologies, which nothing but tests calls; the building of a model from its
description.

In the modelled parts: a route's call of the scenario store is one step; the store
in memory has no lock and runs its methods in several statements under the thread
pool (`scenario_store.py:92-110`, `128-146`), and what two threads inside them do
to each other is not modelled. `LitestreamReplica` calls an external program; WAL mode is
assumed by `backup.py` and set nowhere, and `BackupFiles` models the mode that
`backup.py` assumes; `should_backup` and `execution_plan` are arithmetic; `irr` and
`mirr` search and sum floats (`irr` appears as what it searches for);
`payback_simple` and `mirr_preferred_over_irr` are called by tests only, and
are modelled as part of the same set of indicators. A whole case (`CaseRun`) has one
PV, one battery and one household; heat pumps, cars and heat loads are modelled with
the engine, not inside the case runner. Second-life batteries, regional costs and the
VAT of what is bought are left out. The composer has one number in the place of a
resource's parameters.
Energies, money and support are whole numbers in units that make
divisions exact, except where rounding is the subject (`ToWon`).


## 9. Plan

Done, in this order: the stores and their protocol (the state users lose if it
goes wrong), the routes over them, the goal seek, storage and backup, case execution,
lifecycle, cash flow, the day, accounts and profiles, with the proofs of the file store,
the goal seek and the replacement loop; then the whole case with its streams, what a
report says of it, the resources over their years, bills, duties and shared costs, the
ledger and its overrides, series and their files, grids and shapes, comparisons, the
composer and the bounds of benefits.

What is left to model: heat, cars and grid limits inside `CaseRun`; the building of a
model and its parameters; the POST that replaces a composition.

Proved since: the routes and the two stores, atomicity of the file store, storage
and backup, accounts and profiles, case execution, shared costs and duties, bounds, the
table of benefits, the ledger, series and their files, shapes of a day, and the composer.

Next theorems, over calculations that would be taken up in `MCCalculations` as these
were: `GridMeansItsAxes` for `CaseGridAxes`, whose cases are a product over sequences;
`ComparesLikeWithLike` for the difference of a project from its baseline, a sum over two
tables; for `DayDispatch`, that a share never charges more than the hour leaves or
its power allows; for `CaseRun`, that every won has one payer.
