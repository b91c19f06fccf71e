# Verification of Metrifid

TLA+ models of the parts of Metrifid (`src/src/metrifid`) whose correctness depends on order,
interruption, other processes or limits, the TLC runs that check them on small instances, and
theorems about them that TLAPS checks for every value of the constants.

## 1. Inventory of the system

Metrifid decides whether a change around a MuJoCo simulation (a runtime upgrade, a model edit, a
timestep, a controller) stays inside declared limits, and keeps evidence for every decision. It is
a command-line program; each command is one process. What makes it hard is not concurrency inside
a process but everything around it: other processes of the same user that share the directories,
child processes that time out, files that change between two reads, calls that fail half-way,
power loss, and step, attempt and CPU limits that strike anywhere.

| Part | Keeps | Does | What makes it correct |
|---|---|---|---|
| `_owned_artifacts`, `_atomic_output` | descriptors, sealed length and hash, private and public names | create, write, sync, seal, link, finalize, verify, clean up one pair of results | never clobbers, never shows a partial file, success means both exact names, failure leaves no private file |
| `_atomic_output`, `result/_runs` | directory descriptors, run names | make and bind output directories, allocate retained runs | two invocations never share a run; what is opened is what was seen |
| `repair/_engine`, `_physics` | budget, poll, evidence, result | settle, screen, poll, confirm, replay, finish | limits respected, all work charged, every verdict rests on complete evidence |
| `repair/_controller` | stroke, route, waypoint, push | plan a route round the block, follow it, push, hold, all against deadlines | strokes end in order, a push is what was decoded, a route neither cuts the block nor leaves the rails |
| `repair/_codec` | nothing | serialize a result, admit a record | admits what the engine can build, or the result is lost |
| `repair/_files` | bundle of members and a record | run, show and replay a bundle | record last; a read returns one consistent bundle; exit codes tell refusal from failure |
| `runtime_review/_execution*` | owned output, 14 slots, observations | preflights, twelve one-shot cells, referee, run record | first attempts only, bound to what was admitted, record published last |
| `runtime_review/_run`, `_owned_output` | staging tree, published tree | admit, decide, copy, verify, rename, replay | published tree is complete, is what was decided on, and never replaces another |
| `_native_upgrade`, `runtime_review/_decision`, `_witness` | nothing (pure) | gates, admitted prefix, witnesses, product status | exit 0 only for complete evidence within tolerance; OUTSIDE first |
| `tools/native_upgrade_profile_*`, `runtime_review/_native_profile_identity` | measured environment, gates, contacts, six members of a cell | collect an identity with a sentinel, run one fixture at one step size, write a cell | a refusal leaves what is missing of a result; a completed cell is admitted; the environment is the sentinel's |
| `runtime_review/_evidence` | the bytes of a cell as read once | admit manifest, identity, arrays, contacts, diagnostics, and the cells together | nothing is believed: every claim is bound to the bytes beside it |
| `runtime_review/_config`, `_receipt`, `_receipt_validation` | nothing | admit and order a configuration, build a receipt, rebuild it from the retained tree | both sides agree on one order and one content |
| `workload_qualification/*` | owned root, ledger of comparisons, document | admit, run each comparison, check that they are one campaign, rank, explain, publish, read again | what is published is decided from comparisons that agree on what they share, and accepted by its reader; what is accepted is implied by the comparisons beside it |
| `certify/*`, `model_release/*` | private snapshots, receipts | compile twice, compare fields, decide a release | decisions on stable bytes |
| `compare/*`, timestep audit | traces, budgets, receipts | run two models in lock step, compare, report first failure | first failure reported, budgets respected |
| model identity, workloads, schemas, JSON | nothing | parse, hash, admit | closed formats |
| `result/*`, `cli.py`, `demo.py` | retained runs | dispatch, exit codes, bounded rendering | exit code says what happened |
| `distribution*` | nothing | hash the installed package | |

Interactions: `cli` calls one command; each command binds its output through `_atomic_output` or
an owned root of its own and publishes through `_owned_artifacts`, a staged rename or exclusive
creation; `repair/_files` calls `_engine` once between binding and publishing;
`runtime_review/_execution` launches workers, then calls `runtime_review/_run`, which admits,
decides (`_native_upgrade`) and publishes; `workload_qualification` and the timestep audit call
`compare` repeatedly. The components share no memory, only the file system.

### Where it is hard

- **Paired publication.** Two names cannot be taken in one call. Between any two of some forty
  system calls another process may act, a call may fail, or the machine may stop; four nested
  handlers clean up.
- **Output directories.** `mkdir` returns no descriptor, ancestors are shared by invocations that
  race to make them, and what was observed by name may be another object when it is opened.
- **Repair engine.** Four limits (attempts, steps, sweeps, CPU) and two exceptions (a native error,
  unknown work) may strike at any integration call of the settling, a screen, the confirmation or a
  replay, and three functions keep the counters. Verdicts must not rest on what was cut off.
- **Repair files.** A bundle is several files. A reader may come while they are published or
  replaced one by one, the machine may stop between two of them, and the same exception is a
  refusal or a failure depending on the phase.
- **Runtime review execution.** Programs and evidence are hashed first and read by somebody else
  afterwards; a child process may time out or fail; nothing may be tried twice.
- **Runtime decision.** Gates, admitted prefix, witnesses and precedence interact over twelve
  cells; the tail envelope speaks of grids nobody simulated.
- **Evidence cell.** Collector, worker and referee are separate programs without common code that
  meet in files, days apart. The environment may be upgraded in between, files may be swapped and
  swapped back, and contacts are decided at every step but recorded on a coarser grid.
- **Review output.** The evidence is read twice, once to decide and once to copy; the staged tree is
  verified piece by piece through paths and descriptors and becomes visible in one rename; a reader
  that trusts nothing rebuilds the receipt from it.
- **Workload qualification.** A campaign reads the same sources for dozens of comparisons over hours.
  Its document states the same facts many times over, and its tree is read elsewhere.
- **Repair record and controller.** The codec refuses any relation between fields it does not know,
  and a refusal loses the result of a long run. The controller mixes geometry with deadlines that are
  floored one by one.

## 2. Plan

Modules in the order they were, or would be, written:

| # | Module | Stands for | State |
|---|---|---|---|
| 1 | `RepairEngine` (+ `RepairProofs`) | the engine | done |
| 2 | `NoClobberPair`, `PairedPublication` (+ `PairedPublicationProofs`) | the promise of a paired publication and its calls | done |
| 3 | `OutputDirectory` (`PairedPublicationProofs` holds its proofs too) | directories of invocations | done |
| 4 | `RuntimeReviewRun`, `ReviewRunRecord` (+ `RuntimeReviewRunProofs`) | the run of a runtime review, its record as a document | done |
| 5 | `TailEnvelope`, `GridRefinement` | the envelope, and what it promises | done |
| 6 | `RuntimeDecision` (+ `RuntimeDecisionProofs`, which holds the proofs about both) | the decision of a review | done |
| 7 | `RepairFiles` (+ `RepairFilesProofs`) | bundles of the repair | done |
| 8 | `FixtureContract`, `ProfileIdentity`, `ProfileWorker`, `CellAdmission`, `EvidenceCell` (+ `EvidenceCellProofs`) | one cell from its identity to its admission | done |
| 9 | `ReviewConfiguration`, `ReviewReceipt`, `RuntimeReviewOutput` (+ `RuntimeReviewOutputProofs`) | configuration, receipt, staging and publication of a review | done |
| 10 | `QualificationConfig`, `QualificationDecision`, `QualificationCampaign`, `QualificationReceipt`, `WorkloadQualification` (+ `QualificationProofs`) | a campaign and its reader | done |
| 11 | `RepairRecord` | what the codec admits of what the engine builds | done |
| 12 | `RoutePlan`, `StrokeController` (`RepairProofs` holds its proofs too) | the controller of an episode | done |
| 13 | `ModelSnapshot` | the private snapshot of a model release while its sources change | left |
| 14 | `CompareRun` | lock step of two runners, step budget, first failure | left |
| 15 | `Certify` | two compilations and the comparison of their fields | left |

How they are composed: `PairedPublication` instantiates `NoClobberPair` as its abstract
specification. `GridRefinement` and `RuntimeDecision` extend `TailEnvelope`. `RepairRecord` extends
`RepairEngine`, and `ReviewRunRecord` `RuntimeReviewRun`: they read the documents off the states these
reach. The modules of a cell extend one another in the order of the table, from the fixture both
programs parse to the four processes that meet in files; so do those of a review's output and of a
qualification. Between these groups the interface is data: `RuntimeReviewRun` takes the referee as
one step, which `RuntimeReviewOutput` opens; `RuntimeReviewOutput` takes the content of a cell as its
flags and its generation, which `EvidenceCell` opens, and the decision as a function of the contents,
which `RuntimeDecision` opens; `RepairFiles` takes the engine as one step, and the private temporaries
of an artifact from `PairedPublication`.

Every invariant the runs check is proved; `WorkAccounted`, `SelectionOnlyDescends`, `NeverClobbers` and
`ReviewNeverOverwrites` are proved of properties that no run is spent on. A common abstract specification of the publishers ("all of
it, last the marker") is worth stating.

## 3. The modules and the code

In every module an action is one step of the program between two points where something else may
happen: a system call where other processes matter, a counted integration call where limits matter,
a whole handler where nothing else can intervene. `MC...` modules hold the instances for TLC, and
operators named `...Mutant` are plausible errors of the code: they are not part of any
specification, each one shows that a property would notice it. Acts of other processes of the same
user (`Rival...`, `Meddle`), failing calls (`CallFails`) and power loss (`Crash`, `PowerLoss`) are
actions of the environment; `MaxRival` and `MaxFaults` bound their number (in `PairedPublication` for each
group of publishers), `CanCrash` allows a stop.

### RepairEngine (`repair/_engine.py`)

`budget` is `_Budget`; `pc` the function that is running; `episode`, `before`, `pair` the paired
evaluation at work; `poll` the locals of `_poll_coordinate` (sweep, coordinate, sign, preferred
signs, step); `selected`, `initial`, `confirmation` and `result` what `_finish` reports. A
normalized controller is a point of an integer lattice whose unit is the minimum step. `landscape`
gives the measurements an evaluation may return for a controller, any of them each time: physics is
data. The CPU clock is read only against two ceilings, so it has three values and advances at any
time (`Tick`). Admission, settling, screens, the poll, the confirmation, the replay and the finish
are the actions; every integration call is one (`StepCompletes`, `StepRaises`), so an interruption
can come between any two.

### RepairRecord (`repair/_codec.py`)

What the two serializers write of the engine's final state, and what `admit_record` demands of it,
relation by relation: outcome and exit code, limits and costs, measurements whose verdict is derived
again, bindings between parameters, what a finite outcome must know, what a success must hold. Numbers,
vectors and digests are the values of the engine; canonical encoding is left out. What the engine's
state leaves open (how settling ended, how late the clock is read again) is a set of records, and all
of them must be admitted.

### RoutePlan, StrokeController (`repair/_controller.py`)

`RoutePlan` is the four-face planner on an integer lattice in the frame of the block: retraction,
transit and approach corners, clipping to the rails, feasible segments. `StrokeController` is
`decode_schedule`, `Reset`, and in `Update` one action per branch of `update`, called once per control
period: start a stroke, follow the route, push, run into a deadline, hold. The physics moves finger and block between
two strokes as it likes, within `Problems`, and the finger lags behind the reference as it likes.

### PairedPublication, NoClobberPair (`_owned_artifacts.py`, `_atomic_output.py`)

`Script` is the sequence of calls that `_publish_paired_results` makes, put together from the
operators of the functions it calls (`WriteOps`, `LinkOps`, `FinalizeOps`, `PairVerifyOps`); there is
one action for each kind of call, and `Fail` leads to the cleanup plans of the handlers. A read or `stat`
that fails in a cleanup counts as bytes that are not exact (`CleanupMisreads`), and the artifact is given
up; an `unlink` that raises (`CleanupRaises`) ends the pass of one handler. `cleanup` counts the passes
that ended so in `raises`, and its `left` are the artifacts whose own cleanup met an error. A file is
named by who created it (the inode), a name holds a file, bytes are absent, partial, the payload or
altered. `durable` is what is on disk; `Crash` keeps that and any part of the rest. `Groups` says which
publishers may come together, `MaxRival`, `MaxFaults` and `CanCrash` what else happens beside each group.
`NoClobberPair` is what the docstrings promise: JSON first, each name only while it is free, success
for the holder of both, everybody decides; once somebody else has acted (`disturbed`), only that
everybody decides, once. `PairedPublication` implements it with `holder`
read off the public names and `outcome` off the states (`KeepsPromise`).

### OutputDirectory (`result/_runs.py`, `_atomic_output.py`)

Directories are numbers and `tree` their entries; an invocation walks from the home through the
ancestors to its run, and `at` is the descriptor it holds. One action per system call: `Stat`,
`Mkdir`, `ObserveChild`, `Open`, `RequireEmpty`, `VerifyPath`. Losing a race for an ancestor goes back to
the observation, a collision of run names draws another name, `MAX_RUN_ALLOCATION_ATTEMPTS` of them
refuse.

### RuntimeReviewRun (`runtime_review/_execution*.py`)

Fourteen slots in the code (two preflights, two roles by grids by repeats) are `2 + 2 * StepDts *
RepeatIds` here. For each slot: recheck, launch, retain, judge, load, admit; then the evidence is
assembled, the referee reads every cell again from its path, the record is built, published and
verified. Inputs are as admitted, other or missing; bytes are told apart by where they come from.
`ran`, `wrote` and `meddled` are ghosts.

`ReviewRunRecord` opens the documents: what the preflights and the attempts put into the record, and
what `verify_completed_run_record` reads again to replay it. A retained file is its state and what it
says, a digest is the pair. Records of schema version 1 are only read by the code, never built, and
left out; the receipt's own copies of the evidence belong to `RuntimeReviewOutput`.

### TailEnvelope, GridRefinement, RuntimeDecision (`_native_upgrade.py`, `runtime_review/_decision.py`, `_witness.py`, `_evidence.py`)

Numbers are integers of one small unit, the scale of a channel is folded in, and the outward
rounding of binary64 is `Ulp`, zero or more. A rotation is a position on a circle, that is a
rotation about one axis. `GridRefinement` adds what the code only assumes, grids finer than the
last, each moving the value by at most three quarters of the last move, so that the classification
can be compared with what would have been seen. In `RuntimeDecision` the state is one body of
evidence and its decision, and a step is the review of a campaign that differs in one respect
(`Measure`, `DiagnosticsDiffer`, `ContactMoves`, `CellDiffers`); the decision is a function of the
evidence, from `_build_case` over `evaluate_case` to the product status and the exit code. `readings`
and `forces` stand for what only a repetition must agree on: diagnostic samples that differ without
failing, and the aggregates of a contact. Left out:
the input hash of a witness and gate channel identifiers. Evidence is admitted, so
`_validate_case` cannot fail.

### RepairFiles (`repair/_files.py` over `workload_qualification/_owned_output.py`)

Two processes: `run` publishes, `reader` is a show or a replay, which publishes a record of its own.
A directory is known by who made it, files by their number in the order of publication, bytes by the
bundle they belong to. `named` is what a public path names, `own` and `source` what a process holds,
`got` what it has read, `left` what it has still to read or publish. `Link` and `Finalize` are one
artifact; `Open` and `Read` are the two observations of `read_bytes`, which refuses a file whose
metadata changed in between; the passes `record`, `members`, `again` and `root` are those of
`_read_record`, `_verify_record` and `_verify_public_root`. `Phase` and `Classify` are the mapping of
`_failure`. Left out: private temporaries (those of `PairedPublication`), the lexical overlap check
of two paths (they differ), and what an admission computes: a bundle is consistent or not.

### FixtureContract, ProfileIdentity, ProfileWorker, CellAdmission, EvidenceCell (`tools/native_upgrade_profile_worker.py`, the collector, `runtime_review/_native_profile_identity.py`, `_evidence.py`)

`FixtureContract` has the contract of a fixture twice, as the worker parses it and as the referee
admits it, because the code has it twice. `ProfileIdentity` says what is measured of an environment
fact by fact (usual, odd, or what the measuring program refuses), the sentinel, and how a worker binds
its own measurement to the collector's. `ProfileWorker` is the simulation: compilation, contacts with
force, impulse, segments and persistence, gates, samples, and the documents made of them.
`CellAdmission` is the referee, check by check. `EvidenceCell` makes processes of them: four programs,
one action per read, measurement, integration step or member written, both routes, and an environment
that drifts, swaps files and restores them (`Drift`, `RivalInput`, `RivalMember`, `Restore`). `history`,
what touched at every step, is a ghost. MuJoCo is external: a step yields any contact, force and
residual of the instance.

### ReviewConfiguration, ReviewReceipt, RuntimeReviewOutput (`runtime_review/_config.py`, `_receipt*.py`, `_run.py`, `_owned_output.py`)

A document is a record with the fields of the JSON object, "keys" says whether its keys are exactly
the expected ones. `ReviewReceipt` builds a receipt and, as a reader who trusts nothing, builds it
again from the tree beside it. `RuntimeReviewOutput` has one action per step of the command: admit,
create the output and the staging directory, bind it by descriptor, copy configuration, identities and
cells, write the receipt, replay and verify the staged tree, rename it without replacing, replay and
verify it again. A directory is known by its inode, so that an entry exchanged by somebody else is
another one with the same name. A cell is read, and written, in one step; its members are told apart
by flags of its content.

### QualificationConfig, QualificationDecision, QualificationCampaign, QualificationReceipt, WorkloadQualification (`workload_qualification/`)

`QualificationConfig` admits a configuration, checks overlap of its paths and generates the comparison
of a cell. `QualificationDecision` has the matrix, eligible workloads, selection, detection floors,
status and witnesses. `QualificationCampaign` binds each comparison to what it read, checks that all of
them are one campaign, and builds the document; `QualificationReceipt` is the later reader, which
derives every claim again and binds it to the retained files. `WorkloadQualification` runs it, one
action per comparison, with other processes that edit sources, retained files, directories and the
document, or move the tree. A comparison ends with any status its instance allows: its metrics are
data. Sorting is `Ordered`, a set in the order of its pairs, and a filter is `Those`; a document is what
`from_primitive` takes apart (`WellFormed`), since its reader knows nothing of who wrote it.

## 4. The runs

Each passing run checks the listed properties over all reachable states of its instance. "States"
are distinct states.

| Run | Instance | States | What it shows |
|---|---|---|---|
| `engine` | two axes of five points, seven reproducible landscapes and one that measures anew each time, budgets from the smallest admitted to ample ones | 265 000 | whatever is measured and wherever the CPU cap or an exception strikes: the reserve of two pairs is enough, exit 0 rests on a qualified confirmation of the reported controller, exit 10 on complete evidence, and neither on a cap that had passed when it was last checked; with reproducible physics the step floor is a coordinate minimum; the codec admits the record of every end; every invocation ends |
| `pair` | one publisher with two acts of others and one failing call, one with two failing calls, both with power loss; two publishers with two failing calls, otherwise undisturbed | 584 000 | success is exact and durable, a failure leaves no private file but one whose own cleanup met an error, one of two publishers wins when nothing fails, and the calls implement `NoClobberPair` with its liveness |
| `directory` | two invocations that start together, one perhaps with `--output`, two run names, two attempts, one act of others | 510 000 | a run directory is one's own and what was admitted, everybody is served or refused |
| `review` | four cells, two acts of others, one failing call | 502 000 | a completed run was measured on the admitted inputs and decided on what its record binds; afterwards no retained file can be changed, removed or added to a cell, and no two attempts exchanged, unnoticed |
| `envelope` | profiles that agree, contract, drift or do not contract, rotations on both sides of the half turn | 55 000 | no refinement under the assumed contraction contradicts a WITHIN or an OUTSIDE witness |
| `decision` | three campaigns, every pair of deviations, three samples, a scalar, an orientation, a contact | 52 000 | exit 0 vouches for all of the evidence, exit 40 for a witness before anything was wrong, the order of the profiles does not matter |
| `review_output` | four cells, ten configurations of both versions, two decisions, two disturbances | 369 000 | what succeeds is whole and what was decided on, what is exposed is one consistent tree, and an undisturbed review of an admitted configuration succeeds |
| `repair_files` | two members, one act of others or one failing call, power loss | 236 000 | the record is never seen without its members, readers admit one bundle, success is on disk, a bundle with its record can be read |
| `cell` | two step sizes, two routes, 27 manifests, five models, every contact history, one trouble | 238 000 | a cell that completes undisturbed is admitted; an admitted one holds what one worker did with the declared fixture, in the environment of its sentinel, and its contacts are what happened |
| `qualification` | three workloads of which two are chosen, one or two groups of two rungs, every outcome, seven refused configurations, disturbed campaigns | 161 000 | a campaign is decided from comparisons that agree on what they share; what it publishes is accepted, and explained by a retained comparison; what is accepted is implied by the comparisons beside it |
| `qualification_dots` | the same | violated | a run whose configuration was named through a parent directory publishes a document its own loader refuses |
| `stroke` | four schedules, 60 observations per stroke, three pushes, every lag | 273 000 | a finished push is the decoded one or cut by its deadline, the hold is stationary, routes keep off the block and within the rails |

Every property of a passing run has a mutant in `PROJECT.json`: a plausible error of the code under
which the same run finds it violated.

### Bounds and why they are enough

- `engine`: two axes and five points make every case of the poll happen: both signs, the box
  boundary, preferred signs that turn, a halved step, a sweep that improves and one that does not.
  Three landscapes have a reachable or a rounding zero. Four have none: with 13 attempts, which is what
  three sweeps can use, the search ends at the step floor at a bottom inside the box (`Plateau`), on a
  slope no steeper than the tolerance (`Shallow`) and at a wall of rejections (`Walled`), and in its last sweep where
  the bottom is too far (`Distant`). In the last one (`Noisy`) every measurement may turn out differently each time, with zeros
  on the line of the originals only.
  The step budgets are one that is refused, the least admitted one, two that end a search early and
  one that never binds. For other dimensions and costs the safety properties are proved.
  `RecordIsAdmitted` has two exceptions, both named: a record whose clock reading crossed a ceiling
  after the last check (`CeilingCrossed`, section 6), and physics that measures one controller in two
  ways, which the codec means to refuse (`ScreeningContradicted`).
- `pair`, `review`: two acts of others are needed to swap something and put it back; more only
  repeat that. One failing call strikes at every call; of two, the second strikes at every call of the
  cleanup that the first one caused. Two publishers are not disturbed besides, since
  they only meet at the two public names, and a rival that takes these is among the acts of others
  beside one publisher.
- `directory`: two invocations are enough for every race of a `mkdir`, two names and two attempts for
  a collision and for the last attempt. `MaxDirs = 7` is as many directories as two invocations and
  one rival can make, so the guard it adds never disables a step that the bound on rivals allows.
- `review`: two repeats of one grid for two roles make cells that follow one another within a role
  and across roles; the other cells of the code's twelve repeat the same steps.
- `envelope`: the unit is so coarse that a tolerance is a few units: every comparison of the
  classification is met with equality.
- `decision`: two deviations are enough to make one gate hide, or fail to hide, another; the samples
  are the start, the minimum prefix and the horizon. Every gate kind, reason and exit code occurs.
- `review_output`: four slots, as in `review`, of which the document names the cells and repeats in
  reverse order; two disturbances are an exchange and its undoing, or an exchange at two places. One
  good configuration of each version, eight that are refused for different reasons.
- `repair_files`: one member that is always there and one that is not; `MaxActs = 1` is one
  interference or one failing call, at any point, besides the power loss.
- `cell`: the horizon is two control intervals of two steps, so that an episode of contact may lie
  between two observations, span one, or stay open. One trouble per cell (bad physics, a failing call
  or measurement, a bad sentinel, a drift or a swap, which may be undone once): admission is a
  conjunction of checks, and each is met by the document that fails it alone. Drifts and swapped
  inputs are tried at the coarsest step only, where they meet the same readings. Times are integers.
  `CompletedIsAdmitted` excepts three cells by name: a contact at time zero, numbers in scientific
  notation, and a manifest of more than 256 channels (`FewChannels`), which no manifest of the instance
  has; section 6 says what the code does with each.
- `qualification`: `Budget = 2` of three workloads stands for three of up to sixteen; it leaves a
  choice, a workload that is not eligible, and none to choose. One group is run with every outcome of
  every cell, two groups with the upper rungs varying. Disturbance is one act with three workloads and
  aliases, and two, an edit and its undoing, with two workloads; for any number of edits the properties
are proved. `CampaignIsCoherent` is about the paths two comparisons share by their roles: two workloads
that declare one file may read different contents of it after three edits in step with the order of
the cells, because `validate_campaign` compares the inputs of each workload with its own. A comparison and the later reader are
  one step each; the raw digest of a document is the document.
- `stroke`: a control period of 0.1 s instead of 0.02 s, lengths in millimetres, four schedules from
  the shortest durations to the ones that are scaled down, a finger at rest, in shallow and in deep
  contact and beyond a corner, rails far, across the side and close round the block. The block is
  turned by multiples of a right angle, and any feasible route may be taken where the code takes a
  shortest one. The branch of
  `update` for a stroke that is past its own deadline has no action: windows and deadlines are the same
  numbers, so that moment belongs to the next stroke.

Six runs check for deadlock (`engine`, `pair`, `directory`, `review`, `review_output` and `cell` have
a step for "nothing left to do", so that any other stop would be an error). Five do not
(`repair_files`, `envelope`, `decision`, `qualification` with `qualification_dots`, `stroke`): a
publication that has ended, a review without further deviations, a finished campaign and a finished
episode have nothing left to do, and their modules have no step for that.

### Fairness

`engine` assumes weak fairness of `Engine`: the process is scheduled and native calls return or
raise (a call that hangs is outside of what the process can see; the CPU cap ends everything else).
`Tick` needs none. `pair` and `directory` assume weak fairness of each process for the same reason:
every call returns. Nothing is assumed about others, about faults, or about power loss. The other
runs check safety only and assume no fairness.

## 5. What is proved

Theorems hold for every value of the constants that satisfies the named assumptions of a module.
These give the constants their types and non-zero sizes, and say what the code takes for granted: a
publisher is not the name of a file, a run is not called like one of its ancestors, a group of publishers has a member, a document that is no object
with the required keys was refused before, a stroke lasts a control period even when it is scaled
down, nobody but a worker writes a completed result (it is not signed; whoever could write one with
every binding right would be a worker), an admitted value is a number or one of the two that are
not, an admitted contact event is within the horizon, a qualification chooses at least one workload
(`BudgetAssumption`), starts from a path (`BasesArePaths`) and gets a registered status from every
comparison (`ComparisonsComplete`), a trajectory qualifies only if it was measured
completely and violates no limit of the hold (`MeasurementAssumption`), and what is written of nothing
(`None`) is not what is written of something (`AbsenceAssumption`). TLC evaluates each of them on a run.

**The engine** (`RepairProofs`). `TypeCorrect` from `TypeInv`. Then:

- `ReserveSuffices` and `BudgetIsRespected` from `StepInv`. That no evaluation runs out of steps is
  not inductive on its own: one has to know what was free when the pair began (`Reserved`: two pairs
  for a screen, one for a confirmation or a replay), how far it has come (`PairProgress`), and that
  admission leaves at least the settling and two pairs (`StepLimits`).
- `VerdictsAreInTime` from `RecordInv` (below): `_finish` reads the clock after the last measurement,
  so what one has to know is which ceiling still binds at that moment, and that is a question of the role:
  a search keeps its ceiling until it is confirmed, a replay has only the cap.
- `WorkAccounted` from `WorkInv`: between two charges, what was completed is what is charged plus
  the progress of the pair at work, whichever way it is left.
- `QualifiedIsConfirmed` and `FiniteVerdictComplete` from `VerdictInv`, which says for each location
  what the retained pair, the selection and the result may be. `SelectionOnlyDescends` follows from
  the same typing and the acceptance of `JudgeTrial`.
- `FloorIsAMinimum` from `FloorInv`, for every dimension, box, step and tolerance. That the last sweep
  refused every neighbour is only known by what the poll remembers: the sign under trial is the preferred
  one first and then the other (`PollShape`), a sweep that has moved nothing has refused both neighbours
  of every coordinate it has come past, and the preferred one of the present coordinate when it is at the
  second sign (`PollMemory`), and what was measured was the trial (`MeasuredTrial`). An accepted trial
  forgets all of it, and a sweep that moved anything cannot end at the floor.
- `RecordsAreAdmitted`: `_codec.py` writes what is left of an invocation and refuses to read back
  anything that no invocation could have left; its many equations of costs, statuses and evidence have
  to hold wherever the engine stops. `RecordInv` adds to the invariants above five parts about what is
  left. `Trail`: how far the last pair was integrated, and that its classification is the one of its
  trajectories. `Screens`: which pairs are retained, and what they were measured on. `Paid`: the steps
  spent before the last pair (the settling, and whole pairs after it). `Endings`: which status, exit
  code and reason go together. `Grounds`: which evidence a verdict rests on. None of them says what the
  codec checks; that its checks follow is shown member by member (`RunRecordAdmitted`,
  `ReplayRecordAdmitted`). The two exceptions of the property (section 4) are its hypotheses.

**Output directories** (at the end of `PairedPublicationProofs`). `TheRunIsOwn`, and from it `UndisturbedRunsAreApart`:
two runs never publish into one directory, even if they draw the same name. For any number of
invocations and of acts of others, from `DirectoryInv`. `mkdir` returns no descriptor, so whose a
directory is has to be carried from hand to hand (`Ownership`): by its name while nobody has looked,
which holds because others make directories only where there is no entry; by what was observed, which
`SameObject` compares; and by the descriptor, which nobody can take away. `Admission` adds that a run
name is never looked up before it is made. An act of others while only the name stands is the
disturbance that the theorem excepts, and everything after it is not.

**Paired publication** (`PairedPublicationProofs`). For any number of publishers, of acts of others, of
failing calls, and across a power loss: `SuccessIsExact`, `SuccessIsDurable`, `FailureIsClean`,
`OneWinner` and `NeverClobbers`. A publication is a table of 49 calls, so the proof first says what
each position calls (`ScriptTable`), then, once per call, what it does to the names, to the files and to
the control (`Moves`); every invariant is proved from these effects. The inductive invariant has five
parts beside the types. `ProgressInv` reads off the position what of a file is there: created, written,
synced, linked, its temporary gone, its directory synced. `UndisturbedInv` adds what holds while
nobody else has acted: names lead where the publisher left them. `CheckedInv` says that a publisher
that has passed its last look has seen the bytes it wrote. `CleaningInv` follows the cleanup: what it
has not come to is still its own to remove, and it will come to it (`WillClean`). An `unlink` that raises
abandons the rest of a pass, so that this is no matter of the pass at work alone: the handler further out has a pass of
its own, for all the artifacts, and what the first has not come to the second will. That is why one raise leaves
only the file it was raised for, and why the property speaks of at most one (`Spared`). `QuietInv` is the argument for a winner: a publisher only
fails undisturbed because another was ahead, and the first of them has nobody ahead of it.

`StepsKeepThePromise` is the safety part of the refinement: initial states and steps of the
calls are initial states and steps (or stutters) of `NoClobberPair`, under the mapping of `Promise`.
`NamesHeldTogether` uses it to carry an invariant of the abstract specification down to the calls: as
long as nobody else has acted, the two names have one holder, and at most one publisher succeeds.

**The run of a review** (`RuntimeReviewRunProofs`). `DecisionsRestOnRecords`, `RunsAreBoundToInputs` and
`RecordsBindEveryFile`, for any grid and any number of acts of others. Evidence is handled four times:
written, admitted, read for the decision, compared at the end. `TracedInv` relates the four values of
a cell as long as nothing was moved aside and put back: whoever deviates from what was written leaves
a trace on the disk, which the last comparison meets. `BoundInv` says what a program that nobody
exchanged has read, `OrderInv` how far admission and decision have come, `CompletedInv` what the last
comparison has found. `RecordsBindEveryFile` is about the document: that every altered or missing file
makes the replay of the record fail follows for any grid, not only for the one of the run.

**The envelope** (`RuntimeDecisionProofs`). `WithinIsSound` and `OutsideIsSound` from
`RefinementInv`. Its part `Drift` replaces the geometric series: what a profile has moved since the
finest grid, and three times its last move, are together at most three times the last simulated
move. Distances are a metric (`ApartIsMetric`), so an enclosure of each profile bounds their
distance (`EnclosureIsSound`).

**The decision** (`RuntimeDecisionProofs`). `GreenVouchesForAll`, `RejectionsHaveAWitness` and
`ProfilesAreInterchangeable`, for evidence of any channels, contacts, observation times, values and
tolerances, NaNs and quaternions without a norm among them. The invariant is short (`Decided`: the
evidence is well-formed, the decision is the one on it); the work is in the operators. A first gate
exists because a set of numbers has a least element (`LeastElement`, from the well-founded order of
the naturals), it is not later than any gate (`FirstGateIs`), and every fault makes a gate that is not
later than the fault (`CleanBeforeTheGate`, with `PreviousIs` for the diagnostics, which are gated one
observation early). So whatever is a row was finite and convergent, and before the time of the decisive
row nothing was wrong. Exit 0 needs that no gate was found at all (`EvaluationIs`, `StatusIs`), and that
the comparisons which are made, not all pairs, are enough for one topology (`TopologiesAgree`). That the
profiles may be exchanged is proved of the whole decision, its witnesses included: gates are sets, to
which every comparison contributes the same from either side (`SwappedGates`), and the
enclosure of the exchanged pair is the mirror image (`EnclosureIsNeutral`). It is only so for numbers,
and rows are numbers only before the gate: that is where `Evaluable` and the first gate are used.

**Repair files** (`RepairFilesProofs`). `MarkerComesLast` and `NothingIsReplaced` from `MarkerInv`,
for any number of members, of acts of others and of failing calls, and across a power loss. That
members precede the record is not enough: `Kept` says that they are on disk by then (so that power
loss cannot take them), `Ordered` that while the run publishes everything that is no longer to come
is kept, and `Unborn` that before that no directory can show a record of this run, wherever its name
may lead.

`ReadersAdmitOneBundle`, `ReportedFilesAreOnDisk` and `MarkedBundlesAreRead` are about what somebody finds
there later, from `BundleInv` and `ReadableInv`. The record has the digests of one run, so a reader
that accepts has read one bundle if what it looked up first still belongs to what it looked up last.
`Holds` is the memory that needs: for each process how far it has come, what it has read
or seen verified, and that it was that run's; `UnseenYet` that nobody has read a record that is not
there. A process that gathered members before the record was there is the difficult case: it finds no
record, or a record whose members were there first. `ReadableInv` says what a run and a
reader meet that nobody disturbs: nothing hinders either (`Unhindered`), and there is one bundle
only (`Lone`).

**The review's output** (`RuntimeReviewOutputProofs`). `ReviewNeverOverwrites`, for every grid,
decision and set of documents and any number of disturbances, from the shape of names and trees
(`ShapeInv`) and two lemmas: a change of an entry comes from an entry that is absent, or from another
process. `SuccessfulReviewsAreWhole` says that exit 0 or 40 leaves the published tree with the
configuration, the receipt and the evidence the run admitted, decided on and rendered. The tree is
looked up many times, through names and through a descriptor, and each look can meet a different
directory: `PathInv` says that a name that once led elsewhere never leads back (directories are moved,
not copied), `WantedInv` what the last checks have seen of the tree they are in, and `FormInv` that
whatever stood in for a document has the fields the checks compare. `ExposedTreesAreConsistent` goes
further, to trees nobody reports as successful: what has the published name and was renamed by this run is one
consistent tree even if the run failed afterwards. `ExposedInv` says for each check of the staged tree
what is known of its entries, unless they have changed since (`Drift`: what others change in one step
is unseen from then on). What the second reading accepted is the first reading's receipt by
`ReplayCarries`: the receipt is a function of evidence that was found equal.
`ValidatedReceiptIsRebuilt` and `EvidenceDeterminesReceipt` are about the reader alone: a
receipt that validates is, but for the tool, a function of the configuration, the identities and the
evidence beside it, so that whoever wrote it had no choice.

`UndisturbedReviewsSucceed` is the other direction, for every grid, document, measurement and decision:
a review that nobody and no failing call disturbs publishes exactly if its configuration is admitted.
Every acceptance check stands in its way, those of the reader twice, and each must accept what another
function wrote. `QuietInv` says that without disturbance the program location determines the
rest: what is admitted, which entries are there and which still awaited (`Lies`), and what each
contains; the receipt can only be `Undisturbed`. `FoundIsAdmitted`, `UndisturbedBuilds`,
`HeldDocuments`, `HeldCells` and `HeldReplays` are the checks, each proved to accept it. Documents may list
their cells in any order: that no slot is there twice, without which one copy would meet another, is not
assumed but counted, from the bijection the loader asks for (`SlotsAreApart`). That creating the output directory leaves
the evidence sound (`NothingIsDirtied`) is what the loader's overlap checks are for. The assumptions are
that the decision has the form the schema has for it (`DecisionAssumption`; `RuntimeDecision` is where it is
computed), and that absence and null are no file's content (`FilesAssumption`). Identity files that are
not canonical are excluded for the reason section 6 gives.

**The evidence cell** (`EvidenceCellProofs`). First two programs and one contract, for any number of
controls, channels and contact pairs: `ParsedIsAdmitted` (what the worker parses the referee admits),
`TraceHasTheLayout` (the channels a worker writes are the layout the referee derives) and
`DescriptorsAreAdmitted`. Their hypotheses say what JSON parsing makes of a fixture, sequences and
numbers, and no more; `OneWidth` and `TwoGeoms` relate the two formulations of one rule.

Then what an admitted cell is worth, for any fixture, horizon, step size and history of contacts, and
any one trouble on the way: `AdmittedCellsAreOneGeneration`, `AdmittedProfilesAreTheSentinels` and
`AdmittedContactsHappened`. `IInv` follows a document through four programs. `WorkerInv` says what
the worker has in its memory by then, `ResultInv` that a completed result is the one this worker
wrote from it, `SeenInv` what the referee has read and found; every binding it then makes leads to
the worker's memory. `ProfileInv` is about the identity: `Fits` says of whatever stands in its file
that it has the facts the collector gathered, or is a rival's and names a package which the
environment has not and will not have, so that a worker who admits it (`Bound`) measured what the
collector measured. `Traced` ties the contact state to the whole history: who was in contact is in a
segment or in the open episode, and the durations add up but for a contact at time zero, which no step
counts. That one disagreement is where the referee's equation of durations decides: an admitted
cell had no such contact (`TraceEnds`).

The converse is `CompletedCellsAreAdmitted`: the referee has no objection to a cell that its worker
completed and nobody disturbed. It meets every check of the referee, so the proof is one lemma per check,
all from one state: `BytesAreAdmitted`, `ProfileIsAdmitted`, `MetadataIsAdmitted`, `TraceIsAdmitted`,
`OthersAgree`. A second inductive invariant, `QInv`, speaks of the cells without trouble only and says
how far one has come: the inputs are the declared ones and the environment the usual one
(`QuietInputs`), the identity passed the preflight (`QuietProfile`), whatever the worker has in memory
is in the member it has written of it (`QuietWorker`), and the referee reads these members
(`QuietVerdict`). Two programs keep the contacts in two ways, and two lemmas relate them at every
step. `Paired`: the events are the onset and the release of every segment in turn, a further onset if an
episode is open, all on the grid of the step (`PairedAdvances`, `ContactIsAdmitted`). `Observed`: a row
is there for every multiple of the control interval until now and for no other time, and has what
touched at that step (`ObservationAdvances`, `TraceMeansIt`); that the next observation is never
stepped over is `NextObservation`, the one place where the control interval must be a multiple of
the step. The assumption on documents, `DocumentsAssumption`, says what parsing makes of a manifest, and
states the bound of the model: the fixture of the cell declares one pair of geoms.

Sums over sequences are recursive functions, and what they compute for a sequence of any length is
proved by least counterexample: `SumsExist`, `SumsAgree` and from them what one more
segment adds (`TotalOfOneMore`).

**The controller** (`RepairProofs`). `ArrivedPushesAreComplete` and `TheHoldIsStationary`
from `ControlIsInvariant`, for any durations, lags and observations. Deadlines are floored one by one
to whole periods, and the schedule is scaled down if it is too long, so the proof begins with
arithmetic: every floored stroke has a period left (`DeadlinesIncrease`), and the third ends before the
hold begins. `Clock` then ties the stroke to the tick, `Underway` the target to the route, and `Budget`
says that what remains to be travelled fits into what remains of the time, unless a deadline has cut it.

`RoutesAreAdmissible` is about the planner: for every block, finger, clearance and observation, with
integer coordinates, the route that is followed is one that may be. A feasible candidate leads from the
reference over the finger to the contact (`FeasibleLeads`); its legs are clear of the inflated block,
hence of the block (`MeetsInflated`), but for the one that leaves a shallow contact
(`RetractionIsShallow`) and the last, which is checked by itself. The corners passed are in order
because no two are equally far (`CornersApartFrom`: the perimeter has a modulus, and a corner a
coordinate of its own), shortcuts keep both ends (`ShortenedEnds`), and what follows what
after repetitions are dropped did so before (`CompactPairs`), so that no leg is new. A route keeps at least
its outer point and its contact: the branch of `_checked_route` for a route of one point is never taken
(`CompactIsAdmissible`).

**Workload qualification** (`QualificationProofs`). For every configuration the schema admits, of any
number of workloads, groups and rungs, every outcome, and any number of edits and acts of others.

`AcceptedIsImpliedHolds` is about the reader and whatever document and files it is given. Its own work is
small (`AcceptedInv`: there is one document at a time, and a look at it changes nothing); the rest says what
`LoadAndValidate` demands. The records of the document fill the cells of the retained configuration
(`RecordsFill`), each links a comparison of its cell (`LinkedRecords`, `GeneratedCompares`), so the
matrix is a function of what is linked, and the decision on it is compared with what the property says
independently. `SubsetIs` counts covered and undecided groups of a set of workloads,
`FloorReaches` shows that the detection floor, a least index, says the same as "every rung at stake is
seen", and `DecisionIsBest` that the first of the ranking is a best choice: the keys are strictly
ordered (`BeforeIsStrict`), a finite set in a strict total order lists each member once
(`OrderedMembers`), and nothing comes before its first member.

`CampaignIsCoherentHolds` and `WitnessExplainsHolds` are about a run, from `LedgerInv`: the records collected are
those of the first cells in order, each of them is what one comparison read in one state of the sources,
and a campaign that is decided is complete and valid. Sources may change between any two records; that what
comparisons share was the same is what `ValidateCampaign` has compared, value by value
(`OneCampaign`, `OneWorkload`, `OneRung`, `LadderIs`), also where one path is read for two purposes.
A witness exists because an undecided or uncovered group has a first rung at stake
(`EarliestPair`, `LostAreFailing`), and its workload is one that is selected (`WitnessIsFound`).

`PublishedIsAcceptedHolds` joins the two sides: for every admitted configuration the document of a decided
ledger passes all of the reader's checks. `DiskInv` adds to `LedgerInv` that the configuration, the two files of
every record and those of the comparison just returned are on disk where the record says, unless
somebody has touched them since; that the reader then finds the document well-formed and derives it
again is `DocumentValidates`, and that each retained file is bound to it `CampaignIsAccepted`, one
lemma for each of the reader's bindings. That the tree may have been moved costs the most: the reader
knows the run's root only from what the comparisons recorded, takes the declared base off each of
them (`BaseIsDeclared`), and must find the same base everywhere. It does if the base has no parent
component; otherwise section 6 has the counterexample.

### Only model-checked

- Liveness (`Terminates`, `EveryoneServed`, the liveness in `KeepsPromise`), which TLAPS cannot reach.

Sums, filters, orders and canonical paths are recursive functions or choose among sets. The induction theorems of
the library take an operator as a parameter, which the provers cannot instantiate; what such a definition
computes for every input is proved by a least counterexample, in the form of the lemma `UpTo` for
qualifications and routes, and not attempted where no property needs it.

Types are proved for `RepairEngine`, `GridRefinement`, `PairedPublication`, `OutputDirectory`,
`RuntimeReviewRun` and `StrokeController`, and the shape of names and trees for `RepairFiles` and `RuntimeReviewOutput`;
elsewhere the comments at the variables state them.

## 6. Where code and documentation disagree

| Run | What the code does | What is said |
|---|---|---|
| `qualification_dots` | the configuration's directory is made absolute but keeps `..`; the generated comparisons contain it, and the loader refuses every one of them as not normalized | `docs/sdk.md` reads the document a run returned with this loader |

Met while modelling, and stated here because the modules show them, though no run is spent on them:

- an `OSError` of one `unlink` ends a pass of the cleanup of a pair before the other file, and replaces the
  typed refusal; `_atomic_output.py` says "Best-effort clean and close partially created retained
  artifacts in reverse order". The outer handler comes to the other file, so that one such error leaves
  only its own; a second one may leave both (hence the guard of `FailureLeavesNoTemporary`);
- a call that fails after the record of a run was linked refuses the run and leaves the record;
  `docs/runtime_review.md` says a refused run "publishes neither `runtime_review_run.json` nor a
  completed scientific decision";
- a configuration, record or receipt that is gone ends a review as an internal failure (exit 70);
  `docs/runtime_review.md` calls missing or changed bytes "operational refusals (exit `64`)". The same
  holds for a destination of a repair that appears between the check and the `mkdir`, for an
  `OwnedOutputError` below a qualification, and for an identity file that is admitted but not
  canonically written, which is only noticed at the replay of the staged tree;
- contact times are witnesses only if no topology differs anywhere in the horizon, so a rejection
  that rests on one is lost when another contact changes later; `docs/runtime_review.md`: "A decisive
  witness rejects replacement, including when a later suffix is unqualified.";
- a contact that is present at time zero is refused by the validator, though the worker provides for
  "a possible physical-time-zero onset" (hence the guard of `CompletedIsAdmitted`); numbers a worker
  writes in scientific notation are refused as well, and so are the traces of a manifest that declares as many channels
  and contact pairs as it may: together they are more than the 256 channels `_evidence.py` reads;
- `_finish` of the engine checks the clock and reads it again for the costs: a ceiling crossed in
  between makes the codec refuse a finished result;
- a replay whose own settling ends in a hard rejection is refused (`RESET_MISMATCH`, exit 64), where a
  run ends with exit 10; `docs/repair.md`: "A known invalid initial state/policy is finite
  nonqualification";
- the reader of a qualification binds the closures of `probe_model_closures` to the retained
  comparisons but never looks at the magnitudes beside them; `docs/workload_qualification.md`: "every
  derived claim recomputed from the receipt's own configuration and cell records".

## 7. What is not modelled, and why

- **Physics and arithmetic of measurements** (`repair/_physics`, compare metrics, MuJoCo): data. Any
  measurement may result; what the program makes of it is modelled.
- **Byte formats** (canonical JSON, zip and array layout, markdown, schemas): an admission accepts or
  refuses; which relations between fields it demands is modelled, how they are encoded is not.
- **Model release**: its snapshot has the shape of the bound readings of `ProfileIdentity` and
  `RuntimeReviewOutput`; its decision is a table over compared fields.
- **Compare, timestep audit, certify**: one process each, two sequential runners and long pure
  comparisons. The step budget and the precedence of the first failure are what is left to model.
- **Model identity and workload admission, results and CLI, distribution identity**: parsing, hashing
  and dispatch without state of their own; the modelled commands take them as digests and exit codes.
- **Release automation, other tools, tests, examples**: not part of the installed program.
- **Retention by descriptors**: closing and duplicating descriptors is bookkeeping.

Hazards the code has that no property covers, because the code does not, or cannot, defend against
them: a name of a private file reused between the check and its `unlink`, or a new directory exchanged
between `mkdir` and the first look at it (the properties except exactly these instants); the entry of a
new directory, which is never synced in its parent; a publisher's `unlink` that changes `st_ctime` and
so refuses a reader which has the file open; a replay record read back and compared only with itself;
the members of one cell, opened one after another while they are replaced; staging directories left
behind by a failure; evidence moved aside while the referee reads and put back before it is bound.
