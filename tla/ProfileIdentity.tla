---------------------------- MODULE ProfileIdentity ----------------------------
(* What a native environment says of itself. A collector measures the           *)
(* environment, compiles the fixture once and, on the role-based route, runs a  *)
(* sentinel in it; the document it writes is the profile identity. The worker   *)
(* measures the same facts again when it simulates, binds them to the document, *)
(* and the referee admits what the worker wrote of both.                        *)
(*                                                                            *)
(* A fact has the value "usual", "odd" (another value the programs accept) or   *)
(* "bad" (one that whoever measures it refuses); a package may also be "foreign",  *)
(* its record not all in SHA-256. A document is its contents; a self-hash is       *)
(* whether they are the ones that were sealed, and a hash of bytes is the bytes.  *)
EXTENDS FixtureContract

CONSTANTS NoIdentity,      \* no document, or what of one a route does not have
          IterationLimit   \* the solver's iterations in the compiled model

Routes == {1, 2}                       \* legacy profile IDs, semantic roles
Facts == {"python", "build", "host", "machine", "environment", "version", "mujoco", "numpy",
          "installation", "pip", "callbacks"}
FactValues(fact) == {"usual", "odd", "bad"} \union (IF fact \in {"mujoco", "numpy"} THEN {"foreign"} ELSE {})

(* "machine" is what of the host the legacy binding leaves out: CPU and libc.   *)
RuntimeFacts == {"python", "host", "machine", "environment", "version", "mujoco", "numpy", "pip"}
IdentityFacts == RuntimeFacts \union {"build", "installation"}

Of(facts, live) == [fact \in facts |-> live[fact]]
Agree(facts, a, b) == \A fact \in facts : a[fact] = b[fact]

FrozenWorker == "frozen"

--------------------------------------------------------------------------------
(* Measuring. *)

(* A distribution is what its RECORD declares of each file, in order.           *)
Entry(mode, outside, intact) == [mode |-> mode, outside |-> outside, intact |-> intact]
Record(value) ==
  CASE value = "usual" -> <<Entry("sha256", FALSE, TRUE), Entry("none", FALSE, TRUE)>>
    [] value = "odd" -> <<Entry("sha256", FALSE, TRUE), Entry("sha256", TRUE, TRUE), Entry("none", FALSE, TRUE)>>
    [] value = "bad" -> <<Entry("sha256", FALSE, FALSE)>>
    [] value = "foreign" -> <<Entry("sha256", FALSE, TRUE), Entry("sha512", FALSE, TRUE)>>

DistributionMeasurable(value) == \A e \in Elements(Record(value)) : e.mode = "sha256" => e.intact

(* Entry points outside of the package are declared, and not bound.              *)
DistributionPayload(value) ==
  LET members == Record(value)
      declared == {i \in DOMAIN members : members[i].mode = "sha256"}
      bound == {i \in declared : ~members[i].outside}
  IN [members |-> members, count |-> Len(members), bound |-> Cardinality(bound),
      declared |-> Cardinality(declared), unhashed |-> Len(members) - Cardinality(declared)]

(* The package is stable, at least 3.9.0 (one of two releases, on the legacy     *)
(* route) and coherent with the native library; threads are pinned.             *)
ProductionProfileContract(live) == live.version # "bad" /\ live.environment = "usual"

(* One library is packaged for the native version, and it is the loaded one.     *)
NativeLibraryIdentity(live) == live.mujoco # "bad"
LoadedMujocoLibraries(live) == live.mujoco # "bad"
HardwareProfile(live) == live.machine # "bad"
LiveHostIdentity(live) == live.host # "bad" /\ HardwareProfile(live)
LivePythonIdentity(live) == live.python # "bad"
PipCheck(live) == live.pip # "bad"
CallbackAuthorityAbsent(live) == live.callbacks = "usual"

Measured(live) ==
  /\ ProductionProfileContract(live)
  /\ DistributionMeasurable(live.mujoco) /\ DistributionMeasurable(live.numpy)
  /\ NativeLibraryIdentity(live) /\ LoadedMujocoLibraries(live)
  /\ LiveHostIdentity(live) /\ LivePythonIdentity(live) /\ PipCheck(live)

--------------------------------------------------------------------------------
(* The sentinel: one state restored into two fresh data instances of one model. *)

Stages == <<"callbacks", "source", "restore", "forward", "state", "step", "warnings", "solver">>
NoFlaw == "none"
Flaws == Elements(Stages) \union {NoFlaw, "unavailable"}   \* "unavailable": an array is, and the procedure passes

Passes(flaw) == flaw \in {NoFlaw, "unavailable"}

Stage(flaw) == CHOOSE n \in 1..Len(Stages) : Stages[n] = flaw
Reached(flaw, stage) == Passes(flaw) \/ Stage(flaw) >= Stage(stage)
Passed(flaw, stage) == Passes(flaw) \/ Stage(flaw) > Stage(stage)

(* One side of a comparison: arrays, counters, and what is active, in an order     *)
(* that is no slot's.                                                           *)
IntegrationState(contents) == [values |-> contents, sha |-> contents]
OptionalFloatProjection(available, width, contents) ==
  [available |-> available, shape |-> IF available THEN width ELSE 0, values |-> contents]
WarningProjection(number) == [number |-> number, passed |-> number = 0]
SolverProjection(iterations) ==
  [iterations |-> iterations, limit |-> IterationLimit, passed |-> iterations < IterationLimit]
ContactProjection(contacts) == [ncon |-> Cardinality(contacts), contacts |-> contacts]
ConstraintProjection(rows) == [active |-> Cardinality(rows), rows |-> rows]

SentinelProjection(model, flaw, side, stage) ==
  LET contents == IF flaw = stage THEN side ELSE "same"
      array(width) == OptionalFloatProjection(flaw # "unavailable", width, contents)
  IN [qacc |-> array(model.nv), sensordata |-> array(model.nsensordata),
      warnings |-> WarningProjection(IF flaw = "warnings" THEN 1 ELSE 0),
      solver |-> SolverProjection(IF flaw = "solver" THEN IterationLimit ELSE 0),
      contacts |-> ContactProjection({"touch"}), constraints |-> ConstraintProjection({"row"}), sealed |-> TRUE]

Pair(model, flaw, stage) ==
  IF Reached(flaw, stage)
  THEN <<SentinelProjection(model, flaw, "left", stage), SentinelProjection(model, flaw, "right", stage)>>
  ELSE <<>>

(* The document is retained however far the procedure came. Its states and       *)
(* projections are those of the model it ran.                                   *)
SameProfileSentinel(model, id, role, flaw) ==
  [profile_role |-> role, fixture_id |-> id, model |-> model,
   pre_restore |-> IF Passed(flaw, "source") THEN IntegrationState("source") ELSE NoIdentity,
   post_forward |-> Pair(model, flaw, "forward"),
   post_step_state |-> IF Reached(flaw, "state")
                       THEN <<IntegrationState("stepped"),
                              IntegrationState(IF flaw = "state" THEN "other" ELSE "stepped")>> ELSE <<>>,
   post_step |-> Pair(model, flaw, "step"),
   finite_values |-> Passed(flaw, "step"),
   warnings_passed |-> Passed(flaw, "step") /\ flaw # "warnings",
   solver_converged |-> Passed(flaw, "step") /\ flaw # "solver",
   status |-> IF Passes(flaw) THEN "PASS" ELSE "FAIL",
   failure_reason |-> IF Passes(flaw) THEN NoFlaw ELSE flaw, sealed |-> TRUE]

ValidateStateEvidence(state) == state.sha = state.values
ValidateOptionalProjection(p) == ~p.available => p.shape = 0
ValidateWarningProjection(p) == p.passed = (p.number = 0)
ValidateSolverProjection(p) == p.iterations >= 0 /\ p.limit >= 1 /\ p.passed = (p.iterations < p.limit)
ValidateContactProjection(p) == p.ncon = Cardinality(p.contacts)
ValidateConstraintProjection(p) == p.active = Cardinality(p.rows)

ValidateSentinelProjection(p) ==
  /\ ValidateOptionalProjection(p.qacc) /\ ValidateOptionalProjection(p.sensordata)
  /\ ValidateWarningProjection(p.warnings) /\ ValidateSolverProjection(p.solver)
  /\ ValidateContactProjection(p.contacts) /\ ValidateConstraintProjection(p.constraints)
  /\ p.sealed

ValidateProjectionPair(pair) ==
  /\ Len(pair) = 2 /\ pair[1] = pair[2]
  /\ \A side \in 1..2 : ValidateSentinelProjection(pair[side])

ValidateSentinelEnvelope(s, role) ==
  s.profile_role = role /\ s.sealed /\ s.status \in {"PASS", "FAIL"}

ValidatePassingSentinel(s, smoke) ==
  /\ s.failure_reason = NoFlaw
  /\ s.finite_values /\ s.warnings_passed /\ s.solver_converged
  /\ ValidateStateEvidence(s.pre_restore)
  /\ ValidateProjectionPair(s.post_forward)
  /\ Len(s.post_step_state) = 2 /\ s.post_step_state[1] = s.post_step_state[2]
  /\ ValidateStateEvidence(s.post_step_state[1])
  /\ ValidateProjectionPair(s.post_step)
  /\ \A p \in Elements(s.post_forward) \union Elements(s.post_step) :
       /\ p.warnings.passed /\ p.solver.passed
       /\ p.qacc.available /\ p.qacc.shape = smoke.nv
       /\ p.sensordata.available /\ p.sensordata.shape = smoke.nsensordata

ValidateSentinel(s, role, smoke, mustPass) ==
  /\ ValidateSentinelEnvelope(s, role)
  /\ mustPass => s.status = "PASS"
  /\ s.status = "FAIL" => s.failure_reason # NoFlaw
  /\ s.status = "PASS" => ValidatePassingSentinel(s, smoke)

--------------------------------------------------------------------------------
(* The identity document. *)

SmokeIdentity(model, id, manifest) ==
  [fixture_id |-> id, manifest_raw |-> manifest, passed |-> TRUE,
   nq |-> model.nq, nv |-> model.nv, nu |-> model.nu, nsensordata |-> model.nsensordata]

(* The legacy route knows no installation and runs no sentinel.                 *)
CollectIdentity(facts, smoke) ==
  [schema |-> 1, profile_role |-> facts.version, facts |-> [facts EXCEPT !.installation = "unavailable"],
   worker |-> FrozenWorker, native_smoke |-> smoke, sentinel |-> NoIdentity, sealed |-> TRUE]

CollectIdentityV2(role, facts, smoke, sentinel) ==
  [schema |-> 2, profile_role |-> role, facts |-> facts,
   worker |-> FrozenWorker, native_smoke |-> smoke, sentinel |-> sentinel, sealed |-> TRUE]

(* No fact of a document is one that its measurement refuses. Of a distribution  *)
(* only the counts are in it.                                                    *)
ValidateCompactDistribution(d) ==
  /\ d.count >= 1 /\ d.bound >= 1 /\ d.declared >= 1
  /\ d.count = d.declared + d.unhashed /\ d.bound <= d.declared

ValidateProfileContract(document, version) == document.facts.version = version /\ document.worker = FrozenWorker
ValidateProfileContractV2(document) == document.facts.version # "bad" /\ document.worker = FrozenWorker
ValidatePython(facts) == facts.python # "bad" /\ facts.build # "bad"
ValidateHost(facts) == facts.host # "bad"
ValidateHostV2(facts) == ValidateHost(facts) /\ facts.machine # "bad"
ValidateEnvironment(facts) == facts.environment = "usual"
ValidateMujoco(facts) == ValidateCompactDistribution(DistributionPayload(facts.mujoco))
ValidateNumpy(facts) == ValidateCompactDistribution(DistributionPayload(facts.numpy))
ValidateInstallation(facts) == facts.installation = "unavailable"
ValidateInstallationV2(facts) == facts.installation # "bad"
ValidatePip(facts) == facts.pip # "bad"

ValidateNativeSmoke(smoke) == smoke.passed /\ smoke.nq >= 0 /\ smoke.nv >= 0 /\ smoke.nu >= 0
ValidateNativeSmokeV2(smoke) == ValidateNativeSmoke(smoke) /\ smoke.nsensordata >= 0

ValidateProfileIdentityV1(document, version) ==
  LET facts == document.facts IN
  /\ document.schema = 1 /\ document.profile_role = version /\ document.sealed
  /\ ValidateProfileContract(document, version)
  /\ ValidatePython(facts) /\ ValidateHost(facts) /\ ValidateEnvironment(facts)
  /\ ValidateMujoco(facts) /\ ValidateNumpy(facts) /\ ValidateInstallation(facts) /\ ValidatePip(facts)
  /\ ValidateNativeSmoke(document.native_smoke)

ValidateProfileIdentityV2(document, role, mustPass) ==
  LET facts == document.facts IN
  /\ document.schema = 2 /\ document.profile_role = role /\ document.sealed
  /\ ValidateProfileContractV2(document)
  /\ ValidatePython(facts) /\ ValidateHostV2(facts) /\ ValidateEnvironment(facts)
  /\ ValidateMujoco(facts) /\ ValidateNumpy(facts) /\ ValidateInstallationV2(facts) /\ ValidatePip(facts)
  /\ ValidateNativeSmokeV2(document.native_smoke)
  /\ ValidateSentinel(document.sentinel, role, document.native_smoke, mustPass)
  /\ document.sentinel.fixture_id = document.native_smoke.fixture_id

(* One no-follow descriptor, the same before and after the reading.             *)
ReadProfileIdentityDocument(file) == file # NoIdentity

LoadNativeProfileIdentity(file, route, role) ==
  /\ ReadProfileIdentityDocument(file)
  /\ route = 1 => ValidateProfileIdentityV1(file, role)
  /\ route = 2 => ValidateProfileIdentityV2(file, role, TRUE)

--------------------------------------------------------------------------------
(* The worker binds what it measures to the document its environment names.     *)

AdmitExternalHost(route, document, live) ==
  Agree(IF route = 2 THEN {"host", "machine"} ELSE {"host"}, document.facts, live)

ExternalProfileIdentity(route, role, document, live) ==
  /\ document.schema = route
  /\ document.profile_role = IF route = 1 THEN live.version ELSE role
  /\ document.sealed
  /\ AdmitExternalHost(route, document, live)
  /\ Agree({"python", "mujoco", "numpy"} \union (IF route = 2 THEN {"build"} ELSE {}), document.facts, live)
  /\ document.facts.environment = "usual"
  /\ route = 2 =>
       /\ document.facts.version = live.version
       /\ document.sentinel.profile_role = role /\ document.sentinel.status = "PASS"
       /\ document.sentinel.sealed
       /\ document.worker = FrozenWorker

(* The document is optional on the legacy route, and to the collector.          *)
RuntimeAdmitted(route, role, document, live) ==
  /\ Measured(live)
  /\ document # NoIdentity => ExternalProfileIdentity(route, role, document, live)
  /\ route = 2 => document # NoIdentity /\ CallbackAuthorityAbsent(live)

(* The installation is not measured again: it is what the document says.        *)
RuntimeIdentity(route, role, document, live) ==
  [schema |-> route, profile_role |-> IF route = 1 THEN live.version ELSE role,
   facts |-> Of(RuntimeFacts, live),
   installation |-> IF document = NoIdentity THEN "unavailable" ELSE document.facts.installation,
   external |-> document,
   worker |-> IF route = 2 THEN document.worker ELSE NoIdentity,
   sentinel |-> IF route = 2 THEN document.sentinel ELSE NoIdentity,
   sealed |-> TRUE]

--------------------------------------------------------------------------------
(* The referee: the runtime on its own, then against the configured profile and, *)
(* on the role-based route, against the document, which it reads once more.      *)

(* Every member of a distribution is in the runtime, and is counted again.      *)
ValidateDistribution(d) ==
  LET declared == {i \in DOMAIN d.members : d.members[i].mode = "sha256"} IN
  /\ d.members # <<>> /\ \A e \in Elements(d.members) : e.mode \in {"none", "sha256"}
  /\ d.count = Len(d.members) /\ d.declared = Cardinality(declared)
  /\ d.unhashed = d.count - d.declared
  /\ d.bound = Cardinality({i \in declared : ~d.members[i].outside})

ValidateRuntimePython(runtime) == runtime.facts.python # "bad"
ValidateRuntimeHost(runtime) == runtime.facts.host # "bad" /\ runtime.facts.machine # "bad"
ValidateRuntimeMujoco(runtime) ==
  runtime.facts.version # "bad" /\ ValidateDistribution(DistributionPayload(runtime.facts.mujoco))
ValidateRuntimeNumpy(runtime) == ValidateDistribution(DistributionPayload(runtime.facts.numpy))
ValidateRuntimeInstallation(runtime) == runtime.installation # "bad"
ValidatePipCheck(runtime) == runtime.facts.pip # "bad"

ValidateRuntimeFacts(runtime) ==
  /\ ValidateRuntimePython(runtime) /\ ValidateRuntimeHost(runtime)
  /\ runtime.facts.environment = "usual"
  /\ ValidateRuntimeMujoco(runtime) /\ ValidateRuntimeNumpy(runtime) /\ ValidatePipCheck(runtime)

AdmitRuntimeV1(config, runtime) ==
  /\ runtime.schema = 1 /\ runtime.sealed
  /\ runtime.profile_role = config.role /\ runtime.facts.version = config.version
  /\ ValidateRuntimeFacts(runtime)
  /\ runtime.external # NoIdentity

(* Mutant: the document is bound, the facts measured beside it are not.         *)
BindRuntimeToProfileIdentityV2Mutant(runtime, document) ==
  /\ runtime.profile_role = document.profile_role /\ runtime.external = document
  /\ runtime.sentinel = document.sentinel /\ document.sentinel.status = "PASS"

(* "Require every decision-bearing runtime fact to equal its preflight identity  *)
(* binding."                                                                    *)
BindRuntimeToProfileIdentityV2(runtime, document) ==
  /\ runtime.profile_role = document.profile_role /\ runtime.external = document
  /\ Agree(RuntimeFacts, runtime.facts, document.facts)
  /\ runtime.installation = document.facts.installation
  /\ runtime.worker = document.worker
  /\ runtime.sentinel = document.sentinel /\ document.sentinel.status = "PASS"

AdmitRuntimeV2(config, runtime, file) ==
  /\ runtime.schema = 2 /\ runtime.sealed
  /\ runtime.profile_role = config.role /\ runtime.facts.version = config.version
  /\ runtime.worker = FrozenWorker
  /\ ValidateRuntimeFacts(runtime) /\ ValidateRuntimeInstallation(runtime)
  /\ runtime.external = config.identity
  /\ LoadNativeProfileIdentity(file, 2, config.role) /\ file = config.identity
  /\ BindRuntimeToProfileIdentityV2(runtime, file)

AdmitRuntime(config, runtime, file) ==
  \/ config.route = 1 /\ AdmitRuntimeV1(config, runtime)
  \/ config.route = 2 /\ AdmitRuntimeV2(config, runtime, file)

(* What the two roles of one review must share.                                 *)
CommonRuntimeProjection(runtime) ==
  Of({"python", "host", "machine", "environment", "numpy"}, runtime.facts)

================================================================================
