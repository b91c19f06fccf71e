----------------------------- MODULE CellAdmission -----------------------------
(* The referee's admission of one evidence cell: a directory of six members a   *)
(* worker wrote. Nothing in it is believed: every claim of the result is bound   *)
(* to the bytes beside it, to the fixture's declaration and to what the review   *)
(* was configured for, and every derived quantity is derived again.             *)
(*                                                                            *)
(* Members is a function from names to contents, or Absent, or Partial. A        *)
(* configuration has the fields route, role, version, identity, dt, fixture,     *)
(* xml, workload and horizon.                                                   *)
EXTENDS ProfileWorker

(* A member that is not there, or was cut off: no content looks like these.      *)
Absent == [file |-> "absent"]
Partial == [file |-> "partial"]

Checksummed == {"input_manifest.json", "fixture.xml", "model.mjb", "trace.npz", "result.json"}
Members == Checksummed \union {"CHECKSUMS.sha256"}

(* A token the referee reads as a decimal number. *)
OrdinaryNotation(magnitude) == magnitude \notin Scientific

--------------------------------------------------------------------------------
(* Bytes, and the root of the result. *)

ReadVerifiedMembers(raw) ==
  /\ \A name \in Members : raw[name] # Absent
  /\ raw["CHECKSUMS.sha256"] = [name \in Checksummed |-> raw[name]]

(* Strict JSON: what was cut off does not parse.                                *)
Parses(document) == document \notin {Absent, Partial}

ValidateConfiguredResultProfile(config, result) ==
  /\ result.profile.role = config.role /\ result.profile.version = config.version
  /\ config.route = 2 => result.profile.identity = config.identity

ValidateResultRoot(config, result, raw) ==
  /\ result.status = "COMPLETED"
  /\ result.schema_version = config.route
  /\ result.manifest_raw = raw["input_manifest.json"]
  /\ result.manifest_echo = raw["input_manifest.json"]
  /\ ValidateConfiguredResultProfile(config, result)
  /\ result.step_dt = config.dt
  /\ raw["input_manifest.json"].supported

ValidateResultProfileIdentity(result) ==
  /\ result.profile.role = result.runtime.profile_role
  /\ result.profile.version = result.runtime.facts.version
  /\ result.schema_version = 2 =>
       result.profile.identity = result.runtime.external /\ result.profile.sentinel = result.runtime.sentinel

--------------------------------------------------------------------------------
(* Subject and workload. *)

ValidateSourceClosure(closure, f, xml, expected) ==
  closure.entrypoint = f.xml_path /\ closure.member = xml /\ closure = expected

(* Mutant: the compiled model is not bound to its member.                       *)
AdmitSubjectMutant(config, subject, f, raw) ==
  /\ subject.fixture_manifest = config.fixture /\ f = config.fixture
  /\ subject.fixture_raw = raw["fixture.xml"]
  /\ ValidateSourceClosure(subject.closure, f, raw["fixture.xml"], SourceIdentity(config.fixture, config.xml))

AdmitSubject(config, subject, f, raw) ==
  /\ raw["fixture.xml"].self_contained
  /\ subject.fixture_id = config.fixture.fixture_id /\ f.fixture_id = config.fixture.fixture_id
  /\ subject.fixture_manifest = config.fixture /\ f = config.fixture
  /\ subject.fixture_raw = raw["fixture.xml"] /\ subject.mjb = raw["model.mjb"]
  /\ subject.campaign_role = f.campaign_role /\ subject.baseline_fixture_id = f.baseline_fixture_id
  /\ ValidateSourceClosure(subject.closure, f, raw["fixture.xml"], SourceIdentity(config.fixture, config.xml))

ValidateInitialState(initial, f) == initial = <<f.initial_qpos, f.initial_qvel>>
ValidateActionProgram(action, f) == action = <<f.control_dt, f.horizon, f.controls>>

AdmitWorkload(config, workload, f) ==
  /\ ValidateInitialState(workload.initial_state, f)
  /\ ValidateActionProgram(workload.action_program, f)
  /\ workload = config.workload

--------------------------------------------------------------------------------
(* Contacts. *)

OnGrid(time, dt) == time % dt = 0

(* Mutant: an episode may not end at the horizon.                               *)
AdmitContactEventsMutant(events, dt) ==
  \A i \in DOMAIN events : events[i][2] < Horizon /\ OnGrid(events[i][2], dt)

AdmitContactEvents(events, dt) ==
  /\ \A i \in DOMAIN events :
       /\ events[i][1] = (IF i % 2 = 1 THEN "ONSET" ELSE "RELEASE")
       /\ events[i][2] <= Horizon /\ OnGrid(events[i][2], dt)
       /\ i > 1 => events[i][2] > events[i-1][2]
  /\ Len(events) % 2 = 0

AdmitContactSegments(segments, dt) ==
  \A i \in DOMAIN segments :
    LET s == segments[i] IN
    /\ s.onset < s.release /\ s.release <= Horizon /\ s.release - s.onset = s.persistence
    /\ OnGrid(s.onset, dt) /\ OnGrid(s.release, dt) /\ OnGrid(s.persistence, dt)
    /\ i > 1 => s.onset > segments[i-1].release

(* The durations of the segments, added up.                                     *)
TotalPersistence(segments) ==
  LET sum[i \in 0..Len(segments)] == IF i = 0 THEN 0 ELSE sum[i-1] + segments[i].persistence
  IN sum[Len(segments)]

AdmitContact(contact, dt) ==
  /\ Cardinality(contact.geoms) = 2
  /\ AdmitContactEvents(contact.events, dt)
  /\ AdmitContactSegments(contact.segments, dt)
  /\ OrdinaryNotation(contact.aggregate_normal_impulse)
  /\ Len(contact.events) = 2 * Len(contact.segments)
  /\ \A i \in DOMAIN contact.segments :
       /\ contact.events[2*i - 1][2] = contact.segments[i].onset
       /\ contact.events[2*i][2] = contact.segments[i].release
  /\ TotalPersistence(contact.segments) = contact.persistence
  /\ OnGrid(contact.persistence, dt)

AdmitContacts(contacts, dt) ==
  /\ \A contact \in Elements(contacts) : AdmitContact(contact, dt)
  /\ AllDifferent(contacts, LAMBDA contact : contact.channel_id)
  /\ AllDifferent(contacts, LAMBDA contact : contact.geoms)

--------------------------------------------------------------------------------
(* The trace. *)

ExpectedClock == [i \in 1..(Horizon \div ControlDt + 1) |-> ControlDt * (i - 1)]

ValidateObservationClock(tokens, count) == count = Len(ExpectedClock) /\ tokens = ExpectedClock

ValidateLayoutAgainstManifest(channels, contacts, f) ==
  /\ channels = ManifestLayout(f)
  /\ {<<c.channel_id, c.geoms>> : c \in Elements(contacts)}
       = {<<p.channel_id, Geoms(p)>> : p \in Elements(f.contact_pairs)}

(* The arrays, read from the file once more.                                    *)
LoadNpzArrays(file, raw) == Parses(file) /\ file = raw["trace.npz"]

AdmitObservationTimeArray(arrays, tokens) == arrays.times = tokens

CopyChannelArray(arrays, count) ==
  Len(arrays.rows) = count /\ \A i \in DOMAIN arrays.rows : arrays.rows[i].occupancy \in {0, 1}

Within(segments, time) == \E s \in Elements(segments) : s.onset <= time /\ time < s.release

ValidateContactTraceSemantics(arrays, contacts) ==
  \A contact \in Elements(contacts) :
    /\ \A i \in DOMAIN arrays.rows :
         /\ (arrays.rows[i].occupancy = 1) = Within(contact.segments, arrays.times[i])
         /\ arrays.rows[i].normal_force >= 0 /\ arrays.rows[i].normal_impulse >= 0
         /\ i > 1 => arrays.rows[i].normal_impulse >= arrays.rows[i-1].normal_impulse
    /\ arrays.rows[Len(arrays.rows)].normal_impulse = contact.aggregate_normal_impulse

CanonicalTraceSha(arrays, channels, contacts) == <<arrays, channels, contacts>>

(* Declared channels and three for each contact pair: a manifest may hold more.  *)
MaxTraceChannels == 256

(* What of the trace is decided before, and what after, the file is read again. *)
AdmitTraceMetadata(config, trace, contacts, f) ==
  /\ trace.count >= 1 /\ ValidateObservationClock(trace.tokens, trace.count)
  /\ trace.channels # {} /\ Cardinality(trace.channels) <= MaxTraceChannels
  /\ \A d \in trace.channels : AdmitChannelDescriptor(d)
  /\ AdmitContacts(contacts, config.dt)
  /\ ValidateLayoutAgainstManifest(trace.channels, contacts, f)

AdmitTraceArrays(trace, contacts, file, raw) ==
  /\ LoadNpzArrays(file, raw)
  /\ AdmitObservationTimeArray(file, trace.tokens) /\ CopyChannelArray(file, trace.count)
  /\ ValidateContactTraceSemantics(file, contacts)
  /\ CanonicalTraceSha(file, trace.channels, contacts) = trace.canonical_sha

--------------------------------------------------------------------------------
(* Diagnostics. *)

(* A residual that is not finite is null, and null has no notation.             *)
AdmitDiagnosticSample(sample, time) ==
  /\ sample.time = time
  /\ OrdinaryNotation(sample.max_solver_residual)
  /\ sample.max_solver_residual = Infinite => ~sample.solver_converged

ValidateDiagnosticCumulativeContract(samples, limit) ==
  \A i \in DOMAIN samples :
    LET s == samples[i] IN
    /\ s.max_solver_iterations <= limit
    /\ s.solver_converged = (/\ s.finite_values /\ s.warnings_passed
                             /\ s.max_solver_iterations < limit /\ s.max_solver_residual # Infinite)
    /\ i > 1 =>
         /\ s.finite_values => samples[i-1].finite_values
         /\ s.warnings_passed => samples[i-1].warnings_passed
         /\ s.max_solver_iterations >= samples[i-1].max_solver_iterations
         /\ s.max_solver_residual >= samples[i-1].max_solver_residual

AdmitDiagnostics(d, tokens) ==
  LET samples == d.samples
      last == samples[Len(samples)]
      every(Gate(_)) == \A s \in Elements(samples) : Gate(s)
  IN /\ Len(samples) = Len(tokens)
     /\ \A i \in DOMAIN samples : AdmitDiagnosticSample(samples[i], tokens[i])
     /\ ValidateDiagnosticCumulativeContract(samples, d.solver_iteration_limit)
     /\ d.max_solver_iterations <= d.solver_iteration_limit
     /\ d.max_solver_iterations = last.max_solver_iterations
     /\ OrdinaryNotation(d.max_solver_residual)
     /\ d.max_solver_residual = last.max_solver_residual
     /\ d.finite_values = last.finite_values /\ d.finite_values = every(LAMBDA s : s.finite_values)
     /\ d.warnings_passed = last.warnings_passed /\ d.warnings_passed = every(LAMBDA s : s.warnings_passed)
     /\ d.warnings_passed # d.warning_records
     /\ d.solver_converged = last.solver_converged /\ d.solver_converged = every(LAMBDA s : s.solver_converged)

--------------------------------------------------------------------------------
(* A cell, and a cell among the others. *)

(* Everything that is decided on the bytes that were read, up to the runtime.    *)
AdmitBytes(config, raw) ==
  /\ Parses(raw["result.json"]) /\ Parses(raw["input_manifest.json"]) /\ raw["result.json"].status = "COMPLETED"
  /\ LET result == raw["result.json"]
         manifest == raw["input_manifest.json"]
     IN /\ ValidateResultRoot(config, result, raw)
        /\ SelectManifestFixture(manifest, result.fixture_id)
        /\ LET f == Fixture(manifest, result.fixture_id)
           IN /\ ValidateFixtureContract(f)
              /\ AdmitSubject(config, result.subject, f, raw)
              /\ AdmitWorkload(config, result.workload, f)

(* The order of the referee: runtime, trace metadata, arrays, diagnostics.       *)
AdmitProfile(config, result, identityFile) ==
  AdmitRuntime(config, result.runtime, identityFile) /\ ValidateResultProfileIdentity(result)

AdmittedEvidenceCell(result) ==
  [fixture_id |-> result.fixture_id, role |-> result.runtime.profile_role, subject |-> result.subject,
   workload |-> result.workload, runtime |-> result.runtime, layout |-> result.trace.channels,
   clock |-> result.trace.tokens, contacts |-> result.contacts, diagnostics |-> result.diagnostics]

SubjectWithoutCompiled(subject) == [subject EXCEPT !.mjb = Absent]

BindCrossCellEvidence(config, cells) ==
  \A a, b \in cells :
    /\ a.fixture_id = config.fixture.fixture_id
    /\ a.workload = b.workload
    /\ SubjectWithoutCompiled(a.subject) = SubjectWithoutCompiled(b.subject)
    /\ a.layout = b.layout /\ a.clock = b.clock
    /\ a.role = b.role => a.runtime = b.runtime
    /\ a.role # b.role => CommonRuntimeProjection(a.runtime) = CommonRuntimeProjection(b.runtime)

================================================================================
