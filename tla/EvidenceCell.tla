------------------------------ MODULE EvidenceCell ------------------------------
(* One evidence cell from the profile's identity to the referee's verdict:       *)
(*                                                                            *)
(*   collector   measures, runs the sentinel, compiles the smoke, writes the     *)
(*               identity, and leaves with it                                    *)
(*   run         loads the identity and binds it to what the run declared        *)
(*   worker      owns a directory, reads manifest and fixture, compiles,          *)
(*               measures, simulates, and writes six members, or refuses          *)
(*   referee     reads the members, and the identity and the trace again          *)
(*                                                                            *)
(* They are processes of their own that meet in files. Between any two steps the *)
(* environment may change: a fact of it drifts, somebody swaps a file, and later   *)
(* it may all be as it was. Or else, once, a call fails, a member is exchanged, the *)
(* physics or the sentinel turns bad. The bound: one such trouble per cell, and    *)
(* drifts and swapped inputs in the cells of the coarsest step only.             *)
EXTENDS CellAdmission

CONSTANTS Manifests,    \* the manifests a campaign may start with
          Drafts,       \* manifests a rival puts in their place
          Xmls,         \* fixture files, first the one the campaign declares
          OtherFiles,   \* contents a rival gives a member, by name
          FixtureId,    \* the fixture of the cell
          Grids         \* the step sizes that are run

(* Nothing in a result is signed: a rival who wrote a completed one, with every    *)
(* binding right, would be a worker. What a rival leaves is cut off, or a refusal.  *)
ASSUME OtherFilesAssumption ==
  "result.json" \in DOMAIN OtherFiles =>
    \A contents \in OtherFiles["result.json"] :
      contents \in {Absent, Partial} \/ contents.status # "COMPLETED"

(* What parsing makes of a JSON document before any check: sequences, numbers.   *)
IsFixture(f) ==
  /\ f.controls \in Seq([start : Int, end : Int, width : Nat, bounded : BOOLEAN])
  /\ f.horizon \in Int /\ f.control_dt \in Int

(* What a campaign starts with are manifests and a model. A bound: the fixture of   *)
(* the cell declares one pair of geoms.                                          *)
ASSUME DocumentsAssumption ==
  /\ "self_contained" \in DOMAIN Xmls[1]
  /\ \A m \in Manifests :
       /\ DOMAIN m = {"supported", "fixtures"}
       /\ m.fixtures \in Seq(Elements(m.fixtures))
       /\ \A f \in Elements(m.fixtures) :
            IsFixture(f) /\ (f.fixture_id = FixtureId => f.contact_pairs = <<f.contact_pairs[1]>>)

VARIABLES
  pc,         \* where the cell is
  route,      \* the collector's, worker's and configuration's schema version
  dt,         \* the cell's step size
  manifest, xml, identity,   \* the input files, as they are now
  live,       \* the facts of the environment, as they are now
  config,     \* what the review is configured for
  gathered,   \* the collector's measurements
  own,        \* the worker's memory
  members,    \* the files of the cell's directory
  seen,       \* the bytes the referee read
  exit,       \* the worker's exit status
  verdict,    \* the referee's
  history,    \* (not of the program) what touched at every step so far
  trouble     \* "none", "present", or "past"

inputs == <<manifest, xml, identity>>
vars == <<pc, route, dt, inputs, live, config, gathered, own, members, seen, exit, verdict, history, trouble>>

Nothing == <<>>
DeclaredXml == Xmls[1]
ReleasedVersion == "usual"

(* On the legacy route a profile is known by its version. *)
Role(r) == IF r = 1 THEN ReleasedVersion ELSE "baseline"

(* What the author of the review declared: the fixture, the files, the profile. *)
Declared(campaign) ==
  LET f == Fixture(campaign, FixtureId) IN
  [route |-> route, role |-> Role(route), version |-> ReleasedVersion, identity |-> NoIdentity, dt |-> dt,
   manifest |-> campaign, fixture |-> f, xml |-> DeclaredXml, workload |-> WorkloadIdentity(f)]

Disturbs == trouble = "none" /\ dt = ControlDt /\ trouble' = "present"
SpendAll == trouble = "none" /\ trouble' = "past"
Calmly(weather) == IF weather = Calm THEN UNCHANGED trouble ELSE SpendAll

Init ==
  /\ pc = "collect" /\ route \in Routes /\ dt \in Grids
  /\ manifest \in Manifests /\ xml = DeclaredXml /\ identity = NoIdentity
  /\ live = [fact \in Facts |-> "usual"]
  /\ config = Declared(manifest) /\ gathered = Nothing /\ own = Nothing
  /\ members = [name \in Members |-> Absent] /\ seen = Nothing
  /\ exit = "running" /\ verdict = "none" /\ history = <<>> /\ trouble = "none"

--------------------------------------------------------------------------------
(* The collector. *)

Collects == UNCHANGED <<route, dt, manifest, xml, live, config, own, members, seen, exit, verdict, history>>
CollectorRefuses == pc' = "stopped" /\ UNCHANGED <<identity, gathered>>

(* The worker's bytes are verified and its measurement runs, bound to nothing.   *)
MeasureProfile ==
  /\ pc = "collect" /\ Collects /\ UNCHANGED trouble
  /\ IF Measured(live)
     THEN /\ gathered' = [facts |-> Of(IdentityFacts, live), sentinel |-> NoIdentity, from |-> NoIdentity]
          /\ pc' = IF route = 2 THEN "sentinel" ELSE "smoke"
          /\ UNCHANGED identity
     ELSE CollectorRefuses

(* Manifest and fixture are read here, and once more for the smoke.              *)
RunSentinel ==
  /\ pc = "sentinel" /\ Collects
  /\ IF Compiles(manifest, xml, FixtureId)
     THEN \E flaw \in IF CallbackAuthorityAbsent(live) THEN Flaws \ {"callbacks"} ELSE {"callbacks"} :
            /\ IF flaw \in {NoFlaw, "callbacks"} THEN UNCHANGED trouble ELSE SpendAll
            /\ gathered' = [gathered EXCEPT !.sentinel = SameProfileSentinel(xml, FixtureId, Role(route), flaw)]
            /\ pc' = "smoke" /\ UNCHANGED identity
     ELSE CollectorRefuses /\ UNCHANGED trouble

CompileSmoke ==
  /\ pc = "smoke" /\ Collects /\ UNCHANGED trouble
  /\ IF Compiles(manifest, xml, FixtureId) /\ (route = 2 => live.installation # "bad")
     THEN LET smoke == SmokeIdentity(xml, FixtureId, manifest)
              facts == [gathered.facts EXCEPT !.installation = live.installation]
          IN /\ gathered' = [gathered EXCEPT
                  !.from = IF route = 1 THEN CollectIdentity(gathered.facts, smoke)
                           ELSE CollectIdentityV2(Role(route), facts, smoke, gathered.sentinel)]
             /\ pc' = "identity" /\ UNCHANGED identity
     ELSE CollectorRefuses

(* The document is validated, written where nothing was, and then, if the        *)
(* sentinel failed, the collector refuses.                                      *)
WriteIdentity ==
  /\ pc = "identity" /\ Collects /\ UNCHANGED trouble
  /\ LET document == gathered.from
         valid == IF route = 1 THEN ValidateProfileIdentityV1(document, document.facts.version)
                  ELSE ValidateProfileIdentityV2(document, Role(route), FALSE)
     IN IF valid /\ identity = NoIdentity
        THEN /\ identity' = document /\ UNCHANGED gathered
             /\ pc' = IF route = 2 /\ document.sentinel.status # "PASS" THEN "stopped" ELSE "preflight"
        ELSE CollectorRefuses

--------------------------------------------------------------------------------
(* The run, which retains the identity its referee will be configured with. *)

BindProfileIdentityToRun(document) ==
  /\ document.native_smoke.fixture_id = FixtureId
  /\ document.native_smoke.manifest_raw = config.manifest
  /\ document.facts.python = "usual"

Preflight ==
  /\ pc = "preflight"
  /\ IF /\ LoadNativeProfileIdentity(identity, route, Role(route))
        /\ route = 2 => BindProfileIdentityToRun(identity)
     THEN config' = [config EXCEPT !.identity = identity] /\ pc' = "load"
     ELSE pc' = "stopped" /\ UNCHANGED config
  /\ UNCHANGED <<route, dt, inputs, live, gathered, own, members, seen, exit, verdict, history, trouble>>

--------------------------------------------------------------------------------
(* The worker. *)

Works == UNCHANGED <<route, dt, inputs, live, config, gathered, seen, verdict>>
WorkerRefuses == pc' = "refusing" /\ own' = Nothing /\ history' = <<>> /\ UNCHANGED <<members, exit>>

(* One call writes one member, exclusively; it may fail and leave part of it.    *)
WriteMember(name, contents, next) ==
  IF members[name] # Absent THEN pc' = "refusing" /\ UNCHANGED <<members, trouble>>
  ELSE \/ members' = [members EXCEPT ![name] = contents] /\ pc' = next /\ UNCHANGED trouble
       \/ SpendAll /\ pc' = "refusing" /\ members' \in {members, [members EXCEPT ![name] = Partial]}

(* The manifest is read once; its bytes are the first member.                    *)
WorkerLoadManifest ==
  /\ pc = "load" /\ Works
  /\ IF LoadManifest(manifest, FixtureId) /\ dt \in Elements(Fixture(manifest, FixtureId).step_dts)
     THEN /\ own' = [manifest |-> manifest] /\ WriteMember("input_manifest.json", manifest, "fixture")
          /\ UNCHANGED <<exit, history>>
     ELSE WorkerRefuses /\ UNCHANGED trouble

OwnFixture == Fixture(own.manifest, FixtureId)
OwnPair == OwnFixture.contact_pairs[1]

ResolveFixtureSource ==
  /\ pc = "fixture" /\ Works
  /\ IF AdmitSelfContainedXml(xml)
     THEN /\ own' = [manifest |-> own.manifest, xml |-> xml] /\ WriteMember("fixture.xml", xml, "compile")
          /\ UNCHANGED <<exit, history>>
     ELSE WorkerRefuses /\ UNCHANGED trouble

WorkerCompile ==
  /\ pc = "compile" /\ Works
  /\ IF CompileModel(own.xml, OwnFixture)
     THEN /\ WriteMember("model.mjb", CompiledMjb(own.xml, dt), "runtime") /\ UNCHANGED <<own, exit, history>>
     ELSE WorkerRefuses /\ UNCHANGED trouble

(* The identity is read by path; on the legacy route its link may be missing.    *)
WorkerMeasure ==
  /\ pc = "runtime" /\ Works /\ UNCHANGED trouble
  /\ \E linked \in IF route = 1 THEN {identity, NoIdentity} ELSE {identity} :
       IF RuntimeAdmitted(route, Role(route), linked, live)
       THEN /\ own' = [manifest |-> own.manifest, xml |-> own.xml, measured |-> live,
                       runtime |-> RuntimeIdentity(route, Role(route), linked, live)]
            /\ pc' = "initial" /\ UNCHANGED <<members, exit, history>>
       ELSE WorkerRefuses

Simulation(state, gates, rows, samples, time) ==
  [manifest |-> own.manifest, xml |-> own.xml, runtime |-> own.runtime, measured |-> own.measured,
   contact |-> state, gates |-> gates, rows |-> rows, samples |-> samples, time |-> time]

(* The state at time zero is sampled, and observed.                              *)
SimulateInitial ==
  /\ pc = "initial" /\ Works
  /\ \E touch \in Touching, weather \in Weather :
       /\ Calmly(weather)
       /\ IF SemanticContactSample(weather) /\ SolverSample(weather) /\ ProjectObservationData(weather)
          THEN LET state == NewContactState(touch)
                   gates == InitialGates(weather)
               IN /\ own' = Simulation(state, gates, <<ObservedRow(state)>>, <<DiagnosticValues(gates, 0)>>, 0)
                  /\ history' = <<touch>> /\ pc' = "simulate" /\ UNCHANGED <<members, exit>>
          ELSE WorkerRefuses

SimulateStep ==
  /\ pc = "simulate" /\ own.time < OwnFixture.horizon /\ Works
  /\ \E touch \in Touching, weather \in Weather :
       LET time == own.time + dt
           observed == OnGrid(time, OwnFixture.control_dt)
       IN /\ Calmly(weather)
          /\ IF /\ ControlAt(OwnFixture, own.time)
                /\ SemanticContactSample(weather) /\ SolverSample(weather)
                /\ observed => ProjectObservationData(weather)
             THEN LET state == AdvanceContactState(own.contact, touch, time, dt)
                      gates == AdvanceGates(own.gates, weather)
                  IN /\ own' = Simulation(state, gates,
                          IF observed THEN Append(own.rows, ObservedRow(state)) ELSE own.rows,
                          IF observed THEN Append(own.samples, DiagnosticValues(gates, time)) ELSE own.samples,
                          time)
                     /\ history' = Append(history, touch) /\ UNCHANGED <<pc, members, exit>>
             ELSE WorkerRefuses

OwnContacts == <<FinalizeContacts(OwnPair, own.contact, dt)>>
OwnArrays == TraceArrays(OwnFixture, own.rows)

FinishSimulation ==
  /\ pc = "simulate" /\ own.time = OwnFixture.horizon /\ Works
  /\ IF EveryEpisodeEnds(own.contact) /\ Len(own.samples) = ObservationCount(OwnFixture)
     THEN WriteMember("trace.npz", OwnArrays, "result") /\ UNCHANGED <<own, exit, history>>
     ELSE WorkerRefuses /\ UNCHANGED trouble

WriteResult ==
  /\ pc = "result" /\ Works /\ UNCHANGED <<own, exit, history>>
  /\ WriteMember("result.json",
       CompletedResult(route, own.manifest, OwnFixture, dt, own.runtime, own.xml,
                       TraceIdentity(OwnFixture, OwnArrays, OwnContacts), OwnContacts,
                       Diagnostics(own.gates, own.samples)), "checksums")

(* Every member that is there is bound; the directory is synced last.            *)
Checksums == [name \in {n \in Checksummed : members[n] # Absent} |-> members[name]]

WriteChecksums ==
  /\ pc = "checksums" /\ Works /\ UNCHANGED <<own, history>>
  /\ \/ WriteMember("CHECKSUMS.sha256", Checksums, "read") /\ exit' = IF pc' = "read" THEN "0" ELSE exit
     \/ /\ members["CHECKSUMS.sha256"] = Absent /\ SpendAll
        /\ members' = [members EXCEPT !["CHECKSUMS.sha256"] = Checksums]
        /\ pc' = "refusing" /\ UNCHANGED exit

(* What is missing of a result and of its checksums is written; what is there,   *)
(* complete or not, stays.                                                      *)
Refuse ==
  /\ pc = "refusing" /\ Works /\ UNCHANGED <<own, history, trouble>>
  /\ LET result == IF members["result.json"] = Absent THEN RefusedResult(route, FixtureId, dt)
                   ELSE members["result.json"]
         bound == [name \in {n \in Checksummed : members[n] # Absent} \union {"result.json"} |->
                     IF name = "result.json" THEN result ELSE members[name]]
     IN members' = [members EXCEPT !["result.json"] = result,
                      !["CHECKSUMS.sha256"] = IF @ = Absent THEN bound ELSE @]
  /\ exit' = "2" /\ pc' = "read"

--------------------------------------------------------------------------------
(* The referee. *)

Judges == UNCHANGED <<route, dt, inputs, live, config, gathered, own, members, exit, history, trouble>>
Rejected == verdict' = "refused" /\ pc' = "judged"

(* Every member is read once, and only these bytes are judged.                   *)
ReadCell ==
  /\ pc = "read" /\ Judges
  /\ IF ReadVerifiedMembers(members) /\ AdmitBytes(config, members)
     THEN seen' = members /\ pc' = "profile" /\ UNCHANGED verdict
     ELSE Rejected /\ UNCHANGED seen

ReadProfile ==
  /\ pc = "profile" /\ Judges /\ UNCHANGED seen
  /\ LET result == seen["result.json"]
     IN IF /\ AdmitProfile(config, result, identity)
           /\ AdmitTraceMetadata(config, result.trace, result.contacts, Fixture(seen["input_manifest.json"], FixtureId))
        THEN pc' = "trace" /\ UNCHANGED verdict
        ELSE Rejected

(* The cells beside this one: its repeat, and the other role's. They ran while    *)
(* the environment was as it first was, or as this cell found it.               *)
Peer(cell, role, runtime) ==
  [cell EXCEPT !.role = role, !.runtime = [runtime EXCEPT !.profile_role = role],
               !.subject = SubjectIdentity(config.fixture, config.xml, CompiledMjb(config.xml, dt)),
               !.workload = config.workload, !.layout = ManifestLayout(config.fixture), !.clock = ExpectedClock]

FirstRuntime(runtime) == [runtime EXCEPT !.facts = Of(RuntimeFacts, [fact \in Facts |-> "usual"])]

CellAmongOthers(cell) ==
  \E runtime \in {cell.runtime, FirstRuntime(cell.runtime)} :
    BindCrossCellEvidence(config, {cell, Peer(cell, Role(route), runtime), Peer(cell, "candidate", runtime)})

ReadTrace ==
  /\ pc = "trace" /\ Judges /\ UNCHANGED seen
  /\ LET result == seen["result.json"]
     IN IF /\ AdmitTraceArrays(result.trace, result.contacts, members["trace.npz"], seen)
           /\ AdmitDiagnostics(result.diagnostics, result.trace.tokens)
           /\ CellAmongOthers(AdmittedEvidenceCell(result))
        THEN verdict' = "admitted" /\ pc' = "judged"
        ELSE Rejected

--------------------------------------------------------------------------------
(* Interference, where it matters: before a measurement, before a reading.      *)

Drift ==
  /\ pc \in {"collect", "sentinel", "smoke", "runtime"}
  /\ \E fact \in Facts : \E value \in FactValues(fact) :
       value # live[fact] /\ live' = [live EXCEPT ![fact] = value]
  /\ Disturbs
  /\ UNCHANGED <<pc, route, dt, inputs, config, gathered, own, members, seen, exit, verdict, history>>

OtherIdentities(document) ==
  {NoIdentity, document, [document EXCEPT !.sealed = FALSE], [document EXCEPT !.schema = 3 - route],
   [document EXCEPT !.facts.mujoco = "odd"], [document EXCEPT !.facts.installation = "odd"]}
    \union (IF route = 1 THEN {} ELSE
             {[document EXCEPT !.profile_role = "candidate"],
              [document EXCEPT !.sentinel = SameProfileSentinel(DeclaredXml, FixtureId, Role(route), "step")]})

RivalInput ==
  /\ \/ /\ pc \in {"sentinel", "smoke", "load"}
        /\ manifest' \in (Drafts \union {config.manifest}) \ {manifest} /\ UNCHANGED <<xml, identity>>
     \/ /\ pc \in {"sentinel", "smoke", "fixture"}
        /\ xml' \in Elements(Xmls) \ {xml} /\ UNCHANGED <<manifest, identity>>
     \/ /\ pc \in {"preflight", "runtime", "profile"}
        /\ identity' \in OtherIdentities(gathered.from) \ {identity} /\ UNCHANGED <<manifest, xml>>
  /\ Disturbs
  /\ UNCHANGED <<pc, route, dt, live, config, gathered, own, members, seen, exit, verdict, history>>

(* Everything is as it was.                                                     *)
Restore ==
  /\ trouble = "present" /\ trouble' = "past"
  /\ pc \in {"sentinel", "smoke", "preflight", "load", "fixture", "runtime", "profile"}
  /\ live' = [fact \in Facts |-> "usual"] /\ manifest' = config.manifest /\ xml' = DeclaredXml
  /\ identity' = IF pc \in {"sentinel", "smoke"} THEN identity ELSE gathered.from
  /\ UNCHANGED <<pc, route, dt, config, gathered, own, members, seen, exit, verdict, history>>

RivalMember ==
  /\ pc \in {"fixture", "compile", "checksums", "read", "trace"}
  /\ \E name \in DOMAIN OtherFiles : \E contents \in OtherFiles[name] :
       contents # members[name] /\ members' = [members EXCEPT ![name] = contents]
  /\ SpendAll
  /\ UNCHANGED <<pc, route, dt, inputs, live, config, gathered, own, seen, exit, verdict, history>>

Finished == pc \in {"stopped", "judged"} /\ UNCHANGED vars

Next ==
  \/ MeasureProfile \/ RunSentinel \/ CompileSmoke \/ WriteIdentity \/ Preflight
  \/ WorkerLoadManifest \/ ResolveFixtureSource \/ WorkerCompile \/ WorkerMeasure
  \/ SimulateInitial \/ SimulateStep \/ FinishSimulation \/ WriteResult \/ WriteChecksums \/ Refuse
  \/ ReadCell \/ ReadProfile \/ ReadTrace
  \/ Drift \/ RivalInput \/ Restore \/ RivalMember \/ Finished

Spec == Init /\ [][Next]_vars

--------------------------------------------------------------------------------
(* What an admitted cell is worth. *)

Result == seen["result.json"]
Contact == Result.contacts[1]
Admitted == verdict = "admitted"

(* An undisturbed cell its worker completed is admitted: two programs that share  *)
(* no code agree on every document that passes between them. Left out are three   *)
(* cells they disagree on: those whose contact begins at time zero, those with a   *)
(* number the worker does not write in ordinary notation, and those of a manifest  *)
(* the worker runs that yields more channels than the referee reads.              *)
Completed == pc = "judged" /\ trouble = "none" /\ exit = "0" /\ own.runtime.external # NoIdentity
Ordinary == OrdinaryNotation(own.contact.impulse) /\ OrdinaryNotation(own.gates.residual)
FewChannels == Cardinality(Descriptors(OwnFixture)) <= MaxTraceChannels

CompletedIsAdmitted == Completed /\ ~history[1].occupied /\ Ordinary /\ FewChannels => Admitted

(* However files were swapped and swapped back, before a reading and between two   *)
(* readings of the same file, an admitted cell holds the bytes one worker wrote    *)
(* that ran the declared fixture, at the configured step size.                    *)
AdmittedIsOneGeneration ==
  Admitted =>
    /\ own.xml = config.xml /\ OwnFixture = config.fixture
    /\ seen["input_manifest.json"] = own.manifest /\ seen["fixture.xml"] = own.xml
    /\ seen["model.mjb"] = CompiledMjb(own.xml, dt) /\ seen["trace.npz"] = OwnArrays
    /\ Result.diagnostics = Diagnostics(own.gates, own.samples) /\ own.time = config.fixture.horizon

(* The environment of an admitted role-based cell is, fact by fact, the one in      *)
(* which the collector ran the sentinel that the cell's identity retains; the      *)
(* installation, which the worker does not measure again, excepted.               *)
ProfileIsTheAdmittedOne ==
  Admitted /\ route = 2 =>
    /\ Agree(RuntimeFacts \union {"build"}, gathered.facts, own.measured)
    /\ Result.runtime.external = config.identity
    /\ config.identity.sentinel.status = "PASS" /\ own.measured.callbacks = "usual"

(* The contacts of an admitted cell are what happened at every simulated step,      *)
(* those between two observations included.                                       *)
ContactsAreWhatHappened ==
  Admitted =>
    /\ \A i \in DOMAIN history : history[i].occupied = Within(Contact.segments, dt * (i - 1))
    /\ Contact.persistence = dt * Cardinality({i \in DOMAIN history : history[i].occupied})
    /\ Contact.aggregate_normal_impulse = dt * Cardinality({i \in DOMAIN history : history[i].force = 1})
    /\ Contact.channel_id = config.fixture.contact_pairs[1].channel_id
================================================================================
