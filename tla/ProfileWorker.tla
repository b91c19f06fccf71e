----------------------------- MODULE ProfileWorker -----------------------------
(* The worker's simulation of one fixture at one step size: what it compiles,   *)
(* what it accumulates from step to step, and the documents it makes of it.     *)
(*                                                                            *)
(* The physics is the environment's: a step yields whether the declared geoms   *)
(* touch, with what force, and the numerical weather. A magnitude is a natural  *)
(* number; those in Scientific have a shortest binary64 token that is not       *)
(* ordinary decimal notation (5e-05, 1.0).                                      *)
EXTENDS ProfileIdentity

CONSTANTS Infinite,        \* a residual that is not finite
          Scientific       \* see above

ASSUME MagnitudeAssumption ==
  /\ IterationLimit \in Nat \ {0} /\ Infinite \in Nat \ {0}
  /\ Scientific \subseteq 0..(Infinite - 1)

LargerOf(a, b) == IF a >= b THEN a ELSE b

--------------------------------------------------------------------------------
(* Compiling. *)

AdmitSelfContainedXml(xml) == xml.self_contained

ValidateActuatorRanges(xml, f) == \A s \in Elements(f.controls) : s.bounded /\ xml.admits_controls

ValidateChannelBinding(xml, c) ==
  CASE c.kind \in {"JOINT_POSITION", "JOINT_VELOCITY"} -> c.object_name \in xml.scalar_joints
    [] c.kind \in {"BODY_POSITION", "BODY_QUATERNION"} -> c.object_name \in xml.bodies
    [] c.kind = "SENSOR" -> c.object_name \in DOMAIN xml.sensors /\ c.component < xml.sensors[c.object_name]

CompileModel(xml, f) ==
  /\ xml.compiles
  /\ xml.nq = f.initial_qpos.width /\ xml.nv = f.initial_qvel.width
  /\ {s.width : s \in Elements(f.controls)} = {xml.nu}
  /\ ValidateActuatorRanges(xml, f)
  /\ \A c \in Elements(f.channels) : ValidateChannelBinding(xml, c)
  /\ \A p \in Elements(f.contact_pairs) : Geoms(p) \subseteq xml.geoms

CompiledMjb(xml, dt) == [model |-> xml, timestep |-> dt]

(* Reading the manifest and the fixture it names, by path, and compiling it.     *)
Compiles(manifest, xml, id) ==
  LoadManifest(manifest, id) /\ AdmitSelfContainedXml(xml) /\ CompileModel(xml, Fixture(manifest, id))

--------------------------------------------------------------------------------
(* One step's contacts and gates. *)

Touching == {[occupied |-> FALSE, force |-> 0], [occupied |-> TRUE, force |-> 0],
             [occupied |-> TRUE, force |-> 1]}

Calm == [contact |-> "finite", finite |-> TRUE, warning |-> FALSE, iterations |-> 0, residual |-> 0]
Weather ==
  {Calm, [Calm EXCEPT !.contact = "unnamed"], [Calm EXCEPT !.contact = "nonfinite"],
   [Calm EXCEPT !.finite = FALSE], [Calm EXCEPT !.warning = TRUE],
   [Calm EXCEPT !.residual = 1], [Calm EXCEPT !.residual = Infinite]}
    \union {[Calm EXCEPT !.iterations = n] : n \in {IterationLimit, IterationLimit + 1}}

(* A geom without a name, or a distance or force that is not finite, refuses.    *)
SemanticContactSample(weather) == weather.contact = "finite"

NewContactState(touch) ==
  [occupied |-> touch.occupied, onset |-> IF touch.occupied THEN <<0>> ELSE <<>>,
   events |-> IF touch.occupied THEN <<<<"ONSET", 0>>>> ELSE <<>>,
   segments |-> <<>>, persistence_steps |-> 0, impulse |-> 0, force |-> touch.force]

(* Mutant: the force of the step in which an episode begins is not integrated.   *)
AdvanceContactStateMutant(state, touch, time, dt) ==
  LET begins == touch.occupied /\ ~state.occupied
      ends == state.occupied /\ ~touch.occupied
  IN [occupied |-> touch.occupied, force |-> touch.force,
      impulse |-> state.impulse + (IF begins THEN 0 ELSE touch.force * dt),
      onset |-> IF begins THEN <<time>> ELSE IF ends THEN <<>> ELSE state.onset,
      events |-> state.events \o (IF begins THEN <<<<"ONSET", time>>>> ELSE <<>>)
                              \o (IF ends THEN <<<<"RELEASE", time>>>> ELSE <<>>),
      segments |-> state.segments \o
        (IF ends THEN <<[onset |-> state.onset[1], release |-> time, persistence |-> time - state.onset[1]]>>
                 ELSE <<>>),
      persistence_steps |-> state.persistence_steps + (IF touch.occupied THEN 1 ELSE 0)]

AdvanceContactState(state, touch, time, dt) ==
  LET begins == touch.occupied /\ ~state.occupied
      ends == state.occupied /\ ~touch.occupied
  IN [occupied |-> touch.occupied,
      onset |-> IF begins THEN <<time>> ELSE IF ends THEN <<>> ELSE state.onset,
      events |-> state.events \o (IF begins THEN <<<<"ONSET", time>>>> ELSE <<>>)
                              \o (IF ends THEN <<<<"RELEASE", time>>>> ELSE <<>>),
      segments |-> state.segments \o
        (IF ends THEN <<[onset |-> state.onset[1], release |-> time, persistence |-> time - state.onset[1]]>>
                 ELSE <<>>),
      persistence_steps |-> state.persistence_steps + (IF touch.occupied THEN 1 ELSE 0),
      impulse |-> state.impulse + touch.force * dt,
      force |-> touch.force]

EveryEpisodeEnds(state) == state.onset = <<>>

FinalizeContacts(pair, state, dt) ==
  [channel_id |-> pair.channel_id, geoms |-> Geoms(pair),
   events |-> state.events, segments |-> state.segments,
   persistence |-> dt * state.persistence_steps, aggregate_normal_impulse |-> state.impulse]

(* The solver may stop at its limit and never beyond it.                        *)
SolverSample(weather) == weather.iterations <= IterationLimit

InitialGates(weather) ==
  [finite |-> weather.finite, warning_free |-> ~weather.warning,
   iterations |-> weather.iterations, residual |-> weather.residual]

(* Warning counters of a simulation never go back.                              *)
AdvanceGates(gates, weather) ==
  [finite |-> gates.finite /\ weather.finite, warning_free |-> gates.warning_free /\ ~weather.warning,
   iterations |-> LargerOf(gates.iterations, weather.iterations),
   residual |-> LargerOf(gates.residual, weather.residual)]

Converged(gates) ==
  gates.finite /\ gates.warning_free /\ gates.iterations < IterationLimit /\ gates.residual < Infinite

DiagnosticValues(gates, time) ==
  [time |-> time, finite_values |-> gates.finite, warnings_passed |-> gates.warning_free,
   solver_converged |-> Converged(gates), max_solver_iterations |-> gates.iterations,
   max_solver_residual |-> gates.residual]

(* The observed state is forwarded in a copy, and must be finite.               *)
ProjectObservationData(weather) == weather.finite

ObservedRow(state) ==
  [occupancy |-> IF state.occupied THEN 1 ELSE 0, normal_force |-> state.force, normal_impulse |-> state.impulse]

ObservationCount(f) == f.horizon \div f.control_dt + 1
ObservationTimes(f) == [i \in 1..ObservationCount(f) |-> f.control_dt * (i - 1)]

(* "Select the unique left-boundary zero-order-hold action": there is one.       *)
ControlAt(f, time) == \E s \in Elements(f.controls) : s.start <= time /\ time < s.end

--------------------------------------------------------------------------------
(* The documents. *)

TraceArrays(f, rows) == [times |-> ObservationTimes(f), rows |-> rows]

TraceIdentity(f, arrays, contacts) ==
  [tokens |-> ObservationTimes(f), count |-> ObservationCount(f), channels |-> Descriptors(f),
   canonical_sha |-> <<arrays, Descriptors(f), contacts>>]

SubjectIdentity(f, xml, mjb) ==
  [fixture_id |-> f.fixture_id, campaign_role |-> f.campaign_role,
   baseline_fixture_id |-> f.baseline_fixture_id, fixture_manifest |-> f,
   fixture_raw |-> xml, closure |-> SourceIdentity(f, xml), mjb |-> mjb]

Diagnostics(gates, samples) ==
  [finite_values |-> gates.finite, warnings_passed |-> gates.warning_free,
   solver_converged |-> samples[Len(samples)].solver_converged,
   warning_records |-> ~gates.warning_free, max_solver_iterations |-> gates.iterations,
   solver_iteration_limit |-> IterationLimit, max_solver_residual |-> gates.residual, samples |-> samples]

CompletedResult(route, manifest, f, dt, runtime, xml, trace, contacts, diagnostics) ==
  [schema_version |-> route, status |-> "COMPLETED", fixture_id |-> f.fixture_id, step_dt |-> dt,
   manifest_raw |-> manifest, manifest_echo |-> manifest,
   subject |-> SubjectIdentity(f, xml, CompiledMjb(xml, dt)), workload |-> WorkloadIdentity(f),
   runtime |-> runtime, profile |-> [role |-> runtime.profile_role, version |-> runtime.facts.version,
                                     identity |-> runtime.external, sentinel |-> runtime.sentinel],
   trace |-> trace, contacts |-> contacts, diagnostics |-> diagnostics]

RefusedResult(route, id, dt) ==
  [schema_version |-> route, status |-> "REFUSED", fixture_id |-> id, step_dt |-> dt]

================================================================================
