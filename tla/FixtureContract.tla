---------------------------- MODULE FixtureContract ----------------------------
(* The manifest of an evidence campaign. Two programs read it: the worker that *)
(* simulates a fixture, and the referee that admits what a worker wrote. They   *)
(* share no code, so each states the contract of a fixture on its own.          *)
(*                                                                            *)
(* A fixture is a record of the facts the two tell apart. Times are integers of *)
(* the finest step. A vector is its width and whether its numbers are within    *)
(* bounds; a scale is "null", "positive" or "other"; a channel ID is a pair, so *)
(* that a channel may have the name one derived from a contact pair has.        *)
EXTENDS Integers, Sequences, FiniteSets

CONSTANTS ControlDt,    \* the control interval of the campaign
          Horizon,      \* its horizon
          StepDts,      \* its three step sizes, coarsest first
          NoComponent   \* a channel without a component

ASSUME GridAssumption ==
  /\ ControlDt \in Nat \ {0} /\ Horizon \in Nat \ {0} /\ StepDts \in Seq(Nat \ {0})
  /\ StepDts # <<>> /\ NoComponent \notin Int

ChannelKinds == {"JOINT_POSITION", "JOINT_VELOCITY", "BODY_POSITION", "BODY_QUATERNION", "SENSOR"}
Roles == {"MIGRATION_SUBJECT", "CONTROLLED_MUTATION"}
Suffixes == {"occupancy", "normal_force", "normal_impulse"}

Elements(s) == {s[i] : i \in DOMAIN s}
AllDifferent(s, Key(_)) == \A i, j \in DOMAIN s : i # j => Key(s[i]) # Key(s[j])
Divides(numerator, denominator) == denominator > 0 /\ numerator % denominator = 0

(* The pair of geoms of a contact declaration, in no order. *)
Geoms(p) == {p.geom_a, p.geom_b}
Derived(p) == {<<p.channel_id, suffix>> : suffix \in Suffixes}

--------------------------------------------------------------------------------
(* The worker. *)

ParseControl(segment) ==
  /\ segment.width > 0 /\ segment.bounded
  /\ 0 <= segment.start /\ segment.start < segment.end /\ segment.end <= Horizon

ParseChannel(c) ==
  /\ c.kind \in ChannelKinds
  /\ IF c.kind = "BODY_QUATERNION"
     THEN c.component = NoComponent /\ c.scale = "null"
     ELSE c.scale = "positive"
  /\ c.kind \in {"JOINT_POSITION", "JOINT_VELOCITY"} => c.component = NoComponent
  /\ c.kind = "BODY_POSITION" => c.component \in 0..2
  /\ c.kind = "SENSOR" => c.component # NoComponent

ParseContactPair(p) ==
  p.geom_a # p.geom_b /\ p.force_scale = "positive" /\ p.impulse_scale = "positive"

FixedPhysicalContract(f) ==
  /\ f.control_dt = ControlDt /\ f.horizon = Horizon /\ f.step_dts = StepDts
  /\ f.frozen_tolerances

(* Segments cover the horizon one after the other, on the control grid and on   *)
(* every simulation grid, and command the same actuators.                       *)
ControlGrid(f) ==
  LET c == f.controls
      boundaries == {s.start : s \in Elements(c)} \union {s.end : s \in Elements(c)}
  IN /\ Divides(f.horizon, f.control_dt)
     /\ \A dt \in Elements(f.step_dts) : Divides(f.control_dt, dt) /\ Divides(f.horizon, dt)
     /\ c # <<>>
     /\ c[1].start = 0 /\ c[Len(c)].end = f.horizon
     /\ \A i \in 2..Len(c) : c[i-1].end = c[i].start
     /\ \A b \in boundaries : \A dt \in Elements(f.step_dts) \union {f.control_dt} : Divides(b, dt)
     /\ \A s, t \in Elements(c) : s.width = t.width

ChannelUniqueness(f) ==
  /\ AllDifferent(f.channels, LAMBDA c : c.channel_id)
  /\ AllDifferent(f.contact_pairs, LAMBDA p : p.channel_id)
  /\ \A c \in Elements(f.channels), p \in Elements(f.contact_pairs) : c.channel_id \notin Derived(p)
  /\ AllDifferent(f.contact_pairs, Geoms)

ParseFixture(f) ==
  /\ f.campaign_role \in Roles
  /\ f.campaign_role = "MIGRATION_SUBJECT" => f.baseline_fixture_id = f.fixture_id
  /\ f.campaign_role = "CONTROLLED_MUTATION" => f.baseline_fixture_id # f.fixture_id
  /\ f.confined_path
  /\ \A v \in {f.initial_qpos, f.initial_qvel} : v.width > 0 /\ v.bounded
  /\ \A s \in Elements(f.controls) : ParseControl(s)
  /\ \A c \in Elements(f.channels) : ParseChannel(c)
  /\ \A p \in Elements(f.contact_pairs) : ParseContactPair(p)
  /\ FixedPhysicalContract(f) /\ ControlGrid(f) /\ ChannelUniqueness(f)

(* The worker parses every fixture of the manifest and selects one. *)
LoadManifest(manifest, id) ==
  /\ manifest.supported
  /\ Len(manifest.fixtures) \in 1..64
  /\ \A f \in Elements(manifest.fixtures) : ParseFixture(f)
  /\ AllDifferent(manifest.fixtures, LAMBDA f : f.fixture_id)
  /\ \E f \in Elements(manifest.fixtures) : f.fixture_id = id

Fixture(manifest, id) == CHOOSE f \in Elements(manifest.fixtures) : f.fixture_id = id

--------------------------------------------------------------------------------
(* The referee. *)

SelectManifestFixture(manifest, id) ==
  /\ Len(manifest.fixtures) \in 1..64
  /\ AllDifferent(manifest.fixtures, LAMBDA f : f.fixture_id)
  /\ \E f \in Elements(manifest.fixtures) : f.fixture_id = id

ValidateManifestControl(segment) ==
  /\ segment.width # 0 /\ segment.bounded
  /\ segment.start >= 0 /\ segment.start < segment.end /\ segment.end <= Horizon

ValidateManifestControlGrid(f) ==
  LET c == f.controls
      onEveryGrid(time) == \A dt \in Elements(f.step_dts) : Divides(time, dt)
  IN /\ Divides(f.horizon, f.control_dt) /\ onEveryGrid(f.control_dt) /\ onEveryGrid(f.horizon)
     /\ Len(c) > 0
     /\ c[1].start = 0 /\ c[Len(c)].end = f.horizon
     /\ \A i \in 1..Len(c) :
          /\ i > 1 => c[i-1].end = c[i].start
          /\ Divides(c[i].start, f.control_dt) /\ Divides(c[i].end, f.control_dt)
          /\ onEveryGrid(c[i].start) /\ onEveryGrid(c[i].end)
     /\ Cardinality({s.width : s \in Elements(c)}) = 1

ValidateManifestChannel(c) ==
  /\ c.kind \in ChannelKinds
  /\ CASE c.kind = "BODY_QUATERNION" -> c.component = NoComponent /\ c.scale = "null"
       [] c.kind \in {"JOINT_POSITION", "JOINT_VELOCITY"} -> c.scale = "positive" /\ c.component = NoComponent
       [] c.kind = "BODY_POSITION" -> c.scale = "positive" /\ c.component \in {0, 1, 2}
       [] c.kind = "SENSOR" -> c.scale = "positive" /\ c.component # NoComponent

ValidateManifestContactPair(p) ==
  Cardinality(Geoms(p)) = 2 /\ p.force_scale = "positive" /\ p.impulse_scale = "positive"

ProjectedIdsDiffer(f) ==
  /\ AllDifferent(f.channels, LAMBDA c : c.channel_id)
  /\ AllDifferent(f.contact_pairs, LAMBDA p : p.channel_id)
  /\ {c.channel_id : c \in Elements(f.channels)}
       \intersect UNION {Derived(p) : p \in Elements(f.contact_pairs)} = {}
  /\ AllDifferent(f.contact_pairs, Geoms)

(* "Mirror the worker's frozen selected-fixture and physical campaign contract." *)
ValidateFixtureContract(f) ==
  /\ f.campaign_role \in Roles
  /\ (f.campaign_role = "MIGRATION_SUBJECT") = (f.baseline_fixture_id = f.fixture_id)
  /\ f.confined_path
  /\ f.initial_qpos.width > 0 /\ f.initial_qpos.bounded
  /\ f.initial_qvel.width > 0 /\ f.initial_qvel.bounded
  /\ f.control_dt = ControlDt /\ f.horizon = Horizon /\ f.frozen_tolerances
  /\ f.step_dts = StepDts
  /\ \A s \in Elements(f.controls) : ValidateManifestControl(s)
  /\ ValidateManifestControlGrid(f)
  /\ \A c \in Elements(f.channels) : ValidateManifestChannel(c)
  /\ \A p \in Elements(f.contact_pairs) : ValidateManifestContactPair(p)
  /\ ProjectedIdsDiffer(f)

--------------------------------------------------------------------------------
(* What both derive from a fixture: the workload, and the layout of a trace. *)

WorkloadIdentity(f) ==
  [initial_state |-> <<f.initial_qpos, f.initial_qvel>>,
   action_program |-> <<f.control_dt, f.horizon, f.controls>>]

SourceIdentity(f, raw) == [entrypoint |-> f.xml_path, member |-> raw]

Quaternion(c) == c.kind = "BODY_QUATERNION"

BaseDescriptor(c) ==
  [channel_id |-> c.channel_id, kind |-> c.kind, object |-> c.object_name, component |-> c.component,
   semantic_type |-> IF Quaternion(c) THEN "UNIT_QUATERNION_WXYZ" ELSE "CONTINUOUS_SCALAR",
   scale |-> c.scale, tolerance |-> IF Quaternion(c) THEN "so3" ELSE "continuous",
   width |-> IF Quaternion(c) THEN 4 ELSE 1]

ContactDescriptor(p, suffix) ==
  [channel_id |-> <<p.channel_id, suffix>>,
   kind |-> CASE suffix = "occupancy" -> "CONTACT_OCCUPANCY"
              [] suffix = "normal_force" -> "CONTACT_NORMAL_FORCE"
              [] suffix = "normal_impulse" -> "CONTACT_NORMAL_IMPULSE",
   object |-> p.channel_id, component |-> NoComponent,
   semantic_type |-> IF suffix = "occupancy" THEN "BOOLEAN_OCCUPANCY" ELSE "CONTINUOUS_SCALAR",
   scale |-> CASE suffix = "occupancy" -> "null"
               [] suffix = "normal_force" -> p.force_scale
               [] suffix = "normal_impulse" -> p.impulse_scale,
   tolerance |-> IF suffix = "occupancy" THEN "null" ELSE "continuous",
   width |-> 1]

(* The worker's channels, sorted by their IDs: their order says nothing more.   *)
Descriptors(f) ==
  {BaseDescriptor(c) : c \in Elements(f.channels)}
    \union {ContactDescriptor(p, suffix) : p \in Elements(f.contact_pairs), suffix \in Suffixes}

(* The referee takes scale and tolerance of an occupancy channel from nowhere,   *)
(* and those of the others from the declaration.                                *)
ManifestLayout(f) ==
  {[BaseDescriptor(c) EXCEPT !.scale = IF Quaternion(c) THEN "null" ELSE c.scale] : c \in Elements(f.channels)}
    \union UNION {{ContactDescriptor(p, "occupancy"), ContactDescriptor(p, "normal_force"),
                   ContactDescriptor(p, "normal_impulse")} : p \in Elements(f.contact_pairs)}

(* One descriptor on its own, whatever the manifest says. *)
AdmitChannelDescriptor(d) ==
  CASE d.kind = "BODY_QUATERNION" ->
         d.semantic_type = "UNIT_QUATERNION_WXYZ" /\ d.width = 4 /\ d.scale = "null" /\ d.tolerance # "null"
    [] d.kind = "CONTACT_OCCUPANCY" ->
         d.semantic_type = "BOOLEAN_OCCUPANCY" /\ d.width = 1 /\ d.scale = "null" /\ d.tolerance = "null"
    [] OTHER ->
         /\ d.kind \in (ChannelKinds \ {"BODY_QUATERNION"}) \union {"CONTACT_NORMAL_FORCE", "CONTACT_NORMAL_IMPULSE"}
         /\ d.semantic_type = "CONTINUOUS_SCALAR" /\ d.width = 1
         /\ d.scale = "positive" /\ d.tolerance # "null"

================================================================================
