---------------------------- MODULE MCEvidenceCell ----------------------------
(* One fixture with a joint, a body, a sensor and a contact pair; deviations of  *)
(* it one at a time; a model that compiles and three that a program refuses.      *)
EXTENDS EvidenceCell

MCStepDts == <<2, 1>>

Subject == "subject"
Vector(n) == [width |-> n, bounded |-> TRUE]
Segment(from, to) == [start |-> from, end |-> to, width |-> 1, bounded |-> TRUE]
Channel(id, kind, component, scale, object) ==
  [channel_id |-> id, kind |-> kind, component |-> component, scale |-> scale, object_name |-> object]

Base ==
  [fixture_id |-> Subject, campaign_role |-> "MIGRATION_SUBJECT", baseline_fixture_id |-> Subject,
   xml_path |-> "fixture", confined_path |-> TRUE, initial_qpos |-> Vector(2), initial_qvel |-> Vector(1),
   control_dt |-> ControlDt, horizon |-> Horizon, step_dts |-> StepDts, frozen_tolerances |-> TRUE,
   controls |-> <<Segment(0, ControlDt), Segment(ControlDt, Horizon)>>,
   channels |-> <<Channel(<<"angle", "">>, "JOINT_POSITION", NoComponent, "positive", "hinge"),
                  Channel(<<"turn", "">>, "BODY_QUATERNION", NoComponent, "null", "body"),
                  Channel(<<"height", "">>, "BODY_POSITION", 2, "positive", "body"),
                  Channel(<<"touch", "">>, "SENSOR", 0, "positive", "sensor")>>,
   contact_pairs |-> <<[channel_id |-> "foot", geom_a |-> "left", geom_b |-> "right",
                        force_scale |-> "positive", impulse_scale |-> "positive"]>>]

Campaign(fixtures) == [supported |-> TRUE, fixtures |-> fixtures]
One(f) == Campaign(<<f>>)
Another == [Base EXCEPT !.fixture_id = "another", !.campaign_role = "CONTROLLED_MUTATION"]

Deviations ==
  {[Base EXCEPT !.campaign_role = "CONTROLLED_MUTATION"], [Base EXCEPT !.confined_path = FALSE],
   [Base EXCEPT !.initial_qpos.bounded = FALSE], [Base EXCEPT !.initial_qvel = Vector(3)],
   [Base EXCEPT !.horizon = Horizon + 1], [Base EXCEPT !.step_dts = <<1>>], [Base EXCEPT !.frozen_tolerances = FALSE],
   [Base EXCEPT !.controls = <<Segment(0, Horizon)>>], [Base EXCEPT !.controls[2].start = 1],
   [Base EXCEPT !.controls[2].width = 2], [Base EXCEPT !.controls[1].end = ControlDt + 1],
   [Base EXCEPT !.channels[1].component = 0], [Base EXCEPT !.channels[2].scale = "positive"],
   [Base EXCEPT !.channels[3].component = 3], [Base EXCEPT !.channels[4].component = NoComponent],
   [Base EXCEPT !.channels[4].component = 1], [Base EXCEPT !.channels[1].object_name = "ball"],
   [Base EXCEPT !.channels[1].channel_id = <<"foot", "normal_force">>],
   [Base EXCEPT !.channels[1].channel_id = <<"turn", "">>],
   [Base EXCEPT !.contact_pairs[1].geom_b = "left"], [Base EXCEPT !.contact_pairs[1].geom_b = "hand"],
   [Base EXCEPT !.contact_pairs[1].impulse_scale = "null"]}

MCManifests ==
  {One(f) : f \in Deviations} \union
  {One(Base), Campaign(<<Base, Another>>), Campaign(<<Base, Base>>),
   Campaign(<<Base, [Another EXCEPT !.confined_path = FALSE]>>), [One(Base) EXCEPT !.supported = FALSE]}

MCDrafts == {One([Base EXCEPT !.controls = <<Segment(0, Horizon)>>]), One([Base EXCEPT !.xml_path = "elsewhere"])}

Model ==
  [name |-> "model", self_contained |-> TRUE, compiles |-> TRUE, nq |-> 2, nv |-> 1, nu |-> 1, nsensordata |-> 1,
   admits_controls |-> TRUE, scalar_joints |-> {"hinge"}, bodies |-> {"body"}, sensors |-> [sensor |-> 1],
   geoms |-> {"left", "right"}]
MCXmls ==
  <<Model, [Model EXCEPT !.name = "heavier"], [Model EXCEPT !.self_contained = FALSE],
    [Model EXCEPT !.admits_controls = FALSE], [Model EXCEPT !.nsensordata = 2]>>

MCOtherFiles ==
  [name \in {"fixture.xml", "model.mjb", "trace.npz", "result.json"} |->
     CASE name = "fixture.xml" -> {[Model EXCEPT !.name = "heavier"], Absent}
       [] name = "model.mjb" -> {[model |-> [Model EXCEPT !.name = "heavier"], timestep |-> 1]}
       [] name = "trace.npz" -> {[times |-> <<0, ControlDt, Horizon>>,
                                  rows |-> [i \in 1..3 |-> [occupancy |-> 0, normal_force |-> 0, normal_impulse |-> 0]]]}
       [] name = "result.json" -> {Partial}]

================================================================================
