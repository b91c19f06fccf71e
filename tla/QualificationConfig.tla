---------------------------- MODULE QualificationConfig ----------------------------
(* The configuration of a workload qualification (_config.py, _paths.py and        *)
(* _configuration_schemas.py), and the comparison it generates for one cell        *)
(* (_evidence.py). Names and magnitudes are numbers, whose order is the order of    *)
(* the source; a path is the sequence of its components; the user's labels of a     *)
(* probe group are one value.                                                    *)
EXTENDS Naturals, Sequences, FiniteSets, SequencesExt

CONSTANTS
  Budget,        \* REQUIRED_BUDGET, which is also MIN_WORKLOADS
  MaxWorkloads,  \* MAX_WORKLOADS
  MinVariants,   \* MIN_VARIANTS
  MaxVariants    \* MAX_VARIANTS

ASSUME BudgetAssumption == Budget \in Nat \ {0}

(* What the strict schemas of a configuration admit (the from_primitive methods): every   *)
(* member is there, and has its type.                                             *)
Paths == Seq(STRING)
Roles == [model_root : Paths, entrypoint : Paths, declared_step_dt : Nat]
Variants == [candidate : Roles, magnitude : Nat]
Groups == [probe_id : Nat, direction : STRING, required_detection_magnitude : Nat, variants : Seq(Variants)]
Workloads == [workload_id : Nat, initial_state : Paths, actions : Paths, control_dt : Nat]
Configurations ==
  [baseline : Roles, probe_groups : Seq(Groups), workloads : Seq(Workloads), repeats : Nat,
   budget : Nat, joint_tolerances : SUBSET STRING, aliases : Paths, output_dir : Paths]

RelativePosixPath(path) == path # <<>> /\ ".." \notin ToSet(path) /\ "" \notin ToSet(path)
ModelRole(role) ==
  RelativePosixPath(role.model_root) /\ RelativePosixPath(role.entrypoint) /\ role.declared_step_dt > 0

Ladder(group) ==
  /\ Len(group.variants) \in MinVariants..MaxVariants
  /\ \A v \in DOMAIN group.variants :
       ModelRole(group.variants[v].candidate) /\ group.variants[v].magnitude > 0
  /\ \A v, u \in DOMAIN group.variants : v < u =>
       /\ group.variants[v].magnitude < group.variants[u].magnitude
       /\ \/ group.variants[v].candidate.model_root # group.variants[u].candidate.model_root
          \/ group.variants[v].candidate.entrypoint # group.variants[u].candidate.entrypoint

ProbeGroup(group) ==
  /\ group.direction \in {"increase", "decrease"}
  /\ Ladder(group)
  /\ \E v \in DOMAIN group.variants :
       group.variants[v].magnitude = group.required_detection_magnitude

RequiredIndex(group) ==
  CHOOSE v \in DOMAIN group.variants :
    group.variants[v].magnitude = group.required_detection_magnitude

WorkloadCandidate(item) ==
  RelativePosixPath(item.initial_state) /\ RelativePosixPath(item.actions) /\ item.control_dt > 0

Bounded(doc) ==
  /\ doc.probe_groups # <<>>
  /\ Len(doc.workloads) \in Budget..MaxWorkloads
  /\ doc.repeats \in 2..5 /\ doc.budget = Budget
  /\ doc.joint_tolerances # {}

(* QualificationConfig.from_primitive.                                         *)
Admissible(doc) ==
  /\ doc \in Configurations
  /\ Bounded(doc)
  /\ ModelRole(doc.baseline)
  /\ \A g \in DOMAIN doc.probe_groups : ProbeGroup(doc.probe_groups[g])
  /\ \A w \in DOMAIN doc.workloads : WorkloadCandidate(doc.workloads[w])
  /\ IsInjective([g \in DOMAIN doc.probe_groups |-> doc.probe_groups[g].probe_id])
  /\ IsInjective([w \in DOMAIN doc.workloads |-> doc.workloads[w].workload_id])
  /\ doc.aliases = <<>> \/ RelativePosixPath(doc.aliases)
  /\ RelativePosixPath(doc.output_dir)

---------------------------------------------------------------------------------
(* Every cell of a campaign, in the order it runs: one control per workload, then  *)
(* every rung of every group for each workload. A control has no group: <<w, 0, 0>>. *)

ControlKeys(config) == [w \in DOMAIN config.workloads |-> <<w, 0, 0>>]
RungKeys(config, w) ==
  FlattenSeq([g \in DOMAIN config.probe_groups |->
    [v \in DOMAIN config.probe_groups[g].variants |-> <<w, g, v>>]])
ProbeKeys(config) == FlattenSeq([w \in DOMAIN config.workloads |-> RungKeys(config, w)])
Keys(config) == ControlKeys(config) \o ProbeKeys(config)

IsControl(key) == key[2] = 0
Candidate(config, key) ==
  IF IsControl(key) THEN config.baseline
  ELSE config.probe_groups[key[2]].variants[key[3]].candidate

(* Only a rung is counted for every workload, and a control once.                *)
PlannedComparisons(config) ==
  Len(config.workloads)
    + Len(config.workloads) * FoldSeq(LAMBDA g, n : n + Len(g.variants), 0, config.probe_groups)

Under(base, role) == [role EXCEPT !.model_root = base \o @]

(* comparison_primitive: absolute() joins, and keeps a ".." that is in the base.    *)
ComparisonPrimitive(config, base, key, root) ==
  LET workload == config.workloads[key[1]]
  IN [baseline |-> Under(base, config.baseline), candidate |-> Under(base, Candidate(config, key)),
      initial_state |-> base \o workload.initial_state, actions |-> base \o workload.actions,
      control_dt |-> workload.control_dt, repeats |-> config.repeats,
      joint_tolerances |-> config.joint_tolerances,
      aliases |-> IF config.aliases = <<>> THEN <<>> ELSE base \o config.aliases,
      output_dir |-> [root |-> root, cell |-> key]]

---------------------------------------------------------------------------------
(* preflight (_owned_output.py): the output is decided on its canonical path.      *)

Canonical(path) ==
  LET walked[i \in 0..Len(path)] ==
        IF i = 0 THEN <<>>
        ELSE IF path[i] = ".." THEN Front(walked[i - 1]) ELSE Append(walked[i - 1], path[i])
  IN walked[Len(path)]

ModelRoots(config) ==
  {config.baseline.model_root}
    \union {config.probe_groups[key[2]].variants[key[3]].candidate.model_root : key \in ToSet(ProbeKeys(config))}

Overlaps(output, root) == IsPrefix(root, output)

PreflightAccepts(config, base, roots, taken) ==
  LET output == Canonical(base \o config.output_dir)
  IN /\ \A root \in ModelRoots(config) :
          /\ root \in roots
          /\ ~Overlaps(output, Canonical(base \o root))
     /\ ~taken
=============================================================================
