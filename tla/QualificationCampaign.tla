---------------------------- MODULE QualificationCampaign ----------------------------
(* The comparisons of one campaign: the receipt of a comparison (compare/), the        *)
(* ledger that retains one record for each (_evidence.py), the checks that make a      *)
(* ledger one campaign (_campaign.py) and the document built from it (_receipt.py,     *)
(* _run.py). The digest of a value is the value. What a source holds is                *)
(* [of, semantic, layout]: two files with the same meaning may be written differently. *)
EXTENDS QualificationDecision

Meaning(content) == [of |-> content.of, semantic |-> content.semantic]

(* What one comparison reads, by the paths of its configuration; "world" maps a       *)
(* canonical path to what is there, and holds the tool and the environment.           *)
Read(world, comparison) ==
  LET At(path) == world.at[Canonical(path)]
      Closure(role) == [entrypoint |-> role.entrypoint, members |-> At(role.model_root)]
  IN [tool |-> world.tool, environment |-> world.environment,
      baseline |-> Closure(comparison.baseline), candidate |-> Closure(comparison.candidate),
      initial_state |-> At(comparison.initial_state), actions |-> At(comparison.actions),
      aliases |-> IF comparison.aliases = <<>> THEN {} ELSE {At(comparison.aliases)}]

ComparisonContract(comparison, read) ==
  [baseline |-> read.baseline, candidate |-> read.candidate,
   initial_state |-> Meaning(read.initial_state), actions |-> Meaning(read.actions),
   aliases |-> {Meaning(content) : content \in read.aliases},
   baseline_step_dt |-> comparison.baseline.declared_step_dt,
   candidate_step_dt |-> comparison.candidate.declared_step_dt,
   control_dt |-> comparison.control_dt, repeats |-> comparison.repeats,
   monitored |-> comparison.joint_tolerances]

ComparisonReceipt(comparison, read, status) ==
  [configuration |-> comparison, inputs |-> read, status |-> status,
   contract |-> ComparisonContract(comparison, read)]

(* validate_receipt: the contract restates the inputs.                                *)
ReceiptValid(receipt) ==
  /\ receipt.contract.baseline = receipt.inputs.baseline
  /\ receipt.contract.candidate = receipt.inputs.candidate
  /\ receipt.contract.initial_state = Meaning(receipt.inputs.initial_state)
  /\ receipt.contract.actions = Meaning(receipt.inputs.actions)
  /\ receipt.contract.aliases = {Meaning(content) : content \in receipt.inputs.aliases}

---------------------------------------------------------------------------------
(* The ledger: one record for each cell, in the order of Keys.                        *)

Locator(key, name) == <<key, name>>
Passes(status) == status = "NO_MATERIAL_DIFFERENCE"
ExclusionReason(status) == IF Passes(status) THEN <<>> ELSE <<"excluded", status>>

(* CellRecord.to_primitive: only a control says whether its workload is eligible.      *)
CellRecord(config, key, comparison, receipt) ==
  [key |-> key, workload_id |-> config.workloads[key[1]].workload_id,
   probe_id |-> IF IsControl(key) THEN 0 ELSE config.probe_groups[key[2]].probe_id,
   magnitude |-> IF IsControl(key) THEN 0 ELSE config.probe_groups[key[2]].variants[key[3]].magnitude,
   status |-> receipt.status, outcome |-> DetectionOutcome(receipt.status),
   config_locator |-> Locator(key, "config"), config |-> comparison,
   receipt_locator |-> Locator(key, "receipt"), receipt |-> receipt,
   eligibility |-> IF IsControl(key)
                   THEN {[eligible |-> Passes(receipt.status), reason |-> ExclusionReason(receipt.status)]}
                   ELSE {}]

(* The members of a sequence at some of its positions, in its order.                   *)
Those(s, positions) ==
  LET kept[i \in 0..Len(s)] ==
        IF i = 0 THEN <<>>
        ELSE IF i \in positions THEN Append(kept[i - 1], s[i]) ELSE kept[i - 1]
  IN kept[Len(s)]

Controls(ledger) == Those(ledger, {i \in DOMAIN ledger : IsControl(ledger[i].key)})
Probes(ledger) == Those(ledger, {i \in DOMAIN ledger : ~IsControl(ledger[i].key)})
Eligible(ledger) == Those(ledger, {i \in DOMAIN ledger : IsControl(ledger[i].key) /\ Passes(ledger[i].status)})
Excluded(ledger) == Those(ledger, {i \in DOMAIN ledger : IsControl(ledger[i].key) /\ ~Passes(ledger[i].status)})
WorkloadIds(records) == [i \in DOMAIN records |-> records[i].workload_id]
EligibleIds(ledger) == WorkloadIds(Eligible(ledger))
ExcludedIds(ledger) == WorkloadIds(Excluded(ledger))
Reasons(ledger) ==
  [id \in ToSet(ExcludedIds(ledger)) |->
    ExclusionReason((CHOOSE r \in ToSet(Controls(ledger)) : r.workload_id = id).status)]
OutcomeMap(ledger) ==
  [cell \in {<<r.workload_id, r.probe_id, r.key[3]>> : r \in ToSet(Probes(ledger))} |->
    (CHOOSE r \in ToSet(Probes(ledger)) : <<r.workload_id, r.probe_id, r.key[3]>> = cell).outcome]
Counts(controls, probes) ==
  [zero_change |-> Len(controls), probe |-> Len(probes), total |-> Len(controls) + Len(probes),
   completed |-> Cardinality({i \in DOMAIN probes : probes[i].outcome # "UNRESOLVED"}),
   unresolved |-> Cardinality({i \in DOMAIN probes : probes[i].outcome = "UNRESOLVED"}),
   failed |-> 0]

---------------------------------------------------------------------------------
(* validate_campaign.                                                               *)

RequireSingle(values) == Cardinality(values) = 1

ReceiptsOf(ledger) == {r.receipt : r \in ToSet(ledger)}
Inputs(ledger) == {receipt.inputs : receipt \in ReceiptsOf(ledger)}

(* As if the environment were not part of the identity of a campaign.                  *)
CampaignIsSingleMutant(ledger) ==
  /\ RequireSingle({inputs.tool : inputs \in Inputs(ledger)})
  /\ RequireSingle({inputs.baseline : inputs \in Inputs(ledger)})
  /\ RequireSingle({inputs.aliases : inputs \in Inputs(ledger)})

CampaignIsSingle(ledger) ==
  /\ RequireSingle({inputs.tool : inputs \in Inputs(ledger)})
  /\ RequireSingle({inputs.environment : inputs \in Inputs(ledger)})
  /\ RequireSingle({inputs.baseline : inputs \in Inputs(ledger)})
  /\ RequireSingle({inputs.aliases : inputs \in Inputs(ledger)})

CampaignBaseline(ledger) == ledger[1].receipt.inputs.baseline

ControlsAreZeroChange(ledger) ==
  \A r \in ToSet(Controls(ledger)) : r.receipt.inputs.candidate = CampaignBaseline(ledger)

OfRung(ledger, g, v) == {r \in ToSet(Probes(ledger)) : r.key[2] = g /\ r.key[3] = v}

ValidateProbeClosures(config, ledger) ==
  \A g \in DOMAIN config.probe_groups : \A v \in DOMAIN config.probe_groups[g].variants :
    /\ RequireSingle({r.receipt.inputs.candidate : r \in OfRung(ledger, g, v)})
    /\ \A r \in OfRung(ledger, g, v) :
         r.receipt.inputs.candidate.entrypoint = Candidate(config, r.key).entrypoint

ValidateWorkloadArtifacts(config, ledger) ==
  \A r \in ToSet(ledger) :
    /\ r.workload_id = config.workloads[r.key[1]].workload_id
    /\ \E control \in ToSet(Controls(ledger)) :
         /\ control.key[1] = r.key[1]
         /\ r.receipt.inputs.initial_state = control.receipt.inputs.initial_state
         /\ r.receipt.inputs.actions = control.receipt.inputs.actions

ValidateDeclaredTimesteps(config, ledger) ==
  \A r \in ToSet(ledger) :
    /\ r.receipt.contract.baseline_step_dt = config.baseline.declared_step_dt
    /\ r.receipt.contract.candidate_step_dt = Candidate(config, r.key).declared_step_dt
    /\ r.receipt.contract.control_dt = config.workloads[r.key[1]].control_dt

ContractAdmitted(config, receipt) ==
  /\ receipt.inputs.baseline.entrypoint = config.baseline.entrypoint
  /\ receipt.contract.repeats = config.repeats
  /\ receipt.contract.monitored = config.joint_tolerances
  /\ (receipt.inputs.aliases # {}) <=> (config.aliases # <<>>)
ValidateCampaignContract(config, ledger) ==
  \A receipt \in ReceiptsOf(ledger) : ContractAdmitted(config, receipt)

(* One contract per workload, but for the candidate's closure and step.               *)
ValidateContracts(config, ledger) ==
  \A w \in DOMAIN config.workloads :
    RequireSingle({[r.receipt.contract EXCEPT !.candidate = {}, !.candidate_step_dt = {}] :
                     r \in {s \in ToSet(ledger) : s.workload_id = config.workloads[w].workload_id}})

LadderClosure(ledger, g, v) ==
  (CHOOSE r \in ToSet(Probes(ledger)) :
     r.key = <<Min({s.key[1] : s \in OfRung(ledger, g, v)}), g, v>>).receipt.inputs.candidate
ValidateLadderClosures(config, ledger) ==
  \A g \in DOMAIN config.probe_groups : \A v \in DOMAIN config.probe_groups[g].variants :
    /\ LadderClosure(ledger, g, v) # CampaignBaseline(ledger)
    /\ \A u \in 1..(v - 1) : LadderClosure(ledger, g, u) # LadderClosure(ledger, g, v)

ValidateCampaign(config, ledger) ==
  /\ CampaignIsSingle(ledger)
  /\ ControlsAreZeroChange(ledger)
  /\ ValidateProbeClosures(config, ledger)
  /\ ValidateWorkloadArtifacts(config, ledger)
  /\ ValidateDeclaredTimesteps(config, ledger)
  /\ ValidateCampaignContract(config, ledger)
  /\ ValidateContracts(config, ledger)
  /\ ValidateLadderClosures(config, ledger)

---------------------------------------------------------------------------------
(* The document.                                                                    *)

CampaignIdentity(ledger) ==
  LET inputs == ledger[1].receipt.inputs
  IN [tool |-> inputs.tool, environment |-> inputs.environment, baseline |-> inputs.baseline,
      aliases |-> inputs.aliases]

HarvestProbeClosures(config, ledger) ==
  [g \in DOMAIN config.probe_groups |->
    [probe_id |-> config.probe_groups[g].probe_id,
     rungs |-> [v \in DOMAIN config.probe_groups[g].variants |->
       [variant_index |-> v, magnitude |-> config.probe_groups[g].variants[v].magnitude,
        closure |-> LadderClosure(ledger, g, v)]]]]
HarvestWorkloads(config, ledger) ==
  LET controls == Controls(ledger)
  IN [i \in DOMAIN controls |->
       [workload_id |-> controls[i].workload_id,
        initial_state |-> controls[i].receipt.inputs.initial_state,
        actions |-> controls[i].receipt.inputs.actions,
        aliases |-> controls[i].receipt.inputs.aliases,
        control_dt |-> config.workloads[controls[i].key[1]].control_dt]]

(* build_qualification_receipt, without its own digest.                               *)
Unhashed(config, raw, ledger) ==
  LET decision == Decide(config, OutcomeMap(ledger), EligibleIds(ledger))
  IN [status |-> decision.status, completed_exit_code |-> QualificationExitCode(decision.status),
      configuration |-> config, configuration_raw |-> raw,
      campaign_identity |-> CampaignIdentity(ledger), baseline_model_closure |-> CampaignBaseline(ledger),
      probe_model_closures |-> HarvestProbeClosures(config, ledger),
      workload_artifact_identities |-> HarvestWorkloads(config, ledger),
      zero_change_controls |-> Controls(ledger), probe_cells |-> Probes(ledger),
      eligible_workload_ids |-> EligibleIds(ledger), excluded_workload_ids |-> ExcludedIds(ledger),
      selected_workload_ids |-> decision.selected.workload_ids, selection |-> decision.selected,
      subset_ranking |-> decision.ranking, subsets_evaluated |-> decision.subsets_evaluated,
      planned_comparisons |-> PlannedComparisons(config),
      execution_counts |-> Counts(Controls(ledger), Probes(ledger)),
      witnesses |-> CollectWitnesses(config, decision.selected, decision.status, OutcomeMap(ledger),
                                     ExcludedIds(ledger), Reasons(ledger))]

Hashed(body) == [body |-> body, receipt_sha256 |-> body]
BuildQualificationReceipt(config, raw, ledger) == Hashed(Unhashed(config, raw, ledger))
=============================================================================
