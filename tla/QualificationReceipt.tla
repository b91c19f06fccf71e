---------------------------- MODULE QualificationReceipt ----------------------------
(* The reader of a published qualification: load_and_validate_workload_qualification_  *)
(* receipt, which recomputes what the document claims (_reconstruct.py, _aggregate.py)  *)
(* and binds it to the files retained beside it (_receipt.py). "disk" maps the          *)
(* locators that are there to what they hold.                                        *)
EXTENDS QualificationCampaign

Admitted == Locator(<<0, 0, 0>>, "config")

Records(doc) == doc.zero_change_controls \o doc.probe_cells

(* from_primitive: an array is an array, and a status one of the registry.              *)
IsArray(value) == value \in Seq(ToSet(value))
WellFormed(doc) ==
  /\ IsArray(doc.zero_change_controls) /\ IsArray(doc.probe_cells)
  /\ \A r \in ToSet(doc.zero_change_controls) \union ToSet(doc.probe_cells) : r.status \in Statuses

(* check_registry_invariants.                                                        *)
Locators(doc) ==
  [at \in (DOMAIN Records(doc)) \X {"config", "receipt"} |->
     IF at[2] = "config" THEN Records(doc)[at[1]].config_locator ELSE Records(doc)[at[1]].receipt_locator]
RegistryInvariants(doc) ==
  /\ IsInjective(doc.selected_workload_ids) /\ Len(doc.selected_workload_ids) = Budget
  /\ IsInjective(Locators(doc))

VerifySelfHash(document) == document.receipt_sha256 = document.body

---------------------------------------------------------------------------------
(* reconstruct: every derived claim, from the document's own cells.                    *)

KeysMatch(config, doc) ==
  /\ [i \in DOMAIN doc.zero_change_controls |->
        <<doc.zero_change_controls[i].key, doc.zero_change_controls[i].workload_id>>]
       = [w \in DOMAIN config.workloads |-> <<<<w, 0, 0>>, config.workloads[w].workload_id>>]
  /\ [i \in DOMAIN doc.probe_cells |-> doc.probe_cells[i].key] = ProbeKeys(config)

CellFollows(config, r) ==
  /\ r.probe_id = config.probe_groups[r.key[2]].probe_id
  /\ r.workload_id = config.workloads[r.key[1]].workload_id
  /\ r.magnitude = config.probe_groups[r.key[2]].variants[r.key[3]].magnitude
  /\ r.outcome = DetectionOutcome(r.status)
ControlFollows(r) ==
  /\ r.outcome = DetectionOutcome(r.status)
  /\ r.eligibility = {[eligible |-> Passes(r.status), reason |-> ExclusionReason(r.status)]}

ReconstructCounts(doc) == doc.execution_counts = Counts(doc.zero_change_controls, doc.probe_cells)

ReconstructSelection(config, doc, decision) ==
  /\ doc.subsets_evaluated = Cardinality(kSubset(config.budget, ToSet(doc.eligible_workload_ids)))
  /\ doc.selected_workload_ids = decision.selected.workload_ids
  /\ doc.selection = AdjudicateSubset(config, OutcomeMap(Records(doc)), ToSet(doc.selected_workload_ids))
  /\ doc.status = decision.status
  /\ doc.completed_exit_code = QualificationExitCode(doc.status)
  /\ doc.subset_ranking = decision.ranking

ReconstructWitnesses(config, doc, decision) ==
  doc.witnesses = CollectWitnesses(config, decision.selected, decision.status,
                    OutcomeMap(Records(doc)), ExcludedIds(Records(doc)), Reasons(Records(doc)))

Reconstruct(config, doc) ==
  /\ doc.planned_comparisons = PlannedComparisons(config)
  /\ KeysMatch(config, doc)
  /\ \A r \in ToSet(doc.probe_cells) : CellFollows(config, r)
  /\ \A r \in ToSet(doc.zero_change_controls) : ControlFollows(r)
  /\ doc.eligible_workload_ids = EligibleIds(Records(doc))
  /\ doc.excluded_workload_ids = ExcludedIds(Records(doc))
  /\ Len(doc.eligible_workload_ids) >= config.budget
  /\ ReconstructCounts(doc)
  /\ LET decision == Decide(config, OutcomeMap(Records(doc)), doc.eligible_workload_ids)
     IN ReconstructSelection(config, doc, decision) /\ ReconstructWitnesses(config, doc, decision)

ValidateQualificationReceipt(document) ==
  /\ WellFormed(document.body)
  /\ RegistryInvariants(document.body)
  /\ VerifySelfHash(document)
  /\ Admissible(document.body.configuration)
  /\ Reconstruct(document.body.configuration, document.body)

---------------------------------------------------------------------------------
(* The linked evidence.                                                              *)

LinkedConfiguration(doc, disk) ==
  /\ Admitted \in DOMAIN disk
  /\ disk[Admitted] = doc.configuration_raw
  /\ Admissible(disk[Admitted].doc)
  /\ disk[Admitted].doc = doc.configuration

(* As if the status the document records were not compared with the receipt's.         *)
LinkedCellMutant(r, disk) ==
  /\ {r.config_locator, r.receipt_locator} \subseteq DOMAIN disk
  /\ disk[r.config_locator] = r.config
  /\ disk[r.receipt_locator] = r.receipt
  /\ ReceiptValid(disk[r.receipt_locator])
  /\ disk[r.receipt_locator].configuration = r.config

LinkedCell(r, disk) ==
  /\ {r.config_locator, r.receipt_locator} \subseteq DOMAIN disk
  /\ disk[r.config_locator] = r.config
  /\ disk[r.receipt_locator] = r.receipt
  /\ ReceiptValid(disk[r.receipt_locator])
  /\ disk[r.receipt_locator].status = r.status
  /\ disk[r.receipt_locator].configuration = r.config

(* The base of a generated configuration, or no base: a path with ".." is refused.      *)
DeclaredCampaignBase(observed, declared) ==
  IF observed \in Paths /\ ".." \notin ToSet(observed) /\ IsSuffix(declared, observed)
  THEN {SubSeq(observed, 1, Len(observed) - Len(declared))} ELSE {}

(* As if the evidence had to be where the campaign wrote it.                           *)
RecordedOutputRootMutant(generated, r, place) ==
  IF ".." \notin ToSet(generated.output_dir.root) /\ generated.output_dir.cell = r.receipt_locator[1]
     /\ generated.output_dir.root = place
  THEN {generated.output_dir.root} ELSE {}

(* The root a generated configuration records is history: the tree may have moved.      *)
RecordedOutputRoot(generated, r, place) ==
  IF ".." \notin ToSet(generated.output_dir.root) /\ generated.output_dir.cell = r.receipt_locator[1]
  THEN {generated.output_dir.root} ELSE {}

(* Every member of every generated configuration is the one its cell implies.          *)
BindGeneratedConfigurations(config, doc, disk, place) ==
  LET At(r) == disk[r.config_locator]
      Bases(r) == DeclaredCampaignBase(At(r).baseline.model_root, config.baseline.model_root)
      bases == UNION {Bases(r) : r \in ToSet(Records(doc))}
      roots == UNION {RecordedOutputRoot(At(r), r, place) : r \in ToSet(Records(doc))}
  IN /\ \A r \in ToSet(Records(doc)) : Bases(r) # {} /\ RecordedOutputRoot(At(r), r, place) # {}
     /\ RequireSingle(bases) /\ RequireSingle(roots)
     /\ \A r \in ToSet(Records(doc)), base \in bases, root \in roots :
          At(r) = [ComparisonPrimitive(config, base, r.key, root)
                     EXCEPT !.output_dir = [root |-> root, cell |-> r.receipt_locator[1]]]

BindCampaignIdentity(doc, retained) ==
  \A r \in ToSet(Records(doc)) :
    LET inputs == retained[r].inputs IN
    /\ inputs.baseline = doc.campaign_identity.baseline
    /\ inputs.tool = doc.campaign_identity.tool
    /\ inputs.environment = doc.campaign_identity.environment
    /\ inputs.aliases = doc.campaign_identity.aliases
    /\ IsControl(r.key) => inputs.candidate = doc.campaign_identity.baseline

BindBaselineClosure(config, doc, retained) ==
  /\ doc.baseline_model_closure.entrypoint = config.baseline.entrypoint
  /\ \A r \in ToSet(Records(doc)) : retained[r].inputs.baseline = doc.baseline_model_closure

(* _refuse_reused_reported_closures.                                                  *)
ReportedClosuresDistinct(doc) ==
  \A group \in ToSet(doc.probe_model_closures) :
    /\ \E r \in ToSet(doc.probe_cells) : r.probe_id = group.probe_id
    /\ \A v \in DOMAIN group.rungs : group.rungs[v].closure # doc.campaign_identity.baseline
    /\ IsInjective([v \in DOMAIN group.rungs |-> group.rungs[v].closure])

BindProbeClosures(config, doc, retained) ==
  /\ ReportedClosuresDistinct(doc)
  /\ \A r \in ToSet(doc.probe_cells) :
       /\ \E group \in ToSet(doc.probe_model_closures) : group.probe_id = r.probe_id /\
            \E rung \in ToSet(group.rungs) :
              rung.variant_index = r.key[3] /\ rung.closure = retained[r].inputs.candidate
       /\ retained[r].inputs.candidate.entrypoint = Candidate(config, r.key).entrypoint

BindWorkloadIdentities(config, doc, retained) ==
  \A r \in ToSet(Records(doc)) :
    LET inputs == retained[r].inputs
        control_dt == config.workloads[r.key[1]].control_dt
    IN /\ \E declared \in ToSet(doc.workload_artifact_identities) :
            /\ declared.workload_id = r.workload_id
            /\ declared.initial_state = inputs.initial_state /\ declared.actions = inputs.actions
            /\ declared.aliases = inputs.aliases /\ declared.control_dt = control_dt
       /\ retained[r].contract.control_dt = control_dt

BindCampaignContract(config, doc, retained) ==
  \A r \in ToSet(Records(doc)) :
    LET receipt == retained[r] IN
    /\ receipt.contract.baseline_step_dt = config.baseline.declared_step_dt
    /\ IsControl(r.key) => receipt.inputs.candidate = receipt.inputs.baseline
    /\ receipt.contract.candidate_step_dt = Candidate(config, r.key).declared_step_dt
    /\ receipt.contract.repeats = config.repeats
    /\ receipt.contract.monitored = config.joint_tolerances
    /\ (receipt.inputs.aliases # {}) <=> (config.aliases # <<>>)

ValidateLinkedMembers(doc, disk, place) ==
  LET retained == [r \in ToSet(Records(doc)) |-> disk[r.receipt_locator]]
      config == doc.configuration
  IN /\ LinkedConfiguration(doc, disk)
     /\ \A r \in ToSet(Records(doc)) : LinkedCell(r, disk)
     /\ BindGeneratedConfigurations(config, doc, disk, place)
     /\ BindCampaignIdentity(doc, retained)
     /\ BindBaselineClosure(config, doc, retained)
     /\ BindProbeClosures(config, doc, retained)
     /\ BindWorkloadIdentities(config, doc, retained)
     /\ BindCampaignContract(config, doc, retained)

LoadAndValidate(document, disk, place) ==
  /\ ValidateQualificationReceipt(document)
  /\ ValidateLinkedMembers(document.body, disk, place)
=============================================================================
