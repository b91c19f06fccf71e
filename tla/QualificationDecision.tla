---------------------------- MODULE QualificationDecision ----------------------------
(* The decision of a workload qualification: workload_qualification/_decision.py     *)
(* and _witness.py. A matrix maps <<workload id, probe id, rung>> to the outcome of   *)
(* one comparison. Rungs count from one, and no floor is 0; a witness is a set of     *)
(* at most one.                                                                  *)
EXTENDS QualificationConfig, Integers, FiniteSetsExt

(* _OUTCOMES: the four statuses a comparison completes with.                       *)
Statuses == {"NO_MATERIAL_DIFFERENCE", "MATERIAL_BEHAVIOR_CHANGE", "COVERAGE_INSUFFICIENT",
             "NONDETERMINISTIC_REPLAY"}
DetectionOutcome(status) ==
  CASE status = "NO_MATERIAL_DIFFERENCE" -> "NOT_DETECTED"
    [] status = "MATERIAL_BEHAVIOR_CHANGE" -> "DETECTED"
    [] OTHER -> "UNRESOLVED"

(* A finite set in the order of the pairs "before".                                *)
Ordered(set, before) ==
  [i \in 1..Cardinality(set) |->
     CHOOSE x \in set : Cardinality({y \in set : <<y, x>> \in before}) = i - 1]
Ascending(ids) == Ordered(ids, {pair \in ids \X ids : pair[1] < pair[2]})

CellOutcomesForSubset(matrix, ids, group) ==
  [v \in DOMAIN group.variants |->
     LET cells == {matrix[<<id, group.probe_id, v>>] : id \in ids}
     IN IF "DETECTED" \in cells THEN "DETECTED"
        ELSE IF "UNRESOLVED" \in cells THEN "UNRESOLVED" ELSE "NOT_DETECTED"]

(* The smallest rung that begins an unbroken detected suffix.                     *)
DetectionFloor(signature) ==
  LET begins == {v \in DOMAIN signature : \A u \in v..Len(signature) : signature[u] = "DETECTED"}
  IN IF begins = {} THEN 0 ELSE Min(begins)

GroupStatus(floor, required, signature) ==
  IF floor # 0 /\ floor <= required THEN "QUALIFIED"
  ELSE IF \E v \in required..Len(signature) : signature[v] = "UNRESOLVED" THEN "UNRESOLVED"
  ELSE "INSUFFICIENT"

AdjudicateGroup(group, signature) ==
  LET floor == DetectionFloor(signature)
      status == GroupStatus(floor, RequiredIndex(group), signature)
  IN [probe_id |-> group.probe_id, status |-> status, detection_signature |-> signature,
      floor_variant_index |-> floor,
      floor_magnitude |-> IF floor = 0 THEN 0 ELSE group.variants[floor].magnitude,
      no_floor_reason |-> IF status = "QUALIFIED" THEN "none" ELSE status,
      detected_variants |-> Cardinality({v \in DOMAIN signature : signature[v] = "DETECTED"})]

AdjudicateSubset(config, matrix, ids) ==
  [workload_ids |-> Ascending(ids),
   groups |-> [g \in DOMAIN config.probe_groups |->
     AdjudicateGroup(config.probe_groups[g],
                     CellOutcomesForSubset(matrix, ids, config.probe_groups[g]))]]

GroupsWith(subset, status) == Cardinality({g \in DOMAIN subset.groups : subset.groups[g].status = status})
Qualified(subset) == GroupsWith(subset, "QUALIFIED")
Unresolved(subset) == GroupsWith(subset, "UNRESOLVED")
DetectedVariants(subset) ==
  Cardinality(UNION {{<<g, v>> : v \in {u \in DOMAIN subset.groups[g].detection_signature :
                                          subset.groups[g].detection_signature[u] = "DETECTED"}} :
                       g \in DOMAIN subset.groups})

Summary(subset) ==
  [workload_ids |-> subset.workload_ids, qualified_groups |-> Qualified(subset),
   unresolved_groups |-> Unresolved(subset), detected_variants |-> DetectedVariants(subset)]

(* rank_key: more qualified, fewer unresolved, more detected, then the workloads.   *)
RankKey(summary) ==
  <<-summary.qualified_groups, summary.unresolved_groups, -summary.detected_variants>>
    \o summary.workload_ids
Before(a, b) ==
  \E i \in DOMAIN a : a[i] < b[i] /\ \A j \in 1..(i - 1) : a[j] = b[j]
Ranks(a, b) == Before(RankKey(a), RankKey(b))

OverallStatus(subset) ==
  LET statuses == {subset.groups[g].status : g \in DOMAIN subset.groups}
  IN IF "UNRESOLVED" \in statuses THEN "UNRESOLVED"
     ELSE IF statuses = {"QUALIFIED"} THEN "QUALIFIED_FOR_DECLARED_PROBES"
     ELSE IF "QUALIFIED" \in statuses THEN "PARTIALLY_QUALIFIED"
     ELSE "INSUFFICIENT_EXCITATION"

(* decide: every subset of the budget's size, the first of the ranking selected.    *)
Decide(config, matrix, eligible) ==
  LET summaries == {Summary(AdjudicateSubset(config, matrix, ids)) :
                      ids \in kSubset(config.budget, ToSet(eligible))}
      ranking == Ordered(summaries, {pair \in summaries \X summaries : Ranks(pair[1], pair[2])})
      selected == AdjudicateSubset(config, matrix, ToSet(ranking[1].workload_ids))
  IN [status |-> OverallStatus(selected), selected |-> selected, ranking |-> ranking,
      subsets_evaluated |-> Len(ranking)]

QualificationExitCode(status) ==
  CASE status = "QUALIFIED_FOR_DECLARED_PROBES" -> 0
    [] status \in {"PARTIALLY_QUALIFIED", "INSUFFICIENT_EXCITATION"} -> 20
    [] status = "UNRESOLVED" -> 30

---------------------------------------------------------------------------------
(* Witnesses.                                                                   *)

Contributors(matrix, subset, probe_id, v, outcome) ==
  Min({id \in ToSet(subset.workload_ids) : matrix[<<id, probe_id, v>>] = outcome})

(* As if rungs below the requirement were looked at too.                          *)
FailingRungsMutant(config, subset, outcome) ==
  UNION {{<<g, v>> : v \in {u \in DOMAIN subset.groups[g].detection_signature :
                              subset.groups[g].detection_signature[u] = outcome}} : g \in DOMAIN subset.groups}

(* The first rung, in declared order, at or above the requirement of a group that  *)
(* is not qualified.                                                             *)
FailingRungs(config, subset, outcome) ==
  UNION {{<<g, v>> : v \in {u \in DOMAIN subset.groups[g].detection_signature :
                              /\ subset.groups[g].status # "QUALIFIED"
                              /\ u >= RequiredIndex(config.probe_groups[g])
                              /\ subset.groups[g].detection_signature[u] = outcome}} : g \in DOMAIN subset.groups}
RungWitness(config, subset, matrix, outcome) ==
  {[kind |-> outcome, group |-> r[1], variant_index |-> r[2],
    magnitude |-> config.probe_groups[r[1]].variants[r[2]].magnitude,
    workload_id |-> Contributors(matrix, subset, config.probe_groups[r[1]].probe_id, r[2], outcome)] :
   r \in {s \in FailingRungs(config, subset, outcome) :
            \A t \in FailingRungs(config, subset, outcome) : t = s \/ Before(s, t)}}

(* collect_witnesses: the status decides which of the two explains it; a false      *)
(* alarm is reported apart.                                                      *)
CollectWitnesses(config, subset, status, matrix, excluded, reasons) ==
  LET unresolved == RungWitness(config, subset, matrix, "UNRESOLVED")
      blind == RungWitness(config, subset, matrix, "NOT_DETECTED")
  IN [first_witness |-> IF status = "QUALIFIED_FOR_DECLARED_PROBES" THEN {}
                        ELSE IF status = "UNRESOLVED" THEN unresolved ELSE blind,
      first_blind_witness |-> blind,
      first_unresolved_witness |-> unresolved,
      first_false_alarm_witness |->
        {[workload_id |-> id, detail |-> reasons[id]] :
           id \in {i \in ToSet(excluded) : \A j \in ToSet(excluded) : i <= j}}]
=============================================================================
