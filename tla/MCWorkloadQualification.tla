----------------------- MODULE MCWorkloadQualification -----------------------
(* Instances of WorkloadQualification: three workloads of which two are selected,   *)
(* and one group of two rungs, or two groups where the upper rungs vary.             *)
EXTENDS WorkloadQualification

Role(root) == [model_root |-> <<root>>, entrypoint |-> <<"model.xml">>, declared_step_dt |-> 1]
Workload(id, state) ==
  [workload_id |-> id, initial_state |-> <<state>>, actions |-> <<"actions">>, control_dt |-> 2]
Group(id, roots, required) ==
  [probe_id |-> id, direction |-> "increase", required_detection_magnitude |-> required,
   variants |-> [v \in DOMAIN roots |-> [candidate |-> Role(roots[v]), magnitude |-> v]]]
Document(groups) ==
  [baseline |-> Role("baseline"), probe_groups |-> groups,
   workloads |-> <<Workload(2, "s2"), Workload(1, "s1"), Workload(3, "s3")>>,
   repeats |-> 2, budget |-> 2, joint_tolerances |-> {"hinge"}, aliases |-> <<>>, output_dir |-> <<"out">>]

OneGroup == Document(<<Group(7, <<"a1", "a2">>, 1)>>)
TwoGroups == Document(<<Group(7, <<"a1", "a2">>, 1), Group(5, <<"b1", "b2">>, 2)>>)
Aliased == [OneGroup EXCEPT !.aliases = <<"aliases">>]
Pair == [OneGroup EXCEPT !.workloads = SubSeq(@, 1, 2)]

Home == <<"home">>
Dotted == <<"home", "there", "..">>

Content(name) == [of |-> name, semantic |-> 0, layout |-> 0]
Names == {"baseline", "a1", "a2", "b1", "b2", "s1", "s2", "s3", "actions", "aliases"}
World == [at |-> [path \in {Append(Home, name) : name \in Names} |-> Content(path[2])],
          tool |-> Content("tool"), environment |-> Content("environment")]

File(doc) == [readable |-> TRUE, doc |-> doc]
Campaign(doc, base, kind) ==
  [file |-> File(doc), base |-> base, roots |-> {<<name>> : name \in Names}, taken |-> FALSE,
   world |-> World, disturbance |-> 0, kind |-> kind]
Disturbed(doc, often) == [Campaign(doc, Home, "plain") EXCEPT !.disturbance = often]

(* Refused: a file that cannot be read, a repeated magnitude, an output inside a     *)
(* model, an output that exists, a model that does not exist; a rung that is the      *)
(* baseline under another name, and one that is another rung.                        *)
Plain == Campaign(OneGroup, Home, "plain")
Refused ==
  {[Plain EXCEPT !.file.readable = FALSE],
   [Plain EXCEPT !.file.doc.probe_groups[1].variants[2].magnitude = 1],
   [Plain EXCEPT !.file.doc.output_dir = <<"a1", "out">>],
   [Plain EXCEPT !.taken = TRUE],
   [Plain EXCEPT !.roots = @ \ {<<"a2">>}],
   [Plain EXCEPT !.world.at[<<"home", "a1">>] = Content("baseline")],
   [Plain EXCEPT !.world.at[<<"home", "a2">>] = Content("a1")]}

MCCampaigns ==
  Refused \union
  {Campaign(OneGroup, Home, "all"), Campaign(TwoGroups, Home, "all"), Campaign(OneGroup, Dotted, "plain"),
   Disturbed(Aliased, 1), Disturbed(Pair, 2)}

Green == "NO_MATERIAL_DIFFERENCE"
Change == "MATERIAL_BEHAVIOR_CHANGE"
Uncovered == "COVERAGE_INSUFFICIENT"

(* Every outcome of one group, and of the upper rungs of two; one outcome where the run *)
(* is disturbed: a third workload is excluded, the second rung unresolved for the first. *)
MCPossible(c, key) ==
  IF c.kind = "all"
  THEN IF IsControl(key)
       THEN IF c.file.doc = OneGroup /\ key[1] # 1 THEN {Green, "NONDETERMINISTIC_REPLAY"} ELSE {Green}
       ELSE IF key[3] = 2 \/ c.file.doc = OneGroup THEN {Green, Change, Uncovered}
       ELSE IF key[2] = 2 THEN {Green} ELSE IF key[1] = 1 THEN {Change} ELSE {Uncovered}
  ELSE IF IsControl(key) THEN {IF key[1] = 3 THEN Change ELSE Green}
  ELSE IF key[3] = 1 THEN {Change} ELSE {IF key[1] = 1 THEN Uncovered ELSE Green}

(* An edit changes the layout or the meaning of a source; a second one can undo it.   *)
MCRewrites(content) ==
  {[content EXCEPT !.layout = 1 - @], [content EXCEPT !.semantic = 1 - @, !.layout = 1 - @]}

(* A retained document is replaced by one that is admissible by itself.               *)
IsReceipt(kept) == "status" \in DOMAIN kept
IsFile(kept) == "readable" \in DOMAIN kept
Restated(receipt, status) == [receipt EXCEPT !.status = status]
MCAltered(kept) ==
  IF IsReceipt(kept) THEN {Restated(kept, IF kept.status = Change THEN Green ELSE Change)}
  ELSE IF IsFile(kept) THEN {[kept EXCEPT !.doc.repeats = 3]}
  ELSE {[kept EXCEPT !.repeats = 3]}

(* Documents issued instead of the published one: built from a ledger in which one cell *)
(* has another status, with or without that status in the retained receipt; with two    *)
(* records that name each other's files; or with one claim changed and the digest       *)
(* computed again, or not.                                                             *)
Reissued(doc, records0) == BuildQualificationReceipt(doc.configuration, doc.configuration_raw, records0)
OtherStatus(status) == IF status = Change THEN Green ELSE Change
EnoughEligible(doc, records0) == Len(EligibleIds(records0)) >= doc.configuration.budget

FromLedger(doc, disk0) ==
  LET records0 == Records(doc)
      Other(i) == Restated(records0[i].receipt, OtherStatus(records0[i].status))
      Whole(i) == [records0 EXCEPT ![i] = CellRecord(doc.configuration, @.key, @.config, Other(i))]
      Labelled(i) == [Whole(i) EXCEPT ![i].receipt = records0[i].receipt]
  IN UNION {{[document |-> Reissued(doc, Whole(i)), disk |-> [disk0 EXCEPT ![records0[i].receipt_locator] = Other(i)]],
             [document |-> Reissued(doc, Whole(i)), disk |-> disk0],
             [document |-> Reissued(doc, Labelled(i)), disk |-> disk0]} :
              i \in {j \in DOMAIN records0 : EnoughEligible(doc, Whole(j)) /\ records0[j].receipt_locator \in DOMAIN disk0}}

Swapped(doc, i, j) ==
  LET cells == doc.probe_cells
      Put(r, s) == [r EXCEPT !.config_locator = s.config_locator, !.config = s.config,
                             !.receipt_locator = s.receipt_locator, !.receipt = s.receipt,
                             !.status = s.status, !.outcome = s.outcome]
  IN Reissued(doc, doc.zero_change_controls \o [cells EXCEPT ![i] = Put(cells[i], cells[j]), ![j] = Put(cells[j], cells[i])])

Claims(doc) ==
  {[doc EXCEPT !.status = "QUALIFIED_FOR_DECLARED_PROBES", !.completed_exit_code = 0],
   [doc EXCEPT !.selected_workload_ids = Reverse(@)],
   [doc EXCEPT !.campaign_identity.tool = Content("other")],
   [doc EXCEPT !.campaign_identity.baseline.members = Content("other")],
   [doc EXCEPT !.configuration.repeats = 3],
   [doc EXCEPT !.execution_counts.completed = @ + 1],
   [doc EXCEPT !.witnesses.first_witness = {}]}

MCForged(document0, disk0) ==
  LET doc == document0.body IN
  FromLedger(doc, disk0)
    \union {[document |-> Swapped(doc, 1, 3), disk |-> disk0], [document |-> Swapped(doc, 1, 2), disk |-> disk0]}
    \union {[document |-> Hashed(claim), disk |-> disk0] : claim \in Claims(doc)}
    \union {[document |-> [document0 EXCEPT !.body = claim], disk |-> disk0] : claim \in Claims(doc)}
=============================================================================
