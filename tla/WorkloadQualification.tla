---------------------------- MODULE WorkloadQualification ----------------------------
(* metrifid qualify-workload: qualify_configuration_file (workload_qualification/_run.py) *)
(* runs every comparison of a campaign into one owned directory, decides, reads back      *)
(* what it retained and publishes a document about it; a reader validates the document     *)
(* later. Beside the run there are other processes of the same user, which edit sources    *)
(* between two comparisons, alter or remove what is retained, take a directory the run     *)
(* has yet to make, move the tree and re-issue the document.                          *)
EXTENDS QualificationReceipt

CONSTANTS
  Campaigns,     \* what a run starts from: file, base, roots, world, and its disturbance:
                 \* how often other processes act beside it
  Possible(_, _),\* the statuses a comparison of a campaign may end with, by cell
  Rewrites(_),   \* what another process may make of the content of a source
  Altered(_),    \* what another process may make of a retained document
  Forged(_, _)   \* the documents another process may issue instead of one

ASSUME DisturbanceIsBounded == \A c \in Campaigns : c.disturbance \in Nat
ASSUME BasesArePaths == \A c \in Campaigns : c.base \in Paths
ASSUME ComparisonsComplete ==
  \A c \in Campaigns : \A key \in ToSet(Keys(c.file.doc)) : Possible(c, key) \subseteq Statuses

VARIABLES
  pc,          \* admit, own, cells, bind, decide, verify, publish, done, read, failed
  campaign,    \* what the run started from
  world,       \* the sources, the installed tool and the environment now
  disk,        \* retained documents, by locator
  foreign,     \* cell directories that are not the objects the run made
  place,       \* where the owned tree is
  next,        \* the next cell to run, or the next record to verify
  returned,    \* the receipt the last comparison returned: a set of at most one
  ledger,      \* the records bound so far
  document,    \* the built document: a set of at most one
  published,   \* the document in receipt/: a set of at most one
  result,      \* what the caller is told
  stale,       \* locators another process touched after the run last checked them
  rivals       \* how often other processes have acted

vars == <<pc, campaign, world, disk, foreign, place, next, returned, ledger, document, published,
          result, stale, rivals>>
files == <<disk, foreign, place, published, stale>>
records == <<next, returned, ledger, document>>

Config == campaign.file.doc
CellKeys == Keys(Config)
Root == Canonical(campaign.base \o Config.output_dir)
ReceiptDirectory == <<0, 0, 0>>

Init ==
  /\ pc = "admit" /\ campaign \in Campaigns /\ world = campaign.world
  /\ disk = <<>> /\ foreign = {} /\ place = <<>>
  /\ next = 1 /\ returned = {} /\ ledger = <<>> /\ document = {} /\ published = {}
  /\ result = "none" /\ stale = {} /\ rivals = 0

(* A directory is reached by name and must be the object the run made there; a document     *)
(* is read from a regular file of such a directory.                                     *)
Owned(key) == key \notin foreign
Readable(key, locators) == Owned(key) /\ locators \subseteq DOMAIN disk

(* A refusal with a code; "unexpected" is what the defensive boundary reports.           *)
Refuse(code) == pc' = "failed" /\ result' = code

---------------------------------------------------------------------------------
(* The run.                                                                          *)

(* admit_configuration.                                                              *)
AdmitConfiguration ==
  /\ pc = "admit"
  /\ IF ~campaign.file.readable THEN Refuse("CONFIGURATION_IO_FAILED")
     ELSE IF ~Admissible(Config) THEN Refuse("CONFIGURATION_PARSE_FAILED")
     ELSE pc' = "own" /\ UNCHANGED result
  /\ UNCHANGED <<campaign, world, files, records, rivals>>

(* own_output, and the admitted bytes as the first member of the tree.                   *)
OwnOutput ==
  /\ pc = "own"
  /\ IF PreflightAccepts(Config, campaign.base, campaign.roots, campaign.taken)
     THEN /\ pc' = "cells" /\ place' = Root
          /\ disk' = [locator \in {Admitted} |-> campaign.file]
          /\ UNCHANGED result
     ELSE Refuse("OUTPUT_PATH_INVALID") /\ UNCHANGED <<place, disk>>
  /\ UNCHANGED <<campaign, world, foreign, published, stale, records, rivals>>

Comparison(key) == ComparisonPrimitive(Config, campaign.base, key, Root)

Retain(key, receipt) ==
  disk' = [locator \in DOMAIN disk \union {Locator(key, "config"), Locator(key, "receipt")} |->
             IF locator = Locator(key, "config") THEN Comparison(key)
             ELSE IF locator = Locator(key, "receipt") THEN receipt ELSE disk[locator]]

(* run_cell up to the end of the comparison, which reads the sources as they are now and *)
(* publishes through the descriptor of its own directory.                               *)
Compare ==
  /\ pc = "cells" /\ next <= Len(CellKeys)
  /\ LET key == CellKeys[next] IN
     IF ~Owned(key)
     THEN Refuse("unexpected") /\ UNCHANGED <<disk, returned>>
     ELSE \E status \in Possible(campaign, key) :
            LET receipt == ComparisonReceipt(Comparison(key), Read(world, Comparison(key)), status)
            IN /\ Retain(key, receipt) /\ returned' = {receipt}
               /\ pc' = "bind" /\ UNCHANGED result
  /\ UNCHANGED <<campaign, world, foreign, place, published, stale, next, ledger, document, rivals>>

(* A comparison that fails ends the campaign; the other cells are never run.             *)
CompareFails ==
  /\ pc = "cells" /\ next <= Len(CellKeys) /\ campaign.disturbance > 0
  /\ Refuse("COMPARISON_FAILED")
  /\ UNCHANGED <<campaign, world, files, records, rivals>>

(* _bind_cell: the retained receipt is read back and must be the one returned.           *)
BindCell ==
  /\ pc = "bind"
  /\ LET key == CellKeys[next]
         locator == Locator(key, "receipt")
     IN IF ~Readable(key, {locator})
        THEN Refuse("unexpected") /\ UNCHANGED <<ledger, next, stale, returned>>
        ELSE \E receipt \in returned :
          IF disk[locator] # receipt
          THEN Refuse("INTERNAL_INVARIANT_FAILED") /\ UNCHANGED <<ledger, next, stale, returned>>
          ELSE /\ ledger' = Append(ledger, CellRecord(Config, key, Comparison(key), receipt))
               /\ returned' = {} /\ stale' = stale \ {locator} /\ next' = next + 1
               /\ pc' = "cells" /\ UNCHANGED result
  /\ UNCHANGED <<campaign, world, disk, foreign, place, published, document, rivals>>

(* validate_campaign, decide, collect_witnesses and build_qualification_receipt.           *)
DecideCampaign ==
  /\ pc = "cells" /\ next > Len(CellKeys)
  /\ IF ~ValidateCampaign(Config, ledger)
     THEN Refuse("INTERNAL_INVARIANT_FAILED") /\ UNCHANGED <<document, next>>
     ELSE IF Len(EligibleIds(ledger)) < Config.budget
     THEN Refuse("CONFIGURATION_PARSE_FAILED") /\ UNCHANGED <<document, next>>
     ELSE /\ document' = {BuildQualificationReceipt(Config, campaign.file, ledger)}
          /\ next' = 1 /\ pc' = "verify" /\ UNCHANGED result
  /\ UNCHANGED <<campaign, world, files, returned, ledger, rivals>>

RetainedIntact(r) ==
  /\ Readable(r.key, {r.config_locator, r.receipt_locator})
  /\ disk[r.config_locator] = r.config /\ disk[r.receipt_locator] = r.receipt

(* verify_retained_evidence, one record at a time.                                       *)
VerifyRetained ==
  /\ pc = "verify" /\ next <= Len(ledger)
  /\ IF RetainedIntact(ledger[next])
     THEN /\ stale' = stale \ {ledger[next].config_locator, ledger[next].receipt_locator}
          /\ next' = next + 1 /\ UNCHANGED <<pc, result>>
     ELSE Refuse("INTERNAL_INVARIANT_FAILED") /\ UNCHANGED <<stale, next>>
  /\ UNCHANGED <<campaign, world, disk, foreign, place, published, returned, ledger, document, rivals>>

(* _publish: the pair is written through the descriptor of the directory the run makes.   *)
Publish ==
  /\ pc = "verify" /\ next > Len(ledger)
  /\ IF ~Owned(ReceiptDirectory)
     THEN Refuse("unexpected") /\ UNCHANGED published
     ELSE \E built \in document :
            published' = {built} /\ pc' = "done" /\ result' = built.body.status
  /\ UNCHANGED <<campaign, world, disk, foreign, place, stale, records, rivals>>

---------------------------------------------------------------------------------
(* The reader, which reads each file once.                                             *)

Reader ==
  /\ pc = "done"
  /\ pc' = "read"
  /\ \E shown \in published :
       result' = IF LoadAndValidate(shown, disk, place) THEN "accepted" ELSE "rejected"
  /\ UNCHANGED <<campaign, world, files, records, rivals>>

---------------------------------------------------------------------------------
(* Other processes of the same user.                                                   *)

Disturb == rivals < campaign.disturbance /\ rivals' = rivals + 1
Running == pc \in {"cells", "bind", "verify"}

RivalSource ==
  /\ Disturb /\ pc \in {"cells", "bind"}
  /\ \/ \E path \in DOMAIN world.at : \E content \in Rewrites(world.at[path]) :
          world' = [world EXCEPT !.at[path] = content]
     \/ \E content \in Rewrites(world.tool) : world' = [world EXCEPT !.tool = content]
     \/ \E content \in Rewrites(world.environment) : world' = [world EXCEPT !.environment = content]
  /\ UNCHANGED <<pc, campaign, files, records, result>>

RivalRetained ==
  /\ Disturb /\ (Running \/ pc = "done")
  /\ \E locator \in DOMAIN disk :
       /\ \/ disk' = [other \in DOMAIN disk \ {locator} |-> disk[other]]
          \/ \E altered \in Altered(disk[locator]) : disk' = [disk EXCEPT ![locator] = altered]
       /\ stale' = stale \union {locator}
  /\ UNCHANGED <<pc, campaign, world, foreign, place, published, records, result>>

(* A directory the run has yet to make, or one it made, is another object from now on.    *)
RivalDirectory ==
  /\ Disturb /\ Running
  /\ \E key \in ToSet(CellKeys) \union {ReceiptDirectory} :
       /\ foreign' = foreign \union {key}
       /\ stale' = stale \union {Locator(key, name) : name \in {"config", "receipt"}}
  /\ UNCHANGED <<pc, campaign, world, disk, place, published, records, result>>

RivalMove ==
  /\ Disturb /\ pc = "done"
  /\ place' = Append(place, "moved")
  /\ UNCHANGED <<pc, campaign, world, disk, foreign, published, stale, records, result>>

RivalDocument ==
  /\ Disturb /\ pc = "done"
  /\ \E shown \in published : \E forgery \in Forged(shown, disk) :
       /\ published' = {forgery.document} /\ disk' = forgery.disk
       /\ stale' = stale \union DOMAIN disk
  /\ UNCHANGED <<pc, campaign, world, foreign, place, records, result>>

Run == AdmitConfiguration \/ OwnOutput \/ Compare \/ CompareFails \/ BindCell \/ DecideCampaign
       \/ VerifyRetained \/ Publish
Rivals == RivalSource \/ RivalRetained \/ RivalDirectory \/ RivalMove \/ RivalDocument
Next == Run \/ Reader \/ Rivals

Spec == Init /\ [][Next]_vars

---------------------------------------------------------------------------------
(* Properties.                                                                        *)

(* What the receipts of the cells say, "kept" by cell, independently of what was decided  *)
(* from them.                                                                         *)
Required(config, g) == RequiredIndex(config.probe_groups[g])
Sees(kept, chosen, g, v) ==
  \E w \in chosen : kept[<<w, g, v>>].status = "MATERIAL_BEHAVIOR_CHANGE"
Open(kept, chosen, g, v) ==
  /\ ~Sees(kept, chosen, g, v)
  /\ \E w \in chosen : kept[<<w, g, v>>].status \notin {"NO_MATERIAL_DIFFERENCE", "MATERIAL_BEHAVIOR_CHANGE"}
AtStake(config, g) == Required(config, g)..Len(config.probe_groups[g].variants)
Covered(config, kept, chosen) ==
  {g \in DOMAIN config.probe_groups : \A v \in AtStake(config, g) : Sees(kept, chosen, g, v)}
Undecided(config, kept, chosen) ==
  {g \in DOMAIN config.probe_groups : \E v \in AtStake(config, g) : Open(kept, chosen, g, v)}
Sound(config, kept) ==
  {w \in DOMAIN config.workloads : kept[<<w, 0, 0>>].status = "NO_MATERIAL_DIFFERENCE"}
Chosen(config, doc) ==
  {w \in DOMAIN config.workloads : config.workloads[w].workload_id \in ToSet(doc.selected_workload_ids)}

(* No set of as many sound workloads covers more groups, or as many with fewer undecided. *)
BestChoice(config, kept, chosen) ==
  \A other \in kSubset(Budget, Sound(config, kept)) :
    LET more == Cardinality(Covered(config, kept, other))
        most == Cardinality(Covered(config, kept, chosen))
    IN \/ more < most
       \/ more = most /\ Cardinality(Undecided(config, kept, other)) >= Cardinality(Undecided(config, kept, chosen))
ImpliedStatus(config, kept, chosen) ==
  IF Undecided(config, kept, chosen) # {} THEN "UNRESOLVED"
  ELSE IF Covered(config, kept, chosen) = DOMAIN config.probe_groups THEN "QUALIFIED_FOR_DECLARED_PROBES"
  ELSE IF Covered(config, kept, chosen) = {} THEN "INSUFFICIENT_EXCITATION" ELSE "PARTIALLY_QUALIFIED"

(* The record of a cell, and the files it links.                                        *)
Cell(cells, key) == CHOOSE r \in ToSet(cells) : r.key = key
Linked(doc, files0) ==
  [key \in ToSet(Keys(doc.configuration)) |-> files0[Cell(Records(doc), key).receipt_locator]]

(* A comparison of one cell's own model, initial state and actions.                        *)
ComparesCell(config, key, comparison) ==
  /\ IsSuffix(config.baseline.model_root, comparison.baseline.model_root)
  /\ IsSuffix(Candidate(config, key).model_root, comparison.candidate.model_root)
  /\ IsSuffix(config.workloads[key[1]].initial_state, comparison.initial_state)
  /\ IsSuffix(config.workloads[key[1]].actions, comparison.actions)

(* A document the loader accepts says what the comparisons it links imply, whoever wrote   *)
(* either: its selection is a best choice of sound workloads, its status the one they     *)
(* give, and every linked comparison is of its cell's own sources and has the baseline,   *)
(* tool and environment the document names                                             *)
(* (load_and_validate_workload_qualification_receipt).                                  *)
AcceptedIsImplied ==
  pc = "read" /\ result = "accepted" =>
    \A shown \in published :
      LET doc == shown.body
          config == disk[Admitted].doc
          kept == Linked(doc, disk)
          chosen == Chosen(config, doc)
      IN /\ chosen \in kSubset(Budget, Sound(config, kept))
         /\ BestChoice(config, kept, chosen)
         /\ doc.status = ImpliedStatus(config, kept, chosen)
         /\ \A key \in ToSet(Keys(config)) :
              /\ ComparesCell(config, key, kept[key].configuration)
              /\ kept[key].inputs.baseline = doc.campaign_identity.baseline
              /\ kept[key].inputs.tool = doc.campaign_identity.tool
              /\ kept[key].inputs.environment = doc.campaign_identity.environment

(* The loader accepts what a run published, wherever the tree is by then, as long as      *)
(* nobody touched a retained file after the run last checked it.                        *)
Untouched == stale = {} /\ published = document
PublishedIsAccepted ==
  pc = "read" /\ Untouched /\ ".." \notin ToSet(campaign.base) => result = "accepted"

(* The same of every published document: load_and_validate_workload_qualification_receipt *)
(* validates what qualify_configuration_file returned, as docs/sdk.md shows it.             *)
PublishedIsLoadable == pc = "read" /\ Untouched => result = "accepted"

(* What a comparison read: its sources, by canonical path.                              *)
Uses(r) ==
  LET comparison == r.config
      inputs == r.receipt.inputs
  IN {<<Canonical(comparison.baseline.model_root), inputs.baseline.members>>,
      <<Canonical(comparison.candidate.model_root), inputs.candidate.members>>,
      <<Canonical(comparison.initial_state), inputs.initial_state>>,
      <<Canonical(comparison.actions), inputs.actions>>}
     \union {<<Canonical(comparison.aliases), content>> : content \in inputs.aliases}

(* The paths two comparisons have in common: the baseline and the aliases, what the       *)
(* comparisons of one workload start from, and the rung both of them try.                 *)
InCommon(r, s) ==
  LET paths == {r.config.baseline.model_root}
        \union (IF r.config.aliases = <<>> THEN {} ELSE {r.config.aliases})
        \union (IF r.key[1] = s.key[1] THEN {r.config.initial_state, r.config.actions} ELSE {})
        \union (IF r.key[2] = s.key[2] /\ r.key[3] = s.key[3] THEN {r.config.candidate.model_root} ELSE {})
  IN {Canonical(path) : path \in paths}

(* What a campaign is decided from hangs together, however its sources were edited while   *)
(* it ran: no two of its comparisons ran under different tools or environments, or read     *)
(* different contents of a path they have in common, for whichever purpose either read it;  *)
(* and no rung is the baseline or another rung of its group (validate_campaign).            *)
CampaignIsCoherent ==
  pc = "done" =>
    \A r, s \in ToSet(ledger) :
      /\ r.receipt.inputs.tool = s.receipt.inputs.tool
      /\ r.receipt.inputs.environment = s.receipt.inputs.environment
      /\ \A one \in Uses(r), two \in Uses(s) :
           one[1] = two[1] /\ one[1] \in InCommon(r, s) => one[2] = two[2]
      /\ r.key[2] # 0 => r.receipt.inputs.candidate # s.receipt.inputs.baseline
      /\ (r.key[2] # 0 /\ r.key[2] = s.key[2] /\ r.key[3] # s.key[3])
           => r.receipt.inputs.candidate # s.receipt.inputs.candidate

(* A published answer that is not a full qualification names a reason a reader can look    *)
(* up: a retained comparison of a selected workload, at the first rung at stake of a group  *)
(* that is not covered, whose status is the reason (collect_witnesses).                    *)
WitnessExplains ==
  pc = "done" => \A built \in document :
    LET doc == built.body
        kept == [key \in ToSet(CellKeys) |-> Cell(ledger, key).receipt]
        chosen == Chosen(Config, doc)
        Lost(g, v) == v \in AtStake(Config, g) /\
          IF doc.status = "UNRESOLVED" THEN Open(kept, chosen, g, v) ELSE ~Sees(kept, chosen, g, v)
    IN doc.status # "QUALIFIED_FOR_DECLARED_PROBES" =>
         \E witness \in doc.witnesses.first_witness :
           /\ Lost(witness.group, witness.variant_index)
           /\ \A g \in 1..witness.group : \A v \in DOMAIN Config.probe_groups[g].variants :
                Lost(g, v) => g = witness.group /\ v >= witness.variant_index
           /\ \E w \in chosen :
                /\ Config.workloads[w].workload_id = witness.workload_id
                /\ witness.kind = DetectionOutcome(kept[<<w, witness.group, witness.variant_index>>].status)
=============================================================================
