----------------------------- MODULE ReviewReceipt -----------------------------
(* The receipt of a runtime review, as it is built from the admitted evidence    *)
(* (runtime_review/_receipt.py) and as a reader who trusts nothing of it builds   *)
(* it again from the owned tree beside it (runtime_review/_receipt_validation.py).*)
(*                                                                            *)
(* A tree is a record: at, what lies at each location; extra, whether there is   *)
(* an entry that does not belong there; linked, the locations whose file has a   *)
(* second name. A digest is the value it was taken of. The content of a cell     *)
(* stands for its six members: six and summed say whether the directory holds    *)
(* exactly these and whether the checksums cover them.                           *)
EXTENDS ReviewConfiguration, FiniteSets

CONSTANTS
  Absent,           \* nothing at a location
  None,             \* null in a document
  Version,          \* the version of the validating product
  Classes,          \* _WITNESS_CLASSIFICATIONS
  Decision(_)       \* evaluate_runtime_evidence: from the contents of the cells, in order

ConfigLocation == <<"admitted_runtime_review_config.json">>
JsonLocation == <<"runtime_review.json">>
MarkdownLocation == <<"runtime_review.md">>
OwnedCellLocator(slot) == <<"evidence", slot.role, slot.dt, slot.repeat>>
OwnedIdentityLocator(role) == IdentityFile(role)

RootLocations == {ConfigLocation, JsonLocation, MarkdownLocation}
IdentityLocations == {OwnedIdentityLocator(role) : role \in SetOf(Roles)}
CellLocations == {OwnedCellLocator(slot) : slot \in Slots}
Locations == RootLocations \union IdentityLocations \union CellLocations

--------------------------------------------------------------------------------
(* Evidence: the cells in the order of the configuration, and the identities.    *)

(* identities is a pair, empty on the first route.                              *)
RuntimeEvidenceAdmitted(config, cells, identities) ==
  \A n \in DOMAIN config.cells :
    /\ cells[n] # Absent
    /\ cells[n].six /\ cells[n].summed /\ cells[n].sound
    /\ cells[n].slot = config.cells[n].slot
    /\ config.schema_version = 2 =>
         LET r == IF config.cells[n].slot.role = "baseline" THEN 1 ELSE 2 IN
         /\ identities[r] # Absent
         /\ identities[r].role = Roles[r]
         /\ identities[r].digest = config.profiles[r].digest
         /\ cells[n].profile = identities[r].digest

FirstOf(config, role) == CHOOSE n \in DOMAIN config.cells :
  config.cells[n].slot.role = role /\ \A m \in 1..(n - 1) : config.cells[m].slot.role # role

(* profile_identity_receipt_projection_v2. *)
IdentityProjection(identity) ==
  [role |-> identity.role, package |-> identity.package, integer |-> identity.integer,
   digest |-> identity.digest, sentinel |-> identity.sentinel]

OneProfilePrimitive(config, cells, identities, r) ==
  [projection |-> IF config.schema_version = 2 THEN IdentityProjection(identities[r]) ELSE None,
   runtime |-> cells[FirstOf(config, Roles[r])].profile]

ProfilesPrimitive(config, cells, identities) ==
  [r \in {1, 2} |-> OneProfilePrimitive(config, cells, identities, r)]

SubjectPrimitive(config, cells) ==
  [expected |-> config.subject, compiled |-> [n \in DOMAIN cells |-> cells[n].generation]]

WorkloadPrimitive(config, cells) == [expected |-> config.workload, admitted |-> cells[1].generation]

--------------------------------------------------------------------------------
(* Building. *)

StatusReason(status, reason) == (status = "INSUFFICIENT_EVIDENCE") <=> (reason # None)

RuntimeReviewToolIdentity == [version |-> Version, distribution |-> Version, hashed |-> TRUE, keys |-> TRUE]

OwnedEvidenceCells(cells) ==
  [n \in DOMAIN CanonicalSlots |->
     [slot |-> CanonicalSlots[n], directory |-> OwnedCellLocator(CanonicalSlots[n]), members |-> cells[n]]]

ProfileBindingValid(projection, declaration) ==
  /\ projection.role = declaration.role /\ projection.package = declaration.package
  /\ projection.integer = declaration.integer /\ projection.digest = declaration.digest
  /\ projection.sentinel = "PASS"

(* The raw identity the configuration admitted, the one that was copied.        *)
ProfilesBind(admitted, profiles, owned) ==
  \A r \in {1, 2} :
    /\ ProfileBindingValid(profiles[r].projection, admitted.config.profiles[r])
    /\ OwnedIdentityLocator(Roles[r]) = admitted.config.profiles[r].file
    /\ owned[r] = admitted.identities[r]

BoundProfiles(config, profiles, owned) ==
  [r \in {1, 2} |->
     [binding |-> profiles[r],
      file |-> IF config.schema_version = 2
                 THEN [locator |-> OwnedIdentityLocator(Roles[r]), raw |-> owned[r]] ELSE None]]

(* build_runtime_review_receipt and build_runtime_review_receipt_v2: cells are    *)
(* the contents in the order of the configuration, owned the identities.         *)
BuildRuntimeReviewReceipt(admitted, cells, identities, owned, tool) ==
  LET config == admitted.config
      decision == Decision(cells) IN
  [schema |-> "metrifid.runtime_review_receipt", schema_version |-> config.schema_version,
   status |-> decision.status, reason_code |-> decision.reason,
   method |-> "CONDITIONAL_TAIL_ENVELOPE", claim_scope |-> "FULL_HORIZON",
   configuration |-> [locator |-> ConfigLocation, raw |-> admitted.raw, semantic |-> admitted.semantic],
   profiles |-> BoundProfiles(config, ProfilesPrimitive(config, cells, identities), owned),
   subject |-> SubjectPrimitive(config, cells), workload |-> WorkloadPrimitive(config, cells),
   campaign_shape |-> [step_dts |-> config.step_dts, repeat_ids |-> config.repeat_ids,
                       cell_count |-> Len(CanonicalSlots)],
   required_horizon |-> config.horizon, admitted_prefix |-> decision.prefix,
   first_failing_gate |-> decision.gate, first_decisive_witness |-> decision.first,
   worst_witness |-> decision.worst, witness_counts |-> decision.counts,
   witnesses |-> decision.witnesses, evidence_cells |-> OwnedEvidenceCells(cells),
   limitations |-> "frozen", tool |-> tool, receipt_sha256 |-> "recomputes"]

ReceiptBuilds(admitted, cells, identities, owned) ==
  /\ StatusReason(Decision(cells).status, Decision(cells).reason)
  /\ admitted.config.schema_version = 2 =>
       ProfilesBind(admitted, ProfilesPrimitive(admitted.config, cells, identities), owned)

ReceiptKeys ==
  {"schema", "schema_version", "status", "reason_code", "method", "claim_scope", "configuration", "profiles",
   "subject", "workload", "campaign_shape", "required_horizon", "admitted_prefix", "first_failing_gate",
   "first_decisive_witness", "worst_witness", "witness_counts", "witnesses", "evidence_cells", "limitations",
   "tool", "receipt_sha256"}

(* The page prints the digest of the receipt: another receipt, another page.     *)
RenderRuntimeReviewMarkdown(receipt) == [page |-> receipt]

--------------------------------------------------------------------------------
(* Validating: the document alone. *)

StatusKnown(receipt) ==
  receipt.status \in Classes \union {"INSUFFICIENT_EVIDENCE"}

ReasonKnown(reason) ==
  reason \in {None, "REPEATABILITY_FAILED", "SOLVER_NOT_CONVERGED", "CONTACT_EVENT_TOPOLOGY_CHANGED",
              "NON_ASYMPTOTIC_REGIME", "PREFIX_TOO_SHORT"}

ConfigurationSchema(block) ==   \* these three keys, the locator frozen
  block = [locator |-> ConfigLocation, raw |-> block.raw, semantic |-> block.semantic]

CampaignSchema(campaign) ==
  campaign = [step_dts |-> StepDts, repeat_ids |-> RepeatIds, cell_count |-> Len(CanonicalSlots)]

GateSchema(gate) == gate = None \/ (ReasonKnown(gate.status) /\ gate.status \notin {None, "PREFIX_TOO_SHORT"})

WitnessSchema(witness) == witness.tolerance > 0

Before(w, v) == w.time < v.time \/ (w.time = v.time /\ w.channel < v.channel)

WitnessesOrdered(witnesses) == \A i, j \in DOMAIN witnesses : i < j => Before(witnesses[i], witnesses[j])

OptionalWitness(witness, witnesses) == witness = None \/ witness \in SetOf(witnesses)

CountsOf(witnesses) ==
  [class \in Classes |-> Cardinality({i \in DOMAIN witnesses : witnesses[i].class = class})]

WitnessCounts(counts, witnesses) == counts = CountsOf(witnesses)

ToolSchema(tool, version) ==
  /\ tool.keys /\ tool.hashed /\ tool.distribution = tool.version
  /\ version = 2 => tool.version = Version

ProfilesSchemaV2(profiles) ==
  \A r \in {1, 2} :
    /\ profiles[r].binding.projection.role = Roles[r]
    /\ profiles[r].binding.projection.sentinel = "PASS"
    /\ profiles[r].file # None /\ profiles[r].file.locator = OwnedIdentityLocator(Roles[r])

ValidateDocumentSchema(receipt) ==
  /\ DOMAIN receipt = ReceiptKeys
  /\ receipt.schema = "metrifid.runtime_review_receipt"
  /\ receipt.schema_version \in {1, 2}
  /\ receipt.method = "CONDITIONAL_TAIL_ENVELOPE" /\ receipt.claim_scope = "FULL_HORIZON"
  /\ StatusKnown(receipt) /\ ReasonKnown(receipt.reason_code)
  /\ StatusReason(receipt.status, receipt.reason_code)
  /\ ConfigurationSchema(receipt.configuration) /\ CampaignSchema(receipt.campaign_shape)
  /\ receipt.admitted_prefix <= receipt.required_horizon
  /\ GateSchema(receipt.first_failing_gate)
  /\ \A i \in DOMAIN receipt.witnesses : WitnessSchema(receipt.witnesses[i])
  /\ WitnessesOrdered(receipt.witnesses)
  /\ OptionalWitness(receipt.first_decisive_witness, receipt.witnesses)
  /\ OptionalWitness(receipt.worst_witness, receipt.witnesses)
  /\ WitnessCounts(receipt.witness_counts, receipt.witnesses)
  /\ receipt.limitations = "frozen"
  /\ ToolSchema(receipt.tool, receipt.schema_version)
  /\ receipt.schema_version = 2 => ProfilesSchemaV2(receipt.profiles)

ValidateSelfHash(receipt) == receipt.receipt_sha256 = "recomputes"

(* The Markdown beside a receipt.                                               *)
MarkdownRenders(markdown, receipt) == markdown = RenderRuntimeReviewMarkdown(receipt)

(* json is the file: a receipt, and whether it is written canonically.          *)
DocumentsAccepted(json, markdown) ==
  /\ json.canonical
  /\ ValidateDocumentSchema(json.receipt)
  /\ ValidateSelfHash(json.receipt)
  /\ MarkdownRenders(markdown, json.receipt)

--------------------------------------------------------------------------------
(* Validating: the tree. *)

(* _validate_complete_owned_tree: either none or both of the identities.         *)
CompleteOwnedTree(tree) ==
  /\ ~tree.extra /\ tree.linked = {}
  /\ \A location \in RootLocations \union CellLocations : tree.at[location] # Absent
  /\ \/ \A location \in IdentityLocations : tree.at[location] = Absent
     \/ \A location \in IdentityLocations : tree.at[location] # Absent
  /\ \A location \in CellLocations : tree.at[location].six

RootMembers(tree) == [location \in RootLocations \union IdentityLocations |-> tree.at[location]]

(* What the receipt says of its cells, in the frozen order.                     *)
ParseOwnedEvidenceCells(cells) ==
  /\ DOMAIN cells = DOMAIN CanonicalSlots
  /\ \A n \in DOMAIN cells : /\ cells[n].slot = CanonicalSlots[n]
                             /\ cells[n].directory = OwnedCellLocator(CanonicalSlots[n])

ValidateOwnedEvidenceCell(tree, cell) ==
  LET content == tree.at[cell.directory] IN
  /\ cell.directory \notin tree.linked
  /\ content # Absent /\ content.six /\ content.summed
  /\ content = cell.members

CellsAccepted(cells, tree) ==
  ParseOwnedEvidenceCells(cells) /\ \A n \in DOMAIN cells : ValidateOwnedEvidenceCell(tree, cells[n])

(* _load_retained_configuration and _load_retained_configuration_v2. *)
LoadRetainedConfiguration(receipt, raw) ==
  /\ receipt.configuration.locator = ConfigLocation
  /\ receipt.configuration.raw = raw
  /\ raw.schema_version = receipt.schema_version /\ DocumentAdmitted(raw)
  /\ receipt.configuration.semantic = ToPrimitive(Configuration(raw))

(* raw is what was read of the root, now what the identity authority reads.      *)
OwnedProfileIdentityAccepted(profile, raw, now, declaration, r) ==
  /\ profile.file.locator = declaration.file
  /\ raw # Absent /\ profile.file.raw = raw
  /\ now # Absent /\ now.role = Roles[r] /\ now.digest = declaration.digest
  /\ raw = [now EXCEPT !.canonical = TRUE]
  /\ IdentityProjection(now) = profile.binding.projection

ParseOwnedProfileIdentitiesV2(receipt, root, tree, config) ==
  \A r \in {1, 2} :
    LET location == OwnedIdentityLocator(Roles[r]) IN
    OwnedProfileIdentityAccepted(receipt.profiles[r], root[location], tree.at[location], config.profiles[r], r)

OwnedCells(tree) == [n \in DOMAIN CanonicalSlots |-> tree.at[OwnedCellLocator(CanonicalSlots[n])]]
OwnedIdentities(at) == [r \in {1, 2} |-> at[OwnedIdentityLocator(Roles[r])]]

(* The configuration as the reader admits it.                                   *)
Readmitted(root) ==
  LET raw == root[ConfigLocation] IN
  [config |-> Configuration(raw), raw |-> raw, semantic |-> ToPrimitive(Configuration(raw)),
   directories |-> [n \in DOMAIN CanonicalSlots |-> OwnedCellLocator(CanonicalSlots[n])],
   identities |-> OwnedIdentities(root)]

(* The fields the reader computes again from the owned evidence.                *)
RecomputedKeys ==
  {"status", "reason_code", "profiles", "subject", "workload", "required_horizon", "admitted_prefix",
   "first_failing_gate", "first_decisive_witness", "worst_witness", "witness_counts", "witnesses",
   "evidence_cells"}

(* The receipt the owned tree deserves: root is what was read of its documents.  *)
Rebuilt(root, tree, tool) ==
  BuildRuntimeReviewReceipt(Readmitted(root), OwnedCells(tree), OwnedIdentities(tree.at),
                            OwnedIdentities(root), tool)

RecomputeAndCompare(receipt, root, tree) ==
  /\ RuntimeEvidenceAdmitted(Configuration(root[ConfigLocation]), OwnedCells(tree), OwnedIdentities(tree.at))
  /\ receipt.schema_version = 2 =>
       ReceiptBuilds(Readmitted(root), OwnedCells(tree), OwnedIdentities(tree.at), OwnedIdentities(root))
  /\ \A key \in RecomputedKeys : receipt[key] = Rebuilt(root, tree, receipt.tool)[key]

ReplayAccepted(receipt, root, tree) ==
  /\ LoadRetainedConfiguration(receipt, root[ConfigLocation])
  /\ IF receipt.schema_version = 1
       THEN \A location \in IdentityLocations : root[location] = Absent
       ELSE ParseOwnedProfileIdentitiesV2(receipt, root, tree, Configuration(root[ConfigLocation]))
  /\ RecomputeAndCompare(receipt, root, tree)

(* validate_runtime_review_tree, of a tree that nobody touches meanwhile.        *)
ValidateRuntimeReviewTree(tree) ==
  LET root == RootMembers(tree)
      receipt == root[JsonLocation].receipt IN
  /\ CompleteOwnedTree(tree)
  /\ DocumentsAccepted(root[JsonLocation], root[MarkdownLocation])
  /\ CellsAccepted(receipt.evidence_cells, tree)
  /\ ReplayAccepted(receipt, root, tree)
================================================================================
