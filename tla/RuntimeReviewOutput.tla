-------------------------- MODULE RuntimeReviewOutput --------------------------
(* review-runtime from its configuration to its published output                 *)
(* (runtime_review/_run.py, _owned_output.py): it admits the configuration and    *)
(* the evidence, decides, copies the evidence into a private staging directory    *)
(* of an output directory it has created, writes the receipt beside it, verifies  *)
(* and replays the staged tree, renames it to runtime_review without replacing,   *)
(* replays the published tree and verifies it once more.                        *)
(*                                                                            *)
(* Meanwhile other processes of the same user may change the inputs, any entry of *)
(* the trees and the two names, at most MaxRivals times, and every call may fail. *)
(* A cell is read and written in one step: its members are told apart only by     *)
(* the flags of its content.                                                    *)
EXTENDS ReviewReceipt

CONSTANTS
  Documents,        \* configurations a user may pass, with the file system they meet
  Generations,      \* what a worker may have measured, the same in every cell
  IdentityForms,    \* whether the identity files are written canonically
  MaxRivals

ASSUME RivalsAssumption == MaxRivals \in Nat
ASSUME FormsAssumption == IdentityForms \subseteq BOOLEAN

(* A document that is no JSON object with these keys is not a record here.        *)
ASSUME DocumentsAssumption ==
  \A asking \in Documents :
    /\ {"schema_version", "profiles", "step_dts", "repeat_ids", "cells", "horizon", "output_dir"}
         \subseteq DOMAIN asking.doc
    /\ asking.doc.cells \in Seq(SetOf(asking.doc.cells))

(* A directory is known by its inode; Own is the one staging was created as.     *)
Own == "own"
Foreign == "foreign"
Inodes == {Own, Foreign}

ASSUME NullAssumption == Absent \notin Inodes /\ None # "OK"

Empty == [at |-> [location \in Locations |-> Absent], extra |-> FALSE, linked |-> {}]

--------------------------------------------------------------------------------
(* What a user passes. *)

(* What the evidence directories hold: each cell where the document says.        *)
Evidence(document, generation) ==
  [directory \in {document.cells[i].directory : i \in DOMAIN document.cells} |->
     LET i == CHOOSE i \in DOMAIN document.cells : document.cells[i].directory = directory IN
     [slot |-> document.cells[i].slot, generation |-> generation, six |-> TRUE, summed |-> TRUE, sound |-> TRUE,
      profile |-> IF document.schema_version = 2
                    THEN document.profiles[IF document.cells[i].slot.role = "baseline" THEN 1 ELSE 2].digest
                    ELSE None]]

IdentityFiles(document, canonical) ==
  [r \in {1, 2} |->
     IF document.schema_version = 2
       THEN [role |-> Roles[r], package |-> document.profiles[r].package, integer |-> document.profiles[r].integer,
             digest |-> document.profiles[r].digest, sentinel |-> "PASS", canonical |-> canonical]
       ELSE Absent]

(* The contents of the cells and the receipt of a document that nobody disturbs.  *)
Found(document, generation) ==
  [n \in DOMAIN CanonicalSlots |->
     Evidence(document, generation)[CellDirectories(Configuration(document))[n]]]

Undisturbed(document, generation) ==
  LET admission == Admitted(document, IdentityFiles(document, TRUE)) IN
  BuildRuntimeReviewReceipt(admission, Found(document, generation), admission.identities, admission.identities,
                            RuntimeReviewToolIdentity)

(* A decision has the form the receipt's schema has for it.                      *)
DecisionFormed(decision) ==
  /\ decision.status \in Classes \union {"INSUFFICIENT_EVIDENCE"}
  /\ ReasonKnown(decision.reason) /\ StatusReason(decision.status, decision.reason)
  /\ decision.prefix <= 1 /\ GateSchema(decision.gate)
  /\ \A i \in DOMAIN decision.witnesses : WitnessSchema(decision.witnesses[i])
  /\ WitnessesOrdered(decision.witnesses)
  /\ OptionalWitness(decision.first, decision.witnesses) /\ OptionalWitness(decision.worst, decision.witnesses)
  /\ WitnessCounts(decision.counts, decision.witnesses)

ASSUME DecisionAssumption ==
  \A asking \in Documents, generation \in Generations :
    LoadAdmits(asking.doc, asking.fs) => DecisionFormed(Decision(Found(asking.doc, generation)))

(* No file that a review reads or writes is its own absence, nor null.           *)
ASSUME FilesAssumption ==
  \A asking \in Documents, generation \in Generations :
    LoadAdmits(asking.doc, asking.fs) =>
      LET document == asking.doc
          files == IdentityFiles(document, TRUE) IN
      /\ document # Absent
      /\ \A n \in DOMAIN CanonicalSlots : Found(document, generation)[n] # Absent
      /\ document.schema_version = 2 => \A r \in {1, 2} :
           files[r] # Absent /\ [locator |-> OwnedIdentityLocator(Roles[r]), raw |-> files[r]] # None
      /\ [receipt |-> Undisturbed(document, generation), canonical |-> TRUE] # Absent
      /\ RenderRuntimeReviewMarkdown(Undisturbed(document, generation)) # Absent

VARIABLES
  input,       \* the document, the file system and the identities that are asked for
  sources,     \* directory of the evidence -> content
  identities,  \* the two identity files
  admitted,    \* the admitted configuration
  cells,       \* contents of the admitted cells, in the order of the configuration
  receipt,     \* the receipt built
  output,      \* the output directory: "absent", "foreign" or "created"
  names,       \* entries of the output directory: staging and final -> inode or Absent
  trees,       \* inode -> tree
  fd,          \* the inode the staging descriptor is bound to
  read,        \* the documents of the root, as the validator or the verifier first read them
  pc, slot,    \* program location, and the cell or the role it is at
  result,      \* None while it runs
  rivals,      \* disturbances so far, failing calls included
  unseen       \* history: <<inode, location>> changed since the run last checked it

vars == <<input, sources, identities, admitted, cells, receipt, output, names, trees, fd, read, pc, slot,
          result, rivals, unseen>>
owned == <<output, names, trees, fd, unseen>>
asked == <<input, sources, identities, rivals>>

Config == admitted.config
Second == Config.schema_version = 2
Goto(label) == pc' = label /\ slot' = 1
Refuse(why) == pc' = "done" /\ result' = why /\ UNCHANGED slot

--------------------------------------------------------------------------------
(* Admission. *)

Init ==
  /\ \E asking \in Documents, generation \in Generations, canonical \in IdentityForms :
       /\ input = [doc |-> asking.doc, fs |-> asking.fs, canonical |-> canonical]
       /\ sources = Evidence(asking.doc, generation)
       /\ identities = IdentityFiles(asking.doc, canonical)
  /\ admitted = None /\ cells = <<>> /\ receipt = None
  /\ output = "absent" /\ names = [staging |-> Absent, final |-> Absent]
  /\ trees = [inode \in Inodes |-> Empty] /\ fd = Absent /\ read = None
  /\ pc = "load" /\ slot = 1 /\ result = None
  /\ rivals = 0 /\ unseen = {}

(* load_runtime_review_configuration; every error of its is a refusal (64).      *)
LoadConfiguration ==
  /\ pc = "load"
  /\ IF LoadAdmits(input.doc, input.fs)
       THEN /\ admitted' = Admitted(input.doc, identities)
            /\ Goto("admit") /\ UNCHANGED result
       ELSE Refuse("PARSE") /\ UNCHANGED admitted
  /\ UNCHANGED <<asked, cells, receipt, owned, read>>

AdmitEvidence ==
  LET found == [n \in DOMAIN Config.cells |-> sources[admitted.directories[n]]] IN
  /\ pc = "admit"
  /\ IF RuntimeEvidenceAdmitted(Config, found, identities)
       THEN cells' = found /\ Goto("create") /\ UNCHANGED result
       ELSE Refuse("PARSE") /\ UNCHANGED cells
  /\ UNCHANGED <<asked, admitted, receipt, owned, read>>

--------------------------------------------------------------------------------
(* Staging. *)

(* The evidence directories an entry of this path is made in, or below.          *)
Dirtied(path) == {directory \in DOMAIN sources : directory # path /\ directory \in Prefixes(path)}

(* _create_owned_output_root: every missing component is created, the last one    *)
(* must be.                                                                     *)
CreateOwnedOutputRoot ==
  /\ pc = "create"
  /\ IF output = "absent"
       THEN /\ output' = "created"
            /\ sources' = [d \in DOMAIN sources |->
                             IF d \in Dirtied(Config.output_dir) /\ sources[d] # Absent
                               THEN [sources[d] EXCEPT !.six = FALSE] ELSE sources[d]]
            /\ Goto("stage") /\ UNCHANGED result
       ELSE Refuse("WRITE") /\ UNCHANGED <<output, sources>>
  /\ UNCHANGED <<input, identities, rivals, admitted, cells, receipt, names, trees, fd, read, unseen>>

(* mkdir of the staging directory, which must not exist.                        *)
MakeStaging ==
  /\ pc = "stage"
  /\ IF names.staging = Absent
       THEN names' = [names EXCEPT !.staging = Own] /\ Goto("open") /\ UNCHANGED result
       ELSE Refuse("WRITE") /\ UNCHANGED names
  /\ UNCHANGED <<asked, admitted, cells, receipt, output, trees, fd, read, unseen>>

(* It is opened by its name, whatever directory the name leads to by now.        *)
OpenStaging ==
  /\ pc = "open"
  /\ IF names.staging # Absent
       THEN fd' = names.staging /\ Goto("config") /\ UNCHANGED result
       ELSE Refuse("WRITE") /\ UNCHANGED fd
  /\ UNCHANGED <<asked, admitted, cells, receipt, output, names, trees, read, unseen>>

(* _write_new_file: O_EXCL, written out and synced.                              *)
WriteNewFile(location, content, next) ==
  IF trees[fd].at[location] = Absent
    THEN /\ trees' = [trees EXCEPT ![fd].at[location] = content]
         /\ unseen' = unseen \ {<<fd, location>>}
         /\ pc' = next /\ UNCHANGED <<slot, result>>
    ELSE Refuse("WRITE") /\ UNCHANGED <<trees, unseen>>

WriteConfiguration ==
  /\ pc = "config"
  /\ WriteNewFile(ConfigLocation, admitted.raw, "copy")
  /\ UNCHANGED <<asked, admitted, cells, receipt, output, names, fd, read>>

CellLocation == OwnedCellLocator(Config.cells[slot].slot)

(* _copy_cell: the source must still be what was admitted ...                    *)
CopyCell ==
  /\ pc = "copy"
  /\ IF sources[admitted.directories[slot]] = cells[slot]
       THEN WriteNewFile(CellLocation, sources[admitted.directories[slot]], "copied")
       ELSE Refuse("WRITE") /\ UNCHANGED <<trees, unseen>>
  /\ UNCHANGED <<asked, admitted, cells, receipt, output, names, fd, read>>

(* The file at a location of the staging directory, or of the one a name leads to. *)
Single(inode, location) == location \notin trees[inode].linked /\ trees[inode].at[location] # Absent

(* ... and so must the copy.                                                    *)
RereadCell ==
  /\ pc = "copied"
  /\ IF Single(fd, CellLocation) /\ trees[fd].at[CellLocation] = cells[slot]
       THEN /\ IF slot < Len(Config.cells) THEN pc' = "copy" /\ slot' = slot + 1
                                           ELSE Goto(IF Second THEN "identity" ELSE "build")
            /\ unseen' = unseen \ {<<fd, CellLocation>>} /\ UNCHANGED result
       ELSE Refuse("WRITE") /\ UNCHANGED unseen
  /\ UNCHANGED <<asked, admitted, cells, receipt, output, names, trees, fd, read>>

(* copy_profile_identities: the bytes the configuration was admitted with.       *)
CopyProfileIdentity ==
  /\ pc = "identity"
  /\ IF identities[slot] = admitted.identities[slot]
       THEN WriteNewFile(OwnedIdentityLocator(Roles[slot]), identities[slot], "identified")
       ELSE Refuse("WRITE") /\ UNCHANGED <<trees, unseen>>
  /\ UNCHANGED <<asked, admitted, cells, receipt, output, names, fd, read>>

RereadProfileIdentity ==
  LET location == OwnedIdentityLocator(Roles[slot]) IN
  /\ pc = "identified"
  /\ IF Single(fd, location) /\ trees[fd].at[location] = admitted.identities[slot]
       THEN /\ IF slot = 1 THEN pc' = "identity" /\ slot' = 2 ELSE Goto("build")
            /\ unseen' = unseen \ {<<fd, location>>} /\ UNCHANGED result
       ELSE Refuse("WRITE") /\ UNCHANGED unseen
  /\ UNCHANGED <<asked, admitted, cells, receipt, output, names, trees, fd, read>>

BuildReceipt ==
  /\ pc = "build"
  /\ IF ReceiptBuilds(admitted, cells, admitted.identities, admitted.identities)
       THEN /\ receipt' = BuildRuntimeReviewReceipt(admitted, cells, admitted.identities, admitted.identities,
                                                    RuntimeReviewToolIdentity)
            /\ Goto("json") /\ UNCHANGED result
       ELSE Refuse("INTERNAL") /\ UNCHANGED receipt
  /\ UNCHANGED <<asked, admitted, cells, owned, read>>

WriteJson ==
  /\ pc = "json"
  /\ WriteNewFile(JsonLocation, [receipt |-> receipt, canonical |-> TRUE], "markdown")
  /\ UNCHANGED <<asked, admitted, cells, receipt, output, names, fd, read>>

WriteMarkdown ==
  /\ pc = "markdown"
  /\ WriteNewFile(MarkdownLocation, RenderRuntimeReviewMarkdown(receipt), "verify")
  /\ UNCHANGED <<asked, admitted, cells, receipt, output, names, fd, read>>

IdentitiesCopied == IF Second THEN IdentityLocations ELSE {}

(* What the run wants at each location.                                         *)
Wanted(location) ==
  CASE location = ConfigLocation -> admitted.raw
    [] location = JsonLocation -> [receipt |-> receipt, canonical |-> TRUE]
    [] location = MarkdownLocation -> RenderRuntimeReviewMarkdown(receipt)
    [] location \in IdentityLocations ->
         IF Second THEN admitted.identities[IF location = OwnedIdentityLocator("baseline") THEN 1 ELSE 2] ELSE Absent
    [] OTHER -> cells[CHOOSE n \in DOMAIN CanonicalSlots : OwnedCellLocator(CanonicalSlots[n]) = location]

(* _verify_staging: through the descriptor; of the receipt and the page it only   *)
(* asks that they can be read.                                                  *)
VerifyStaging ==
  LET compared == {ConfigLocation} \union CellLocations \union IdentitiesCopied IN
  /\ pc = "verify"
  /\ IF /\ \A location \in compared : Single(fd, location) /\ trees[fd].at[location] = Wanted(location)
        /\ Single(fd, JsonLocation) /\ Single(fd, MarkdownLocation)
       THEN Goto("root") /\ unseen' = unseen \ ({fd} \X compared) /\ UNCHANGED result
       ELSE Refuse("WRITE") /\ UNCHANGED unseen
  /\ UNCHANGED <<asked, admitted, cells, receipt, output, names, trees, fd, read>>

--------------------------------------------------------------------------------
(* validate_runtime_review_tree, by path: first of the staged tree (slot = 1), as *)
(* the validator before publication, then of the published one (slot = 2).       *)

Name == IF slot = 1 THEN "staging" ELSE "final"
There == names[Name]
Tree == trees[There]

ReadRoot ==
  /\ pc = "root"
  /\ IF There # Absent /\ CompleteOwnedTree(Tree)
       THEN IF DocumentsAccepted(Tree.at[JsonLocation], Tree.at[MarkdownLocation])
              THEN read' = RootMembers(Tree) /\ pc' = "cells" /\ UNCHANGED <<slot, result>>
              ELSE Refuse("INTERNAL") /\ UNCHANGED read
       ELSE Refuse("WRITE") /\ UNCHANGED read
  /\ UNCHANGED <<asked, admitted, cells, receipt, owned>>

ReceiptRead == read[JsonLocation].receipt

ValidateCells ==
  /\ pc = "cells"
  /\ IF ~ParseOwnedEvidenceCells(ReceiptRead.evidence_cells) THEN Refuse("INTERNAL")
     ELSE IF There # Absent /\ CellsAccepted(ReceiptRead.evidence_cells, Tree)
       THEN pc' = "replay" /\ UNCHANGED <<slot, result>>
       ELSE Refuse("WRITE")
  /\ UNCHANGED <<asked, admitted, cells, receipt, owned, read>>

Replay ==
  /\ pc = "replay"
  /\ IF There # Absent /\ ReplayAccepted(ReceiptRead, read, Tree)
       THEN pc' = "recells" /\ UNCHANGED <<slot, result>>
       ELSE Refuse("INTERNAL")
  /\ UNCHANGED <<asked, admitted, cells, receipt, owned, read>>

RevalidateCells ==
  /\ pc = "recells"
  /\ IF There # Absent /\ CellsAccepted(ReceiptRead.evidence_cells, Tree)
       THEN /\ unseen' = unseen \ ({There} \X CellLocations)
            /\ pc' = "reroot" /\ UNCHANGED <<slot, result>>
       ELSE Refuse("WRITE") /\ UNCHANGED unseen
  /\ UNCHANGED <<asked, admitted, cells, receipt, output, names, trees, fd, read>>

DocumentLocations == RootLocations \union IdentityLocations

(* What was read at first must still be there. The mutant does not compare.      *)
RootUnchangedMutant(tree) == TRUE
RootUnchanged(tree) == RootMembers(tree) = read

RereadRoot ==
  /\ pc = "reroot"
  /\ IF There # Absent /\ CompleteOwnedTree(Tree)
       THEN IF RootUnchanged(Tree)
              THEN /\ unseen' = unseen \ ({There} \X DocumentLocations)
                   /\ pc' = (IF slot = 1 THEN "stat" ELSE "compare") /\ UNCHANGED <<slot, result>>
              ELSE Refuse("INTERNAL") /\ UNCHANGED unseen
       ELSE Refuse("WRITE") /\ UNCHANGED unseen
  /\ UNCHANGED <<asked, admitted, cells, receipt, output, names, trees, fd, read>>

--------------------------------------------------------------------------------
(* Publication, and the checks behind it. *)

ProbeFinal ==
  /\ pc = "stat"
  /\ IF names.final = Absent THEN pc' = "rename" /\ UNCHANGED <<slot, result>> ELSE Refuse("WRITE")
  /\ UNCHANGED <<asked, admitted, cells, receipt, owned, read>>

(* _rename_directory_noreplace: whatever directory the staging name leads to.     *)
Rename ==
  IF names.staging # Absent /\ names.final = Absent
    THEN [staging |-> Absent, final |-> names.staging] ELSE names

PublishOutput ==
  /\ pc = "rename"
  /\ names' = Rename
  /\ IF names' # names THEN pc' = "root" /\ slot' = 2 /\ UNCHANGED result ELSE Refuse("WRITE")
  /\ UNCHANGED <<asked, admitted, cells, receipt, output, trees, fd, read, unseen>>

(* The document that was replayed must be the one that was built.                *)
CompareReceipts ==
  /\ pc = "compare"
  /\ IF ReceiptRead = receipt THEN pc' = "bound" /\ UNCHANGED <<slot, result>> ELSE Refuse("WRITE")
  /\ UNCHANGED <<asked, admitted, cells, receipt, owned, read>>

(* _read_bound_published_root: the name must lead to the directory that was       *)
(* staged. Mutant: to any complete tree.                                        *)
BoundPublishedRootMutant == names.final # Absent /\ CompleteOwnedTree(trees[names.final])

BoundPublishedRoot ==
  /\ names.final # Absent
  /\ names.final = fd
  /\ CompleteOwnedTree(trees[names.final])

VerifyPublishedRoot ==
  /\ pc = "bound"
  /\ IF BoundPublishedRoot /\ \A location \in RootLocations : Tree.at[location] = Wanted(location)
       THEN read' = RootMembers(Tree) /\ pc' = "boundcells" /\ UNCHANGED <<slot, result>>
       ELSE Refuse("WRITE") /\ UNCHANGED read
  /\ UNCHANGED <<asked, admitted, cells, receipt, owned>>

VerifyPublishedCells ==
  /\ pc = "boundcells"
  /\ IF /\ There # Absent /\ CellsAccepted(receipt.evidence_cells, Tree)
        /\ \A location \in IdentitiesCopied : read[location] = Wanted(location)
       THEN /\ unseen' = unseen \ ({There} \X CellLocations)
            /\ pc' = "boundagain" /\ UNCHANGED <<slot, result>>
       ELSE Refuse("WRITE") /\ UNCHANGED unseen
  /\ UNCHANGED <<asked, admitted, cells, receipt, output, names, trees, fd, read>>

VerifyPublishedAgain ==
  /\ pc = "boundagain"
  /\ IF BoundPublishedRoot /\ RootMembers(Tree) = read
       THEN Refuse("OK") /\ unseen' = unseen \ ({There} \X DocumentLocations)
       ELSE Refuse("WRITE") /\ UNCHANGED unseen
  /\ UNCHANGED <<asked, admitted, cells, receipt, output, names, trees, fd, read>>

(* Any call may fail: OSError. What was made so far stays.                       *)
Fault ==
  /\ pc # "done" /\ rivals < MaxRivals
  /\ rivals' = rivals + 1
  /\ Refuse(CASE pc \in {"load", "admit"} -> "IO" [] pc = "replay" -> "INTERNAL" [] OTHER -> "WRITE")
  /\ UNCHANGED <<input, sources, identities, admitted, cells, receipt, owned, read>>

--------------------------------------------------------------------------------
(* Other processes. *)

Rival == pc # "done" /\ rivals < MaxRivals /\ rivals' = rivals + 1
run == <<input, admitted, cells, receipt, fd, read, pc, slot, result>>

OtherGenerations(generation) == Generations \ {generation}

Regenerated(content) == {[content EXCEPT !.generation = other] : other \in OtherGenerations(content.generation)}

(* A source directory loses or gains a member, or is replaced by another cell's.  *)
RivalSource ==
  /\ Rival /\ pc \in {"load", "admit", "create", "stage", "open", "config", "copy", "copied"}
  /\ \E directory \in DOMAIN sources :
       /\ sources[directory] # Absent
       /\ \E content \in {Absent, [sources[directory] EXCEPT !.six = FALSE]} \union Regenerated(sources[directory]) :
            sources' = [sources EXCEPT ![directory] = content]
  /\ UNCHANGED <<run, owned, identities>>

RivalIdentity ==
  /\ Rival /\ input.doc.schema_version = 2
  /\ pc \in {"load", "admit", "create", "stage", "open", "config", "copy", "copied", "identity", "identified"}
  /\ \E r \in {1, 2} :
       /\ identities[r] # Absent
       /\ \E content \in {Absent, [identities[r] EXCEPT !.canonical = ~@]} :
            identities' = [identities EXCEPT ![r] = content]
  /\ UNCHANGED <<run, owned, sources>>

(* The output directory, the staging name or the final name is taken.            *)
RivalName ==
  /\ Rival /\ trees[Foreign] = Empty /\ Foreign \notin {names.staging, names.final}
  /\ \/ output = "absent" /\ output' = "foreign" /\ UNCHANGED names
     \/ /\ output = "created"
        /\ \E name \in {"staging", "final"} : names[name] = Absent /\ names' = [names EXCEPT ![name] = Foreign]
        /\ UNCHANGED output
  /\ unseen' = unseen \union ({Foreign} \X Locations)
  /\ UNCHANGED <<run, trees, fd, sources, identities>>

(* The finished tree of a review of other evidence, of the same configuration.   *)
OtherTree(other) ==
  LET changed == [n \in DOMAIN cells |-> [cells[n] EXCEPT !.generation = other]]
      document == BuildRuntimeReviewReceipt(admitted, changed, admitted.identities, admitted.identities,
                                            RuntimeReviewToolIdentity) IN
  [Empty EXCEPT !.at = [location \in Locations |->
     IF location = JsonLocation THEN [receipt |-> document, canonical |-> TRUE]
     ELSE IF location = MarkdownLocation THEN RenderRuntimeReviewMarkdown(document)
     ELSE IF location \in CellLocations
            THEN changed[CHOOSE n \in DOMAIN CanonicalSlots : OwnedCellLocator(CanonicalSlots[n]) = location]
     ELSE Wanted(location)]]

(* What a name leads to is moved away, and nothing, a copy of it, or a finished   *)
(* tree of another review is put in its place.                                  *)
RivalSwap ==
  /\ Rival /\ trees[Foreign] = Empty
  /\ \E name \in {"staging", "final"} :
       /\ names[name] = Own
       /\ \/ names' = [names EXCEPT ![name] = Absent] /\ UNCHANGED <<trees, unseen>>
          \/ /\ receipt # None
             /\ names' = [names EXCEPT ![name] = Foreign]
             /\ \E tree \in {trees[Own]} \union {OtherTree(g) : g \in OtherGenerations(cells[1].generation)} :
                  trees' = [trees EXCEPT ![Foreign] = tree]
             /\ unseen' = unseen \union ({Foreign} \X Locations)
  /\ UNCHANGED <<run, output, fd, sources, identities>>

(* The files a rival may leave at a location, given what is there.               *)
Alterations(location, content) ==
  IF content = Absent
    THEN IF location \in CellLocations THEN {cells[1]}
         ELSE IF location = ConfigLocation THEN {[admitted.raw EXCEPT !.horizon = 2]} ELSE {}
    ELSE {Absent} \union
         CASE location = ConfigLocation -> {[content EXCEPT !.cells = CanonicalCells(@), !.horizon = 2]}
           [] location = JsonLocation ->
                {[content EXCEPT !.canonical = FALSE],
                 [content EXCEPT !.receipt.receipt_sha256 = "stale"],
                 [content EXCEPT !.receipt.tool = [@ EXCEPT !.version = "other", !.distribution = "other"]],
                 [content EXCEPT !.receipt.worst_witness = None, !.receipt.witnesses = <<>>,
                                 !.receipt.witness_counts = CountsOf(<<>>)]}
           [] location = MarkdownLocation -> {RenderRuntimeReviewMarkdown(None)}
           [] location \in IdentityLocations -> {[content EXCEPT !.canonical = ~@]}
           [] OTHER -> {[content EXCEPT !.summed = FALSE]} \union Regenerated(content)

(* An entry of a directory the two names lead to is changed, or gets a second     *)
(* name, or a stranger beside it.                                               *)
RivalEntry ==
  /\ Rival /\ fd # Absent
  /\ \E inode \in {names.staging, names.final} \ {Absent} :
       \/ \E location \in Locations : \E content \in Alterations(location, trees[inode].at[location]) :
            /\ trees' = [trees EXCEPT ![inode].at[location] = content]
            /\ unseen' = unseen \union {<<inode, location>>}
       \/ \E location \in Locations :
            /\ trees[inode].at[location] # Absent
            /\ trees' = [trees EXCEPT ![inode].linked = @ \union {location}]
            /\ unseen' = unseen \union {<<inode, location>>}
       \/ trees' = [trees EXCEPT ![inode].extra = TRUE] /\ UNCHANGED unseen
  /\ UNCHANGED <<run, output, names, fd, sources, identities>>

Done == pc = "done" /\ UNCHANGED vars

Run ==
  \/ LoadConfiguration \/ AdmitEvidence
  \/ CreateOwnedOutputRoot \/ MakeStaging \/ OpenStaging \/ WriteConfiguration
  \/ CopyCell \/ RereadCell \/ CopyProfileIdentity \/ RereadProfileIdentity
  \/ BuildReceipt \/ WriteJson \/ WriteMarkdown \/ VerifyStaging
  \/ ReadRoot \/ ValidateCells \/ Replay \/ RevalidateCells \/ RereadRoot
  \/ ProbeFinal \/ PublishOutput \/ CompareReceipts
  \/ VerifyPublishedRoot \/ VerifyPublishedCells \/ VerifyPublishedAgain

Rivals == RivalSource \/ RivalIdentity \/ RivalName \/ RivalSwap \/ RivalEntry

Next == Run \/ Fault \/ Rivals \/ Done

Spec == Init /\ [][Next]_vars

--------------------------------------------------------------------------------
(* Properties. *)

(* A success speaks of the directory that was staged, and everything in it that   *)
(* nobody changed after it was last checked is what was admitted, decided and     *)
(* rendered: no check may be missing between two that look alike.               *)
SuccessIsWhole ==
  result = "OK" /\ names.final # Absent =>
    \A location \in Locations : <<names.final, location>> \notin unseen =>
      /\ names.final = fd
      /\ trees[fd].at[location] = Wanted(location) /\ location \notin trees[fd].linked

Exposes == pc = "rename" /\ names.staging # Absent /\ names'.final = names.staging

(* The tree the rename exposes was checked piece by piece, by path and by        *)
(* descriptor, while others could write: unless a piece changed after its last    *)
(* check, it is one tree that a reader validates.                               *)
ExposedIsConsistent ==
  [][Exposes /\ (\A location \in Locations : <<names.staging, location>> \notin unseen)
       /\ ~trees[names.staging].extra
       => ValidateRuntimeReviewTree(trees[names.staging])]_vars

(* No step of the run replaces an entry of a directory, whoever made it, nor a    *)
(* published name, nor an output directory that was there.                      *)
NeverOverwrites ==
  [][Run =>
       /\ \A inode \in Inodes : \A location \in Locations :
            trees[inode].at[location] # Absent => trees'[inode].at[location] = trees[inode].at[location]
       /\ names.final # Absent => names'.final = names.final
       /\ output = "foreign" => output' = "foreign"]_vars

(* What it builds it accepts: whatever the order of the document, the route and   *)
(* the decision, a configuration that is admitted is reviewed, unless an identity *)
(* file is not written canonically.                                             *)
UndisturbedReviewSucceeds ==
  pc = "done" /\ rivals = 0 /\ input.canonical => (result = "OK" <=> LoadAdmits(input.doc, input.fs))
================================================================================
