----------------------- MODULE RuntimeReviewOutputProofs -----------------------
(* What a receipt that validates says, that a review replaces nothing, what its   *)
(* success and its output are worth, and that it succeeds if nobody interferes,   *)
(* for every grid, every decision, every set of documents, any number of rivals. *)
EXTENDS RuntimeReviewOutput, FiniteSetTheorems, TLAPS

(* The keys of a configuration the lemmas look at.                               *)
Keyed(raw) == {"schema_version", "step_dts", "repeat_ids", "cells", "horizon"} \subseteq DOMAIN raw

LEMMA ConfigurationKeeps ==
  ASSUME NEW raw, Keyed(raw)
  PROVE  /\ Configuration(raw).schema_version = raw.schema_version
         /\ Configuration(raw).step_dts = StepDts
         /\ Configuration(raw).repeat_ids = RepeatIds
         /\ Configuration(raw).horizon = raw.horizon
<1>1. Configuration(raw) = [key \in DOMAIN raw |->
         IF key = "cells" THEN CanonicalCells(raw.cells)
         ELSE IF key = "repeat_ids" THEN RepeatIds
         ELSE IF key = "step_dts" THEN StepDts ELSE raw[key]]
  BY Zenon DEF Configuration
<1> QED BY <1>1, SMT DEF Keyed

(* Nothing in a receipt that validates is left to whoever wrote it: every field   *)
(* but the tool is the one the reader computes from the configuration, the        *)
(* identities and the evidence beside it.                                       *)
THEOREM ValidatedReceiptIsRebuilt ==
  ASSUME NEW tree, Keyed(tree.at[ConfigLocation]), ValidateRuntimeReviewTree(tree)
  PROVE  \A key \in ReceiptKeys \ {"tool"} :
           tree.at[JsonLocation].receipt[key]
             = Rebuilt(RootMembers(tree), tree, tree.at[JsonLocation].receipt.tool)[key]
<1> DEFINE root == RootMembers(tree)
           raw == tree.at[ConfigLocation]
           claimed == tree.at[JsonLocation].receipt
           rebuilt == Rebuilt(root, tree, claimed.tool)
<1>1. root[JsonLocation] = tree.at[JsonLocation] /\ root[ConfigLocation] = raw
  BY Zenon DEF RootMembers, RootLocations
<1>2. /\ claimed.schema = "metrifid.runtime_review_receipt"
      /\ claimed.method = "CONDITIONAL_TAIL_ENVELOPE" /\ claimed.claim_scope = "FULL_HORIZON"
      /\ ConfigurationSchema(claimed.configuration) /\ CampaignSchema(claimed.campaign_shape)
      /\ claimed.limitations = "frozen"
  BY <1>1, Zenon DEF ValidateRuntimeReviewTree, DocumentsAccepted, ValidateDocumentSchema
<1>3. claimed.receipt_sha256 = "recomputes"
  BY <1>1, Zenon DEF ValidateRuntimeReviewTree, DocumentsAccepted, ValidateSelfHash
<1>4. ReplayAccepted(claimed, root, tree)
  BY <1>1, Zenon DEF ValidateRuntimeReviewTree
<1>5. /\ claimed.configuration.raw = raw
      /\ claimed.configuration.semantic = ToPrimitive(Configuration(raw))
      /\ raw.schema_version = claimed.schema_version
  BY <1>1, <1>4, Zenon DEF ReplayAccepted, LoadRetainedConfiguration
<1>6. \A key \in RecomputedKeys : claimed[key] = rebuilt[key]
  BY <1>4, Zenon DEF ReplayAccepted, RecomputeAndCompare
<1>7. /\ Readmitted(root).config = Configuration(raw) /\ Readmitted(root).raw = raw
      /\ Readmitted(root).semantic = ToPrimitive(Configuration(raw))
  BY <1>1, Zenon DEF Readmitted
<1>8. /\ rebuilt.schema = "metrifid.runtime_review_receipt"
      /\ rebuilt.schema_version = Configuration(raw).schema_version
      /\ rebuilt.method = "CONDITIONAL_TAIL_ENVELOPE" /\ rebuilt.claim_scope = "FULL_HORIZON"
      /\ rebuilt.configuration
           = [locator |-> ConfigLocation, raw |-> raw, semantic |-> ToPrimitive(Configuration(raw))]
      /\ rebuilt.campaign_shape
           = [step_dts |-> Configuration(raw).step_dts, repeat_ids |-> Configuration(raw).repeat_ids,
              cell_count |-> Len(CanonicalSlots)]
      /\ rebuilt.limitations = "frozen" /\ rebuilt.receipt_sha256 = "recomputes"
  BY <1>7, Zenon DEF Rebuilt, BuildRuntimeReviewReceipt
<1>9. claimed.schema_version = rebuilt.schema_version
  BY <1>5, <1>8, ConfigurationKeeps, Zenon
<1>10. claimed.configuration = rebuilt.configuration
  BY <1>2, <1>5, <1>8, Zenon DEF ConfigurationSchema
<1>11. claimed.campaign_shape = rebuilt.campaign_shape
  BY <1>2, <1>8, ConfigurationKeeps, Zenon DEF CampaignSchema
<1> HIDE DEF claimed, rebuilt, root, raw
<1>12. \A key \in ReceiptKeys \ {"tool"} : claimed[key] = rebuilt[key]
  BY <1>2, <1>3, <1>6, <1>8, <1>9, <1>10, <1>11, SMT DEF ReceiptKeys, RecomputedKeys
<1> QED BY <1>12, Zenon DEF claimed, rebuilt, root

(* Two trees with the same configuration, identities and evidence that validate   *)
(* carry the same receipt, but for the tool: the evidence determines the verdict. *)
THEOREM EvidenceDeterminesReceipt ==
  ASSUME NEW left, NEW right,
         Keyed(left.at[ConfigLocation]), ValidateRuntimeReviewTree(left), ValidateRuntimeReviewTree(right),
         \A location \in Locations \ {JsonLocation, MarkdownLocation} : left.at[location] = right.at[location]
  PROVE  \A key \in ReceiptKeys \ {"tool"} :
           left.at[JsonLocation].receipt[key] = right.at[JsonLocation].receipt[key]
<1> DEFINE Same(location) == left.at[location] = right.at[location]
           l == RootMembers(left)
           r == RootMembers(right)
           tool == left.at[JsonLocation].receipt.tool
           other == right.at[JsonLocation].receipt.tool
<1>1. Same(ConfigLocation)
  <2>1. ConfigLocation \notin {JsonLocation, MarkdownLocation}
    BY DEF ConfigLocation, JsonLocation, MarkdownLocation
  <2> QED BY <2>1, Zenon DEF Locations, RootLocations
<1>2. \A role \in SetOf(Roles) : Same(OwnedIdentityLocator(role))
  <2>1. \A role : OwnedIdentityLocator(role) \notin {JsonLocation, MarkdownLocation}
    BY DEF OwnedIdentityLocator, IdentityFile, JsonLocation, MarkdownLocation
  <2> QED BY <2>1, Zenon DEF Locations, IdentityLocations
<1>3. \A n \in DOMAIN CanonicalSlots : Same(OwnedCellLocator(CanonicalSlots[n]))
  <2>1. \A slt : OwnedCellLocator(slt) \notin {JsonLocation, MarkdownLocation}
    BY DEF OwnedCellLocator, JsonLocation, MarkdownLocation
  <2>2. \A n \in DOMAIN CanonicalSlots : OwnedCellLocator(CanonicalSlots[n]) \in CellLocations
    BY Zenon DEF CellLocations, Slots, SetOf
  <2> QED BY <2>1, <2>2, Zenon DEF Locations
<1>4. \A i \in {1, 2} : Roles[i] \in SetOf(Roles)
  BY DEF SetOf, Roles
<1>5. OwnedCells(left) = OwnedCells(right)
  BY <1>3, Zenon DEF OwnedCells
<1>6. OwnedIdentities(left.at) = OwnedIdentities(right.at)
  BY <1>2, <1>4, Zenon DEF OwnedIdentities
<1>7. OwnedIdentities(l) = OwnedIdentities(r)
  <2>1. \A role \in SetOf(Roles) : /\ l[OwnedIdentityLocator(role)] = left.at[OwnedIdentityLocator(role)]
                                   /\ r[OwnedIdentityLocator(role)] = right.at[OwnedIdentityLocator(role)]
    BY Zenon DEF RootMembers, IdentityLocations
  <2> QED BY <1>2, <1>4, <2>1, Zenon DEF OwnedIdentities
<1>8. l[ConfigLocation] = r[ConfigLocation]
  BY <1>1, Zenon DEF RootMembers, RootLocations
<1>9. Readmitted(l) = Readmitted(r)
  BY <1>7, <1>8, Zenon DEF Readmitted
<1>10. \A key \in ReceiptKeys \ {"tool"} : Rebuilt(l, left, tool)[key] = Rebuilt(r, right, other)[key]
  <2> DEFINE a == Readmitted(l)
             c == OwnedCells(left)
             o == OwnedIdentities(left.at)
             w == OwnedIdentities(l)
             B(t) == BuildRuntimeReviewReceipt(a, c, o, w, t)
  <2>1. Rebuilt(l, left, tool) = B(tool) /\ Rebuilt(r, right, other) = B(other)
    BY <1>5, <1>6, <1>7, <1>9, Zenon DEF Rebuilt
  <2> HIDE DEF a, c, o, w, tool, other
  <2>2. \A key \in ReceiptKeys \ {"tool"} : B(tool)[key] = B(other)[key]
    BY SMT DEF BuildRuntimeReviewReceipt, ReceiptKeys
  <2> HIDE DEF B
  <2> QED BY <2>1, <2>2, Zenon
<1>11. Keyed(right.at[ConfigLocation])
  BY <1>1, Zenon
<1> QED BY <1>10, <1>11, ValidatedReceiptIsRebuilt, Zenon

--------------------------------------------------------------------------------
(* A tree is a record and what it holds is a function of the location.           *)
IsTree(tree) ==
  /\ tree = [at |-> tree.at, extra |-> tree.extra, linked |-> tree.linked]
  /\ tree.at = [location \in Locations |-> tree.at[location]]

(* The two names, and the directories by inode: what EXCEPT needs to mean a      *)
(* change of one entry.                                                         *)
ShapeInv ==
  /\ names = [staging |-> names.staging, final |-> names.final]
  /\ trees = [inode \in Inodes |-> trees[inode]]
  /\ \A inode \in Inodes : IsTree(trees[inode])

(* new has the entries of trees, but for one at most.                            *)
Apart(new, inode, location) ==
  \A i \in Inodes : \A l \in Locations : i # inode \/ l # location => new[i].at[l] = trees[i].at[l]

(* A change of one entry of one tree leaves a tree, and the other entries.        *)
LEMMA EntryChange ==
  ASSUME ShapeInv, NEW inode, NEW location, NEW content,
         NEW new, new = [trees EXCEPT ![inode].at[location] = content]
  PROVE  /\ new = [i \in Inodes |-> new[i]]
         /\ \A i \in Inodes : IsTree(new[i])
         /\ Apart(new, inode, location)
<1>1. new = [i \in Inodes |-> IF i = inode THEN [trees[inode] EXCEPT !.at[location] = content] ELSE trees[i]]
  BY Zenon DEF ShapeInv
<1>2. ASSUME NEW i \in Inodes
      PROVE  /\ IsTree(new[i])
             /\ \A l \in Locations : i # inode \/ l # location => new[i].at[l] = trees[i].at[l]
  <2>1. CASE i # inode
    BY <1>1, <2>1, Zenon DEF ShapeInv
  <2>2. CASE i = inode
    <3> DEFINE t == trees[i]
               u == [t EXCEPT !.at[location] = content]
    <3>1. new[i] = u
      BY <1>1, <2>2, Zenon
    <3>2. IsTree(t)
      BY Zenon DEF ShapeInv
    <3> HIDE DEF t
    <3>3. u = [at |-> [t.at EXCEPT ![location] = content], extra |-> t.extra, linked |-> t.linked]
      BY <3>2 DEF IsTree
    <3>4. [t.at EXCEPT ![location] = content]
            = [l \in Locations |-> IF l = location THEN content ELSE t.at[l]]
      BY <3>2, Zenon DEF IsTree
    <3> DEFINE at == [l \in Locations |-> IF l = location THEN content ELSE t.at[l]]
    <3>5. u.at = at /\ u = [at |-> u.at, extra |-> u.extra, linked |-> u.linked]
      BY <3>3, <3>4
    <3>6. at = [l \in Locations |-> at[l]] /\ \A l \in Locations : l # location => at[l] = t.at[l]
      BY Zenon
    <3> HIDE DEF u, at
    <3> QED BY <2>2, <3>1, <3>5, <3>6, Zenon DEF IsTree, t
  <2> QED BY <2>1, <2>2
<1> QED BY <1>1, <1>2, Zenon DEF Apart

(* A record with the fields of a tree whose entries are given by location.       *)
LEMMA TreeOf ==
  ASSUME NEW at, NEW extra, NEW linked, at = [location \in Locations |-> at[location]]
  PROVE  IsTree([at |-> at, extra |-> extra, linked |-> linked])
<1> DEFINE t == [at |-> at, extra |-> extra, linked |-> linked]
<1>1. t.at = at /\ t = [at |-> t.at, extra |-> t.extra, linked |-> t.linked]
  OBVIOUS
<1> HIDE DEF t
<1>2. IsTree(t)
  BY <1>1, Zenon DEF IsTree
<1> QED BY <1>2, Zenon DEF t

LEMMA WriteKeepsShape ==
  ASSUME ShapeInv, NEW location, NEW content, NEW next, WriteNewFile(location, content, next), UNCHANGED names
  PROVE  ShapeInv'
<1>1. CASE trees[fd].at[location] = Absent
  <2>1. trees' = [trees EXCEPT ![fd].at[location] = content]
    BY <1>1, Zenon DEF WriteNewFile
  <2> QED BY <2>1, EntryChange, Zenon DEF ShapeInv
<1>2. CASE trees[fd].at[location] # Absent
  BY <1>2, Zenon DEF WriteNewFile, ShapeInv, Refuse
<1> QED BY <1>1, <1>2

LEMMA WriteReplacesNothing ==
  ASSUME ShapeInv, NEW location, NEW content, NEW next, WriteNewFile(location, content, next)
  PROVE  \A inode \in Inodes : \A l \in Locations :
           trees[inode].at[l] # Absent => trees'[inode].at[l] = trees[inode].at[l]
<1>1. CASE trees[fd].at[location] = Absent
  <2>1. trees' = [trees EXCEPT ![fd].at[location] = content]
    BY <1>1, Zenon DEF WriteNewFile
  <2>2. Apart(trees', fd, location)
    BY <2>1, EntryChange, Zenon
  <2> QED BY <1>1, <2>2 DEF Apart
<1>2. CASE trees[fd].at[location] # Absent
  BY <1>2, Zenon DEF WriteNewFile, Refuse
<1> QED BY <1>1, <1>2

LEMMA InitShape == Init => ShapeInv
<1> SUFFICES ASSUME Init PROVE ShapeInv
  OBVIOUS
<1>1. names = [staging |-> names.staging, final |-> names.final]
  BY DEF Init
<1>2. IsTree(Empty)
  <2> DEFINE at == [location \in Locations |-> Absent]
  <2>1. at = [location \in Locations |-> at[location]]
    BY Zenon
  <2>2. Empty = [at |-> at, extra |-> FALSE, linked |-> {}]
    BY Zenon DEF Empty
  <2> HIDE DEF at
  <2> QED BY <2>1, <2>2, TreeOf, Zenon
<1>3. trees = [inode \in Inodes |-> Empty]
  BY Zenon DEF Init
<1> QED BY <1>1, <1>2, <1>3, Zenon DEF ShapeInv

LEMMA ShapeStep == ShapeInv /\ [Next]_vars => ShapeInv'
<1> SUFFICES ASSUME ShapeInv, [Next]_vars PROVE ShapeInv'
  OBVIOUS
<1>1. CASE UNCHANGED <<names, trees>>
  BY <1>1, Zenon DEF ShapeInv
<1>2. CASE MakeStaging
  <2>1. \/ names' = [names EXCEPT !.staging = Own]
        \/ names' = names
    BY <1>2, Zenon DEF MakeStaging
  <2>2. names' = [staging |-> names'.staging, final |-> names'.final]
    BY <2>1 DEF ShapeInv
  <2> QED BY <1>2, <2>2, Zenon DEF MakeStaging, ShapeInv
<1>3. CASE WriteConfiguration
  BY <1>3, WriteKeepsShape, Zenon DEF WriteConfiguration
<1>4. CASE CopyCell
  <2>1. CASE WriteNewFile(CellLocation, cells[slot], "copied")
    BY <1>4, <2>1, WriteKeepsShape, Zenon DEF CopyCell
  <2> QED BY <1>1, <1>4, <2>1, Zenon DEF CopyCell
<1>5. CASE CopyProfileIdentity
  <2>1. CASE WriteNewFile(OwnedIdentityLocator(Roles[slot]), identities[slot], "identified")
    BY <1>5, <2>1, WriteKeepsShape, Zenon DEF CopyProfileIdentity
  <2> QED BY <1>1, <1>5, <2>1, Zenon DEF CopyProfileIdentity
<1>6. CASE WriteJson
  BY <1>6, WriteKeepsShape, Zenon DEF WriteJson
<1>7. CASE WriteMarkdown
  BY <1>7, WriteKeepsShape, Zenon DEF WriteMarkdown
<1>8. CASE PublishOutput
  <2>1. names' = [staging |-> Absent, final |-> names.staging] \/ names' = names
    BY <1>8, Zenon DEF PublishOutput, Rename
  <2>2. names' = [staging |-> names'.staging, final |-> names'.final]
    BY <2>1 DEF ShapeInv
  <2> QED BY <1>8, <2>2, Zenon DEF PublishOutput, ShapeInv
<1>9. CASE RivalName
  <2>1. \/ names' = names
        \/ names' = [names EXCEPT !["staging"] = Foreign]
        \/ names' = [names EXCEPT !["final"] = Foreign]
    BY <1>9, Zenon DEF RivalName
  <2>2. names' = [staging |-> names'.staging, final |-> names'.final]
    BY <2>1 DEF ShapeInv
  <2> QED BY <1>9, <2>2, Zenon DEF RivalName, ShapeInv
<1>10. CASE RivalSwap
  <2>1. PICK name \in {"staging", "final"} :
          \/ names' = [names EXCEPT ![name] = Absent] /\ UNCHANGED trees
          \/ /\ names' = [names EXCEPT ![name] = Foreign]
             /\ \E tree \in {trees[Own]} \union {OtherTree(g) : g \in OtherGenerations(cells[1].generation)} :
                  trees' = [trees EXCEPT ![Foreign] = tree]
    BY <1>10, Zenon DEF RivalSwap
  <2>2. names' = [names EXCEPT ![name] = Absent] \/ names' = [names EXCEPT ![name] = Foreign]
    BY <2>1, Zenon
  <2>3. names' = [staging |-> names'.staging, final |-> names'.final]
    BY <2>2 DEF ShapeInv
  <2>4. \A g : IsTree(OtherTree(g))
    <3> TAKE g
    <3> DEFINE changed == [n \in DOMAIN cells |-> [cells[n] EXCEPT !.generation = g]]
               document == BuildRuntimeReviewReceipt(admitted, changed, admitted.identities, admitted.identities,
                                                     RuntimeReviewToolIdentity)
               entry(location) ==
                 IF location = JsonLocation THEN [receipt |-> document, canonical |-> TRUE]
                 ELSE IF location = MarkdownLocation THEN RenderRuntimeReviewMarkdown(document)
                 ELSE IF location \in CellLocations
                        THEN changed[CHOOSE n \in DOMAIN CanonicalSlots :
                                       OwnedCellLocator(CanonicalSlots[n]) = location]
                 ELSE Wanted(location)
               at == [location \in Locations |-> entry(location)]
    <3>1. OtherTree(g) = [Empty EXCEPT !.at = at]
      BY Zenon DEF OtherTree
    <3> HIDE DEF entry
    <3>2. at = [location \in Locations |-> at[location]]
      BY Zenon
    <3> HIDE DEF at
    <3>3. OtherTree(g) = [at |-> at, extra |-> FALSE, linked |-> {}]
      BY <3>1 DEF Empty
    <3> QED BY <3>2, <3>3, TreeOf, Zenon
  <2>5. IsTree(trees[Own])
    BY Zenon DEF ShapeInv, Inodes
  <2>6. \/ UNCHANGED trees
        \/ \E tree : IsTree(tree) /\ trees' = [trees EXCEPT ![Foreign] = tree]
    BY <2>1, <2>4, <2>5, Zenon
  <2>7. CASE UNCHANGED trees
    BY <2>3, <2>7, Zenon DEF ShapeInv
  <2>8. ASSUME NEW tree, IsTree(tree), trees' = [trees EXCEPT ![Foreign] = tree]
        PROVE  ShapeInv'
    <3>1. trees' = [inode \in Inodes |-> IF inode = Foreign THEN tree ELSE trees[inode]]
      BY <2>8, Zenon DEF ShapeInv
    <3>2. trees' = [inode \in Inodes |-> trees'[inode]]
      BY <3>1, Zenon
    <3>3. \A inode \in Inodes : IsTree(trees'[inode])
      BY <2>8, <3>1, Zenon DEF ShapeInv
    <3>4. \A inode \in Inodes : IsTree(trees[inode])'
      BY <3>3, Zenon DEF IsTree
    <3> QED BY <2>3, <3>2, <3>4, Zenon DEF ShapeInv
  <2> QED BY <2>6, <2>7, <2>8
<1>11. CASE RivalEntry
  <2>1. PICK inode : \/ \E location, content : trees' = [trees EXCEPT ![inode].at[location] = content]
                    \/ \E location : trees' = [trees EXCEPT ![inode].linked = @ \union {location}]
                    \/ trees' = [trees EXCEPT ![inode].extra = TRUE]
    BY <1>11, Zenon DEF RivalEntry
  <2>2. UNCHANGED names
    BY <1>11, Zenon DEF RivalEntry
  <2>3. ASSUME NEW location, NEW content, trees' = [trees EXCEPT ![inode].at[location] = content]
        PROVE  ShapeInv'
    BY <2>2, <2>3, EntryChange, Zenon DEF ShapeInv
  <2>4. ASSUME NEW value, \/ trees' = [trees EXCEPT ![inode].linked = value]
                          \/ trees' = [trees EXCEPT ![inode].extra = value]
        PROVE  ShapeInv'
    <3>1. \/ trees' = [i \in Inodes |-> IF i = inode THEN [trees[inode] EXCEPT !.linked = value] ELSE trees[i]]
          \/ trees' = [i \in Inodes |-> IF i = inode THEN [trees[inode] EXCEPT !.extra = value] ELSE trees[i]]
      BY <2>4, Zenon DEF ShapeInv
    <3>2. trees' = [i \in Inodes |-> trees'[i]]
      BY <3>1, Zenon
    <3>3. ASSUME NEW i \in Inodes PROVE IsTree(trees'[i])
      <4> DEFINE t == trees[i]
                 u == trees'[i]
      <4>1. u = t \/ u = [t EXCEPT !.linked = value] \/ u = [t EXCEPT !.extra = value]
        BY <3>1, Zenon
      <4>2. IsTree(t)
        BY Zenon DEF ShapeInv
      <4> HIDE DEF t, u
      <4>3. u = [at |-> u.at, extra |-> u.extra, linked |-> u.linked] /\ u.at = t.at
        BY <4>1, <4>2 DEF IsTree
      <4>4. IsTree(u)
        BY <4>2, <4>3, Zenon DEF IsTree
      <4> QED BY <4>4, Zenon DEF u
    <3>4. \A i \in Inodes : IsTree(trees[i])'
      BY <3>3, Zenon DEF IsTree
    <3> QED BY <2>2, <3>2, <3>4, Zenon DEF ShapeInv
  <2> QED BY <2>1, <2>3, <2>4, Zenon
<1> QED
  BY <1>1, <1>2, <1>3, <1>4, <1>5, <1>6, <1>7, <1>8, <1>9, <1>10, <1>11, Zenon
  DEF Next, Run, Rivals, Fault, Done, vars, owned, run, LoadConfiguration, AdmitEvidence, CreateOwnedOutputRoot,
      OpenStaging, RereadCell, RereadProfileIdentity, BuildReceipt, VerifyStaging, ReadRoot, ValidateCells, Replay,
      RevalidateCells, RereadRoot, ProbeFinal, CompareReceipts, VerifyPublishedRoot, VerifyPublishedCells,
      VerifyPublishedAgain, RivalSource, RivalIdentity

(* A review never replaces what it finds: neither an entry of a directory,        *)
(* whoever made it, nor the published name, nor an output directory.             *)
THEOREM ReviewNeverOverwrites == Spec => NeverOverwrites
<1> DEFINE Kept ==
             \A inode \in Inodes : \A location \in Locations :
               trees[inode].at[location] # Absent => trees'[inode].at[location] = trees[inode].at[location]
           Safe == /\ Kept
                   /\ names.final # Absent => names'.final = names.final
                   /\ output = "foreign" => output' = "foreign"
<1>1. ASSUME ShapeInv, Run PROVE Safe
  <2>1. CASE UNCHANGED <<names, trees, output>>
    BY <2>1, Zenon
  <2>2. ASSUME UNCHANGED <<names, output>>, NEW location, NEW content, NEW next, WriteNewFile(location, content, next)
        PROVE  Safe
    BY <1>1, <2>2, WriteReplacesNothing, Zenon
  <2>3. CASE CreateOwnedOutputRoot
    BY <2>3 DEF CreateOwnedOutputRoot
  <2>4. CASE MakeStaging
    <3>1. names' = [names EXCEPT !.staging = Own] \/ names' = names
      BY <2>4, Zenon DEF MakeStaging
    <3>2. names'.final = names.final
      BY <1>1, <3>1 DEF ShapeInv
    <3> QED BY <2>4, <3>2, Zenon DEF MakeStaging
  <2>5. CASE WriteConfiguration
    BY <2>2, <2>5, Zenon DEF WriteConfiguration
  <2>6. CASE CopyCell
    <3>1. WriteNewFile(CellLocation, cells[slot], "copied") \/ UNCHANGED trees
      BY <2>6, Zenon DEF CopyCell
    <3> QED BY <2>1, <2>2, <2>6, <3>1, Zenon DEF CopyCell
  <2>7. CASE CopyProfileIdentity
    <3>1. WriteNewFile(OwnedIdentityLocator(Roles[slot]), identities[slot], "identified") \/ UNCHANGED trees
      BY <2>7, Zenon DEF CopyProfileIdentity
    <3> QED BY <2>1, <2>2, <2>7, <3>1, Zenon DEF CopyProfileIdentity
  <2>8. CASE WriteJson
    BY <2>2, <2>8, Zenon DEF WriteJson
  <2>9. CASE WriteMarkdown
    BY <2>2, <2>9, Zenon DEF WriteMarkdown
  <2>10. CASE PublishOutput
    <3>1. names.final # Absent => names' = names
      BY <2>10, Zenon DEF PublishOutput, Rename
    <3> QED BY <2>10, <3>1, Zenon DEF PublishOutput
  <2> QED
    BY <1>1, <2>1, <2>3, <2>4, <2>5, <2>6, <2>7, <2>8, <2>9, <2>10, Zenon
    DEF Run, owned, LoadConfiguration, AdmitEvidence, OpenStaging, RereadCell, RereadProfileIdentity, BuildReceipt,
        VerifyStaging, ReadRoot, ValidateCells, Replay, RevalidateCells, RereadRoot, ProbeFinal, CompareReceipts,
        VerifyPublishedRoot, VerifyPublishedCells, VerifyPublishedAgain
<1>2. ShapeInv /\ [Next]_vars => [Run => Safe]_vars
  BY <1>1, Zenon
<1> QED BY <1>2, InitShape, ShapeStep, PTL DEF Spec, NeverOverwrites

--------------------------------------------------------------------------------
(* Where the program may be, and what it knows there.                           *)
Early == {"load", "admit", "create", "stage", "open"}
Walk == {"root", "cells", "replay", "recells", "reroot"}
Comparing == {"compare", "bound", "boundcells", "boundagain"}
Named == {names.staging, names.final}

(* The staging descriptor is bound once. If it is bound to another's directory,   *)
(* that directory keeps a name and the run's own has lost its for good: a name    *)
(* that leads elsewhere than the descriptor never leads back.                    *)
PathInv ==
  /\ names.staging \in Inodes \union {Absent} /\ names.final \in Inodes \union {Absent}
  /\ fd \in Inodes \union {Absent}
  /\ pc \in Early => /\ fd = Absent /\ receipt = None /\ names.final # Own
                     /\ \A inode \in Inodes : trees[inode] = Empty
  /\ pc \notin Early \union {"done"} => fd # Absent
  /\ fd = Foreign => Foreign \in Named /\ Own \notin Named
  /\ pc \in {"identity", "identified"} => Second
  /\ pc \in {"json", "markdown", "verify", "stat", "rename"} \union Walk \union Comparing =>
       receipt.evidence_cells = OwnedEvidenceCells(cells)
  /\ pc \in Walk => slot \in {1, 2}
  /\ pc \in {"stat", "rename"} => slot = 1
  /\ pc \in Comparing => slot = 2
  /\ result = "OK" => pc = "done"

(* On the first route no identity file is ever beside the evidence.              *)
IdentityInv ==
  fd # Absent /\ ~Second => \A location \in IdentityLocations : trees[fd].at[location] = Absent

(* What the last three checks have found of the published tree.                  *)
WantedInv ==
  /\ pc \in {"boundcells", "boundagain"} => \A location \in RootLocations : read[location] = Wanted(location)
  /\ pc = "boundagain" =>
       /\ \A location \in IdentitiesCopied : read[location] = Wanted(location)
       /\ names.final = fd =>
            \A location \in CellLocations :
              <<fd, location>> \notin unseen => trees[fd].at[location] = Wanted(location)
  /\ result = "OK" =>
       /\ names.final = fd /\ trees[fd].linked = {}
       /\ \A location \in Locations : <<fd, location>> \notin unseen => trees[fd].at[location] = Wanted(location)

(* A configuration and an identity have their fields, whoever wrote them.         *)
Identified(identity) == {"role", "package", "integer", "digest", "sentinel"} \subseteq DOMAIN identity

Formed(location, content) ==
  content # Absent =>
    (location = ConfigLocation => Keyed(content)) /\ (location \in IdentityLocations => Identified(content))

FormInv ==
  /\ Keyed(input.doc) /\ identities = [r \in {1, 2} |-> identities[r]]
  /\ \A r \in {1, 2} : identities[r] # Absent => Identified(identities[r])
  /\ pc \notin {"load", "done"} =>
       Keyed(admitted.raw) /\ (Second => \A r \in {1, 2} : admitted.identities[r] # Absent =>
                                                          Identified(admitted.identities[r]))
  /\ pc \in {"identity", "identified"} => slot \in {1, 2}
  /\ \A inode \in Inodes : \A location \in Locations : Formed(location, trees[inode].at[location])

(* What was read of the root at first, and the tree it was replayed on, whose     *)
(* cells were the receipt's.                                                    *)
ReadAccepted ==
  /\ read = [location \in RootLocations \union IdentityLocations |-> read[location]]
  /\ DocumentsAccepted(read[JsonLocation], read[MarkdownLocation])
  /\ \A location \in RootLocations : read[location] # Absent
  /\ \/ \A location \in IdentityLocations : read[location] = Absent
     \/ \A location \in IdentityLocations : read[location] # Absent
  /\ \A location \in RootLocations \union IdentityLocations : Formed(location, read[location])

CellAccepted(inode, n) == ValidateOwnedEvidenceCell(trees[inode], ReceiptRead.evidence_cells[n])

(* What was seen of the staged tree, piece by piece.                             *)
ExposedInv ==
  /\ \A inode \in Inodes : trees[inode].linked \subseteq Locations
  /\ pc \in (Walk \ {"root"}) \union {"stat", "rename"} => ReadAccepted
  /\ pc \in {"recells", "reroot", "stat", "rename"} => \E tree : ReplayAccepted(ReceiptRead, read, tree)
  /\ pc \in {"reroot", "stat", "rename"} /\ slot = 1 =>
       /\ ParseOwnedEvidenceCells(ReceiptRead.evidence_cells)
       /\ names.staging # Absent =>
            \A n \in DOMAIN CanonicalSlots :
              <<names.staging, OwnedCellLocator(CanonicalSlots[n])>> \notin unseen => CellAccepted(names.staging, n)
  /\ pc \in {"stat", "rename"} /\ names.staging # Absent =>
       \A location \in DocumentLocations : <<names.staging, location>> \notin unseen =>
         trees[names.staging].at[location] = read[location] /\ location \notin trees[names.staging].linked

LEMMA LocationsAreApart ==
  /\ RootLocations \intersect IdentityLocations = {} /\ RootLocations \intersect CellLocations = {}
  /\ IdentityLocations \intersect CellLocations = {}
  /\ ConfigLocation # JsonLocation /\ ConfigLocation # MarkdownLocation /\ JsonLocation # MarkdownLocation
<1>1. \A l \in RootLocations : \E name : l = <<name>>
  BY DEF RootLocations, ConfigLocation, JsonLocation, MarkdownLocation
<1>2. \A l \in IdentityLocations : \E a, b : l = <<a, b>>
  BY DEF IdentityLocations, OwnedIdentityLocator, IdentityFile
<1>3. \A l \in CellLocations : \E a, b, c, d : l = <<a, b, c, d>>
  BY DEF CellLocations, OwnedCellLocator
<1>4. \A name, a, b : <<name>> # <<a, b>>
  OBVIOUS
<1>5. \A name, a, b, c, d : <<name>> # <<a, b, c, d>>
  OBVIOUS
<1>6. \A a, b, c, d, x, y : <<x, y>> # <<a, b, c, d>>
  OBVIOUS
<1>7. ConfigLocation # JsonLocation /\ ConfigLocation # MarkdownLocation /\ JsonLocation # MarkdownLocation
  BY DEF ConfigLocation, JsonLocation, MarkdownLocation
<1>8. ASSUME NEW l \in RootLocations PROVE l \notin IdentityLocations /\ l \notin CellLocations
  BY <1>1, <1>2, <1>3, <1>4, <1>5, Zenon
<1>9. ASSUME NEW l \in IdentityLocations PROVE l \notin CellLocations
  BY <1>2, <1>3, <1>6, Zenon
<1> QED BY <1>7, <1>8, <1>9

LEMMA InodesAreApart == Own # Foreign /\ Own # Absent /\ Foreign # Absent /\ Inodes = {Own, Foreign}
BY NullAssumption DEF Inodes, Own, Foreign

(* What one call of the run may do to the program location: go on, or end.        *)
LEMMA WriteGoes ==
  ASSUME NEW location, NEW content, NEW next, WriteNewFile(location, content, next)
  PROVE  \/ pc' = next /\ UNCHANGED <<slot, result>>
         \/ pc' = "done" /\ result' = "WRITE" /\ UNCHANGED slot
BY Zenon DEF WriteNewFile, Refuse

LEMMA InitPath == Init => PathInv
BY InodesAreApart, NullAssumption DEF Init, PathInv, Early, Walk, Comparing, Inodes, Own, Foreign

LEMMA PathOfRun ==
  ASSUME ShapeInv, PathInv, Run PROVE PathInv'
<1> USE DEF Early, Walk, Comparing
<1>0. PathInv /\ InodesAreApart!1
  BY InodesAreApart
<1>1. CASE LoadConfiguration
  BY <1>1 DEF PathInv, LoadConfiguration, Goto, Refuse, asked, owned, Named
<1>2. CASE AdmitEvidence
  BY <1>2 DEF PathInv, AdmitEvidence, Goto, Refuse, asked, owned, Named, Second, Config
<1>3. CASE CreateOwnedOutputRoot
  BY <1>3 DEF PathInv, CreateOwnedOutputRoot, Goto, Refuse, Named, Second, Config
<1>4. CASE MakeStaging
  <2>1. names' = [names EXCEPT !.staging = Own] \/ names' = names
    BY <1>4, Zenon DEF MakeStaging
  <2>2. /\ names'.staging \in {names.staging, Own} /\ names'.final = names.final
    BY <2>1 DEF ShapeInv
  <2> QED BY <1>4, <2>2, InodesAreApart DEF PathInv, MakeStaging, Goto, Refuse, asked, Named, Second, Config
<1>5. CASE OpenStaging
  BY <1>5, InodesAreApart DEF PathInv, OpenStaging, Goto, Refuse, asked, Named, Second, Config
<1>6. CASE WriteConfiguration
  BY <1>6, WriteGoes DEF PathInv, WriteConfiguration, asked, Named, Second, Config
<1>7. CASE CopyCell
  <2>1. WriteNewFile(CellLocation, cells[slot], "copied") \/ Refuse("WRITE")
    BY <1>7, Zenon DEF CopyCell
  <2> QED BY <1>7, <2>1, WriteGoes DEF PathInv, CopyCell, Refuse, asked, Named, Second, Config
<1>8. CASE RereadCell
  BY <1>8 DEF PathInv, RereadCell, Goto, Refuse, asked, Named, Second, Config
<1>9. CASE CopyProfileIdentity
  <2>1. WriteNewFile(OwnedIdentityLocator(Roles[slot]), identities[slot], "identified") \/ Refuse("WRITE")
    BY <1>9, Zenon DEF CopyProfileIdentity
  <2> QED BY <1>9, <2>1, WriteGoes DEF PathInv, CopyProfileIdentity, Refuse, asked, Named, Second, Config
<1>10. CASE RereadProfileIdentity
  BY <1>10 DEF PathInv, RereadProfileIdentity, Goto, Refuse, asked, Named, Second, Config
<1>11. CASE BuildReceipt
  <2>1. \A a, c, i, o, t : BuildRuntimeReviewReceipt(a, c, i, o, t).evidence_cells = OwnedEvidenceCells(c)
    BY Zenon DEF BuildRuntimeReviewReceipt
  <2> QED BY <1>11, <2>1 DEF PathInv, BuildReceipt, Goto, Refuse, asked, owned, Named, Second, Config
<1>12. CASE WriteJson
  BY <1>12, WriteGoes DEF PathInv, WriteJson, asked, Named, Second, Config
<1>13. CASE WriteMarkdown
  BY <1>13, WriteGoes DEF PathInv, WriteMarkdown, asked, Named, Second, Config
<1>14. CASE VerifyStaging
  BY <1>14 DEF PathInv, VerifyStaging, Goto, Refuse, asked, Named, Second, Config
<1>15. CASE ReadRoot
  BY <1>15 DEF PathInv, ReadRoot, Goto, Refuse, asked, owned, Named, Second, Config
<1>16. CASE ValidateCells
  BY <1>16 DEF PathInv, ValidateCells, Goto, Refuse, asked, owned, Named, Second, Config
<1>17. CASE Replay
  BY <1>17 DEF PathInv, Replay, Goto, Refuse, asked, owned, Named, Second, Config
<1>18. CASE RevalidateCells
  BY <1>18 DEF PathInv, RevalidateCells, Goto, Refuse, asked, Named, Second, Config
<1>19. CASE RereadRoot
  BY <1>19 DEF PathInv, RereadRoot, Goto, Refuse, asked, Named, Second, Config
<1>20. CASE ProbeFinal
  BY <1>20 DEF PathInv, ProbeFinal, Goto, Refuse, asked, owned, Named, Second, Config
<1>21. CASE PublishOutput
  <2>1. \/ names' = [staging |-> Absent, final |-> names.staging] /\ names.final = Absent
        \/ names' = names
    BY <1>21, Zenon DEF PublishOutput, Rename
  <2>2. \/ names'.staging = Absent /\ names'.final = names.staging /\ names.final = Absent
        \/ names' = names
    BY <2>1
  <2> QED BY <1>21, <2>2, InodesAreApart DEF PathInv, PublishOutput, Refuse, asked, Named, Second, Config
<1>22. CASE CompareReceipts
  BY <1>22 DEF PathInv, CompareReceipts, Goto, Refuse, asked, owned, Named, Second, Config
<1>23. CASE VerifyPublishedRoot
  BY <1>23 DEF PathInv, VerifyPublishedRoot, Goto, Refuse, asked, owned, Named, Second, Config
<1>24. CASE VerifyPublishedCells
  BY <1>24 DEF PathInv, VerifyPublishedCells, Goto, Refuse, asked, Named, Second, Config
<1>25. CASE VerifyPublishedAgain
  BY <1>25 DEF PathInv, VerifyPublishedAgain, Goto, Refuse, asked, Named, Second, Config
<1> QED
  BY <1>1, <1>2, <1>3, <1>4, <1>5, <1>6, <1>7, <1>8, <1>9, <1>10, <1>11, <1>12, <1>13, <1>14, <1>15, <1>16, <1>17,
     <1>18, <1>19, <1>20, <1>21, <1>22, <1>23, <1>24, <1>25, Zenon DEF Run

(* What the others may do in one step: what they change is unseen from then on,    *)
(* and a name they take leads to a directory that is not the descriptor's.       *)
Drift ==
  /\ pc # "done" /\ UNCHANGED run /\ unseen \subseteq unseen'
  /\ \A name \in {"staging", "final"} :
       \/ names'[name] \in {names[name], Absent}
       \/ names'[name] = Foreign /\ \A location \in Locations : <<Foreign, location>> \in unseen'
  /\ fd = Foreign => UNCHANGED names
  /\ fd = Absent /\ receipt = None => UNCHANGED trees
  /\ \A inode \in Inodes : \A location \in Locations : <<inode, location>> \notin unseen' =>
       /\ trees'[inode].at[location] = trees[inode].at[location]
       /\ location \in trees'[inode].linked => location \in trees[inode].linked
  /\ fd # Absent => \A location \in IdentityLocations :
                      trees[fd].at[location] = Absent => trees'[fd].at[location] = Absent
  /\ (\A inode \in Inodes : trees[inode].linked \subseteq Locations) =>
       \A inode \in Inodes : trees'[inode].linked \subseteq Locations

LEMMA NameChange ==
  ASSUME ShapeInv, NEW name \in {"staging", "final"}, NEW value, names' = [names EXCEPT ![name] = value]
  PROVE  /\ names'[name] = value
         /\ \A other \in {"staging", "final"} : other # name => names'[other] = names[other]
<1>1. names = [n \in {"staging", "final"} |-> names[n]]
  BY DEF ShapeInv
<1>2. names' = [n \in {"staging", "final"} |-> IF n = name THEN value ELSE names[n]]
  BY <1>1, Zenon
<1> QED BY <1>2, Zenon

(* The directory that takes another's place.                                    *)
LEMMA TreeChange ==
  ASSUME ShapeInv, NEW inode \in Inodes, NEW tree, trees' = [trees EXCEPT ![inode] = tree]
  PROVE  trees'[inode] = tree /\ \A i \in Inodes : i # inode => trees'[i] = trees[i]
<1>1. trees = [i \in Inodes |-> trees[i]]
  BY Zenon DEF ShapeInv
<1>2. trees' = [i \in Inodes |-> IF i = inode THEN tree ELSE trees[i]]
  BY <1>1, Zenon
<1> QED BY <1>2, Zenon

(* One field of one tree.                                                       *)
LEMMA FieldChange ==
  ASSUME ShapeInv, NEW inode \in Inodes, NEW value,
         \/ trees' = [trees EXCEPT ![inode].linked = value]
         \/ trees' = [trees EXCEPT ![inode].extra = value]
  PROVE  /\ \A i \in Inodes : trees'[i].at = trees[i].at
         /\ \A i \in Inodes : i # inode => trees'[i] = trees[i]
         /\ trees'[inode].linked \in {value, trees[inode].linked}
         /\ trees' = [trees EXCEPT ![inode].extra = value] => trees'[inode].linked = trees[inode].linked
<1> DEFINE t == trees[inode]
           u == trees'[inode]
<1>1. trees = [i \in Inodes |-> trees[i]] /\ IsTree(t)
  BY Zenon DEF ShapeInv
<1>2. \/ trees' = [i \in Inodes |-> IF i = inode THEN [t EXCEPT !.linked = value] ELSE trees[i]]
      \/ trees' = [i \in Inodes |-> IF i = inode THEN [t EXCEPT !.extra = value] ELSE trees[i]]
  BY <1>1, Zenon
<1>3. /\ u = [t EXCEPT !.linked = value] \/ u = [t EXCEPT !.extra = value]
      /\ \A i \in Inodes : i # inode => trees'[i] = trees[i]
  BY <1>2, Zenon
<1>4. trees' = [trees EXCEPT ![inode].extra = value] => u = [t EXCEPT !.extra = value]
  BY <1>1, Zenon
<1> HIDE DEF t, u
<1>5. u.at = t.at /\ u.linked \in {value, t.linked}
  BY <1>1, <1>3 DEF IsTree
<1>6. u = [t EXCEPT !.extra = value] => u.linked = t.linked
  BY <1>1 DEF IsTree
<1> QED BY <1>3, <1>4, <1>5, <1>6, Zenon DEF t, u

(* A changed entry leaves the other fields.                                     *)
LEMMA EntryKeepsLinks ==
  ASSUME ShapeInv, NEW inode \in Inodes, NEW location, NEW content,
         NEW new, new = [trees EXCEPT ![inode].at[location] = content]
  PROVE  \A i \in Inodes : new[i].linked = trees[i].linked /\ new[i].extra = trees[i].extra
<1> DEFINE t == trees[inode]
           u == [t EXCEPT !.at[location] = content]
<1>1. new = [i \in Inodes |-> IF i = inode THEN u ELSE trees[i]]
  BY Zenon DEF ShapeInv
<1>2. IsTree(t)
  BY Zenon DEF ShapeInv
<1>3. u.linked = t.linked /\ u.extra = t.extra
  <2> HIDE DEF t
  <2> QED BY <1>2 DEF IsTree
<1> HIDE DEF u
<1> QED BY <1>1, <1>3, Zenon DEF t

(* A rival makes no identity file where there is none.                           *)
LEMMA NoNewIdentity ==
  ASSUME NEW location \in IdentityLocations PROVE Alterations(location, Absent) = {}
<1>1. location \notin CellLocations /\ location # ConfigLocation
  BY LocationsAreApart, Zenon DEF RootLocations
<1> QED BY <1>1, Zenon DEF Alterations

LEMMA RivalDrifts ==
  ASSUME ShapeInv, PathInv, Rivals PROVE Drift
<1> DEFINE Links == (\A inode \in Inodes : trees[inode].linked \subseteq Locations) =>
                      \A inode \in Inodes : trees'[inode].linked \subseteq Locations
<1>1. pc # "done" /\ UNCHANGED <<run>>
  BY Zenon DEF Rivals, Rival, RivalSource, RivalIdentity, RivalName, RivalSwap, RivalEntry
<1>2. CASE UNCHANGED <<names, trees, unseen>>
  BY <1>1, <1>2, Zenon DEF Drift
<1>3. CASE RivalName
  <2>1. /\ fd # Foreign /\ UNCHANGED trees
        /\ unseen' = unseen \union ({Foreign} \X Locations)
    BY <1>3, Zenon DEF RivalName, PathInv, Named
  <2>2. \/ UNCHANGED names
        \/ \E name \in {"staging", "final"} : names' = [names EXCEPT ![name] = Foreign]
    BY <1>3, Zenon DEF RivalName
  <2>3. \A name \in {"staging", "final"} : names'[name] \in {names[name], Foreign}
    BY <2>2, NameChange, Zenon
  <2>4. \A location \in Locations : <<Foreign, location>> \in unseen'
    BY <2>1
  <2> QED BY <1>1, <2>1, <2>3, <2>4, Zenon DEF Drift
<1>4. CASE RivalSwap
  <2>1. PICK name \in {"staging", "final"} :
          /\ names[name] = Own
          /\ \/ names' = [names EXCEPT ![name] = Absent] /\ UNCHANGED <<trees, unseen>>
             \/ /\ receipt # None
                /\ names' = [names EXCEPT ![name] = Foreign]
                /\ \E tree \in {trees[Own]} \union {OtherTree(g) : g \in OtherGenerations(cells[1].generation)} :
                     trees' = [trees EXCEPT ![Foreign] = tree]
                /\ unseen' = unseen \union ({Foreign} \X Locations)
    BY <1>4, Zenon DEF RivalSwap
  <2>2. fd # Foreign
    BY <2>1, Zenon DEF PathInv, Named
  <2>3. CASE names' = [names EXCEPT ![name] = Absent] /\ UNCHANGED <<trees, unseen>>
    <3>1. \A n \in {"staging", "final"} : names'[n] \in {names[n], Absent}
      BY <2>3, NameChange, Zenon
    <3> QED BY <1>1, <2>2, <2>3, <3>1, Zenon DEF Drift
  <2>4. ASSUME receipt # None, names' = [names EXCEPT ![name] = Foreign],
               unseen' = unseen \union ({Foreign} \X Locations),
               NEW tree \in {trees[Own]} \union {OtherTree(g) : g \in OtherGenerations(cells[1].generation)},
               trees' = [trees EXCEPT ![Foreign] = tree]
        PROVE  Drift
    <3>1. \A n \in {"staging", "final"} : names'[n] \in {names[n], Foreign}
      BY <2>4, NameChange, Zenon
    <3>2. \A location \in Locations : <<Foreign, location>> \in unseen'
      BY <2>4
    <3>3. trees'[Foreign] = tree /\ trees'[Own] = trees[Own]
      BY <2>4, TreeChange, InodesAreApart
    <3>4. \A i \in Inodes : \A l \in Locations : <<i, l>> \notin unseen' => trees'[i] = trees[i]
      BY <3>2, <3>3, InodesAreApart
    <3>5. fd # Absent => trees'[fd] = trees[fd]
      <4>1. fd # Absent => fd = Own
        BY <2>2, InodesAreApart, Zenon DEF PathInv
      <4> QED BY <3>3, <4>1, Zenon
    <3>6. Links
      <4>1. \A g : OtherTree(g).linked = {}
        <5> TAKE g
        <5>1. \E at : OtherTree(g) = [Empty EXCEPT !.at = at]
          BY Zenon DEF OtherTree
        <5> QED BY <5>1 DEF Empty
      <4>2. tree = trees[Own] \/ tree.linked = {}
        BY <2>4, <4>1, Zenon
      <4> QED BY <3>3, <4>2, InodesAreApart
    <3>7. unseen \subseteq unseen'
      BY <2>4
    <3> QED BY <1>1, <2>2, <2>4, <3>1, <3>2, <3>4, <3>5, <3>6, <3>7, Zenon DEF Drift
  <2> QED BY <2>1, <2>3, <2>4, Zenon
<1>5. CASE RivalEntry
  <2>0. UNCHANGED names /\ fd # Absent
    BY <1>5, Zenon DEF RivalEntry
  <2>1. PICK inode \in {names.staging, names.final} \ {Absent} :
       \/ \E location \in Locations : \E content \in Alterations(location, trees[inode].at[location]) :
            /\ trees' = [trees EXCEPT ![inode].at[location] = content]
            /\ unseen' = unseen \union {<<inode, location>>}
       \/ \E location \in Locations :
            /\ trees[inode].at[location] # Absent
            /\ trees' = [trees EXCEPT ![inode].linked = @ \union {location}]
            /\ unseen' = unseen \union {<<inode, location>>}
       \/ trees' = [trees EXCEPT ![inode].extra = TRUE] /\ UNCHANGED unseen
    BY <1>5, Zenon DEF RivalEntry
  <2>2. inode \in Inodes
    BY <2>1, Zenon DEF PathInv
  <2>3. ASSUME NEW location \in Locations, NEW content \in Alterations(location, trees[inode].at[location]),
               trees' = [trees EXCEPT ![inode].at[location] = content],
               unseen' = unseen \union {<<inode, location>>}
        PROVE  Drift
    <3>1. Apart(trees', inode, location)
      BY <2>3, EntryChange, Zenon
    <3>2. \A i \in Inodes : trees'[i].linked = trees[i].linked
      <4> DEFINE new == trees'
      <4>1. new = [trees EXCEPT ![inode].at[location] = content]
        BY <2>3, Zenon
      <4> HIDE DEF new
      <4>2. \A i \in Inodes : new[i].linked = trees[i].linked
        BY <2>2, <4>1, EntryKeepsLinks
      <4> QED BY <4>2, Zenon DEF new
    <3>3. \A i, l : <<i, l>> \notin unseen' => i # inode \/ l # location
      BY <2>3
    <3>4. fd # Absent => \A l \in IdentityLocations : trees[fd].at[l] = Absent => trees'[fd].at[l] = Absent
      <4> SUFFICES ASSUME fd # Absent, NEW l \in IdentityLocations, trees[fd].at[l] = Absent
                   PROVE  trees'[fd].at[l] = Absent
        BY Zenon
      <4>1. fd \in Inodes /\ l \in Locations
        BY Zenon DEF PathInv, Locations
      <4>2. fd # inode \/ l # location
        BY <2>3, NoNewIdentity, Zenon
      <4> QED BY <3>1, <4>1, <4>2, Zenon DEF Apart
    <3>5. unseen \subseteq unseen'
      BY <2>3
    <3>6. \A i \in Inodes : \A l \in Locations : <<i, l>> \notin unseen' => trees'[i].at[l] = trees[i].at[l]
      BY <3>1, <3>3, Zenon DEF Apart
    <3>7. Links
      BY <3>2, Zenon
    <3> QED BY <1>1, <2>0, <3>2, <3>4, <3>5, <3>6, <3>7, Zenon DEF Drift
  <2>4. ASSUME NEW location \in Locations,
               trees' = [trees EXCEPT ![inode].linked = @ \union {location}],
               unseen' = unseen \union {<<inode, location>>}
        PROVE  Drift
    <3> DEFINE value == trees[inode].linked \union {location}
    <3>1. trees' = [trees EXCEPT ![inode].linked = value]
      BY <2>4, Zenon
    <3> HIDE DEF value
    <3>2. /\ \A i \in Inodes : trees'[i].at = trees[i].at
          /\ \A i \in Inodes : i # inode => trees'[i] = trees[i]
          /\ trees'[inode].linked \in {value, trees[inode].linked}
      BY <2>2, <3>1, FieldChange, Zenon
    <3>3. \A i \in Inodes : \A l \in Locations : <<i, l>> \notin unseen' =>
            (l \in trees'[i].linked => l \in trees[i].linked)
      BY <2>4, <3>2 DEF value
    <3>4. Links
      BY <3>2, Zenon DEF value
    <3>5. unseen \subseteq unseen'
      BY <2>4
    <3>6. fd \in Inodes
      BY <2>0, Zenon DEF PathInv
    <3> QED BY <1>1, <2>0, <3>2, <3>3, <3>4, <3>5, <3>6, Zenon DEF Drift
  <2>5. ASSUME trees' = [trees EXCEPT ![inode].extra = TRUE], UNCHANGED unseen
        PROVE  Drift
    <3> DEFINE yes == TRUE
    <3>1. trees' = [trees EXCEPT ![inode].extra = yes]
      BY <2>5
    <3> HIDE DEF yes
    <3>2. /\ \A i \in Inodes : trees'[i].at = trees[i].at
          /\ \A i \in Inodes : i # inode => trees'[i] = trees[i]
          /\ trees'[inode].linked = trees[inode].linked
      BY <2>2, <3>1, FieldChange, Zenon
    <3>3. \A i \in Inodes : trees'[i].linked = trees[i].linked
      BY <3>2, Zenon
    <3>4. fd \in Inodes
      BY <2>0, Zenon DEF PathInv
    <3> QED BY <1>1, <2>0, <2>5, <3>2, <3>3, <3>4, Zenon DEF Drift
  <2> QED BY <2>1, <2>3, <2>4, <2>5, Zenon
<1> QED BY <1>2, <1>3, <1>4, <1>5, Zenon DEF Rivals, RivalSource, RivalIdentity, owned

(* The rest of the steps end the run, or change nothing.                         *)
LEMMA PathOfOthers ==
  ASSUME ShapeInv, PathInv, Drift \/ Fault \/ UNCHANGED vars PROVE PathInv'
<1>1. CASE Drift
  <2>1. /\ pc' = pc /\ slot' = slot /\ result' = result /\ receipt' = receipt /\ fd' = fd /\ cells' = cells
        /\ admitted' = admitted
    BY <1>1, Zenon DEF Drift, run
  <2>2. /\ names'.staging \in {names.staging, Absent, Foreign} /\ names'.final \in {names.final, Absent, Foreign}
        /\ fd = Foreign => names' = names
    BY <1>1, Zenon DEF Drift
  <2>3. pc \in Early => trees' = trees
    BY <1>1, Zenon DEF Drift, PathInv
  <2> QED BY <2>1, <2>2, <2>3, InodesAreApart DEF PathInv, Named, Second, Config, Early, Walk, Comparing
<1>2. CASE Fault
  BY <1>2, InodesAreApart DEF Fault, Refuse, owned, PathInv, Named, Second, Config, Early, Walk, Comparing
<1>3. CASE UNCHANGED vars
  BY <1>3 DEF vars, PathInv, Named, Second, Config
<1> QED BY <1>1, <1>2, <1>3

LEMMA StepKinds ==
  ASSUME ShapeInv, PathInv, [Next]_vars PROVE Run \/ Drift \/ Fault \/ UNCHANGED vars
BY RivalDrifts, Zenon DEF Next, Done

LEMMA PathStep == ShapeInv /\ PathInv /\ [Next]_vars => PathInv'
BY StepKinds, PathOfRun, PathOfOthers, Zenon

--------------------------------------------------------------------------------
(* Success. *)

(* A write changes at most the entry it is of.                                   *)
LEMMA WriteIsApart ==
  ASSUME ShapeInv, NEW location, NEW content, NEW next, WriteNewFile(location, content, next)
  PROVE  Apart(trees', fd, location)
<1>1. CASE trees[fd].at[location] = Absent
  <2>1. trees' = [trees EXCEPT ![fd].at[location] = content]
    BY <1>1, Zenon DEF WriteNewFile
  <2> QED BY <2>1, EntryChange, Zenon
<1>2. CASE trees[fd].at[location] # Absent
  BY <1>2, Zenon DEF WriteNewFile, Refuse, Apart
<1> QED BY <1>1, <1>2

LEMMA IdentityStep == ShapeInv /\ PathInv /\ IdentityInv /\ [Next]_vars => IdentityInv'
<1> SUFFICES ASSUME ShapeInv, PathInv, IdentityInv, [Next]_vars PROVE IdentityInv'
  OBVIOUS
<1>1. CASE UNCHANGED <<fd, admitted, trees>>
  BY <1>1, Zenon DEF IdentityInv, Second, Config
<1>2. ASSUME NEW location, NEW content, NEW next, WriteNewFile(location, content, next),
             location \notin IdentityLocations, UNCHANGED <<fd, admitted>>
      PROVE  IdentityInv'
  <2>1. fd \in Inodes \union {Absent} /\ IdentityLocations \subseteq Locations
    BY Zenon DEF PathInv, Locations
  <2>2. Apart(trees', fd, location)
    BY <1>2, WriteIsApart, Zenon
  <2>3. fd # Absent => \A l \in IdentityLocations : trees'[fd].at[l] = trees[fd].at[l]
    BY <1>2, <2>1, <2>2 DEF Apart
  <2> QED BY <1>2, <2>3, Zenon DEF IdentityInv, Second, Config
<1>3. CASE Drift
  BY <1>3, Zenon DEF Drift, run, IdentityInv, Second, Config
<1>4. CASE LoadConfiguration
  BY <1>4, Zenon DEF LoadConfiguration, owned, PathInv, Early, IdentityInv
<1>5. CASE OpenStaging
  <2>1. \A inode \in Inodes : trees[inode] = Empty
    BY <1>5, Zenon DEF OpenStaging, PathInv, Early
  <2>2. \A l \in Locations : Empty.at[l] = Absent
    BY DEF Empty
  <2>3. fd' \in Inodes \union {Absent} /\ trees' = trees
    BY <1>5, Zenon DEF OpenStaging, PathInv, Refuse
  <2>4. fd' # Absent => \A l \in IdentityLocations : trees'[fd'].at[l] = Absent
    BY <2>1, <2>2, <2>3, Zenon DEF Locations
  <2> QED BY <2>4, Zenon DEF IdentityInv
<1>6. ConfigLocation \notin IdentityLocations /\ JsonLocation \notin IdentityLocations
      /\ MarkdownLocation \notin IdentityLocations
  BY LocationsAreApart, Zenon DEF RootLocations
<1>7. \A slt : OwnedCellLocator(slt) \notin IdentityLocations
  <2>1. \A l \in IdentityLocations : \E a, b : l = <<a, b>>
    BY DEF IdentityLocations, OwnedIdentityLocator, IdentityFile
  <2>2. \A a, b, c, d, x, y : <<x, y>> # <<a, b, c, d>>
    OBVIOUS
  <2> QED BY <2>1, <2>2, Zenon DEF OwnedCellLocator
<1>8. CASE WriteConfiguration
  BY <1>2, <1>6, <1>8, Zenon DEF WriteConfiguration
<1>9. CASE CopyCell
  <2>1. WriteNewFile(CellLocation, cells[slot], "copied") \/ UNCHANGED trees
    BY <1>9, Zenon DEF CopyCell
  <2>2. UNCHANGED <<fd, admitted>> /\ CellLocation \notin IdentityLocations
    BY <1>7, <1>9, Zenon DEF CopyCell, CellLocation
  <2> QED BY <1>1, <1>2, <2>1, <2>2, Zenon
<1>10. CASE CopyProfileIdentity
  BY <1>10, Zenon DEF CopyProfileIdentity, PathInv, IdentityInv, Second, Config
<1>11. CASE WriteJson
  BY <1>2, <1>6, <1>11, Zenon DEF WriteJson
<1>12. CASE WriteMarkdown
  BY <1>2, <1>6, <1>12, Zenon DEF WriteMarkdown
<1>13. CASE Run
  BY <1>1, <1>4, <1>5, <1>8, <1>9, <1>10, <1>11, <1>12, <1>13, Zenon
  DEF Run, owned, AdmitEvidence, CreateOwnedOutputRoot, MakeStaging, RereadCell, RereadProfileIdentity, BuildReceipt,
      VerifyStaging, ReadRoot, ValidateCells, Replay, RevalidateCells, RereadRoot, ProbeFinal, PublishOutput,
      CompareReceipts, VerifyPublishedRoot, VerifyPublishedCells, VerifyPublishedAgain
<1> QED BY <1>1, <1>3, <1>13, StepKinds, Zenon DEF Fault, owned, vars

(* Whatever does not end in success, nor reaches one of the last two checks.      *)
Unfinished == pc' \notin {"boundcells", "boundagain"} /\ result' # "OK"

LEMMA RunIsUnfinished ==
  ASSUME PathInv, Run PROVE \/ VerifyPublishedRoot \/ VerifyPublishedCells \/ VerifyPublishedAgain \/ Unfinished
<1> USE DEF Unfinished
<1>1. pc # "done" => result # "OK"
  BY Zenon DEF PathInv
<1>2. CASE LoadConfiguration
  BY <1>1, <1>2 DEF LoadConfiguration, Goto, Refuse
<1>3. CASE AdmitEvidence
  BY <1>1, <1>3 DEF AdmitEvidence, Goto, Refuse
<1>4. CASE CreateOwnedOutputRoot
  BY <1>1, <1>4 DEF CreateOwnedOutputRoot, Goto, Refuse
<1>5. CASE MakeStaging \/ OpenStaging
  BY <1>1, <1>5 DEF MakeStaging, OpenStaging, Goto, Refuse
<1>6. CASE WriteConfiguration \/ WriteJson \/ WriteMarkdown
  BY <1>1, <1>6, WriteGoes DEF WriteConfiguration, WriteJson, WriteMarkdown
<1>7. CASE CopyCell
  <2>1. WriteNewFile(CellLocation, cells[slot], "copied") \/ Refuse("WRITE")
    BY <1>7, Zenon DEF CopyCell
  <2> QED BY <1>1, <1>7, <2>1, WriteGoes DEF CopyCell, Refuse
<1>8. CASE CopyProfileIdentity
  <2>1. WriteNewFile(OwnedIdentityLocator(Roles[slot]), identities[slot], "identified") \/ Refuse("WRITE")
    BY <1>8, Zenon DEF CopyProfileIdentity
  <2> QED BY <1>1, <1>8, <2>1, WriteGoes DEF CopyProfileIdentity, Refuse
<1>9. CASE RereadCell \/ RereadProfileIdentity
  BY <1>1, <1>9 DEF RereadCell, RereadProfileIdentity, Goto, Refuse
<1>10. CASE BuildReceipt \/ VerifyStaging \/ ReadRoot
  BY <1>1, <1>10 DEF BuildReceipt, VerifyStaging, ReadRoot, Goto, Refuse
<1>11. CASE ValidateCells \/ Replay \/ RevalidateCells \/ RereadRoot
  BY <1>1, <1>11 DEF ValidateCells, Replay, RevalidateCells, RereadRoot, Refuse
<1>12. CASE ProbeFinal \/ PublishOutput \/ CompareReceipts
  BY <1>1, <1>12 DEF ProbeFinal, PublishOutput, CompareReceipts, Refuse
<1> QED
  BY <1>2, <1>3, <1>4, <1>5, <1>6, <1>7, <1>8, <1>9, <1>10, <1>11, <1>12, Zenon DEF Run

(* Every cell location is that of one of the canonical slots.                    *)
LEMMA CellLocationIsCanonical ==
  ASSUME NEW location \in CellLocations
  PROVE  \E n \in DOMAIN CanonicalSlots : OwnedCellLocator(CanonicalSlots[n]) = location
BY Zenon DEF CellLocations, Slots, SetOf

(* A tree whose cells the run's own receipt accepts holds the admitted cells.     *)
LEMMA AcceptedCellsAreWanted ==
  ASSUME NEW tree, CellsAccepted(OwnedEvidenceCells(cells), tree), NEW location \in CellLocations
  PROVE  tree.at[location] = Wanted(location)
<1> DEFINE m == CHOOSE n \in DOMAIN CanonicalSlots : OwnedCellLocator(CanonicalSlots[n]) = location
<1>1. m \in DOMAIN CanonicalSlots /\ OwnedCellLocator(CanonicalSlots[m]) = location
  BY CellLocationIsCanonical, Zenon
<1>2. Wanted(location) = cells[m]
  <2>1. location \notin RootLocations /\ location \notin IdentityLocations
    BY LocationsAreApart, Zenon
  <2> QED BY <2>1, Zenon DEF Wanted, RootLocations
<1> HIDE DEF m
<1>3. OwnedEvidenceCells(cells)[m]
        = [slot |-> CanonicalSlots[m], directory |-> OwnedCellLocator(CanonicalSlots[m]), members |-> cells[m]]
  BY <1>1, Zenon DEF OwnedEvidenceCells
<1>4. OwnedEvidenceCells(cells)[m].directory = location /\ OwnedEvidenceCells(cells)[m].members = cells[m]
  BY <1>1, <1>3
<1>5. ValidateOwnedEvidenceCell(tree, OwnedEvidenceCells(cells)[m])
  BY <1>1, Zenon DEF CellsAccepted, ParseOwnedEvidenceCells
<1> QED BY <1>2, <1>4, <1>5, Zenon DEF ValidateOwnedEvidenceCell

LEMMA WantedStep ==
  ASSUME ShapeInv, PathInv, IdentityInv, WantedInv, [Next]_vars PROVE WantedInv'
<1> USE DEF Comparing
<1>1. UNCHANGED <<admitted, receipt, cells>> => \A location : Wanted(location)' = Wanted(location)
  BY Zenon DEF Wanted, Second, Config
<1>2. UNCHANGED admitted => IdentitiesCopied' = IdentitiesCopied
  BY Zenon DEF IdentitiesCopied, Second, Config
<1>3. CASE Unfinished
  BY <1>3, Zenon DEF Unfinished, WantedInv
<1>4. CASE UNCHANGED vars
  <2>1. \A location : Wanted(location)' = Wanted(location)
    BY <1>1, <1>4, Zenon DEF vars
  <2>2. IdentitiesCopied' = IdentitiesCopied
    BY <1>2, <1>4, Zenon DEF vars
  <2> QED BY <1>4, <2>1, <2>2, Zenon DEF vars, WantedInv
<1>5. CASE Fault
  BY <1>3, <1>5 DEF Fault, Refuse, Unfinished
<1>6. CASE Drift
  <2>1. /\ pc' = pc /\ result' = result /\ read' = read /\ fd' = fd
        /\ UNCHANGED <<admitted, receipt, cells>> /\ result # "OK"
    BY <1>6, Zenon DEF Drift, run, PathInv
  <2>2. /\ \A location : Wanted(location)' = Wanted(location)
        /\ IdentitiesCopied' = IdentitiesCopied
    BY <1>1, <1>2, <2>1, Zenon
  <2>3. ASSUME pc = "boundagain", names'.final = fd PROVE names.final = fd
    <3>1. fd # Absent
      BY <2>3, Zenon DEF PathInv, Early
    <3> QED BY <1>6, <2>3, <3>1, InodesAreApart, Zenon DEF Drift
  <2>4. ASSUME pc = "boundagain", names'.final = fd, NEW location \in CellLocations, <<fd, location>> \notin unseen'
        PROVE  trees'[fd].at[location] = Wanted(location)
    <3>1. fd \in Inodes /\ location \in Locations
      BY <2>4, Zenon DEF PathInv, Early, Locations
    <3>2. trees'[fd].at[location] = trees[fd].at[location] /\ <<fd, location>> \notin unseen
      BY <1>6, <2>4, <3>1, Zenon DEF Drift
    <3> QED BY <2>3, <2>4, <3>2, Zenon DEF WantedInv
  <2> QED BY <2>1, <2>2, <2>4, Zenon DEF WantedInv
<1>7. CASE VerifyPublishedRoot
  <2>1. CASE Unfinished
    BY <1>3, <2>1
  <2>2. CASE ~Unfinished
    <3>1. /\ pc = "bound" /\ read' = RootMembers(Tree) /\ pc' = "boundcells" /\ result' = result
          /\ \A location \in RootLocations : Tree.at[location] = Wanted(location)
      BY <1>7, <2>2 DEF VerifyPublishedRoot, Refuse, Unfinished
    <3>2. UNCHANGED <<admitted, receipt, cells>> /\ result # "OK"
      BY <1>7, <3>1 DEF VerifyPublishedRoot, PathInv
    <3>3. \A location \in RootLocations : read'[location] = Tree.at[location]
      BY <3>1, Zenon DEF RootMembers
    <3>4. \A location \in RootLocations : read'[location] = Wanted(location)'
      BY <1>1, <3>1, <3>2, <3>3, Zenon
    <3> QED BY <3>1, <3>2, <3>4 DEF WantedInv
  <2> QED BY <2>1, <2>2
<1>8. CASE VerifyPublishedCells
  <2>1. CASE Unfinished
    BY <1>3, <2>1
  <2>2. CASE ~Unfinished
    <3>1. /\ pc = "boundcells" /\ pc' = "boundagain" /\ result' = result
          /\ CellsAccepted(receipt.evidence_cells, Tree)
          /\ \A location \in IdentitiesCopied : read[location] = Wanted(location)
      BY <1>8, <2>2 DEF VerifyPublishedCells, Refuse, Unfinished
    <3>2. UNCHANGED <<admitted, receipt, cells, read, names, fd, trees>> /\ result # "OK" /\ slot = 2
      BY <1>8, <3>1 DEF VerifyPublishedCells, asked, PathInv
    <3>3. receipt.evidence_cells = OwnedEvidenceCells(cells)
      BY <3>1 DEF PathInv
    <3>4. Tree = trees[names.final]
      BY <3>2 DEF Tree, There, Name
    <3>5. \A location \in CellLocations : trees[names.final].at[location] = Wanted(location)
      BY <3>1, <3>3, <3>4, AcceptedCellsAreWanted, Zenon
    <3>6. /\ \A location : Wanted(location)' = Wanted(location)
          /\ IdentitiesCopied' = IdentitiesCopied
      BY <1>1, <1>2, <3>2, Zenon
    <3>7. \A location \in RootLocations : read'[location] = Wanted(location)'
      BY <3>1, <3>2, <3>6, Zenon DEF WantedInv
    <3>8. \A location \in IdentitiesCopied' : read'[location] = Wanted(location)'
      BY <3>1, <3>2, <3>6, Zenon
    <3>9. names'.final = fd' => \A location \in CellLocations : trees'[fd'].at[location] = Wanted(location)'
      BY <3>2, <3>5, <3>6, Zenon
    <3>10. result' # "OK"
      BY <3>1, <3>2
    <3> QED BY <3>7, <3>8, <3>9, <3>10, Zenon DEF WantedInv
  <2> QED BY <2>1, <2>2
<1>9. CASE VerifyPublishedAgain
  <2>1. CASE Unfinished
    BY <1>3, <2>1
  <2>2. CASE ~Unfinished
    <3>1. /\ pc = "boundagain" /\ pc' = "done" /\ BoundPublishedRoot /\ RootMembers(Tree) = read
          /\ unseen' = unseen \ ({There} \X DocumentLocations)
      BY <1>9, <2>2 DEF VerifyPublishedAgain, Refuse, Unfinished, PathInv
    <3>2. UNCHANGED <<admitted, receipt, cells, read, names, fd, trees>> /\ slot = 2
      BY <1>9, <3>1 DEF VerifyPublishedAgain, asked, PathInv
    <3>3. There = fd /\ Tree = trees[fd] /\ names.final = fd /\ trees[fd].linked = {}
      BY <3>1, <3>2 DEF Tree, There, Name, BoundPublishedRoot, CompleteOwnedTree
    <3>4. \A location \in RootLocations \union IdentityLocations : trees[fd].at[location] = read[location]
      BY <3>1, <3>3, Zenon DEF RootMembers
    <3>5. \A location \in RootLocations : trees[fd].at[location] = Wanted(location)
      BY <3>1, <3>4, Zenon DEF WantedInv
    <3>6. ASSUME NEW location \in IdentityLocations PROVE trees[fd].at[location] = Wanted(location)
      <4>1. CASE Second
        BY <3>1, <3>4, <4>1, Zenon DEF WantedInv, IdentitiesCopied
      <4>2. CASE ~Second
        <5>1. trees[fd].at[location] = Absent
          BY <3>1, <4>2 DEF IdentityInv, PathInv, Early
        <5>2. location \notin RootLocations
          BY LocationsAreApart, Zenon
        <5> QED BY <4>2, <5>1, <5>2, Zenon DEF Wanted, RootLocations
      <4> QED BY <4>1, <4>2
    <3>7. ASSUME NEW location \in CellLocations, <<fd, location>> \notin unseen'
          PROVE  trees[fd].at[location] = Wanted(location)
      <4>1. location \notin DocumentLocations
        BY LocationsAreApart, Zenon DEF DocumentLocations
      <4>2. <<fd, location>> \notin unseen
        BY <3>1, <3>7, <4>1
      <4> QED BY <3>1, <3>3, <4>2, Zenon DEF WantedInv
    <3>8. \A location : Wanted(location)' = Wanted(location)
      BY <1>1, <3>2, Zenon
    <3>9. \A location \in Locations : <<fd', location>> \notin unseen' =>
             trees'[fd'].at[location] = Wanted(location)'
      BY <3>2, <3>5, <3>6, <3>7, <3>8, Zenon DEF Locations
    <3>10. names'.final = fd' /\ trees'[fd'].linked = {} /\ pc' \notin {"boundcells", "boundagain"}
      BY <3>1, <3>2, <3>3
    <3> QED BY <3>9, <3>10, Zenon DEF WantedInv
  <2> QED BY <2>1, <2>2
<1> QED BY <1>3, <1>4, <1>5, <1>6, <1>7, <1>8, <1>9, StepKinds, RunIsUnfinished, Zenon

LEMMA InitWanted == Init => IdentityInv /\ WantedInv
BY NullAssumption DEF Init, IdentityInv, WantedInv

(* When the review reports success, the name leads to the directory that was      *)
(* staged, and everything in it that nobody changed after its last check is what  *)
(* the run admitted, decided and rendered.                                      *)
THEOREM SuccessfulReviewsAreWhole == Spec => []SuccessIsWhole
<1>1. WantedInv => SuccessIsWhole
  <2> SUFFICES ASSUME WantedInv, result = "OK", NEW location \in Locations, <<names.final, location>> \notin unseen
               PROVE  /\ names.final = fd
                      /\ trees[fd].at[location] = Wanted(location) /\ location \notin trees[fd].linked
    BY Zenon DEF SuccessIsWhole
  <2>1. names.final = fd /\ trees[fd].linked = {}
    BY Zenon DEF WantedInv
  <2>2. trees[fd].at[location] = Wanted(location)
    BY <2>1, Zenon DEF WantedInv
  <2> QED BY <2>1, <2>2
<1> QED BY <1>1, InitShape, InitPath, InitWanted, ShapeStep, PathStep, IdentityStep, WantedStep, PTL DEF Spec

--------------------------------------------------------------------------------
(* What every configuration and every identity is made of. *)

LEMMA EntryIsWritten ==
  ASSUME ShapeInv, NEW inode \in Inodes, NEW location \in Locations, NEW content
  PROVE  [trees EXCEPT ![inode].at[location] = content][inode].at[location] = content
<1> DEFINE t == trees[inode]
           u == [t EXCEPT !.at[location] = content]
           new == [trees EXCEPT ![inode].at[location] = content]
<1>1. trees = [i \in Inodes |-> trees[i]] /\ IsTree(t)
  BY Zenon DEF ShapeInv
<1>2. new[inode] = u
  BY <1>1, Zenon
<1>3. u.at[location] = content
  <2> HIDE DEF t
  <2>1. u.at = [t.at EXCEPT ![location] = content]
    BY <1>1 DEF IsTree
  <2>2. t.at = [l \in Locations |-> t.at[l]]
    BY <1>1, Zenon DEF IsTree
  <2> HIDE DEF u
  <2> QED BY <2>1, <2>2, Zenon
<1> HIDE DEF u, new
<1>4. new[inode].at[location] = content
  BY <1>2, <1>3, Zenon
<1> QED BY <1>4, Zenon DEF new

LEMMA ExceptKeepsDomain ==
  ASSUME NEW f, NEW key, NEW value PROVE DOMAIN [f EXCEPT ![key] = value] = DOMAIN f
OBVIOUS

LEMMA TwoExceptsKeepDomain ==
  ASSUME NEW f, NEW value, NEW other
  PROVE  DOMAIN [f EXCEPT !.cells = value, !.horizon = other] = DOMAIN f
OBVIOUS

LEMMA OthersAreFormed ==
  ASSUME NEW location, NEW content, location # ConfigLocation, location \notin IdentityLocations
  PROVE  Formed(location, content)
BY Zenon DEF Formed

LEMMA InitForm == Init => FormInv
<1> SUFFICES ASSUME Init PROVE FormInv
  OBVIOUS
<1>1. PICK asking \in Documents, generation \in Generations, canonical \in IdentityForms :
        /\ input = [doc |-> asking.doc, fs |-> asking.fs, canonical |-> canonical]
        /\ identities = IdentityFiles(asking.doc, canonical)
  BY Zenon DEF Init
<1>2. Keyed(input.doc)
  <2>1. Keyed(asking.doc)
    BY <1>1, DocumentsAssumption, Zenon DEF Keyed
  <2> QED BY <1>1, <2>1
<1>3. identities = [r \in {1, 2} |-> identities[r]]
  BY <1>1, Zenon DEF IdentityFiles
<1>4. ASSUME NEW r \in {1, 2}, identities[r] # Absent PROVE Identified(identities[r])
  <2> DEFINE file == [role |-> Roles[r], package |-> asking.doc.profiles[r].package,
                      integer |-> asking.doc.profiles[r].integer, digest |-> asking.doc.profiles[r].digest,
                      sentinel |-> "PASS", canonical |-> canonical]
  <2>1. identities[r] = file
    BY <1>1, <1>4, Zenon DEF IdentityFiles
  <2>2. Identified(file)
    BY DEF Identified
  <2> QED BY <2>1, <2>2, Zenon
<1>5. ASSUME NEW inode \in Inodes, NEW location \in Locations PROVE trees[inode].at[location] = Absent
  <2>1. trees[inode] = Empty
    BY Zenon DEF Init
  <2>2. Empty.at[location] = Absent
    BY DEF Empty
  <2> QED BY <2>1, <2>2, Zenon
<1>6. pc = "load"
  BY DEF Init
<1> QED BY <1>2, <1>3, <1>4, <1>5, <1>6 DEF FormInv, Formed

LEMMA WantedIsFormed ==
  ASSUME FormInv, pc \notin {"load", "done"},
         NEW location \in {ConfigLocation} \union IdentityLocations
  PROVE  Formed(location, Wanted(location))
<1>1. CASE location = ConfigLocation
  BY <1>1, LocationsAreApart, Zenon DEF FormInv, Formed, Wanted, RootLocations
<1>2. CASE location \in IdentityLocations
  <2>1. location \notin RootLocations
    BY <1>2, LocationsAreApart, Zenon
  <2>2. Wanted(location) =
          IF Second THEN admitted.identities[IF location = OwnedIdentityLocator("baseline") THEN 1 ELSE 2] ELSE Absent
    BY <1>2, <2>1, Zenon DEF Wanted, RootLocations
  <2>3. CASE Second
    <3>1. PICK r \in {1, 2} : Wanted(location) = admitted.identities[r]
      BY <2>2, <2>3
    <3> QED BY <2>1, <2>3, <3>1, Zenon DEF FormInv, Formed, RootLocations
  <2>4. CASE ~Second
    BY <2>2, <2>4, Zenon DEF Formed
  <2> QED BY <2>3, <2>4
<1> QED BY <1>1, <1>2

(* The directories stay formed: what is written is.                             *)
TreesFormed == \A inode \in Inodes : \A location \in Locations : Formed(location, trees[inode].at[location])

LEMMA WriteKeepsForm ==
  ASSUME ShapeInv, PathInv, TreesFormed, NEW location, NEW content, NEW next,
         WriteNewFile(location, content, next), Formed(location, content), fd # Absent
  PROVE  TreesFormed'
<1>1. CASE trees[fd].at[location] = Absent
  <2> DEFINE new == trees'
  <2>1. new = [trees EXCEPT ![fd].at[location] = content]
    BY <1>1, Zenon DEF WriteNewFile
  <2>2. fd \in Inodes
    BY Zenon DEF PathInv
  <2>3. Apart(new, fd, location)
    BY <2>1, EntryChange, Zenon
  <2> HIDE DEF new
  <2>4. location \in Locations => new[fd].at[location] = content
    <3> SUFFICES ASSUME location \in Locations PROVE new[fd].at[location] = content
      OBVIOUS
    <3>1. [trees EXCEPT ![fd].at[location] = content][fd].at[location] = content
      BY <2>2, EntryIsWritten, Zenon
    <3> QED BY <2>1, <3>1, Zenon
  <2>5. \A inode \in Inodes : \A l \in Locations : Formed(l, new[inode].at[l])
    BY <2>3, <2>4, Zenon DEF Apart, TreesFormed
  <2> QED BY <2>5, Zenon DEF new, TreesFormed, Formed, Identified, Keyed
<1>2. CASE trees[fd].at[location] # Absent
  BY <1>2, Zenon DEF WriteNewFile, Refuse, TreesFormed
<1> QED BY <1>1, <1>2

(* A tree, and what a rival may leave in it.                                     *)
LEMMA AlterationIsFormed ==
  ASSUME FormInv, pc \notin {"load", "done"}, NEW location, NEW old, Formed(location, old),
         NEW content \in Alterations(location, old)
  PROVE  Formed(location, content)
<1>1. CASE location = ConfigLocation
  <2>1. location \notin CellLocations /\ location \notin IdentityLocations
    BY <1>1, LocationsAreApart, Zenon DEF RootLocations
  <2>2. CASE old = Absent
    <3>1. content = [admitted.raw EXCEPT !.horizon = 2]
      BY <1>1, <2>1, <2>2, Zenon DEF Alterations
    <3>2. DOMAIN content = DOMAIN admitted.raw
      BY <3>1, ExceptKeepsDomain
    <3> QED BY <2>1, <3>2, Zenon DEF FormInv, Formed, Keyed
  <2>3. CASE old # Absent
    <3>1. content = Absent \/ content = [old EXCEPT !.cells = CanonicalCells(@), !.horizon = 2]
      <4> DEFINE altered == [old EXCEPT !.cells = CanonicalCells(@), !.horizon = 2]
      <4>1. location # JsonLocation /\ location # MarkdownLocation
        BY <1>1, LocationsAreApart, Zenon
      <4>2. Alterations(location, old) = {Absent} \union {altered}
        BY <1>1, <2>1, <2>3, <4>1, Zenon DEF Alterations
      <4> HIDE DEF altered
      <4>3. content = Absent \/ content = altered
        BY <4>2
      <4> QED BY <4>3 DEF altered
    <3> DEFINE value == CanonicalCells(old.cells)
               two == 2
    <3>2. content = Absent \/ DOMAIN content = DOMAIN old
      <4>1. content = Absent \/ content = [old EXCEPT !.cells = value, !.horizon = two]
        BY <3>1, Zenon
      <4> HIDE DEF value, two
      <4> QED BY <4>1, TwoExceptsKeepDomain, Zenon
    <3> QED BY <1>1, <2>1, <2>3, <3>2, Zenon DEF Formed, Keyed
  <2> QED BY <2>2, <2>3
<1>2. CASE location \in IdentityLocations
  <2>1. location \notin CellLocations /\ location \notin RootLocations
    BY <1>2, LocationsAreApart, Zenon
  <2>2. old # Absent
    BY <1>2, NoNewIdentity, Zenon
  <2>3. content = Absent \/ content = [old EXCEPT !.canonical = ~@]
    BY <1>2, <2>1, <2>2, Zenon DEF Alterations, RootLocations
  <2>4. content = Absent \/ DOMAIN content = DOMAIN old
    BY <2>3, ExceptKeepsDomain, Zenon
  <2> QED BY <1>2, <2>1, <2>2, <2>4, Zenon DEF Formed, Identified, RootLocations
<1> QED BY <1>1, <1>2, OthersAreFormed, Zenon

LEMMA RivalKeepsForm ==
  ASSUME ShapeInv, PathInv, FormInv, Rivals PROVE FormInv'
<1> DEFINE IdentitiesFormed == /\ identities = [r \in {1, 2} |-> identities[r]]
                               /\ \A r \in {1, 2} : identities[r] # Absent => Identified(identities[r])
<1>1. pc # "done" /\ UNCHANGED <<input, admitted, pc, slot>>
  BY Zenon DEF Rivals, Rival, RivalSource, RivalIdentity, RivalName, RivalSwap, RivalEntry, run
<1>2. TreesFormed /\ IdentitiesFormed
  BY Zenon DEF FormInv, TreesFormed
<1>3. fd # Absent \/ receipt # None => pc # "load"
  BY Zenon DEF PathInv, Early
<1>4. ASSUME TreesFormed', IdentitiesFormed' PROVE FormInv'
  BY <1>1, <1>4, Zenon DEF FormInv, TreesFormed, Second, Config
<1>5. CASE UNCHANGED trees /\ UNCHANGED identities
  BY <1>2, <1>4, <1>5, Zenon DEF TreesFormed
<1>6. CASE RivalIdentity
  <2>1. PICK r \in {1, 2} : /\ identities[r] # Absent
                            /\ \/ identities' = [identities EXCEPT ![r] = Absent]
                               \/ identities' = [identities EXCEPT ![r] = [identities[r] EXCEPT !.canonical = ~@]]
    BY <1>6, Zenon DEF RivalIdentity
  <2> DEFINE flipped == ~identities[r].canonical
             other == [identities[r] EXCEPT !.canonical = flipped]
  <2>2. \/ identities' = [identities EXCEPT ![r] = Absent]
        \/ identities' = [identities EXCEPT ![r] = other]
    BY <2>1, Zenon
  <2>3. DOMAIN other = DOMAIN identities[r]
    BY ExceptKeepsDomain, Zenon
  <2>4. Identified(other)
    BY <1>2, <2>1, <2>3, Zenon DEF Identified
  <2> HIDE DEF other
  <2>5. PICK content \in {Absent, other} : identities' = [identities EXCEPT ![r] = content]
    BY <2>2, Zenon
  <2>6. identities' = [q \in {1, 2} |-> IF q = r THEN content ELSE identities[q]]
    BY <1>2, <2>5, Zenon
  <2>7. identities' = [q \in {1, 2} |-> identities'[q]]
    BY <2>6, Zenon
  <2>8. \A q \in {1, 2} : identities'[q] # Absent => Identified(identities'[q])
    BY <1>2, <2>4, <2>5, <2>6, Zenon
  <2>9. IdentitiesFormed'
    BY <2>7, <2>8, Zenon DEF Identified
  <2>10. TreesFormed'
    BY <1>2, <1>6, Zenon DEF RivalIdentity, owned, TreesFormed
  <2> QED BY <1>4, <2>9, <2>10
<1>7. CASE RivalSwap
  <2>1. UNCHANGED identities
    BY <1>7, Zenon DEF RivalSwap
  <2>2. \/ UNCHANGED trees
        \/ /\ receipt # None
           /\ \E tree \in {trees[Own]} \union {OtherTree(g) : g \in OtherGenerations(cells[1].generation)} :
                trees' = [trees EXCEPT ![Foreign] = tree]
    BY <1>7, Zenon DEF RivalSwap
  <2>3. ASSUME receipt # None, NEW g, NEW location \in {ConfigLocation} \union IdentityLocations
        PROVE  OtherTree(g).at[location] = Wanted(location)
    <3> DEFINE changed == [n \in DOMAIN cells |-> [cells[n] EXCEPT !.generation = g]]
               document == BuildRuntimeReviewReceipt(admitted, changed, admitted.identities, admitted.identities,
                                                     RuntimeReviewToolIdentity)
               entry(l) ==
                 IF l = JsonLocation THEN [receipt |-> document, canonical |-> TRUE]
                 ELSE IF l = MarkdownLocation THEN RenderRuntimeReviewMarkdown(document)
                 ELSE IF l \in CellLocations
                        THEN changed[CHOOSE n \in DOMAIN CanonicalSlots : OwnedCellLocator(CanonicalSlots[n]) = l]
                 ELSE Wanted(l)
               at == [l \in Locations |-> entry(l)]
    <3>1. OtherTree(g) = [Empty EXCEPT !.at = at]
      BY Zenon DEF OtherTree
    <3>2. location # JsonLocation /\ location # MarkdownLocation /\ location \notin CellLocations
      BY <2>3, LocationsAreApart, Zenon DEF RootLocations
    <3>3. entry(location) = Wanted(location) /\ location \in Locations
      BY <2>3, <3>2, Zenon DEF Locations, RootLocations
    <3> HIDE DEF entry
    <3>4. at[location] = Wanted(location)
      BY <3>3, Zenon
    <3> HIDE DEF at
    <3>5. OtherTree(g).at = at
      BY <3>1 DEF Empty
    <3> QED BY <3>4, <3>5, Zenon
  <2>4. ASSUME receipt # None,
               NEW tree \in {trees[Own]} \union {OtherTree(g) : g \in OtherGenerations(cells[1].generation)},
               trees' = [trees EXCEPT ![Foreign] = tree]
        PROVE  TreesFormed'
    <3>1. trees'[Foreign] = tree /\ trees'[Own] = trees[Own]
      BY <2>4, TreeChange, InodesAreApart
    <3>2. pc \notin {"load", "done"}
      BY <1>1, <1>3, <2>4
    <3>3. ASSUME NEW location \in Locations PROVE Formed(location, tree.at[location])
      <4>1. CASE tree = trees[Own]
        BY <1>2, <4>1, InodesAreApart, Zenon DEF TreesFormed
      <4>2. ASSUME NEW g, tree = OtherTree(g) PROVE Formed(location, tree.at[location])
        <5>1. CASE location \in {ConfigLocation} \union IdentityLocations
          <6>1. Formed(location, Wanted(location))
            BY <3>2, <5>1, WantedIsFormed
          <6> QED BY <2>3, <2>4, <4>2, <5>1, <6>1, Zenon
        <5>2. CASE location \notin {ConfigLocation} \union IdentityLocations
          <6>1. location # ConfigLocation /\ location \notin IdentityLocations
            BY <5>2
          <6> QED BY <6>1, OthersAreFormed, Zenon
        <5> QED BY <5>1, <5>2
      <4> QED BY <2>4, <4>1, <4>2, Zenon
    <3>4. \A inode \in Inodes : \A l \in Locations : Formed(l, trees'[inode].at[l])
      BY <1>2, <3>1, <3>3, InodesAreApart DEF TreesFormed
    <3> QED BY <3>4, Zenon DEF TreesFormed, Formed, Identified, Keyed
  <2>5. CASE UNCHANGED trees
    BY <1>5, <2>1, <2>5
  <2>6. IdentitiesFormed'
    BY <1>2, <2>1, Zenon DEF Identified
  <2> QED BY <1>4, <2>2, <2>4, <2>5, <2>6, Zenon
<1>8. CASE RivalEntry
  <2>0. UNCHANGED <<names, identities>> /\ fd # Absent
    BY <1>8, Zenon DEF RivalEntry
  <2>1. PICK inode \in {names.staging, names.final} \ {Absent} :
       \/ \E location \in Locations : \E content \in Alterations(location, trees[inode].at[location]) :
            trees' = [trees EXCEPT ![inode].at[location] = content]
       \/ \E location \in Locations : trees' = [trees EXCEPT ![inode].linked = @ \union {location}]
       \/ trees' = [trees EXCEPT ![inode].extra = TRUE]
    BY <1>8, Zenon DEF RivalEntry
  <2>2. inode \in Inodes /\ pc \notin {"load", "done"}
    BY <1>1, <1>3, <2>0, <2>1, Zenon DEF PathInv
  <2>3. ASSUME NEW location \in Locations, NEW content \in Alterations(location, trees[inode].at[location]),
               trees' = [trees EXCEPT ![inode].at[location] = content]
        PROVE  TreesFormed'
    <3>1. Apart(trees', inode, location)
      BY <2>3, EntryChange, Zenon
    <3>2. trees'[inode].at[location] = content
      BY <2>2, <2>3, EntryIsWritten, Zenon
    <3>3. Formed(location, trees[inode].at[location])
      BY <1>2, <2>2, Zenon DEF TreesFormed
    <3>4. Formed(location, content)
      <4> DEFINE old == trees[inode].at[location]
      <4>1. Formed(location, old) /\ content \in Alterations(location, old)
        BY <2>3, <3>3
      <4> HIDE DEF old
      <4> QED BY <2>2, <4>1, AlterationIsFormed
    <3>5. \A i \in Inodes : \A l \in Locations : Formed(l, trees'[i].at[l])
      BY <1>2, <3>1, <3>2, <3>4, Zenon DEF Apart, TreesFormed
    <3> QED BY <3>5, Zenon DEF TreesFormed, Formed, Identified, Keyed
  <2>4. ASSUME NEW value, \/ trees' = [trees EXCEPT ![inode].linked = value]
                          \/ trees' = [trees EXCEPT ![inode].extra = value]
        PROVE  TreesFormed'
    <3>1. \A i \in Inodes : trees'[i].at = trees[i].at
      BY <2>2, <2>4, FieldChange, Zenon
    <3> QED BY <1>2, <3>1, Zenon DEF TreesFormed, Formed, Identified, Keyed
  <2>5. IdentitiesFormed'
    BY <1>2, <2>0, Zenon DEF Identified
  <2>6. TreesFormed'
    BY <2>1, <2>3, <2>4, Zenon
  <2> QED BY <1>4, <2>5, <2>6
<1> QED BY <1>5, <1>6, <1>7, <1>8, Zenon DEF Rivals, RivalSource, RivalName, owned

LEMMA FormOfRun ==
  ASSUME ShapeInv, PathInv, FormInv, Run PROVE FormInv'
<1>1. /\ UNCHANGED input /\ UNCHANGED identities /\ pc \notin {"done"}
      /\ pc # "load" => UNCHANGED admitted /\ pc' # "load"
  <2>1. UNCHANGED input /\ UNCHANGED identities /\ pc \notin {"done"}
    BY Zenon
    DEF Run, asked, owned, LoadConfiguration, AdmitEvidence, CreateOwnedOutputRoot, MakeStaging, OpenStaging,
        WriteConfiguration, CopyCell, RereadCell, CopyProfileIdentity, RereadProfileIdentity, BuildReceipt, WriteJson,
        WriteMarkdown, VerifyStaging, ReadRoot, ValidateCells, Replay, RevalidateCells, RereadRoot, ProbeFinal,
        PublishOutput, CompareReceipts, VerifyPublishedRoot, VerifyPublishedCells, VerifyPublishedAgain
  <2>2. CASE LoadConfiguration
    BY <2>1, <2>2, Zenon DEF LoadConfiguration
  <2>3. CASE UNCHANGED admitted
    <3>1. \/ pc = "load" \/ WriteConfiguration \/ CopyCell \/ CopyProfileIdentity \/ WriteJson \/ WriteMarkdown
          \/ pc' # "load"
      BY SMT
      DEF Run, Goto, Refuse, LoadConfiguration, AdmitEvidence, CreateOwnedOutputRoot, MakeStaging, OpenStaging,
          RereadCell, RereadProfileIdentity, BuildReceipt, VerifyStaging, ReadRoot, ValidateCells, Replay,
          RevalidateCells, RereadRoot, ProbeFinal, PublishOutput, CompareReceipts, VerifyPublishedRoot,
          VerifyPublishedCells, VerifyPublishedAgain
    <3>2. WriteConfiguration \/ CopyCell \/ CopyProfileIdentity \/ WriteJson \/ WriteMarkdown => pc' # "load"
      BY WriteGoes, SMT DEF WriteConfiguration, CopyCell, CopyProfileIdentity, WriteJson, WriteMarkdown, Refuse
    <3> QED BY <2>1, <2>3, <3>1, <3>2, Zenon
  <2> QED
    BY <2>1, <2>2, <2>3, Zenon
    DEF Run, AdmitEvidence, CreateOwnedOutputRoot, MakeStaging, OpenStaging, WriteConfiguration, CopyCell, RereadCell,
        CopyProfileIdentity, RereadProfileIdentity, BuildReceipt, WriteJson, WriteMarkdown, VerifyStaging, ReadRoot,
        ValidateCells, Replay, RevalidateCells, RereadRoot, ProbeFinal, PublishOutput, CompareReceipts,
        VerifyPublishedRoot, VerifyPublishedCells, VerifyPublishedAgain
<1>2. pc' \in {"identity", "identified"} => slot' \in {1, 2}
  <2>1. CASE RereadCell
    BY <2>1, SMT DEF RereadCell, Goto, Refuse
  <2>2. CASE CopyProfileIdentity
    <3>1. slot' = slot
      BY <2>2, Zenon DEF CopyProfileIdentity, WriteNewFile, Refuse
    <3> QED BY <2>2, <3>1, Zenon DEF CopyProfileIdentity, FormInv
  <2>3. CASE RereadProfileIdentity
    BY <2>3, SMT DEF RereadProfileIdentity, Goto, Refuse
  <2>4. CASE WriteConfiguration \/ CopyCell \/ WriteJson \/ WriteMarkdown
    BY <2>4, WriteGoes, SMT DEF WriteConfiguration, CopyCell, WriteJson, WriteMarkdown, Refuse
  <2>5. CASE ~(WriteConfiguration \/ CopyCell \/ WriteJson \/ WriteMarkdown)
    BY <2>1, <2>2, <2>3, <2>5, SMT
    DEF Run, Goto, Refuse, LoadConfiguration, AdmitEvidence, CreateOwnedOutputRoot, MakeStaging, OpenStaging,
        BuildReceipt, VerifyStaging, ReadRoot, ValidateCells, Replay, RevalidateCells, RereadRoot, ProbeFinal,
        PublishOutput, CompareReceipts, VerifyPublishedRoot, VerifyPublishedCells, VerifyPublishedAgain
  <2> QED BY <2>4, <2>5
<1>3. TreesFormed'
  <2>0. TreesFormed
    BY Zenon DEF FormInv, TreesFormed
  <2>1. CASE UNCHANGED trees
    BY <2>0, <2>1, Zenon DEF TreesFormed
  <2>2. fd # Absent \/ pc \in Early \/ pc = "done"
    BY Zenon DEF PathInv
  <2>3. ASSUME NEW location, NEW content, NEW next, WriteNewFile(location, content, next),
               Formed(location, content), pc \notin Early
        PROVE  TreesFormed'
    BY <1>1, <2>0, <2>2, <2>3, WriteKeepsForm, Zenon
  <2>4. CASE WriteConfiguration
    <3>1. Formed(ConfigLocation, admitted.raw)
      <4>1. Keyed(admitted.raw) /\ ConfigLocation \notin IdentityLocations
        BY <2>4, LocationsAreApart DEF WriteConfiguration, FormInv, RootLocations
      <4> QED BY <4>1, Zenon DEF Formed
    <3>2. pc \notin Early
      BY <2>4 DEF WriteConfiguration, Early
    <3> QED BY <2>3, <2>4, <3>1, <3>2, Zenon DEF WriteConfiguration
  <2>5. CASE CopyCell
    <3>1. CellLocation # ConfigLocation /\ CellLocation \notin IdentityLocations
      <4>1. \A l \in IdentityLocations : \E a, b : l = <<a, b>>
        BY DEF IdentityLocations, OwnedIdentityLocator, IdentityFile
      <4>2. \A a, b, c, d, x, y : <<x, y>> # <<a, b, c, d>>
        OBVIOUS
      <4>3. \A a, b, c, d, x : <<x>> # <<a, b, c, d>>
        OBVIOUS
      <4> QED BY <4>1, <4>2, <4>3, Zenon DEF CellLocation, OwnedCellLocator, ConfigLocation
    <3>2. Formed(CellLocation, cells[slot])
      BY <3>1, OthersAreFormed, Zenon
    <3>3. pc \notin Early
      BY <2>5 DEF CopyCell, Early
    <3> QED BY <2>1, <2>3, <2>5, <3>2, <3>3, Zenon DEF CopyCell
  <2>6. CASE CopyProfileIdentity
    <3>1. pc = "identity" /\ slot \in {1, 2} /\ pc \notin Early
      BY <2>6 DEF CopyProfileIdentity, Early, FormInv
    <3>2. Formed(OwnedIdentityLocator(Roles[slot]), identities[slot])
      <4>1. OwnedIdentityLocator(Roles[slot]) # ConfigLocation
        BY DEF OwnedIdentityLocator, IdentityFile, ConfigLocation
      <4> QED BY <3>1, <4>1, Zenon DEF FormInv, Formed
    <3> QED BY <2>1, <2>3, <2>6, <3>1, <3>2, Zenon DEF CopyProfileIdentity
  <2>7. CASE WriteJson \/ WriteMarkdown
    <3>1. \A content : Formed(JsonLocation, content) /\ Formed(MarkdownLocation, content)
      BY LocationsAreApart, OthersAreFormed, Zenon DEF RootLocations
    <3>2. pc \notin Early
      BY <2>7 DEF WriteJson, WriteMarkdown, Early
    <3> QED BY <2>3, <2>7, <3>1, <3>2, Zenon DEF WriteJson, WriteMarkdown
  <2> QED
    BY <2>1, <2>4, <2>5, <2>6, <2>7, Zenon
    DEF Run, owned, LoadConfiguration, AdmitEvidence, CreateOwnedOutputRoot, MakeStaging, OpenStaging, RereadCell,
        RereadProfileIdentity, BuildReceipt, VerifyStaging, ReadRoot, ValidateCells, Replay, RevalidateCells,
        RereadRoot, ProbeFinal, PublishOutput, CompareReceipts, VerifyPublishedRoot, VerifyPublishedCells,
        VerifyPublishedAgain
<1>4. pc' \notin {"load", "done"} =>
        (Keyed(admitted.raw) /\ (Second => \A r \in {1, 2} : admitted.identities[r] # Absent =>
                                             Identified(admitted.identities[r])))'
  <2>1. CASE pc # "load"
    BY <1>1, <2>1, Zenon DEF FormInv, Second, Config, Keyed, Identified
  <2>2. CASE pc = "load"
    <3> SUFFICES ASSUME pc' # "done" PROVE
          (Keyed(admitted.raw) /\ (Second => \A r \in {1, 2} : admitted.identities[r] # Absent =>
                                             Identified(admitted.identities[r])))'
      BY Zenon
    <3>1. LoadConfiguration
      BY <2>2
      DEF Run, LoadConfiguration, AdmitEvidence, CreateOwnedOutputRoot, MakeStaging, OpenStaging, WriteConfiguration,
          CopyCell, RereadCell, CopyProfileIdentity, RereadProfileIdentity, BuildReceipt, WriteJson, WriteMarkdown,
          VerifyStaging, ReadRoot, ValidateCells, Replay, RevalidateCells, RereadRoot, ProbeFinal, PublishOutput,
          CompareReceipts, VerifyPublishedRoot, VerifyPublishedCells, VerifyPublishedAgain
    <3>2. admitted' = Admitted(input.doc, identities)
      BY <3>1, Zenon DEF LoadConfiguration, Refuse
    <3>3. admitted'.raw = input.doc /\ admitted'.config = Configuration(input.doc)
      BY <3>2 DEF Admitted
    <3>4. admitted'.identities = IF input.doc.schema_version = 2 THEN identities ELSE <<>>
      BY <3>2 DEF Admitted
    <3>5. Keyed(input.doc)
      BY Zenon DEF FormInv
    <3>6. Second' => admitted'.identities = identities
      BY <3>3, <3>4, <3>5, ConfigurationKeeps, Zenon DEF Second, Config
    <3>7. \A r \in {1, 2} : identities[r] # Absent => Identified(identities[r])
      BY Zenon DEF FormInv
    <3> QED BY <3>3, <3>5, <3>6, <3>7, Zenon DEF Keyed, Identified
  <2> QED BY <2>1, <2>2
<1>5. (/\ Keyed(input.doc) /\ identities = [r \in {1, 2} |-> identities[r]]
       /\ \A r \in {1, 2} : identities[r] # Absent => Identified(identities[r]))'
  BY <1>1, Zenon DEF FormInv, Keyed, Identified
<1> QED BY <1>2, <1>3, <1>4, <1>5, Zenon DEF FormInv, TreesFormed

LEMMA FormStep ==
  ASSUME ShapeInv, PathInv, FormInv, [Next]_vars PROVE FormInv'
<1>1. CASE UNCHANGED <<input, identities, admitted, slot, trees>> /\ pc' \in {pc, "done"}
  BY <1>1 DEF FormInv, Second, Config, Keyed, Identified, Formed
<1>2. CASE Fault
  BY <1>1, <1>2, Zenon DEF Fault, Refuse, owned
<1>3. CASE UNCHANGED vars
  BY <1>1, <1>3, Zenon DEF vars
<1> QED BY <1>2, <1>3, FormOfRun, RivalKeepsForm, Zenon DEF Next, Done

--------------------------------------------------------------------------------
(* Exposure. *)

(* Where the validator has begun, and not yet published.                        *)
Inside == {"cells", "replay", "recells", "reroot", "stat", "rename"}

LEMMA RunIsOutside ==
  ASSUME Run
  PROVE  ReadRoot \/ ValidateCells \/ Replay \/ RevalidateCells \/ RereadRoot \/ ProbeFinal \/ pc' \notin Inside
<1>1. CASE WriteConfiguration \/ CopyCell \/ CopyProfileIdentity \/ WriteJson \/ WriteMarkdown
  BY <1>1, WriteGoes, SMT
  DEF Inside, WriteConfiguration, CopyCell, CopyProfileIdentity, WriteJson, WriteMarkdown, Refuse
<1>2. CASE ~(WriteConfiguration \/ CopyCell \/ CopyProfileIdentity \/ WriteJson \/ WriteMarkdown)
  BY <1>2, SMT
  DEF Run, Inside, Goto, Refuse, LoadConfiguration, AdmitEvidence, CreateOwnedOutputRoot, MakeStaging, OpenStaging,
      RereadCell, RereadProfileIdentity, BuildReceipt, VerifyStaging, PublishOutput, CompareReceipts,
      VerifyPublishedRoot, VerifyPublishedCells, VerifyPublishedAgain
<1> QED BY <1>1, <1>2

Links == \A inode \in Inodes : trees[inode].linked \subseteq Locations

LEMMA LinksStep ==
  ASSUME ShapeInv, PathInv, Links, [Next]_vars PROVE Links'
<1>1. CASE UNCHANGED trees
  BY <1>1, Zenon DEF Links
<1>2. ASSUME NEW location, NEW content, NEW next, WriteNewFile(location, content, next), pc \notin Early \union {"done"}
      PROVE  Links'
  <2>1. CASE trees[fd].at[location] = Absent
    <3> DEFINE new == trees'
    <3>1. new = [trees EXCEPT ![fd].at[location] = content] /\ fd \in Inodes
      BY <1>2, <2>1, Zenon DEF WriteNewFile, PathInv
    <3> HIDE DEF new
    <3>2. \A i \in Inodes : new[i].linked = trees[i].linked
      BY <3>1, EntryKeepsLinks
    <3> QED BY <3>2, Zenon DEF new, Links
  <2>2. CASE trees[fd].at[location] # Absent
    BY <1>1, <1>2, <2>2, Zenon DEF WriteNewFile
  <2> QED BY <2>1, <2>2
<1>3. CASE Drift
  BY <1>3, Zenon DEF Drift, Links
<1>4. CASE WriteConfiguration
  <2>1. pc \notin Early \union {"done"}
    BY <1>4 DEF WriteConfiguration, Early
  <2> QED BY <1>2, <1>4, <2>1, Zenon DEF WriteConfiguration
<1>5. CASE CopyCell
  <2>1. pc \notin Early \union {"done"}
    BY <1>5 DEF CopyCell, Early
  <2> QED BY <1>1, <1>2, <1>5, <2>1, Zenon DEF CopyCell
<1>6. CASE CopyProfileIdentity
  <2>1. pc \notin Early \union {"done"}
    BY <1>6 DEF CopyProfileIdentity, Early
  <2> QED BY <1>1, <1>2, <1>6, <2>1, Zenon DEF CopyProfileIdentity
<1>7. CASE WriteJson \/ WriteMarkdown
  <2>1. pc \notin Early \union {"done"}
    BY <1>7 DEF WriteJson, WriteMarkdown, Early
  <2> QED BY <1>2, <1>7, <2>1, Zenon DEF WriteJson, WriteMarkdown
<1>8. CASE Run
  BY <1>1, <1>4, <1>5, <1>6, <1>7, <1>8, Zenon
  DEF Run, owned, LoadConfiguration, AdmitEvidence, CreateOwnedOutputRoot, MakeStaging, OpenStaging, RereadCell,
      RereadProfileIdentity, BuildReceipt, VerifyStaging, ReadRoot, ValidateCells, Replay, RevalidateCells,
      RereadRoot, ProbeFinal, PublishOutput, CompareReceipts, VerifyPublishedRoot, VerifyPublishedCells,
      VerifyPublishedAgain
<1> QED BY <1>1, <1>3, <1>8, StepKinds, Zenon DEF Fault, owned, vars

LEMMA CellIsALocation ==
  ASSUME NEW n \in DOMAIN CanonicalSlots
  PROVE  OwnedCellLocator(CanonicalSlots[n]) \in CellLocations
BY Zenon DEF CellLocations, Slots, SetOf


(* What is known of the staged directory once its cells, and then its documents,  *)
(* were read again.                                                             *)
CellsSeen ==
  /\ ParseOwnedEvidenceCells(ReceiptRead.evidence_cells)
  /\ names.staging # Absent =>
       \A n \in DOMAIN CanonicalSlots :
         <<names.staging, OwnedCellLocator(CanonicalSlots[n])>> \notin unseen => CellAccepted(names.staging, n)

DocumentsSeen ==
  names.staging # Absent =>
    \A location \in DocumentLocations : <<names.staging, location>> \notin unseen =>
      trees[names.staging].at[location] = read[location] /\ location \notin trees[names.staging].linked

(* The acceptance of a tree that read was replayed on.                           *)
Replayed == \E tree : ReplayAccepted(ReceiptRead, read, tree)

LEMMA ExposedParts ==
  ExposedInv <=> /\ Links
                 /\ pc \in Inside => ReadAccepted
                 /\ pc \in Inside \ {"cells", "replay"} => Replayed
                 /\ pc \in {"reroot", "stat", "rename"} /\ slot = 1 => CellsSeen
                 /\ pc \in {"stat", "rename"} => DocumentsSeen
<1>1. (Walk \ {"root"}) \union {"stat", "rename"} = Inside /\ Inside \ {"cells", "replay"} = {"recells", "reroot", "stat", "rename"}
  BY DEF Walk, Inside
<1> QED BY <1>1, Zenon DEF ExposedInv, Links, Replayed, CellsSeen, DocumentsSeen

LEMMA DriftKeepsSeen ==
  ASSUME PathInv, Drift
  PROVE  /\ CellsSeen => CellsSeen'
         /\ DocumentsSeen => DocumentsSeen'
<1>1. read' = read
  BY Zenon DEF Drift, run
<1>2. ASSUME NEW location \in Locations, names'.staging # Absent, <<names'.staging, location>> \notin unseen'
      PROVE  /\ names'.staging = names.staging /\ names.staging \in Inodes
             /\ <<names.staging, location>> \notin unseen
             /\ trees'[names.staging].at[location] = trees[names.staging].at[location]
             /\ location \in trees'[names.staging].linked => location \in trees[names.staging].linked
  <2>1. names'.staging = names.staging
    BY <1>2, Zenon DEF Drift
  <2>2. names.staging \in Inodes
    BY <1>2, <2>1, Zenon DEF PathInv
  <2> QED BY <1>2, <2>1, <2>2, Zenon DEF Drift
<1>3. ASSUME CellsSeen PROVE CellsSeen'
  <2>1. ParseOwnedEvidenceCells(ReceiptRead.evidence_cells)'
    BY <1>1, <1>3, Zenon DEF CellsSeen, ReceiptRead
  <2>2. ASSUME names'.staging # Absent, NEW n \in DOMAIN CanonicalSlots,
               <<names'.staging, OwnedCellLocator(CanonicalSlots[n])>> \notin unseen'
        PROVE  CellAccepted(names.staging, n)'
    <3> DEFINE location == OwnedCellLocator(CanonicalSlots[n])
    <3>1. location \in Locations
      BY CellIsALocation, Zenon DEF Locations
    <3>2. CellAccepted(names.staging, n)
      BY <1>2, <1>3, <2>2, <3>1, Zenon DEF CellsSeen
    <3>3. ReceiptRead.evidence_cells[n].directory = location
      BY <1>3, Zenon DEF CellsSeen, ParseOwnedEvidenceCells
    <3>4. /\ names'.staging = names.staging
          /\ trees'[names.staging].at[location] = trees[names.staging].at[location]
          /\ location \in trees'[names.staging].linked => location \in trees[names.staging].linked
      BY <1>2, <2>2, <3>1, Zenon
    <3>5. ReceiptRead' = ReceiptRead
      BY <1>1, Zenon DEF ReceiptRead
    <3> HIDE DEF location
    <3> QED BY <3>2, <3>3, <3>4, <3>5, Zenon DEF CellAccepted, ValidateOwnedEvidenceCell
  <2> QED BY <2>1, <2>2, Zenon DEF CellsSeen
<1>4. ASSUME DocumentsSeen PROVE DocumentsSeen'
  <2>1. DocumentLocations \subseteq Locations
    BY Zenon DEF DocumentLocations, Locations
  <2> QED BY <1>1, <1>2, <1>4, <2>1, Zenon DEF DocumentsSeen
<1> QED BY <1>3, <1>4

LEMMA ExposedStep ==
  ASSUME ShapeInv, PathInv, FormInv, ExposedInv, [Next]_vars PROVE ExposedInv'
<1> DEFINE Quiet == UNCHANGED <<names, trees, fd>>
<1>1. Links'
  BY ExposedParts, LinksStep, Zenon
<1>2. read' = read =>
        /\ ReadAccepted => ReadAccepted'
        /\ Replayed => Replayed'
        /\ ReceiptRead' = ReceiptRead
  BY Zenon DEF ReadAccepted, Replayed, ReceiptRead, Formed, Keyed, Identified
<1>3. CASE pc' \notin Inside
  BY <1>1, <1>3, ExposedParts, SMT DEF ExposedInv, Links, Inside, Walk
<1>4. CASE Drift
  <2>1. pc' = pc /\ slot' = slot /\ read' = read
    BY <1>4, Zenon DEF Drift, run
  <2>2. /\ pc' \in Inside => ReadAccepted'
        /\ pc' \in Inside \ {"cells", "replay"} => Replayed'
        /\ pc' \in {"reroot", "stat", "rename"} /\ slot' = 1 => CellsSeen'
        /\ pc' \in {"stat", "rename"} => DocumentsSeen'
    BY <1>2, <1>4, <2>1, ExposedParts, DriftKeepsSeen, Zenon
  <2> QED BY <1>1, <2>2, ExposedParts, Zenon DEF ExposedInv, Links, Inside, Walk, Replayed, CellsSeen, DocumentsSeen
<1>5. ASSUME pc' \in Inside => ReadAccepted',
             pc' \in Inside \ {"cells", "replay"} => Replayed',
             pc' \in {"reroot", "stat", "rename"} /\ slot' = 1 => CellsSeen',
             pc' \in {"stat", "rename"} => DocumentsSeen'
      PROVE  ExposedInv'
  BY <1>1, <1>5, Zenon DEF ExposedInv, Links, Inside, Walk, Replayed, CellsSeen, DocumentsSeen
<1>6. CASE ReadRoot
  <2>1. CASE pc' \in Inside
    <3>1. /\ read' = RootMembers(Tree) /\ pc' = "cells" /\ CompleteOwnedTree(Tree) /\ UNCHANGED <<names, trees, slot>>
          /\ DocumentsAccepted(Tree.at[JsonLocation], Tree.at[MarkdownLocation]) /\ There # Absent
      BY <1>6, <2>1 DEF ReadRoot, Refuse, Inside, owned
    <3>2. \A location \in RootLocations \union IdentityLocations : read'[location] = Tree.at[location]
      BY <3>1, Zenon DEF RootMembers
    <3>3. JsonLocation \in RootLocations /\ MarkdownLocation \in RootLocations
      BY DEF RootLocations
    <3>4. There \in Inodes
      BY <3>1, Zenon DEF There, Name, PathInv
    <3>5. \A location \in RootLocations \union IdentityLocations : Formed(location, read'[location])
      BY <3>2, <3>4, Zenon DEF FormInv, Tree, Locations
    <3>6. read' = [location \in RootLocations \union IdentityLocations |-> read'[location]]
      BY <3>1, Zenon DEF RootMembers
    <3>7. /\ DocumentsAccepted(read'[JsonLocation], read'[MarkdownLocation])
          /\ \A location \in RootLocations : read'[location] # Absent
          /\ \/ \A location \in IdentityLocations : read'[location] = Absent
             \/ \A location \in IdentityLocations : read'[location] # Absent
      BY <3>1, <3>2, <3>3, Zenon DEF CompleteOwnedTree
    <3>8. ReadAccepted'
      BY <3>5, <3>6, <3>7, Zenon DEF ReadAccepted, Formed, Keyed, Identified
    <3> QED BY <1>5, <3>1, <3>8 DEF Inside
  <2> QED BY <1>3, <2>1
<1>7. CASE ValidateCells
  <2>1. CASE pc' \in Inside
    <3>1. pc = "cells" /\ pc' = "replay" /\ read' = read
      BY <1>7, <2>1 DEF ValidateCells, Refuse, Inside
    <3>2. ReadAccepted'
      BY <1>2, <3>1, ExposedParts DEF Inside
    <3> QED BY <1>5, <3>1, <3>2 DEF Inside
  <2> QED BY <1>3, <2>1
<1>8. CASE Replay
  <2>1. CASE pc' \in Inside
    <3>1. pc = "replay" /\ pc' = "recells" /\ read' = read /\ ReplayAccepted(ReceiptRead, read, Tree)
      BY <1>8, <2>1 DEF Replay, Refuse, Inside
    <3>2. ReadAccepted' /\ Replayed'
      <4>1. Replayed
        BY <3>1, Zenon DEF Replayed
      <4> QED BY <1>2, <3>1, <4>1, ExposedParts DEF Inside
    <3> QED BY <1>5, <3>1, <3>2 DEF Inside
  <2> QED BY <1>3, <2>1
<1>9. CASE RevalidateCells
  <2>1. CASE pc' \in Inside
    <3>1. /\ pc = "recells" /\ pc' = "reroot" /\ read' = read /\ UNCHANGED <<names, trees, slot>>
          /\ CellsAccepted(ReceiptRead.evidence_cells, Tree)
      BY <1>9, <2>1 DEF RevalidateCells, Refuse, Inside
    <3>2. ReadAccepted' /\ Replayed' /\ ReceiptRead' = ReceiptRead
      BY <1>2, <3>1, ExposedParts DEF Inside
    <3>3. ASSUME slot' = 1 PROVE CellsSeen'
      <4>1. Tree = trees[names.staging] /\ slot = 1
        BY <3>1, <3>3, Zenon DEF Tree, There, Name
      <4>2. /\ ParseOwnedEvidenceCells(ReceiptRead.evidence_cells)
            /\ \A n \in DOMAIN CanonicalSlots : CellAccepted(names.staging, n)
        BY <3>1, <4>1, Zenon DEF CellsAccepted, ParseOwnedEvidenceCells, CellAccepted
      <4> QED BY <3>1, <3>2, <4>2, Zenon DEF CellsSeen, CellAccepted
    <3> QED BY <1>5, <3>1, <3>2, <3>3 DEF Inside
  <2> QED BY <1>3, <2>1
<1>10. CASE RereadRoot
  <2>1. CASE pc' \in Inside
    <3>1. /\ pc = "reroot" /\ pc' = "stat" /\ slot = 1 /\ read' = read /\ UNCHANGED <<names, trees, slot>>
          /\ CompleteOwnedTree(Tree) /\ RootUnchanged(Tree)
          /\ unseen' = unseen \ ({There} \X DocumentLocations)
      BY <1>10, <2>1 DEF RereadRoot, Refuse, Inside
    <3>2. /\ ReadAccepted' /\ Replayed' /\ ReceiptRead' = ReceiptRead
          /\ CellsSeen
      BY <1>2, <3>1, ExposedParts DEF Inside
    <3>3. Tree = trees[names.staging]
      BY <3>1, Zenon DEF Tree, There, Name
    <3>4. CellsSeen'
      <4>1. ASSUME NEW n \in DOMAIN CanonicalSlots,
                   <<names.staging, OwnedCellLocator(CanonicalSlots[n])>> \notin unseen'
            PROVE  <<names.staging, OwnedCellLocator(CanonicalSlots[n])>> \notin unseen
        <5>1. OwnedCellLocator(CanonicalSlots[n]) \notin DocumentLocations
          BY CellIsALocation, LocationsAreApart, Zenon DEF DocumentLocations
        <5> QED BY <3>1, <4>1, <5>1
      <4> QED BY <3>1, <3>2, <4>1, Zenon DEF CellsSeen, CellAccepted
    <3>5. DocumentsSeen'
      <4>1. \A location \in DocumentLocations : trees[names.staging].at[location] = read[location]
        BY <3>1, <3>3, Zenon DEF RootUnchanged, RootMembers, DocumentLocations
      <4>2. trees[names.staging].linked = {}
        BY <3>1, <3>3, Zenon DEF CompleteOwnedTree
      <4> QED BY <3>1, <4>1, <4>2, Zenon DEF DocumentsSeen
    <3> QED BY <1>5, <3>1, <3>2, <3>4, <3>5
  <2> QED BY <1>3, <2>1
<1>11. CASE ProbeFinal
  <2>1. CASE pc' \in Inside
    <3>1. pc = "stat" /\ pc' = "rename" /\ read' = read /\ UNCHANGED <<names, trees, slot, unseen>> /\ slot = 1
      BY <1>11, <2>1 DEF ProbeFinal, Refuse, Inside, owned, PathInv
    <3>2. /\ ReadAccepted' /\ Replayed' /\ ReceiptRead' = ReceiptRead
          /\ CellsSeen /\ DocumentsSeen
      BY <1>2, <3>1, ExposedParts DEF Inside
    <3>3. CellsSeen' /\ DocumentsSeen'
      BY <3>1, <3>2, Zenon DEF CellsSeen, CellAccepted, DocumentsSeen
    <3> QED BY <1>5, <3>2, <3>3, Zenon
  <2> QED BY <1>3, <2>1
<1>12. CASE Fault
  <2>1. pc' = "done"
    BY <1>12, Zenon DEF Fault, Refuse
  <2> QED BY <1>3, <2>1 DEF Inside
<1>13. CASE UNCHANGED vars
  BY <1>13 DEF vars, ExposedInv, ReadAccepted, CellAccepted, ReceiptRead
<1> QED
  BY <1>3, <1>4, <1>6, <1>7, <1>8, <1>9, <1>10, <1>11, <1>12, <1>13, StepKinds, RunIsOutside, Zenon


LEMMA InitExposed == Init => ExposedInv
<1>1. Empty.linked = {}
  BY DEF Empty
<1> QED BY <1>1, SMT DEF Init, ExposedInv, Walk

(* The identities a replay does not tell apart.                                  *)
Alike(left, right) ==
  \A r \in {1, 2} : /\ left[r] = Absent <=> right[r] = Absent
                    /\ left[r].role = right[r].role /\ left[r].digest = right[r].digest
                    /\ IdentityProjection(left[r]) = IdentityProjection(right[r])

LEMMA AlikeIsAdmitted ==
  ASSUME NEW config, NEW contents, NEW left, NEW right,
         config.schema_version # 2 \/ Alike(left, right)
  PROVE  /\ RuntimeEvidenceAdmitted(config, contents, left) => RuntimeEvidenceAdmitted(config, contents, right)
         /\ ProfilesPrimitive(config, contents, left) = ProfilesPrimitive(config, contents, right)
<1>1. ASSUME RuntimeEvidenceAdmitted(config, contents, left), NEW n \in DOMAIN config.cells,
             config.schema_version = 2
      PROVE  LET r == IF config.cells[n].slot.role = "baseline" THEN 1 ELSE 2 IN
             /\ right[r] # Absent
             /\ right[r].role = Roles[r]
             /\ right[r].digest = config.profiles[r].digest
             /\ contents[n].profile = right[r].digest
  <2> DEFINE r == IF config.cells[n].slot.role = "baseline" THEN 1 ELSE 2
  <2>1. r \in {1, 2}
    OBVIOUS
  <2>2. /\ left[r] # Absent /\ left[r].role = Roles[r]
        /\ left[r].digest = config.profiles[r].digest /\ contents[n].profile = left[r].digest
    BY <1>1, Zenon DEF RuntimeEvidenceAdmitted
  <2> HIDE DEF r
  <2>3. /\ right[r] # Absent /\ right[r].role = Roles[r]
        /\ right[r].digest = config.profiles[r].digest /\ contents[n].profile = right[r].digest
    BY <1>1, <2>1, <2>2, Zenon DEF Alike
  <2> QED BY <2>3, Zenon DEF r
<1>2. RuntimeEvidenceAdmitted(config, contents, left) => RuntimeEvidenceAdmitted(config, contents, right)
  BY <1>1, Zenon DEF RuntimeEvidenceAdmitted
<1>3. ASSUME NEW r \in {1, 2}
      PROVE  OneProfilePrimitive(config, contents, left, r) = OneProfilePrimitive(config, contents, right, r)
  BY Zenon DEF OneProfilePrimitive, Alike
<1> QED BY <1>2, <1>3, Zenon DEF ProfilesPrimitive

(* A tree with the cells and the identities a receipt was replayed on replays     *)
(* too, even if the identities were rewritten canonically meanwhile.             *)
LEMMA ReplayCarries ==
  ASSUME NEW document, NEW root, NEW seen, NEW tree,
         ReplayAccepted(document, root, seen),
         Keyed(root[ConfigLocation]),
         \A location \in IdentityLocations : root[location] # Absent => Identified(root[location]),
         \A location \in IdentityLocations : tree.at[location] = root[location],
         \A n \in DOMAIN CanonicalSlots :
           tree.at[OwnedCellLocator(CanonicalSlots[n])] = document.evidence_cells[n].members
  PROVE  ReplayAccepted(document, root, tree)
<1> DEFINE raw == root[ConfigLocation]
           config == Configuration(raw)
           left == OwnedIdentities(seen.at)
           right == OwnedIdentities(tree.at)
           contents == OwnedCells(seen)
<1>1. /\ LoadRetainedConfiguration(document, raw) /\ RecomputeAndCompare(document, root, seen)
      /\ document.schema_version # 1 => ParseOwnedProfileIdentitiesV2(document, root, seen, config)
  BY Zenon DEF ReplayAccepted
<1>2. config.schema_version = document.schema_version /\ document.schema_version \in {1, 2}
  <2>1. raw.schema_version = document.schema_version /\ DocumentAdmitted(raw)
    BY <1>1, Zenon DEF LoadRetainedConfiguration
  <2>2. config.schema_version = raw.schema_version
    BY ConfigurationKeeps
  <2>3. raw.schema_version \in {1, 2}
    BY <2>1 DEF DocumentAdmitted
  <2> QED BY <2>1, <2>2, <2>3, Zenon
<1>3. \A r \in {1, 2} : OwnedIdentityLocator(Roles[r]) \in IdentityLocations
  <2>1. \A r \in {1, 2} : Roles[r] \in SetOf(Roles)
    BY DEF SetOf, Roles
  <2> QED BY <2>1, Zenon DEF IdentityLocations
<1>4. \A r \in {1, 2} : /\ left[r] = seen.at[OwnedIdentityLocator(Roles[r])]
                        /\ right[r] = root[OwnedIdentityLocator(Roles[r])]
                        /\ right[r] = tree.at[OwnedIdentityLocator(Roles[r])]
  BY <1>3, Zenon DEF OwnedIdentities
<1>5. ASSUME document.schema_version = 2, NEW r \in {1, 2}
      PROVE  /\ left[r] # Absent /\ right[r] # Absent
             /\ left[r].role = right[r].role /\ left[r].digest = right[r].digest
             /\ IdentityProjection(left[r]) = IdentityProjection(right[r])
             /\ OwnedProfileIdentityAccepted(document.profiles[r], right[r], right[r], config.profiles[r], r)
  <2> DEFINE file == right[r]
             now == left[r]
             yes == TRUE
  <2>1. OwnedProfileIdentityAccepted(document.profiles[r], file, now, config.profiles[r], r)
    <3>1. ParseOwnedProfileIdentitiesV2(document, root, seen, config)
      BY <1>1, <1>5
    <3> QED BY <1>4, <3>1, Zenon DEF ParseOwnedProfileIdentitiesV2
  <2>2. Identified(file)
    BY <1>3, <1>4, <2>1, Zenon DEF OwnedProfileIdentityAccepted
  <2>3. file = [now EXCEPT !.canonical = yes]
    BY <2>1, Zenon DEF OwnedProfileIdentityAccepted
  <2> HIDE DEF file, now, yes, config
  <2>4. DOMAIN file = DOMAIN now
    BY <2>3, ExceptKeepsDomain
  <2>5. \A key \in {"role", "package", "integer", "digest", "sentinel"} : file[key] = now[key]
    BY <2>2, <2>3, <2>4 DEF Identified
  <2>6. /\ file.role = now.role /\ file.package = now.package /\ file.integer = now.integer
        /\ file.digest = now.digest /\ file.sentinel = now.sentinel
    BY <2>5
  <2>7. IdentityProjection(now) = IdentityProjection(file)
    BY <2>6, Zenon DEF IdentityProjection
  <2>8. file = [file EXCEPT !.canonical = yes]
    <3>1. [file EXCEPT !.canonical = yes] = [key \in DOMAIN file |-> IF key = "canonical" THEN yes ELSE file[key]]
      BY Zenon
    <3>2. file = [key \in DOMAIN now |-> IF key = "canonical" THEN yes ELSE now[key]]
      BY <2>3, Zenon
    <3>3. \A key \in DOMAIN now : file[key] = IF key = "canonical" THEN yes ELSE now[key]
      BY <3>2, Zenon
    <3> QED BY <2>4, <3>1, <3>2, <3>3, Zenon
  <2>9. OwnedProfileIdentityAccepted(document.profiles[r], file, file, config.profiles[r], r)
    BY <2>1, <2>6, <2>7, <2>8, Zenon DEF OwnedProfileIdentityAccepted, yes
  <2> QED BY <2>1, <2>6, <2>7, <2>9, Zenon DEF file, now, OwnedProfileIdentityAccepted
<1>6. config.schema_version # 2 \/ Alike(left, right)
  BY <1>2, <1>5, Zenon DEF Alike
<1>7. OwnedCells(tree) = contents
  <2>1. document["evidence_cells"] = Rebuilt(root, seen, document.tool)["evidence_cells"]
    BY <1>1, Zenon DEF RecomputeAndCompare, RecomputedKeys
  <2>2. Rebuilt(root, seen, document.tool).evidence_cells = OwnedEvidenceCells(contents)
    BY Zenon DEF Rebuilt, BuildRuntimeReviewReceipt
  <2>3. document.evidence_cells = OwnedEvidenceCells(contents)
    BY <2>1, <2>2, Zenon
  <2>4. \A n \in DOMAIN CanonicalSlots : OwnedEvidenceCells(contents)[n].members = contents[n]
    BY Zenon DEF OwnedEvidenceCells
  <2>5. \A n \in DOMAIN CanonicalSlots : tree.at[OwnedCellLocator(CanonicalSlots[n])] = contents[n]
    BY <2>3, <2>4, Zenon
  <2>6. \A n \in DOMAIN CanonicalSlots : contents[n] = seen.at[OwnedCellLocator(CanonicalSlots[n])]
    BY Zenon DEF OwnedCells
  <2> QED BY <2>5, <2>6, Zenon DEF OwnedCells
<1>8. /\ RuntimeEvidenceAdmitted(config, contents, left) => RuntimeEvidenceAdmitted(config, contents, right)
      /\ ProfilesPrimitive(config, contents, left) = ProfilesPrimitive(config, contents, right)
  <2> HIDE DEF config, left, right, contents
  <2> QED BY <1>6, AlikeIsAdmitted
<1>9. RecomputeAndCompare(document, root, tree)
  <2> DEFINE admission == Readmitted(root)
  <2>1. admission.config = config
    BY DEF Readmitted
  <2>2. RuntimeEvidenceAdmitted(config, OwnedCells(tree), OwnedIdentities(tree.at))
    BY <1>1, <1>7, <1>8, Zenon DEF RecomputeAndCompare
  <2> HIDE DEF admission, config, left, right, contents
  <2>3. ReceiptBuilds(admission, contents, left, OwnedIdentities(root))
          => ReceiptBuilds(admission, contents, right, OwnedIdentities(root))
    BY <1>8, <2>1, Zenon DEF ReceiptBuilds
  <2>4. \A tool : BuildRuntimeReviewReceipt(admission, contents, left, OwnedIdentities(root), tool)
                    = BuildRuntimeReviewReceipt(admission, contents, right, OwnedIdentities(root), tool)
    BY <1>8, <2>1, Zenon DEF BuildRuntimeReviewReceipt
  <2>5. \A tool : Rebuilt(root, seen, tool) = Rebuilt(root, tree, tool)
    BY <1>7, <2>4, Zenon DEF Rebuilt, admission, contents, left, right
  <2>6. document.schema_version = 2 =>
          ReceiptBuilds(Readmitted(root), OwnedCells(tree), OwnedIdentities(tree.at), OwnedIdentities(root))
    BY <1>1, <1>7, <2>3, Zenon DEF RecomputeAndCompare, admission, contents, left, right
  <2>7. \A key \in RecomputedKeys : document[key] = Rebuilt(root, tree, document.tool)[key]
    BY <1>1, <2>5, Zenon DEF RecomputeAndCompare
  <2> QED BY <2>2, <2>6, <2>7, Zenon DEF RecomputeAndCompare, config
<1>10. document.schema_version # 1 => ParseOwnedProfileIdentitiesV2(document, root, tree, config)
  <2> SUFFICES ASSUME document.schema_version # 1
               PROVE  ParseOwnedProfileIdentitiesV2(document, root, tree, config)
    BY Zenon
  <2>1. document.schema_version = 2
    BY <1>2
  <2>2. \A r \in {1, 2} : OwnedProfileIdentityAccepted(document.profiles[r], root[OwnedIdentityLocator(Roles[r])],
                            tree.at[OwnedIdentityLocator(Roles[r])], config.profiles[r], r)
    BY <1>4, <1>5, <2>1, Zenon
  <2> QED BY <2>2, Zenon DEF ParseOwnedProfileIdentitiesV2
<1> QED BY <1>1, <1>9, <1>10, Zenon DEF ReplayAccepted

(* Whatever others did meanwhile, the tree the rename exposes is one that a       *)
(* reader validates, unless a piece of it changed after its last check or a       *)
(* stranger lies beside it.                                                     *)
THEOREM ExposedTreesAreConsistent == Spec => ExposedIsConsistent
<1> DEFINE Unchanged == /\ pc = "rename" /\ names.staging # Absent
                        /\ \A location \in Locations : <<names.staging, location>> \notin unseen
                        /\ ~trees[names.staging].extra
           Step == Exposes /\ (\A location \in Locations : <<names.staging, location>> \notin unseen)
                     /\ ~trees[names.staging].extra
                     => ValidateRuntimeReviewTree(trees[names.staging])
<1>1. ASSUME PathInv, ExposedInv, Unchanged PROVE ValidateRuntimeReviewTree(trees[names.staging])
  <2> DEFINE inode == names.staging
             tree == trees[inode]
             document == ReceiptRead
  <2>1. ReadAccepted /\ Replayed /\ CellsSeen /\ DocumentsSeen /\ inode \in Inodes /\ tree.linked \subseteq Locations
    BY <1>1, ExposedParts DEF PathInv, Inside, Links
  <2>2. \A n \in DOMAIN CanonicalSlots : CellAccepted(inode, n)
    BY <1>1, <2>1, CellIsALocation, Zenon DEF CellsSeen, Locations
  <2>3. \A location \in DocumentLocations : tree.at[location] = read[location] /\ location \notin tree.linked
    BY <1>1, <2>1, Zenon DEF DocumentsSeen, DocumentLocations, Locations
  <2>4. RootMembers(tree) = read
    BY <2>1, <2>3, Zenon DEF RootMembers, DocumentLocations, ReadAccepted
  <2>5. /\ ParseOwnedEvidenceCells(document.evidence_cells)
        /\ \A n \in DOMAIN CanonicalSlots : ValidateOwnedEvidenceCell(tree, document.evidence_cells[n])
    BY <2>1, <2>2, Zenon DEF CellsSeen, CellAccepted
  <2>6. \A n \in DOMAIN CanonicalSlots :
          LET location == OwnedCellLocator(CanonicalSlots[n]) IN
          /\ location \notin tree.linked /\ tree.at[location] # Absent /\ tree.at[location].six
          /\ tree.at[location] = document.evidence_cells[n].members
    BY <2>5, Zenon DEF ParseOwnedEvidenceCells, ValidateOwnedEvidenceCell
  <2>7. \A location \in CellLocations :
          location \notin tree.linked /\ tree.at[location] # Absent /\ tree.at[location].six
    BY <2>6, CellLocationIsCanonical, Zenon
  <2>8. CompleteOwnedTree(tree)
    <3>1. tree.linked = {}
      <4>1. \A location \in Locations : location \notin tree.linked
        BY <2>3, <2>7, Zenon DEF Locations, DocumentLocations
      <4> QED BY <2>1, <4>1
    <3>2. ~tree.extra
      BY <1>1, Zenon
    <3>3. /\ \A location \in RootLocations : tree.at[location] # Absent
          /\ \/ \A location \in IdentityLocations : tree.at[location] = Absent
             \/ \A location \in IdentityLocations : tree.at[location] # Absent
      BY <2>1, <2>3, Zenon DEF ReadAccepted, DocumentLocations
    <3> QED BY <2>7, <3>1, <3>2, <3>3, Zenon DEF CompleteOwnedTree
  <2>9. CellsAccepted(document.evidence_cells, tree)
    BY <2>5, Zenon DEF CellsAccepted, ParseOwnedEvidenceCells
  <2>10. ReplayAccepted(document, read, tree)
    <3>1. PICK seen : ReplayAccepted(document, read, seen)
      BY <2>1, Zenon DEF Replayed
    <3>2. ConfigLocation \in RootLocations /\ ConfigLocation \notin IdentityLocations
      BY LocationsAreApart, Zenon DEF RootLocations
    <3>3. /\ Keyed(read[ConfigLocation])
          /\ \A location \in IdentityLocations : read[location] # Absent => Identified(read[location])
      BY <2>1, <3>2, Zenon DEF ReadAccepted, Formed
    <3>4. \A location \in IdentityLocations : tree.at[location] = read[location]
      BY <2>3, Zenon DEF DocumentLocations
    <3>5. \A n \in DOMAIN CanonicalSlots :
            tree.at[OwnedCellLocator(CanonicalSlots[n])] = document.evidence_cells[n].members
      BY <2>6, Zenon
    <3> HIDE DEF tree, document
    <3> QED BY <3>1, <3>3, <3>4, <3>5, ReplayCarries, Zenon
  <2>11. DocumentsAccepted(read[JsonLocation], read[MarkdownLocation])
    BY <2>1, Zenon DEF ReadAccepted
  <2> QED BY <2>4, <2>8, <2>9, <2>10, <2>11, Zenon DEF ValidateRuntimeReviewTree, ReceiptRead
<1>2. PathInv /\ ExposedInv /\ [Next]_vars => [Step]_vars
  BY <1>1, Zenon DEF Exposes
<1>3. Init => ShapeInv /\ PathInv /\ FormInv /\ ExposedInv
  BY InitShape, InitPath, InitForm, InitExposed, Zenon
<1>4. ShapeInv /\ PathInv /\ FormInv /\ ExposedInv /\ [Next]_vars => (ShapeInv /\ PathInv /\ FormInv /\ ExposedInv)'
  BY ShapeStep, PathStep, FormStep, ExposedStep, Zenon
<1> QED BY <1>2, <1>3, <1>4, PTL DEF Spec, ExposedIsConsistent

--------------------------------------------------------------------------------
(* What an admitted document says, whatever the order of its lists.              *)

LEMMA GridSize ==
  /\ Len(CanonicalSlots) \in Nat \ {0}
  /\ CanonicalSlots = [n \in 1..Len(CanonicalSlots) |-> CanonicalSlots[n]]
<1> DEFINE D == Len(StepDts)
           R == Len(RepeatIds)
           N == 2 * D * R
           S(n) == [role |-> Roles[((n - 1) \div (D * R)) + 1], dt |-> StepDts[(((n - 1) \div R) % D) + 1],
                    repeat |-> RepeatIds[((n - 1) % R) + 1]]
<1>1. D \in Nat \ {0} /\ R \in Nat \ {0}
  BY GridAssumption
<1>2. CanonicalSlots = [n \in 1..N |-> S(n)]
  BY Zenon DEF CanonicalSlots
<1> HIDE DEF D, R
<1>3. D * R \in Nat \ {0}
  BY <1>1
<1>4. N \in Nat \ {0} /\ 2 * D * R = N
  BY <1>1, <1>3
<1> HIDE DEF N, S
<1>5. Len(CanonicalSlots) = N /\ DOMAIN CanonicalSlots = 1..N
  BY <1>2, <1>4
<1> QED BY <1>2, <1>4, <1>5, Zenon

(* The cells of a document are a bijection to the slots: no slot is there twice.  *)
LEMMA SlotsAreApart ==
  ASSUME NEW listed, listed \in Seq(SetOf(listed)), CellsAdmitted(listed),
         NEW m \in DOMAIN CanonicalSlots, NEW n \in DOMAIN CanonicalSlots, CanonicalSlots[m] = CanonicalSlots[n]
  PROVE  m = n
<1> DEFINE N == Len(CanonicalSlots)
           f == [i \in 1..N |-> listed[i].slot]
<1>1. N \in Nat /\ DOMAIN CanonicalSlots = 1..N /\ CanonicalSlots = [i \in 1..N |-> CanonicalSlots[i]]
  BY GridSize
<1>2. DOMAIN listed = 1..N
  BY <1>1, SMT DEF CellsAdmitted
<1>3. \A i \in 1..N : CanonicalSlots[i] \in Slots
  BY <1>1, Zenon DEF Slots, SetOf
<1>4. \A s \in Slots : \E i \in 1..N : CanonicalSlots[i] = s
  BY <1>1, Zenon DEF Slots, SetOf
<1>5. {listed[i].slot : i \in DOMAIN listed} = Slots
  BY Zenon DEF CellsAdmitted
<1>6. \A i \in 1..N : listed[i].slot \in Slots
  BY <1>2, <1>5, Zenon
<1>7. \A s \in Slots : \E i \in 1..N : listed[i].slot = s
  BY <1>2, <1>5, Zenon
<1>8. \A i, j \in 1..N : listed[i].slot = listed[j].slot => i = j
  BY <1>2, Zenon DEF CellsAdmitted
<1> HIDE DEF N
<1>9. f \in Surjection(1..N, Slots) /\ f \in Injection(1..N, Slots)
  BY <1>6, <1>7, <1>8, Zenon DEF Surjection, Injection, IsInjective
<1> HIDE DEF f
<1>10. IsFiniteSet(1..N)
  BY <1>1, FS_Interval, SMT
<1>11. Cardinality(Slots) = Cardinality(1..N)
  BY <1>9, <1>10, FS_Surjection, Zenon
<1>12. CanonicalSlots \in Surjection(1..N, Slots)
  BY <1>1, <1>3, <1>4, Zenon DEF Surjection
<1>13. CanonicalSlots \in Injection(1..N, Slots)
  BY <1>10, <1>11, <1>12, FS_Surjection, Zenon
<1> QED BY <1>1, <1>13, Zenon DEF Injection, IsInjective

(* The fields of the admitted configuration.                                    *)
Worded(document) ==
  /\ {"schema_version", "profiles", "step_dts", "repeat_ids", "cells", "horizon", "output_dir"}
       \subseteq DOMAIN document
  /\ document.cells \in Seq(SetOf(document.cells))

LEMMA ConfigurationIs ==
  ASSUME NEW document, Worded(document)
  PROVE  /\ Configuration(document).schema_version = document.schema_version
         /\ Configuration(document).profiles = document.profiles
         /\ Configuration(document).step_dts = StepDts
         /\ Configuration(document).repeat_ids = RepeatIds
         /\ Configuration(document).horizon = document.horizon
         /\ Configuration(document).output_dir = document.output_dir
         /\ Configuration(document).cells = CanonicalCells(document.cells)
<1>1. Configuration(document) = [key \in DOMAIN document |->
         IF key = "cells" THEN CanonicalCells(document.cells)
         ELSE IF key = "repeat_ids" THEN RepeatIds
         ELSE IF key = "step_dts" THEN StepDts ELSE document[key]]
  BY Zenon DEF Configuration
<1> QED BY <1>1, SMT DEF Worded

LEMMA AdmittedCells ==
  ASSUME NEW document, NEW system, LoadAdmits(document, system)
  PROVE  /\ CellsAdmitted(document.cells) /\ document.horizon = 1
         /\ document.schema_version \in {1, 2}
         /\ document.schema_version = 2 => ConfigV2Admitted(document)
         /\ DocumentAdmitted(document)
         /\ BoundV1(system, Configuration(document))
BY SMT DEF LoadAdmits, DocumentAdmitted, ConfigV1Admitted, ConfigV2Admitted, SharedAdmitted, BoundV2

(* A slot's cell is the one the document lists for it.                           *)
LEMMA CanonicalCellIs ==
  ASSUME NEW listed, CellsAdmitted(listed), NEW n \in DOMAIN CanonicalSlots
  PROVE  \E i \in DOMAIN listed : CanonicalCells(listed)[n] = listed[i] /\ listed[i].slot = CanonicalSlots[n]
<1>1. CanonicalSlots[n] \in Slots
  BY Zenon DEF Slots, SetOf
<1>2. \E i \in DOMAIN listed : listed[i].slot = CanonicalSlots[n]
  BY <1>1, Zenon DEF CellsAdmitted
<1> DEFINE k == CHOOSE i \in DOMAIN listed : listed[i].slot = CanonicalSlots[n]
<1>3. k \in DOMAIN listed /\ listed[k].slot = CanonicalSlots[n]
  BY <1>2, Zenon
<1>4. CanonicalCells(listed)[n] = listed[k]
  BY Zenon DEF CanonicalCells
<1> QED BY <1>3, <1>4, Zenon

Side(role) == IF role = "baseline" THEN 1 ELSE 2

LEMMA FoundIs ==
  ASSUME NEW document, Worded(document), CellsAdmitted(document.cells), NEW generation,
         NEW n \in DOMAIN CanonicalSlots
  PROVE  /\ Found(document, generation)[n].six /\ Found(document, generation)[n].summed
         /\ Found(document, generation)[n].sound
         /\ Found(document, generation)[n].slot = CanonicalSlots[n]
         /\ document.schema_version = 2 =>
              Found(document, generation)[n].profile = document.profiles[Side(CanonicalSlots[n].role)].digest
         /\ Configuration(document).cells[n].slot = CanonicalSlots[n]
         /\ \E i \in DOMAIN document.cells : document.cells[i].directory = Configuration(document).cells[n].directory
<1> DEFINE listed == document.cells
           directory == listed[1].directory
<1>1. Configuration(document).cells = CanonicalCells(listed)
  BY ConfigurationIs, Zenon
<1>2. PICK i \in DOMAIN listed : CanonicalCells(listed)[n] = listed[i] /\ listed[i].slot = CanonicalSlots[n]
  BY CanonicalCellIs, Zenon
<1>3. DOMAIN Configuration(document).cells = DOMAIN CanonicalSlots
  BY <1>1, Zenon DEF CanonicalCells
<1>4. Found(document, generation)[n] = Evidence(document, generation)[listed[i].directory]
  BY <1>1, <1>2, <1>3, Zenon DEF Found, CellDirectories
<1> DEFINE k == CHOOSE j \in DOMAIN listed : listed[j].directory = listed[i].directory
<1>5. k = i
  <2>1. k \in DOMAIN listed /\ listed[k].directory = listed[i].directory
    BY Zenon
  <2> QED BY <2>1, Zenon DEF CellsAdmitted
<1>6. Evidence(document, generation)[listed[i].directory]
        = [slot |-> listed[i].slot, generation |-> generation, six |-> TRUE, summed |-> TRUE, sound |-> TRUE,
           profile |-> IF document.schema_version = 2
                         THEN document.profiles[IF listed[i].slot.role = "baseline" THEN 1 ELSE 2].digest
                         ELSE None]
  <2>1. listed[i].directory \in {listed[j].directory : j \in DOMAIN listed}
    BY Zenon
  <2> QED BY <1>5, <2>1, Zenon DEF Evidence
<1>7. Configuration(document).cells[n].slot = CanonicalSlots[n]
  BY <1>1, <1>2, Zenon
<1>8. Configuration(document).cells[n].directory = listed[i].directory
  BY <1>1, <1>2, Zenon
<1> HIDE DEF listed
<1> DEFINE found == Found(document, generation)[n]
<1>9. /\ found.six /\ found.summed /\ found.sound
      /\ found.slot = CanonicalSlots[n]
      /\ document.schema_version = 2 => found.profile = document.profiles[Side(CanonicalSlots[n].role)].digest
  BY <1>2, <1>4, <1>6, SMT DEF Side
<1>10. \E j \in DOMAIN listed : listed[j].directory = Configuration(document).cells[n].directory
  BY <1>8, Zenon
<1> QED BY <1>7, <1>9, <1>10, Zenon DEF listed

(* What the assumptions say of a document that is admitted.                      *)
IdentitiesOf(document) == IdentityFiles(document, TRUE)

Reviewable(document, generation) ==
  /\ Worded(document) /\ DocumentAdmitted(document) /\ CellsAdmitted(document.cells) /\ document.horizon = 1
  /\ document.schema_version \in {1, 2}
  /\ document.schema_version = 2 => ConfigV2Admitted(document)
  /\ DecisionFormed(Decision(Found(document, generation)))
  /\ document # Absent
  /\ \A n \in DOMAIN CanonicalSlots : Found(document, generation)[n] # Absent
  /\ document.schema_version = 2 => \A r \in {1, 2} :
       /\ IdentitiesOf(document)[r] # Absent
       /\ [locator |-> OwnedIdentityLocator(Roles[r]), raw |-> IdentitiesOf(document)[r]] # None
  /\ [receipt |-> Undisturbed(document, generation), canonical |-> TRUE] # Absent
  /\ RenderRuntimeReviewMarkdown(Undisturbed(document, generation)) # Absent

LEMMA AdmittedIsReviewable ==
  ASSUME NEW asking \in Documents, NEW generation \in Generations, LoadAdmits(asking.doc, asking.fs)
  PROVE  Reviewable(asking.doc, generation)
<1> DEFINE document == asking.doc
           system == asking.fs
<1>1. Worded(document)
  BY DocumentsAssumption, Zenon DEF Worded
<1>2. DecisionFormed(Decision(Found(document, generation)))
  BY DecisionAssumption, Zenon
<1>3. /\ document # Absent
      /\ \A n \in DOMAIN CanonicalSlots : Found(document, generation)[n] # Absent
      /\ document.schema_version = 2 => \A r \in {1, 2} :
           /\ IdentitiesOf(document)[r] # Absent
           /\ [locator |-> OwnedIdentityLocator(Roles[r]), raw |-> IdentitiesOf(document)[r]] # None
      /\ [receipt |-> Undisturbed(document, generation), canonical |-> TRUE] # Absent
      /\ RenderRuntimeReviewMarkdown(Undisturbed(document, generation)) # Absent
  BY FilesAssumption, Zenon DEF IdentitiesOf
<1>4. LoadAdmits(document, system)
  OBVIOUS
<1> HIDE DEF document, system
<1>5. /\ CellsAdmitted(document.cells) /\ document.horizon = 1
      /\ document.schema_version \in {1, 2}
      /\ document.schema_version = 2 => ConfigV2Admitted(document)
      /\ DocumentAdmitted(document)
  BY <1>4, AdmittedCells, Zenon
<1>6. Reviewable(document, generation)
  BY <1>1, <1>2, <1>3, <1>5, Zenon DEF Reviewable
<1> QED BY <1>6, Zenon DEF document

LEMMA IdentityFileIs ==
  ASSUME NEW document, document.schema_version = 2, NEW r \in {1, 2}
  PROVE  IdentitiesOf(document)[r]
           = [role |-> Roles[r], package |-> document.profiles[r].package, integer |-> document.profiles[r].integer,
              digest |-> document.profiles[r].digest, sentinel |-> "PASS", canonical |-> TRUE]
BY Zenon DEF IdentitiesOf, IdentityFiles

LEMMA FoundIsAdmitted ==
  ASSUME NEW document, NEW generation, Reviewable(document, generation)
  PROVE  RuntimeEvidenceAdmitted(Configuration(document), Found(document, generation), IdentitiesOf(document))
<1> DEFINE config == Configuration(document)
           found == Found(document, generation)
           files == IdentitiesOf(document)
<1>1. Worded(document) /\ CellsAdmitted(document.cells) /\ config.profiles = document.profiles
      /\ config.schema_version = document.schema_version /\ config.cells = CanonicalCells(document.cells)
  BY ConfigurationIs, Zenon DEF Reviewable
<1>2. DOMAIN config.cells = DOMAIN CanonicalSlots
  BY <1>1, Zenon DEF CanonicalCells
<1>3. ASSUME NEW n \in DOMAIN CanonicalSlots
      PROVE  /\ found[n] # Absent
             /\ found[n].six /\ found[n].summed /\ found[n].sound
             /\ found[n].slot = config.cells[n].slot
             /\ config.schema_version = 2 =>
                  LET r == IF config.cells[n].slot.role = "baseline" THEN 1 ELSE 2 IN
                  /\ files[r] # Absent /\ files[r].role = Roles[r]
                  /\ files[r].digest = config.profiles[r].digest
                  /\ found[n].profile = files[r].digest
  <2>1. /\ found[n].six /\ found[n].summed /\ found[n].sound
        /\ found[n].slot = CanonicalSlots[n] /\ config.cells[n].slot = CanonicalSlots[n]
        /\ document.schema_version = 2 =>
             found[n].profile = document.profiles[Side(CanonicalSlots[n].role)].digest
    <3>1. Worded(document) /\ CellsAdmitted(document.cells) /\ n \in DOMAIN CanonicalSlots
      BY <1>1, <1>3
    <3> QED BY <3>1, FoundIs
  <2>2. found[n] # Absent
    BY Zenon DEF Reviewable
  <2>3. ASSUME document.schema_version = 2
        PROVE  LET r == Side(CanonicalSlots[n].role) IN
               /\ files[r] # Absent /\ files[r].role = Roles[r]
               /\ files[r].digest = document.profiles[r].digest
    <3> DEFINE r == Side(CanonicalSlots[n].role)
    <3>1. r \in {1, 2}
      BY Zenon DEF Side
    <3> HIDE DEF r
    <3>2. files[r] = [role |-> Roles[r], package |-> document.profiles[r].package,
                      integer |-> document.profiles[r].integer, digest |-> document.profiles[r].digest,
                      sentinel |-> "PASS", canonical |-> TRUE]
      BY <2>3, <3>1, IdentityFileIs, Zenon
    <3>4. files[r].role = Roles[r] /\ files[r].digest = document.profiles[r].digest
      <4> HIDE DEF files
      <4> QED BY <3>2
    <3>3. files[r] # Absent
      BY <2>3, <3>1, Zenon DEF Reviewable
    <3> QED BY <3>3, <3>4, Zenon DEF r
  <2> HIDE DEF config, found, files
  <2> QED BY <1>1, <2>1, <2>2, <2>3, Zenon DEF Side
<1> QED BY <1>2, <1>3, Zenon DEF RuntimeEvidenceAdmitted

(* The output directory is neither one of the evidence nor below it.              *)
LEMMA NothingIsDirtied ==
  ASSUME NEW document, NEW system, LoadAdmits(document, system), Worded(document), NEW generation,
         sources = Evidence(document, generation)
  PROVE  Dirtied(Configuration(document).output_dir) = {}
<1> DEFINE config == Configuration(document)
           listed == document.cells
<1>1. CellsAdmitted(listed) /\ BoundV1(system, config)
  BY AdmittedCells, Zenon
<1>2. ASSUME NEW directory \in DOMAIN sources, directory \in Prefixes(config.output_dir) PROVE FALSE
  <2>1. PICK i \in DOMAIN listed : directory = listed[i].directory
    BY <1>2, Zenon DEF Evidence
  <2>2. listed[i].slot \in Slots
    BY <1>1, Zenon DEF CellsAdmitted
  <2>3. PICK n \in DOMAIN CanonicalSlots : listed[i].slot = CanonicalSlots[n]
    BY <2>2, Zenon DEF Slots, SetOf
  <2>4. PICK j \in DOMAIN listed : CanonicalCells(listed)[n] = listed[j] /\ listed[j].slot = CanonicalSlots[n]
    BY <1>1, CanonicalCellIs, Zenon
  <2>5. j = i
    BY <1>1, <2>3, <2>4, Zenon DEF CellsAdmitted
  <2>6. config.cells = CanonicalCells(listed)
    BY ConfigurationIs, Zenon
  <2>7. DOMAIN config.cells = DOMAIN CanonicalSlots
    BY <2>6, Zenon DEF CanonicalCells
  <2>8. CellDirectories(config)[n] = directory /\ n \in DOMAIN CellDirectories(config)
    BY <2>1, <2>4, <2>5, <2>6, <2>7, Zenon DEF CellDirectories
  <2>9. directory \in SetOf(CellDirectories(config))
    BY <2>8, Zenon DEF SetOf
  <2>10. directory \in ProtectedPaths(config)
    BY <2>9, Zenon DEF ProtectedPaths
  <2> QED BY <1>1, <1>2, <2>10, Zenon DEF BoundV1, EnsureNonoverlapping, Overlaps
<1> QED BY <1>2, Zenon DEF Dirtied

--------------------------------------------------------------------------------
(* The tree of a review nobody disturbs is accepted by every reader of it.        *)
HoldsReview(tree, document, generation) ==
  /\ tree.linked = {} /\ ~tree.extra
  /\ tree.at[ConfigLocation] = document
  /\ tree.at[JsonLocation] = [receipt |-> Undisturbed(document, generation), canonical |-> TRUE]
  /\ tree.at[MarkdownLocation] = RenderRuntimeReviewMarkdown(Undisturbed(document, generation))
  /\ \A n \in DOMAIN CanonicalSlots : tree.at[OwnedCellLocator(CanonicalSlots[n])] = Found(document, generation)[n]
  /\ \A r \in {1, 2} : tree.at[OwnedIdentityLocator(Roles[r])] = IdentitiesOf(document)[r]

LEMMA IdentityLocationIs ==
  \A location \in IdentityLocations : \E r \in {1, 2} : location = OwnedIdentityLocator(Roles[r])
BY DEF IdentityLocations, SetOf, Roles

LEMMA NoIdentityOnTheFirstRoute ==
  ASSUME NEW document, document.schema_version = 1, NEW r \in {1, 2}
  PROVE  IdentitiesOf(document)[r] = Absent
<1>1. document.schema_version # 2
  BY SMT
<1> QED BY <1>1, Zenon DEF IdentitiesOf, IdentityFiles

LEMMA HeldIsComplete ==
  ASSUME NEW tree, NEW document, NEW generation, Reviewable(document, generation),
         HoldsReview(tree, document, generation)
  PROVE  CompleteOwnedTree(tree)
<1>1. \A location \in RootLocations : tree.at[location] # Absent
  BY Zenon DEF HoldsReview, Reviewable, RootLocations
<1>2. ASSUME NEW location \in CellLocations PROVE tree.at[location] # Absent /\ tree.at[location].six
  <2>1. PICK n \in DOMAIN CanonicalSlots : OwnedCellLocator(CanonicalSlots[n]) = location
    BY CellLocationIsCanonical, Zenon
  <2>2. tree.at[location] = Found(document, generation)[n]
    BY <2>1, Zenon DEF HoldsReview
  <2>3. Found(document, generation)[n] # Absent /\ Worded(document) /\ CellsAdmitted(document.cells)
    BY <2>1, Zenon DEF Reviewable
  <2> QED BY <2>1, <2>2, <2>3, FoundIs
<1>3. \/ \A location \in IdentityLocations : tree.at[location] = Absent
      \/ \A location \in IdentityLocations : tree.at[location] # Absent
  <2>1. CASE document.schema_version = 1
    BY <2>1, NoIdentityOnTheFirstRoute, IdentityLocationIs, Zenon DEF HoldsReview
  <2>2. CASE document.schema_version = 2
    BY <2>2, IdentityLocationIs, Zenon DEF HoldsReview, Reviewable
  <2> QED BY <2>1, <2>2, Zenon DEF Reviewable
<1> QED BY <1>1, <1>2, <1>3, Zenon DEF CompleteOwnedTree, HoldsReview

(* The receipt, field by field.                                                 *)
ProfilesOf(document, generation) ==
  LET config == Configuration(document)
      copies == Admitted(document, IdentitiesOf(document)).identities IN
  BoundProfiles(config, ProfilesPrimitive(config, Found(document, generation), copies), copies)

LEMMA UndisturbedIs ==
  ASSUME NEW document, NEW generation, Worded(document)
  PROVE  LET R == Undisturbed(document, generation)
             config == Configuration(document)
             found == Found(document, generation)
             decision == Decision(found) IN
         /\ DOMAIN R = ReceiptKeys
         /\ R.schema = "metrifid.runtime_review_receipt" /\ R.schema_version = document.schema_version
         /\ R.status = decision.status /\ R.reason_code = decision.reason
         /\ R.method = "CONDITIONAL_TAIL_ENVELOPE" /\ R.claim_scope = "FULL_HORIZON"
         /\ R.configuration = [locator |-> ConfigLocation, raw |-> document, semantic |-> ToPrimitive(config)]
         /\ R.profiles = ProfilesOf(document, generation)
         /\ R.subject = SubjectPrimitive(config, found) /\ R.workload = WorkloadPrimitive(config, found)
         /\ R.campaign_shape
              = [step_dts |-> StepDts, repeat_ids |-> RepeatIds, cell_count |-> Len(CanonicalSlots)]
         /\ R.required_horizon = document.horizon /\ R.admitted_prefix = decision.prefix
         /\ R.first_failing_gate = decision.gate /\ R.first_decisive_witness = decision.first
         /\ R.worst_witness = decision.worst /\ R.witness_counts = decision.counts
         /\ R.witnesses = decision.witnesses /\ R.evidence_cells = OwnedEvidenceCells(found)
         /\ R.limitations = "frozen" /\ R.tool = RuntimeReviewToolIdentity /\ R.receipt_sha256 = "recomputes"
<1> DEFINE R == Undisturbed(document, generation)
           config == Configuration(document)
           found == Found(document, generation)
           decision == Decision(found)
           profiles == ProfilesOf(document, generation)
           semantic == ToPrimitive(config)
           subject == SubjectPrimitive(config, found)
           workload == WorkloadPrimitive(config, found)
           evidence == OwnedEvidenceCells(found)
<1>1. /\ config.schema_version = document.schema_version
      /\ config.step_dts = StepDts /\ config.repeat_ids = RepeatIds /\ config.horizon = document.horizon
  BY ConfigurationIs, Zenon
<1>2. LET admission == Admitted(document, IdentitiesOf(document)) IN
      /\ admission.config = config /\ admission.raw = document /\ admission.semantic = semantic
  BY Zenon DEF Admitted
<1>3. R = [schema |-> "metrifid.runtime_review_receipt", schema_version |-> document.schema_version,
           status |-> decision.status, reason_code |-> decision.reason,
           method |-> "CONDITIONAL_TAIL_ENVELOPE", claim_scope |-> "FULL_HORIZON",
           configuration |-> [locator |-> ConfigLocation, raw |-> document, semantic |-> semantic],
           profiles |-> profiles, subject |-> subject, workload |-> workload,
           campaign_shape |-> [step_dts |-> StepDts, repeat_ids |-> RepeatIds, cell_count |-> Len(CanonicalSlots)],
           required_horizon |-> document.horizon, admitted_prefix |-> decision.prefix,
           first_failing_gate |-> decision.gate, first_decisive_witness |-> decision.first,
           worst_witness |-> decision.worst, witness_counts |-> decision.counts,
           witnesses |-> decision.witnesses, evidence_cells |-> evidence,
           limitations |-> "frozen", tool |-> RuntimeReviewToolIdentity, receipt_sha256 |-> "recomputes"]
  BY <1>1, <1>2, Zenon DEF Undisturbed, BuildRuntimeReviewReceipt, IdentitiesOf, ProfilesOf
<1> HIDE DEF R, config, found, decision, profiles, semantic, subject, workload, evidence
<1>4. DOMAIN R = ReceiptKeys
  BY <1>3 DEF ReceiptKeys
<1>5. /\ R.schema = "metrifid.runtime_review_receipt" /\ R.schema_version = document.schema_version
      /\ R.status = decision.status /\ R.reason_code = decision.reason
      /\ R.method = "CONDITIONAL_TAIL_ENVELOPE" /\ R.claim_scope = "FULL_HORIZON"
      /\ R.configuration = [locator |-> ConfigLocation, raw |-> document, semantic |-> semantic]
      /\ R.profiles = profiles /\ R.subject = subject /\ R.workload = workload
      /\ R.campaign_shape
           = [step_dts |-> StepDts, repeat_ids |-> RepeatIds, cell_count |-> Len(CanonicalSlots)]
  BY <1>3, Zenon
<1>6. /\ R.required_horizon = document.horizon /\ R.admitted_prefix = decision.prefix
      /\ R.first_failing_gate = decision.gate /\ R.first_decisive_witness = decision.first
      /\ R.worst_witness = decision.worst /\ R.witness_counts = decision.counts
      /\ R.witnesses = decision.witnesses /\ R.evidence_cells = evidence
      /\ R.limitations = "frozen" /\ R.tool = RuntimeReviewToolIdentity /\ R.receipt_sha256 = "recomputes"
  BY <1>3, Zenon
<1> QED BY <1>4, <1>5, <1>6, Zenon DEF R, config, found, decision, profiles, semantic, subject, workload, evidence

LEMMA AdmissionIs ==
  ASSUME NEW document, NEW files
  PROVE  /\ Admitted(document, files).config = Configuration(document)
         /\ Admitted(document, files).raw = document
         /\ document.schema_version = 2 => Admitted(document, files).identities = files
         /\ Admitted(document, files).directories = CellDirectories(Configuration(document))
         /\ Admitted(document, files).semantic = ToPrimitive(Configuration(document))
BY Zenon DEF Admitted

LEMMA DeclaredProfiles ==
  ASSUME NEW document, ConfigV2Admitted(document), NEW r \in {1, 2}
  PROVE  /\ document.profiles[r].role = Roles[r]
         /\ document.profiles[r].file = OwnedIdentityLocator(Roles[r])
<1>1. ProfileV2Admitted(document.profiles[r], Roles[r])
  BY Zenon DEF ConfigV2Admitted
<1> QED BY <1>1, Zenon DEF ProfileV2Admitted, OwnedIdentityLocator

(* The two entries of the profiles on the second route.                          *)
LEMMA UndisturbedProfile ==
  ASSUME NEW document, NEW generation, Worded(document), document.schema_version = 2, NEW r \in {1, 2}
  PROVE  LET file == IdentitiesOf(document)[r]
             profile == Undisturbed(document, generation).profiles[r] IN
         /\ profile.binding.projection = IdentityProjection(file)
         /\ profile.file = [locator |-> OwnedIdentityLocator(Roles[r]), raw |-> file]
<1> DEFINE config == Configuration(document)
           found == Found(document, generation)
           files == IdentitiesOf(document)
           profiles == ProfilesPrimitive(config, found, files)
<1>1. config.schema_version = 2
  BY ConfigurationIs, Zenon
<1>2. Admitted(document, files).identities = files
  BY AdmissionIs, Zenon
<1>3. Undisturbed(document, generation).profiles = ProfilesOf(document, generation)
  BY UndisturbedIs, Zenon
<1>4. Undisturbed(document, generation).profiles = BoundProfiles(config, profiles, files)
  BY <1>2, <1>3, Zenon DEF ProfilesOf
<1>5. profiles[r].projection = IdentityProjection(files[r])
  BY <1>1, Zenon DEF ProfilesPrimitive, OneProfilePrimitive
<1>6. BoundProfiles(config, profiles, files)[r]
        = [binding |-> profiles[r], file |-> [locator |-> OwnedIdentityLocator(Roles[r]), raw |-> files[r]]]
  BY <1>1, Zenon DEF BoundProfiles
<1> HIDE DEF profiles, files, config, found
<1>7. /\ BoundProfiles(config, profiles, files)[r].binding = profiles[r]
      /\ BoundProfiles(config, profiles, files)[r].file
           = [locator |-> OwnedIdentityLocator(Roles[r]), raw |-> files[r]]
  BY <1>6
<1> QED BY <1>4, <1>5, <1>7, Zenon DEF files

LEMMA HeldDocuments ==
  ASSUME NEW tree, NEW document, NEW generation, Reviewable(document, generation),
         HoldsReview(tree, document, generation)
  PROVE  DocumentsAccepted(tree.at[JsonLocation], tree.at[MarkdownLocation])
<1> DEFINE R == Undisturbed(document, generation)
           decision == Decision(Found(document, generation))
           semantic == ToPrimitive(Configuration(document))
<1>1. Worded(document) /\ document.horizon = 1 /\ document.schema_version \in {1, 2} /\ DecisionFormed(decision)
      /\ (document.schema_version = 2 => ConfigV2Admitted(document))
  BY Zenon DEF Reviewable
<1>3. document.schema_version = 2 => ProfilesSchemaV2(R.profiles)
  <2> SUFFICES ASSUME document.schema_version = 2, NEW r \in {1, 2}
               PROVE  /\ R.profiles[r].binding.projection.role = Roles[r]
                      /\ R.profiles[r].binding.projection.sentinel = "PASS"
                      /\ R.profiles[r].file # None /\ R.profiles[r].file.locator = OwnedIdentityLocator(Roles[r])
    BY Zenon DEF ProfilesSchemaV2
  <2> DEFINE file == IdentitiesOf(document)[r]
  <2>1. /\ R.profiles[r].binding.projection = IdentityProjection(file)
        /\ R.profiles[r].file = [locator |-> OwnedIdentityLocator(Roles[r]), raw |-> file]
    BY <1>1, UndisturbedProfile, Zenon
  <2>2. file = [role |-> Roles[r], package |-> document.profiles[r].package,
                integer |-> document.profiles[r].integer, digest |-> document.profiles[r].digest,
                sentinel |-> "PASS", canonical |-> TRUE]
    BY IdentityFileIs, Zenon
  <2>3. [locator |-> OwnedIdentityLocator(Roles[r]), raw |-> file] # None
    BY Zenon DEF Reviewable
  <2> HIDE DEF R, file
  <2>4. IdentityProjection(file).role = Roles[r] /\ IdentityProjection(file).sentinel = "PASS"
    BY <2>2 DEF IdentityProjection
  <2>5. [locator |-> OwnedIdentityLocator(Roles[r]), raw |-> file].locator = OwnedIdentityLocator(Roles[r])
    OBVIOUS
  <2> QED BY <2>1, <2>3, <2>4, <2>5, Zenon
<1>5. /\ DOMAIN R = ReceiptKeys
      /\ R.schema = "metrifid.runtime_review_receipt" /\ R.schema_version = document.schema_version
      /\ R.status = decision.status /\ R.reason_code = decision.reason
      /\ R.method = "CONDITIONAL_TAIL_ENVELOPE" /\ R.claim_scope = "FULL_HORIZON"
      /\ R.configuration = [locator |-> ConfigLocation, raw |-> document, semantic |-> semantic]
      /\ R.campaign_shape
           = [step_dts |-> StepDts, repeat_ids |-> RepeatIds, cell_count |-> Len(CanonicalSlots)]
      /\ R.required_horizon = document.horizon /\ R.admitted_prefix = decision.prefix
      /\ R.first_failing_gate = decision.gate /\ R.first_decisive_witness = decision.first
      /\ R.worst_witness = decision.worst /\ R.witness_counts = decision.counts
      /\ R.witnesses = decision.witnesses
      /\ R.limitations = "frozen" /\ R.tool = RuntimeReviewToolIdentity /\ R.receipt_sha256 = "recomputes"
  BY <1>1, UndisturbedIs
<1> HIDE DEF R, decision, semantic
<1>6. ConfigurationSchema(R.configuration)
  <2>1. R.configuration.raw = document /\ R.configuration.semantic = semantic
    BY <1>5
  <2> QED BY <1>5, <2>1, Zenon DEF ConfigurationSchema
<1>7. CampaignSchema(R.campaign_shape)
  BY <1>5, Zenon DEF CampaignSchema
<1>8. ToolSchema(R.tool, R.schema_version)
  <2>1. ToolSchema(RuntimeReviewToolIdentity, document.schema_version)
    BY DEF ToolSchema, RuntimeReviewToolIdentity
  <2> QED BY <1>5, <2>1, Zenon
<1>9. R.admitted_prefix <= R.required_horizon
  BY <1>1, <1>5, Zenon DEF DecisionFormed
<1>10. /\ StatusKnown(R) /\ ReasonKnown(R.reason_code) /\ StatusReason(R.status, R.reason_code)
       /\ GateSchema(R.first_failing_gate)
       /\ \A i \in DOMAIN R.witnesses : WitnessSchema(R.witnesses[i])
       /\ WitnessesOrdered(R.witnesses)
       /\ OptionalWitness(R.first_decisive_witness, R.witnesses)
       /\ OptionalWitness(R.worst_witness, R.witnesses)
       /\ WitnessCounts(R.witness_counts, R.witnesses)
  BY <1>1, <1>5, Zenon DEF DecisionFormed, StatusKnown
<1>11. ValidateDocumentSchema(R)
  BY <1>1, <1>3, <1>5, <1>6, <1>7, <1>8, <1>9, <1>10, Zenon DEF ValidateDocumentSchema
<1>12. ValidateSelfHash(R)
  BY <1>5, Zenon DEF ValidateSelfHash
<1>13. tree.at[JsonLocation] = [receipt |-> R, canonical |-> TRUE]
       /\ tree.at[MarkdownLocation] = RenderRuntimeReviewMarkdown(R)
  BY Zenon DEF HoldsReview, R
<1>14. tree.at[JsonLocation].receipt = R /\ tree.at[JsonLocation].canonical
  BY <1>13
<1> QED BY <1>11, <1>12, <1>13, <1>14, Zenon DEF DocumentsAccepted, MarkdownRenders

LEMMA UndisturbedBuilds ==
  ASSUME NEW document, NEW generation, Reviewable(document, generation), NEW other,
         other.config = Configuration(document),
         document.schema_version = 2 => other.identities = IdentitiesOf(document)
  PROVE  ReceiptBuilds(other, Found(document, generation), IdentitiesOf(document), IdentitiesOf(document))
<1> DEFINE config == Configuration(document)
           found == Found(document, generation)
           files == IdentitiesOf(document)
           profiles == ProfilesPrimitive(config, found, files)
<1>1. /\ config.schema_version = document.schema_version /\ config.profiles = document.profiles
      /\ document.schema_version = 2 => ConfigV2Admitted(document)
  BY ConfigurationIs, Zenon DEF Reviewable
<1>2. StatusReason(Decision(found).status, Decision(found).reason)
  BY Zenon DEF Reviewable, DecisionFormed
<1>3. ASSUME document.schema_version = 2, NEW r \in {1, 2}
      PROVE  /\ ProfileBindingValid(profiles[r].projection, config.profiles[r])
             /\ OwnedIdentityLocator(Roles[r]) = config.profiles[r].file
             /\ files[r] = other.identities[r]
  <2>1. profiles[r].projection = IdentityProjection(files[r])
    BY <1>1, <1>3, Zenon DEF ProfilesPrimitive, OneProfilePrimitive
  <2>2. files[r] = [role |-> Roles[r], package |-> document.profiles[r].package,
                    integer |-> document.profiles[r].integer, digest |-> document.profiles[r].digest,
                    sentinel |-> "PASS", canonical |-> TRUE]
    BY <1>3, IdentityFileIs, Zenon
  <2>3. document.profiles[r].role = Roles[r] /\ document.profiles[r].file = OwnedIdentityLocator(Roles[r])
    BY <1>1, <1>3, DeclaredProfiles, Zenon
  <2>4. files[r] = other.identities[r]
    BY <1>3, Zenon
  <2> HIDE DEF files, profiles, config
  <2>5. /\ IdentityProjection(files[r]).role = Roles[r]
        /\ IdentityProjection(files[r]).package = document.profiles[r].package
        /\ IdentityProjection(files[r]).integer = document.profiles[r].integer
        /\ IdentityProjection(files[r]).digest = document.profiles[r].digest
        /\ IdentityProjection(files[r]).sentinel = "PASS"
    BY <2>2 DEF IdentityProjection
  <2>6. ProfileBindingValid(IdentityProjection(files[r]), document.profiles[r])
    BY <2>3, <2>5, Zenon DEF ProfileBindingValid
  <2> QED BY <1>1, <2>1, <2>3, <2>4, <2>6, Zenon
<1>4. document.schema_version = 2 => ProfilesBind(other, profiles, files)
  BY <1>3, Zenon DEF ProfilesBind
<1> QED BY <1>1, <1>2, <1>4, Zenon DEF ReceiptBuilds

(* On the first route the profiles of a receipt do not look at identity files.    *)
LEMMA FirstRouteProfiles ==
  ASSUME NEW config, config.schema_version # 2, NEW found, NEW files, NEW copies, NEW others, NEW more
  PROVE  BoundProfiles(config, ProfilesPrimitive(config, found, files), copies)
           = BoundProfiles(config, ProfilesPrimitive(config, found, others), more)
<1>1. ProfilesPrimitive(config, found, files) = ProfilesPrimitive(config, found, others)
  BY Zenon DEF ProfilesPrimitive, OneProfilePrimitive
<1> DEFINE profiles == ProfilesPrimitive(config, found, files)
<1>2. BoundProfiles(config, profiles, copies) = BoundProfiles(config, profiles, more)
  BY Zenon DEF BoundProfiles
<1> QED BY <1>1, <1>2, Zenon

LEMMA HeldMembers ==
  ASSUME NEW tree, NEW document, NEW generation, HoldsReview(tree, document, generation)
  PROVE  /\ RootMembers(tree)[ConfigLocation] = document
         /\ RootMembers(tree)[JsonLocation].receipt = Undisturbed(document, generation)
         /\ \A r \in {1, 2} : RootMembers(tree)[OwnedIdentityLocator(Roles[r])] = IdentitiesOf(document)[r]
         /\ OwnedCells(tree) = Found(document, generation)
         /\ OwnedIdentities(tree.at) = IdentitiesOf(document)
         /\ OwnedIdentities(RootMembers(tree)) = IdentitiesOf(document)
<1>1. \A location \in RootLocations \union IdentityLocations : RootMembers(tree)[location] = tree.at[location]
  BY Zenon DEF RootMembers
<1>2. \A r \in {1, 2} : OwnedIdentityLocator(Roles[r]) \in IdentityLocations
  <2>1. \A r \in {1, 2} : Roles[r] \in SetOf(Roles)
    BY DEF SetOf, Roles
  <2> QED BY <2>1, Zenon DEF IdentityLocations
<1>3. ConfigLocation \in RootLocations /\ JsonLocation \in RootLocations
  BY Zenon DEF RootLocations
<1>4. IdentitiesOf(document) = [r \in {1, 2} |-> IdentitiesOf(document)[r]]
  BY Zenon DEF IdentitiesOf, IdentityFiles
<1>5. OwnedIdentities(tree.at) = IdentitiesOf(document)
  <2>1. OwnedIdentities(tree.at) = [r \in {1, 2} |-> IdentitiesOf(document)[r]]
    BY Zenon DEF OwnedIdentities, HoldsReview
  <2> QED BY <1>4, <2>1, Zenon
<1>6. OwnedIdentities(RootMembers(tree)) = OwnedIdentities(tree.at)
  BY <1>1, <1>2, Zenon DEF OwnedIdentities
<1>7. OwnedCells(tree) = Found(document, generation)
  BY Zenon DEF OwnedCells, HoldsReview, Found
<1>8. [receipt |-> Undisturbed(document, generation), canonical |-> TRUE].receipt
        = Undisturbed(document, generation)
  OBVIOUS
<1> QED BY <1>1, <1>2, <1>3, <1>5, <1>6, <1>7, <1>8, Zenon DEF HoldsReview

LEMMA HeldCells ==
  ASSUME NEW tree, NEW document, NEW generation, Reviewable(document, generation),
         HoldsReview(tree, document, generation)
  PROVE  /\ ParseOwnedEvidenceCells(Undisturbed(document, generation).evidence_cells)
         /\ CellsAccepted(Undisturbed(document, generation).evidence_cells, tree)
<1> DEFINE found == Found(document, generation)
           evidence == OwnedEvidenceCells(found)
<1>1. Worded(document) /\ CellsAdmitted(document.cells)
  BY Zenon DEF Reviewable
<1>2. Undisturbed(document, generation).evidence_cells = evidence
  BY <1>1, UndisturbedIs, Zenon
<1>3. DOMAIN evidence = DOMAIN CanonicalSlots
  BY Zenon DEF OwnedEvidenceCells
<1>4. ASSUME NEW n \in DOMAIN CanonicalSlots
      PROVE  /\ evidence[n].slot = CanonicalSlots[n]
             /\ evidence[n].directory = OwnedCellLocator(CanonicalSlots[n])
             /\ evidence[n].members = found[n]
  <2>1. evidence[n] = [slot |-> CanonicalSlots[n], directory |-> OwnedCellLocator(CanonicalSlots[n]),
                       members |-> found[n]]
    BY Zenon DEF OwnedEvidenceCells
  <2> HIDE DEF evidence, found
  <2> QED BY <2>1
<1>5. ASSUME NEW n \in DOMAIN CanonicalSlots PROVE ValidateOwnedEvidenceCell(tree, evidence[n])
  <2>1. tree.at[evidence[n].directory] = found[n] /\ found[n] # Absent /\ evidence[n].directory \notin tree.linked
    BY <1>4, Zenon DEF HoldsReview, Reviewable
  <2>2. found[n].six /\ found[n].summed
    BY <1>1, <1>5, FoundIs
  <2> HIDE DEF evidence, found
  <2> QED BY <1>4, <2>1, <2>2, Zenon DEF ValidateOwnedEvidenceCell
<1> HIDE DEF evidence
<1>6. ParseOwnedEvidenceCells(evidence)
  BY <1>3, <1>4, Zenon DEF ParseOwnedEvidenceCells
<1> QED BY <1>2, <1>3, <1>5, <1>6, Zenon DEF CellsAccepted

LEMMA RecomputedAlike ==
  ASSUME NEW a, NEW b, a.config = b.config, NEW found, NEW files, NEW copies, NEW others, NEW more, NEW t, NEW u,
         BoundProfiles(a.config, ProfilesPrimitive(a.config, found, files), copies)
           = BoundProfiles(a.config, ProfilesPrimitive(a.config, found, others), more)
  PROVE  \A key \in RecomputedKeys : BuildRuntimeReviewReceipt(a, found, files, copies, t)[key]
                                     = BuildRuntimeReviewReceipt(b, found, others, more, u)[key]
BY SMT DEF BuildRuntimeReviewReceipt, RecomputedKeys

LEMMA HeldRecomputes ==
  ASSUME NEW tree, NEW document, NEW generation, Reviewable(document, generation),
         HoldsReview(tree, document, generation)
  PROVE  RecomputeAndCompare(Undisturbed(document, generation), RootMembers(tree), tree)
<1> DEFINE R == Undisturbed(document, generation)
           root == RootMembers(tree)
           config == Configuration(document)
           found == Found(document, generation)
           files == IdentitiesOf(document)
           admission == Admitted(document, files)
           copies == admission.identities
           again == Readmitted(root)
<1>1. Worded(document) /\ document.schema_version \in {1, 2}
  BY Zenon DEF Reviewable
<1>2. config.schema_version = document.schema_version
  BY <1>1, ConfigurationIs, Zenon
<1>3. /\ root[ConfigLocation] = document /\ OwnedCells(tree) = found
      /\ OwnedIdentities(tree.at) = files /\ OwnedIdentities(root) = files
  BY HeldMembers, Zenon
<1>4. again.config = config /\ again.identities = files
  BY <1>3, Zenon DEF Readmitted
<1>5. RuntimeEvidenceAdmitted(config, found, files)
  BY FoundIsAdmitted, Zenon
<1>6. ReceiptBuilds(again, found, files, files)
  BY <1>4, UndisturbedBuilds, Zenon
<1>7. /\ R = BuildRuntimeReviewReceipt(admission, found, copies, copies, RuntimeReviewToolIdentity)
      /\ admission.config = config /\ (document.schema_version = 2 => copies = files)
  BY AdmissionIs, Zenon DEF Undisturbed, IdentitiesOf
<1>8. Rebuilt(root, tree, R.tool) = BuildRuntimeReviewReceipt(again, found, files, files, R.tool)
  BY <1>3, Zenon DEF Rebuilt
<1> DEFINE tool == R.tool
           rebuilt == Rebuilt(root, tree, tool)
<1>9. RecomputeAndCompare(R, root, tree) <=>
        /\ RuntimeEvidenceAdmitted(Configuration(root[ConfigLocation]), OwnedCells(tree), OwnedIdentities(tree.at))
        /\ R.schema_version = 2 =>
             ReceiptBuilds(again, OwnedCells(tree), OwnedIdentities(tree.at), OwnedIdentities(root))
        /\ \A key \in RecomputedKeys : R[key] = rebuilt[key]
  BY Zenon DEF RecomputeAndCompare
<1> HIDE DEF R, config, found, files, again, root, copies, admission, tool, rebuilt
<1>10. BoundProfiles(config, ProfilesPrimitive(config, found, copies), copies)
         = BoundProfiles(config, ProfilesPrimitive(config, found, files), files)
  <2>1. CASE document.schema_version = 2
    BY <1>7, <2>1, Zenon
  <2>2. CASE document.schema_version = 1
    <3>1. config.schema_version # 2
      BY <1>2, <2>2
    <3> QED BY <3>1, FirstRouteProfiles
  <2> QED BY <1>1, <2>1, <2>2, Zenon
<1>11. \A key \in RecomputedKeys : R[key] = rebuilt[key]
  <2>1. admission.config = again.config
    BY <1>4, <1>7, Zenon
  <2>2. BoundProfiles(admission.config, ProfilesPrimitive(admission.config, found, copies), copies)
          = BoundProfiles(admission.config, ProfilesPrimitive(admission.config, found, files), files)
    BY <1>7, <1>10, Zenon
  <2>3. \A key \in RecomputedKeys :
           BuildRuntimeReviewReceipt(admission, found, copies, copies, RuntimeReviewToolIdentity)[key]
             = BuildRuntimeReviewReceipt(again, found, files, files, tool)[key]
    BY <2>1, <2>2, RecomputedAlike
  <2> QED BY <1>7, <1>8, <2>3, Zenon DEF rebuilt, tool
<1>12. Configuration(root[ConfigLocation]) = config
  BY <1>3, Zenon DEF config
<1>13. RecomputeAndCompare(R, root, tree)
  BY <1>3, <1>5, <1>6, <1>9, <1>11, <1>12, Zenon
<1> QED BY <1>13, Zenon DEF R, root

LEMMA RewrittenIdentity ==
  ASSUME NEW a, NEW b, NEW c, NEW d, NEW e, NEW v, NEW file,
         file = [role |-> a, package |-> b, integer |-> c, digest |-> d, sentinel |-> e, canonical |-> v]
  PROVE  file = [file EXCEPT !.canonical = v]
OBVIOUS

LEMMA HeldReplays ==
  ASSUME NEW tree, NEW document, NEW generation, Reviewable(document, generation),
         HoldsReview(tree, document, generation)
  PROVE  ReplayAccepted(Undisturbed(document, generation), RootMembers(tree), tree)
<1> DEFINE R == Undisturbed(document, generation)
           root == RootMembers(tree)
           config == Configuration(document)
           semantic == ToPrimitive(config)
<1>1. Worded(document) /\ document.schema_version \in {1, 2} /\ DocumentAdmitted(document)
      /\ (document.schema_version = 2 => ConfigV2Admitted(document))
  BY Zenon DEF Reviewable
<1>2. R.configuration = [locator |-> ConfigLocation, raw |-> document, semantic |-> semantic]
      /\ R.schema_version = document.schema_version
  BY <1>1, UndisturbedIs
<1>3. /\ root[ConfigLocation] = document
      /\ \A r \in {1, 2} : root[OwnedIdentityLocator(Roles[r])] = IdentitiesOf(document)[r]
  BY HeldMembers, Zenon
<1>4. config.profiles = document.profiles
  BY <1>1, ConfigurationIs, Zenon
<1>5. RecomputeAndCompare(R, root, tree)
  BY HeldRecomputes, Zenon
<1>6. LoadRetainedConfiguration(R, document)
  <2>1. semantic = ToPrimitive(Configuration(document))
    OBVIOUS
  <2> HIDE DEF R, semantic
  <2>2. R.configuration.locator = ConfigLocation /\ R.configuration.raw = document
        /\ R.configuration.semantic = semantic
    BY <1>2
  <2> QED BY <1>1, <1>2, <2>1, <2>2, Zenon DEF LoadRetainedConfiguration
<1>7. ASSUME document.schema_version = 1 PROVE \A location \in IdentityLocations : root[location] = Absent
  BY <1>3, <1>7, NoIdentityOnTheFirstRoute, IdentityLocationIs, Zenon
<1>8. ASSUME document.schema_version = 2 PROVE ParseOwnedProfileIdentitiesV2(R, root, tree, config)
  <2> SUFFICES ASSUME NEW r \in {1, 2}
               PROVE  LET location == OwnedIdentityLocator(Roles[r]) IN
                      OwnedProfileIdentityAccepted(R.profiles[r], root[location], tree.at[location],
                                                   config.profiles[r], r)
    BY Zenon DEF ParseOwnedProfileIdentitiesV2
  <2> DEFINE file == IdentitiesOf(document)[r]
             location == OwnedIdentityLocator(Roles[r])
             profile == R.profiles[r]
  <2>1. root[location] = file /\ tree.at[location] = file
    BY <1>3, Zenon DEF HoldsReview
  <2>2. /\ profile.binding.projection = IdentityProjection(file)
        /\ profile.file = [locator |-> location, raw |-> file]
    BY <1>1, <1>8, UndisturbedProfile, Zenon
  <2>3. file # Absent
    BY <1>8, Zenon DEF Reviewable
  <2>4. document.profiles[r].file = location
    BY <1>1, <1>8, DeclaredProfiles, Zenon
  <2>5. file = [role |-> Roles[r], package |-> document.profiles[r].package,
                integer |-> document.profiles[r].integer, digest |-> document.profiles[r].digest,
                sentinel |-> "PASS", canonical |-> TRUE]
    BY <1>8, IdentityFileIs, Zenon
  <2> HIDE DEF file, location, profile, config
  <2>6. file.role = Roles[r] /\ file.digest = document.profiles[r].digest
    BY <2>5
  <2>9. file = [file EXCEPT !.canonical = TRUE]
    <3> DEFINE package == document.profiles[r].package
               integer == document.profiles[r].integer
               digest == document.profiles[r].digest
               yes == TRUE
    <3>1. file = [role |-> Roles[r], package |-> package, integer |-> integer, digest |-> digest,
                  sentinel |-> "PASS", canonical |-> yes]
      BY <2>5, Zenon
    <3> HIDE DEF package, integer, digest, yes
    <3>2. file = [file EXCEPT !.canonical = yes]
      BY <3>1, RewrittenIdentity
    <3> QED BY <3>2, Zenon DEF yes
  <2>7. profile.file.locator = location /\ profile.file.raw = file
    BY <2>2
  <2>8. OwnedProfileIdentityAccepted(profile, file, file, config.profiles[r], r)
    BY <1>4, <2>2, <2>3, <2>4, <2>6, <2>7, <2>9, Zenon DEF OwnedProfileIdentityAccepted
  <2> QED BY <2>1, <2>8, Zenon DEF location, profile
<1> HIDE DEF R, root, config
<1>9. IF R.schema_version = 1
        THEN \A location \in IdentityLocations : root[location] = Absent
        ELSE ParseOwnedProfileIdentitiesV2(R, root, tree, config)
  BY <1>1, <1>2, <1>7, <1>8
<1>10. ReplayAccepted(R, root, tree)
  BY <1>3, <1>5, <1>6, <1>9, Zenon DEF ReplayAccepted, config
<1> QED BY <1>10, Zenon DEF R, root

--------------------------------------------------------------------------------
(* A review nobody disturbs, from one program location to the next.              *)
Start == Early \union {"config"}
Copying == {"copy", "copied"}
Unbuilt == Start \union Copying \union {"identity", "identified", "build"}
Late == {"verify", "stat", "rename"} \union Walk \union Comparing

QuietFrame(generation) ==
  /\ \E asking \in Documents : input.doc = asking.doc /\ input.fs = asking.fs
  /\ identities = IdentitiesOf(input.doc) /\ sources = Evidence(input.doc, generation)
  /\ pc \notin {"load", "done"} =>
       LoadAdmits(input.doc, input.fs) /\ admitted = Admitted(input.doc, IdentitiesOf(input.doc))
  /\ pc \notin {"load", "admit", "done"} => cells = Found(input.doc, generation)
  /\ pc \notin Unbuilt \union {"done"} => receipt = Undisturbed(input.doc, generation)
  /\ pc = "done" => (result = "OK" <=> LoadAdmits(input.doc, input.fs))

QuietPlaces ==
  /\ pc \in {"load", "admit", "create"} => output = "absent"
  /\ pc \in {"load", "admit", "create", "stage"} => names.staging = Absent /\ names.final = Absent
  /\ pc \notin {"load", "admit", "create", "stage", "done"} =>
       IF pc \in Walk \union Comparing /\ slot = 2
         THEN names.staging = Absent /\ names.final = Own
         ELSE names.staging = Own /\ names.final = Absent
  /\ pc \notin Early \union {"done"} => fd = Own
  /\ pc = "config" => slot = 1
  /\ pc \in Copying => slot \in DOMAIN CanonicalSlots
  /\ pc \in {"identity", "identified"} => slot \in {1, 2}
  /\ pc \in (Walk \ {"root"}) \union Comparing => read = RootMembers(trees[Own])

CellAwaited(n) == pc \in Start \/ (pc = "copy" /\ n >= slot) \/ (pc = "copied" /\ n > slot)
IdentityAwaited(r) ==
  pc \in Start \union Copying \/ (pc = "identity" /\ r >= slot) \/ (pc = "identified" /\ r > slot)

(* What is there and what is not yet.                                           *)
Lies(location, awaited, content) == trees[Own].at[location] = IF awaited THEN Absent ELSE content

QuietTree(generation) ==
  pc # "done" =>
    /\ trees[Own].linked = {} /\ ~trees[Own].extra
    /\ Lies(ConfigLocation, pc \in Start, input.doc)
    /\ \A n \in DOMAIN CanonicalSlots :
         Lies(OwnedCellLocator(CanonicalSlots[n]), CellAwaited(n), Found(input.doc, generation)[n])
    /\ \A r \in {1, 2} :
         Lies(OwnedIdentityLocator(Roles[r]), IdentityAwaited(r), IdentitiesOf(input.doc)[r])
    /\ Lies(JsonLocation, pc \in Unbuilt \union {"json"},
            [receipt |-> Undisturbed(input.doc, generation), canonical |-> TRUE])
    /\ Lies(MarkdownLocation, pc \in Unbuilt \union {"json", "markdown"},
            RenderRuntimeReviewMarkdown(Undisturbed(input.doc, generation)))

Quiet(generation) == QuietFrame(generation) /\ QuietPlaces /\ QuietTree(generation)

QuietInv ==
  /\ rivals \in Nat
  /\ rivals = 0 /\ input.canonical => \E generation \in Generations : Quiet(generation)

LEMMA InitQuiet == Init => QuietInv
<1> SUFFICES ASSUME Init PROVE QuietInv
  OBVIOUS
<1>1. rivals = 0
  BY DEF Init
<1>2. PICK asking \in Documents, generation \in Generations, canonical \in IdentityForms :
        /\ input = [doc |-> asking.doc, fs |-> asking.fs, canonical |-> canonical]
        /\ sources = Evidence(asking.doc, generation)
        /\ identities = IdentityFiles(asking.doc, canonical)
  BY Zenon DEF Init
<1>3. input.doc = asking.doc /\ input.fs = asking.fs /\ input.canonical = canonical
  BY <1>2, Zenon
<1>4. canonical \in BOOLEAN
  BY FormsAssumption, Zenon
<1>5. ASSUME input.canonical PROVE Quiet(generation)
  <2>1. canonical = TRUE
    BY <1>3, <1>4, <1>5, Zenon
  <2>2. pc = "load" /\ output = "absent" /\ names = [staging |-> Absent, final |-> Absent]
    BY Zenon DEF Init
  <2>3. names.staging = Absent /\ names.final = Absent
    BY <2>2
  <2>4. QuietFrame(generation)
    BY <1>2, <1>3, <2>1, <2>2, SMT DEF QuietFrame, IdentitiesOf, Unbuilt, Start, Early, Copying
  <2>5. QuietPlaces
    BY <2>2, <2>3, SMT DEF QuietPlaces, Early, Walk, Comparing, Copying
  <2>6. trees[Own] = Empty
    BY Zenon DEF Init, Inodes
  <2>7. trees[Own].linked = {} /\ ~trees[Own].extra
        /\ trees[Own].at = [location \in Locations |-> Absent]
    <3> DEFINE at == [location \in Locations |-> Absent]
    <3>1. trees[Own] = [at |-> at, extra |-> FALSE, linked |-> {}]
      BY <2>6, Zenon DEF Empty
    <3> HIDE DEF at
    <3>2. trees[Own].linked = {} /\ ~trees[Own].extra /\ trees[Own].at = at
      BY <3>1
    <3> QED BY <3>2, Zenon DEF at
  <2>8. pc \in Start /\ pc \in Unbuilt
    BY <2>2, SMT DEF Start, Early, Unbuilt
  <2>9. \A location \in Locations : trees[Own].at[location] = Absent
    BY <2>7, Zenon
  <2>10. QuietTree(generation)
    <3>1. \A n \in DOMAIN CanonicalSlots : OwnedCellLocator(CanonicalSlots[n]) \in Locations
      BY Zenon DEF Locations, CellLocations, Slots, SetOf
    <3>2. \A r \in {1, 2} : OwnedIdentityLocator(Roles[r]) \in Locations
      <4>1. \A r \in {1, 2} : Roles[r] \in SetOf(Roles)
        BY DEF SetOf, Roles
      <4> QED BY <4>1, Zenon DEF Locations, IdentityLocations
    <3>3. ConfigLocation \in Locations /\ JsonLocation \in Locations /\ MarkdownLocation \in Locations
      BY Zenon DEF Locations, RootLocations
    <3> QED
      BY <2>7, <2>8, <2>9, <3>1, <3>2, <3>3, Zenon DEF QuietTree, Lies, CellAwaited, IdentityAwaited
  <2> QED BY <2>4, <2>5, <2>10, Zenon DEF Quiet
<1> QED BY <1>1, <1>5, SMT DEF QuietInv

LEMMA LateFacts ==
  ASSUME NEW generation \in Generations, Quiet(generation), PathInv, pc \in Late
  PROVE  /\ Reviewable(input.doc, generation)
         /\ HoldsReview(trees[Own], input.doc, generation)
         /\ LoadAdmits(input.doc, input.fs)
         /\ receipt = Undisturbed(input.doc, generation) /\ cells = Found(input.doc, generation)
         /\ admitted.config = Configuration(input.doc) /\ admitted.raw = input.doc
         /\ input.doc.schema_version = 2 => admitted.identities = IdentitiesOf(input.doc)
         /\ (Second <=> input.doc.schema_version = 2)
         /\ fd = Own /\ Own # Absent
         /\ pc \in Walk \union Comparing => There = Own
<1> USE DEF Late, Walk, Comparing, Early
<1>1. pc \notin Unbuilt \union {"json", "markdown", "load", "admit", "done"} /\ pc \notin Start \union Copying
  BY SMT DEF Unbuilt, Start, Copying
<1>2. /\ LoadAdmits(input.doc, input.fs) /\ admitted = Admitted(input.doc, IdentitiesOf(input.doc))
      /\ cells = Found(input.doc, generation) /\ receipt = Undisturbed(input.doc, generation)
  BY <1>1, Zenon DEF Quiet, QuietFrame
<1>3. Reviewable(input.doc, generation)
  BY <1>2, AdmittedIsReviewable, Zenon DEF Quiet, QuietFrame
<1>4. /\ admitted.config = Configuration(input.doc) /\ admitted.raw = input.doc
      /\ input.doc.schema_version = 2 => admitted.identities = IdentitiesOf(input.doc)
  BY <1>2, AdmissionIs, Zenon
<1>5. Second <=> input.doc.schema_version = 2
  <2>1. Configuration(input.doc).schema_version = input.doc.schema_version
    BY <1>3, ConfigurationIs, Zenon DEF Reviewable
  <2> QED BY <1>4, <2>1, Zenon DEF Second, Config
<1>6. fd = Own
  BY <1>1, SMT DEF Quiet, QuietPlaces
<1>7. pc \in Walk \union Comparing => There = Own
  BY SMT DEF Quiet, QuietPlaces, There, Name, PathInv
<1>8. HoldsReview(trees[Own], input.doc, generation)
  <2>1. \A n : ~CellAwaited(n)
    BY <1>1, SMT DEF CellAwaited, Copying
  <2>2. \A r : ~IdentityAwaited(r)
    BY <1>1, SMT DEF IdentityAwaited, Unbuilt
  <2> QED BY <1>1, <2>1, <2>2, Zenon DEF Quiet, QuietTree, Lies, HoldsReview
<1> QED BY <1>2, <1>3, <1>4, <1>5, <1>6, <1>7, <1>8, InodesAreApart, Zenon

LEMMA HeldIsWanted ==
  ASSUME NEW generation \in Generations, Quiet(generation), PathInv, pc \in Late, NEW location \in Locations
  PROVE  trees[Own].at[location] = Wanted(location)
<1> DEFINE at == trees[Own].at
<1>1. /\ HoldsReview(trees[Own], input.doc, generation)
      /\ receipt = Undisturbed(input.doc, generation) /\ cells = Found(input.doc, generation)
      /\ admitted.raw = input.doc /\ (Second <=> input.doc.schema_version = 2)
      /\ input.doc.schema_version = 2 => admitted.identities = IdentitiesOf(input.doc)
      /\ input.doc.schema_version \in {1, 2}
  BY LateFacts, Zenon DEF Reviewable
<1>2. CASE location \in RootLocations
  BY <1>1, <1>2, LocationsAreApart, Zenon DEF RootLocations, HoldsReview, Wanted
<1>3. CASE location \in IdentityLocations
  <2>1. location \notin RootLocations
    BY <1>3, LocationsAreApart, Zenon
  <2>2. PICK r \in {1, 2} : location = OwnedIdentityLocator(Roles[r])
    BY <1>3, IdentityLocationIs, Zenon
  <2>3. at[location] = IdentitiesOf(input.doc)[r]
    BY <1>1, <2>2, Zenon DEF HoldsReview
  <2>4. (IF location = OwnedIdentityLocator("baseline") THEN 1 ELSE 2) = r
    BY <2>2 DEF OwnedIdentityLocator, IdentityFile, Roles
  <2>5. Wanted(location) = IF Second THEN admitted.identities[r] ELSE Absent
    BY <1>3, <2>1, <2>4, Zenon DEF Wanted, RootLocations
  <2>6. CASE input.doc.schema_version = 2
    BY <1>1, <2>3, <2>5, <2>6, Zenon
  <2>7. CASE input.doc.schema_version = 1
    <3>1. ~Second
      BY <1>1, <2>7
    <3>2. IdentitiesOf(input.doc)[r] = Absent
      BY <2>7, NoIdentityOnTheFirstRoute, Zenon
    <3> QED BY <2>3, <2>5, <3>1, <3>2, Zenon
  <2> QED BY <1>1, <2>6, <2>7, Zenon
<1>4. CASE location \in CellLocations
  <2> DEFINE m == CHOOSE n \in DOMAIN CanonicalSlots : OwnedCellLocator(CanonicalSlots[n]) = location
  <2>1. m \in DOMAIN CanonicalSlots /\ OwnedCellLocator(CanonicalSlots[m]) = location
    BY <1>4, CellLocationIsCanonical, Zenon
  <2>2. location \notin RootLocations /\ location \notin IdentityLocations
    BY <1>4, LocationsAreApart, Zenon
  <2>3. Wanted(location) = cells[m]
    BY <2>2, Zenon DEF Wanted, RootLocations
  <2> HIDE DEF m
  <2> QED BY <1>1, <2>1, <2>3, Zenon DEF HoldsReview
<1> QED BY <1>2, <1>3, <1>4, Zenon DEF Locations

(* Once everything is written nothing moves but the location and the names.      *)
LEMMA LateMove ==
  ASSUME NEW generation, Quiet(generation), pc \in Late, pc' \in Late,
         UNCHANGED <<input, sources, identities, admitted, cells, receipt, trees, fd>>,
         IF pc' \in Walk \union Comparing /\ slot' = 2
           THEN names'.staging = Absent /\ names'.final = Own
           ELSE names'.staging = Own /\ names'.final = Absent,
         pc' \in (Walk \ {"root"}) \union Comparing => read' = RootMembers(trees[Own])
  PROVE  Quiet(generation)'
<1> USE DEF Late, Walk, Comparing, Early
<1>1. /\ pc \notin Unbuilt \union {"json", "markdown", "load", "admit", "create", "stage", "done"}
      /\ pc \notin Start \union Copying
  BY SMT DEF Unbuilt, Start, Copying
<1>2. /\ pc' \notin Unbuilt \union {"json", "markdown", "load", "admit", "create", "stage", "done"}
      /\ pc' \notin Start \union Copying
  BY SMT DEF Unbuilt, Start, Copying
<1>3. QuietFrame(generation)'
  BY <1>1, <1>2, Zenon DEF Quiet, QuietFrame
<1>4. QuietPlaces'
  <2>1. fd' = Own
    BY <1>1, SMT DEF Quiet, QuietPlaces
  <2>2. RootMembers(trees[Own])' = RootMembers(trees[Own])
    BY Zenon
  <2> QED BY <1>2, <2>1, <2>2, SMT DEF QuietPlaces, Copying
<1>5. QuietTree(generation)'
  <2>1. \A n : ~CellAwaited(n) /\ ~CellAwaited(n)'
    BY <1>1, <1>2, SMT DEF CellAwaited, Copying
  <2>2. \A r : ~IdentityAwaited(r) /\ ~IdentityAwaited(r)'
    BY <1>1, <1>2, SMT DEF IdentityAwaited, Unbuilt
  <2> QED BY <1>1, <1>2, <2>1, <2>2, Zenon DEF Quiet, QuietTree, Lies
<1> QED BY <1>3, <1>4, <1>5, Zenon DEF Quiet

LEMMA LateIsAccepted ==
  ASSUME NEW generation \in Generations, Quiet(generation), PathInv, pc \in Late
  PROVE  /\ CompleteOwnedTree(trees[Own])
         /\ DocumentsAccepted(trees[Own].at[JsonLocation], trees[Own].at[MarkdownLocation])
         /\ ParseOwnedEvidenceCells(receipt.evidence_cells) /\ CellsAccepted(receipt.evidence_cells, trees[Own])
         /\ ReplayAccepted(receipt, RootMembers(trees[Own]), trees[Own])
         /\ RootMembers(trees[Own])[JsonLocation].receipt = receipt
         /\ trees[Own].linked = {}
<1>1. Reviewable(input.doc, generation) /\ HoldsReview(trees[Own], input.doc, generation)
      /\ receipt = Undisturbed(input.doc, generation)
  BY LateFacts, Zenon
<1>2. CompleteOwnedTree(trees[Own])
  BY <1>1, HeldIsComplete, Zenon
<1>3. DocumentsAccepted(trees[Own].at[JsonLocation], trees[Own].at[MarkdownLocation])
  BY <1>1, HeldDocuments, Zenon
<1>4. ParseOwnedEvidenceCells(receipt.evidence_cells) /\ CellsAccepted(receipt.evidence_cells, trees[Own])
  BY <1>1, HeldCells, Zenon
<1>5. ReplayAccepted(receipt, RootMembers(trees[Own]), trees[Own])
  BY <1>1, HeldReplays, Zenon
<1>6. RootMembers(trees[Own])[JsonLocation].receipt = receipt
  BY <1>1, HeldMembers
<1> QED BY <1>1, <1>2, <1>3, <1>4, <1>5, <1>6, Zenon DEF HoldsReview

LEMMA VerifyIsQuiet ==
  ASSUME NEW generation \in Generations, Quiet(generation), PathInv, VerifyStaging
  PROVE  Quiet(generation)'
<1>1. pc = "verify" /\ pc \in Late /\ "root" \in Late /\ "root" \in Walk
  BY SMT DEF VerifyStaging, Late, Walk
<1>2. fd = Own /\ Own # Absent /\ trees[Own].linked = {} /\ CompleteOwnedTree(trees[Own])
  BY <1>1, LateFacts, LateIsAccepted, Zenon
<1>3. \A location \in Locations : trees[Own].at[location] = Wanted(location)
  BY <1>1, HeldIsWanted, Zenon
<1> DEFINE compared == {ConfigLocation} \union CellLocations \union IdentitiesCopied
<1>4. \A location \in compared : location \in Locations /\ trees[Own].at[location] # Absent
  <2>1. \A location \in CellLocations \union {ConfigLocation} :
          location \in Locations /\ trees[Own].at[location] # Absent
    BY <1>2, Zenon DEF CompleteOwnedTree, Locations, RootLocations
  <2>2. ASSUME NEW location \in IdentitiesCopied
        PROVE  location \in Locations /\ trees[Own].at[location] # Absent
    <3>1. Second /\ location \in IdentityLocations
      BY Zenon DEF IdentitiesCopied
    <3>2. PICK r \in {1, 2} : location = OwnedIdentityLocator(Roles[r])
      BY <3>1, IdentityLocationIs, Zenon
    <3>3. Reviewable(input.doc, generation) /\ HoldsReview(trees[Own], input.doc, generation)
          /\ input.doc.schema_version = 2
      BY <1>1, <3>1, LateFacts, Zenon
    <3> QED BY <3>1, <3>2, <3>3, Zenon DEF HoldsReview, Reviewable, Locations
  <2> QED BY <2>1, <2>2, Zenon
<1>5. trees[Own].at[JsonLocation] # Absent /\ trees[Own].at[MarkdownLocation] # Absent
  BY <1>2, Zenon DEF CompleteOwnedTree, RootLocations
<1>6. /\ \A location \in compared : Single(fd, location) /\ trees[fd].at[location] = Wanted(location)
      /\ Single(fd, JsonLocation) /\ Single(fd, MarkdownLocation)
  <2>1. \A location : location \notin trees[Own].linked
    BY <1>2
  <2> QED BY <1>2, <1>3, <1>4, <1>5, <2>1, Zenon DEF Single
<1> HIDE DEF compared
<1>7. pc' = "root" /\ slot' = 1
  BY <1>6, Zenon DEF VerifyStaging, compared, Goto
<1>8. /\ UNCHANGED <<input, sources, identities, admitted, cells, receipt, trees, fd, names>>
      /\ names.staging = Own /\ names.final = Absent
  BY <1>1, SMT DEF VerifyStaging, asked, Quiet, QuietPlaces, Walk, Comparing
<1> QED BY <1>1, <1>7, <1>8, LateMove, SMT DEF Walk, Comparing

LEMMA WalkIsQuiet ==
  ASSUME NEW generation \in Generations, Quiet(generation), PathInv,
         ReadRoot \/ ValidateCells \/ Replay \/ RevalidateCells \/ RereadRoot
  PROVE  Quiet(generation)'
<1> USE DEF Late, Walk, Comparing
<1>1. pc \in Walk /\ pc \in Late
  BY SMT DEF ReadRoot, ValidateCells, Replay, RevalidateCells, RereadRoot
<1>2. There = Own /\ There # Absent /\ Tree = trees[Own] /\ slot \in {1, 2}
  BY <1>1, LateFacts DEF Tree, PathInv
<1>3. /\ CompleteOwnedTree(Tree) /\ DocumentsAccepted(Tree.at[JsonLocation], Tree.at[MarkdownLocation])
      /\ ParseOwnedEvidenceCells(receipt.evidence_cells) /\ CellsAccepted(receipt.evidence_cells, Tree)
      /\ ReplayAccepted(receipt, RootMembers(Tree), Tree) /\ RootMembers(Tree)[JsonLocation].receipt = receipt
  BY <1>1, <1>2, LateIsAccepted
<1>4. pc # "root" => read = RootMembers(Tree) /\ ReceiptRead = receipt
  BY <1>1, <1>2, <1>3, SMT DEF Quiet, QuietPlaces, ReceiptRead
<1>5. IF slot = 2 THEN names.staging = Absent /\ names.final = Own
                  ELSE names.staging = Own /\ names.final = Absent
  BY <1>1, SMT DEF Quiet, QuietPlaces
<1>6. CASE ReadRoot
  <2>1. pc = "root" /\ read' = RootMembers(Tree) /\ pc' = "cells" /\ slot' = slot
    BY <1>2, <1>3, <1>6, Zenon DEF ReadRoot
  <2>2. UNCHANGED <<input, sources, identities, admitted, cells, receipt, trees, fd, names>>
    BY <1>6, Zenon DEF ReadRoot, asked, owned
  <2> QED BY <1>1, <1>2, <1>5, <2>1, <2>2, LateMove, SMT
<1>7. CASE ValidateCells
  <2>1. pc = "cells" /\ pc' = "replay" /\ slot' = slot
    BY <1>2, <1>3, <1>4, <1>7, SMT DEF ValidateCells
  <2>2. UNCHANGED <<input, sources, identities, admitted, cells, receipt, trees, fd, names, read>>
    BY <1>7, Zenon DEF ValidateCells, asked, owned
  <2> QED BY <1>1, <1>2, <1>4, <1>5, <2>1, <2>2, LateMove, SMT
<1>8. CASE Replay
  <2>1. pc = "replay" /\ pc' = "recells" /\ slot' = slot
    BY <1>2, <1>3, <1>4, <1>8, SMT DEF Replay
  <2>2. UNCHANGED <<input, sources, identities, admitted, cells, receipt, trees, fd, names, read>>
    BY <1>8, Zenon DEF Replay, asked, owned
  <2> QED BY <1>1, <1>2, <1>4, <1>5, <2>1, <2>2, LateMove, SMT
<1>9. CASE RevalidateCells
  <2>1. pc = "recells" /\ pc' = "reroot" /\ slot' = slot
    BY <1>2, <1>3, <1>4, <1>9, SMT DEF RevalidateCells
  <2>2. UNCHANGED <<input, sources, identities, admitted, cells, receipt, trees, fd, names, read>>
    BY <1>9, Zenon DEF RevalidateCells, asked
  <2> QED BY <1>1, <1>2, <1>4, <1>5, <2>1, <2>2, LateMove, SMT
<1>10. CASE RereadRoot
  <2>1. pc = "reroot" /\ pc' = (IF slot = 1 THEN "stat" ELSE "compare") /\ slot' = slot
    BY <1>2, <1>3, <1>4, <1>10, SMT DEF RereadRoot, RootUnchanged
  <2>2. UNCHANGED <<input, sources, identities, admitted, cells, receipt, trees, fd, names, read>>
    BY <1>10, Zenon DEF RereadRoot, asked
  <2> QED BY <1>1, <1>2, <1>4, <1>5, <2>1, <2>2, LateMove, SMT
<1> QED BY <1>6, <1>7, <1>8, <1>9, <1>10, Zenon

LEMMA PublicationIsQuiet ==
  ASSUME NEW generation \in Generations, Quiet(generation), ShapeInv, PathInv,
         ProbeFinal \/ PublishOutput \/ CompareReceipts \/ VerifyPublishedRoot \/ VerifyPublishedCells
  PROVE  Quiet(generation)'
<1> USE DEF Late, Walk, Comparing
<1>1. pc \in {"stat", "rename", "compare", "bound", "boundcells"} /\ pc \in Late
  BY SMT DEF ProbeFinal, PublishOutput, CompareReceipts, VerifyPublishedRoot, VerifyPublishedCells
<1>2. pc \in Comparing => There = Own /\ There # Absent /\ Tree = trees[Own] /\ slot = 2
  BY <1>1, LateFacts DEF Tree, PathInv
<1>3. /\ CompleteOwnedTree(trees[Own])
      /\ CellsAccepted(receipt.evidence_cells, trees[Own])
      /\ RootMembers(trees[Own])[JsonLocation].receipt = receipt
      /\ fd = Own /\ Own # Absent
  BY <1>1, LateIsAccepted, LateFacts
<1>4. pc \in Comparing => read = RootMembers(trees[Own]) /\ ReceiptRead = receipt
                         /\ names.staging = Absent /\ names.final = Own
  BY <1>1, <1>2, <1>3, SMT DEF Quiet, QuietPlaces, ReceiptRead
<1>5. pc \in {"stat", "rename"} => names.staging = Own /\ names.final = Absent
  BY <1>1, SMT DEF Quiet, QuietPlaces
<1>6. \A location \in Locations : trees[Own].at[location] = Wanted(location)
  BY <1>1, HeldIsWanted, Zenon
<1>7. CASE ProbeFinal
  <2>1. pc = "stat" /\ pc' = "rename" /\ slot' = slot
    BY <1>5, <1>7, SMT DEF ProbeFinal
  <2>2. UNCHANGED <<input, sources, identities, admitted, cells, receipt, trees, fd, names>>
    BY <1>7, Zenon DEF ProbeFinal, asked, owned
  <2> QED BY <1>1, <1>5, <2>1, <2>2, LateMove, SMT
<1>8. CASE PublishOutput
  <2>1. pc = "rename"
    BY <1>8, Zenon DEF PublishOutput
  <2>2. names' = [staging |-> Absent, final |-> names.staging]
    BY <1>3, <1>5, <1>8, <2>1, SMT DEF PublishOutput, Rename
  <2>3. names'.staging = Absent /\ names'.final = Own
    BY <1>5, <2>1, <2>2
  <2>4. names' # names
    BY <1>3, <1>5, <2>1, <2>3
  <2>5. pc' = "root" /\ slot' = 2
    BY <1>8, <2>4, Zenon DEF PublishOutput
  <2>6. UNCHANGED <<input, sources, identities, admitted, cells, receipt, trees, fd>>
    BY <1>8, Zenon DEF PublishOutput, asked
  <2> QED BY <1>1, <2>3, <2>5, <2>6, LateMove, SMT
<1>9. CASE CompareReceipts
  <2>1. pc = "compare" /\ pc' = "bound" /\ slot' = slot
    BY <1>4, <1>9, SMT DEF CompareReceipts
  <2>2. UNCHANGED <<input, sources, identities, admitted, cells, receipt, trees, fd, names, read>>
    BY <1>9, Zenon DEF CompareReceipts, asked, owned
  <2> QED BY <1>1, <1>2, <1>4, <2>1, <2>2, LateMove, SMT
<1>10. CASE VerifyPublishedRoot
  <2>1. pc = "bound"
    BY <1>10, Zenon DEF VerifyPublishedRoot
  <2>2. BoundPublishedRoot
    BY <1>3, <1>4, <2>1, SMT DEF BoundPublishedRoot
  <2>3. \A location \in RootLocations : Tree.at[location] = Wanted(location)
    BY <1>2, <1>6, <2>1, SMT DEF Locations
  <2>4. read' = RootMembers(Tree) /\ pc' = "boundcells" /\ slot' = slot
    BY <1>10, <2>2, <2>3, Zenon DEF VerifyPublishedRoot
  <2>5. UNCHANGED <<input, sources, identities, admitted, cells, receipt, trees, fd, names>>
    BY <1>10, Zenon DEF VerifyPublishedRoot, asked, owned
  <2> QED BY <1>1, <1>2, <1>4, <2>1, <2>4, <2>5, LateMove, SMT
<1>11. CASE VerifyPublishedCells
  <2>1. pc = "boundcells"
    BY <1>11, Zenon DEF VerifyPublishedCells
  <2>2. \A location \in IdentitiesCopied : read[location] = Wanted(location)
    <3>1. \A location \in IdentitiesCopied : location \in IdentityLocations
      BY Zenon DEF IdentitiesCopied
    <3>2. \A location \in IdentityLocations : RootMembers(trees[Own])[location] = trees[Own].at[location]
      BY Zenon DEF RootMembers
    <3>3. read = RootMembers(trees[Own])
      BY <1>4, <2>1
    <3> QED BY <1>6, <3>1, <3>2, <3>3, Zenon DEF Locations
  <2>3. There # Absent /\ CellsAccepted(receipt.evidence_cells, Tree)
    BY <1>2, <1>3, <2>1, SMT
  <2>4. pc' = "boundagain" /\ slot' = slot
    BY <1>11, <2>2, <2>3, Zenon DEF VerifyPublishedCells
  <2>5. UNCHANGED <<input, sources, identities, admitted, cells, receipt, trees, fd, names, read>>
    BY <1>11, Zenon DEF VerifyPublishedCells, asked
  <2> QED BY <1>1, <1>2, <1>4, <2>1, <2>4, <2>5, LateMove, SMT
<1> QED BY <1>7, <1>8, <1>9, <1>10, <1>11, Zenon

LEMMA EndIsQuiet ==
  ASSUME NEW generation, Quiet(generation), UNCHANGED <<input, sources, identities>>, pc' = "done",
         result' = "OK" <=> LoadAdmits(input.doc, input.fs)
  PROVE  Quiet(generation)'
<1>1. QuietFrame(generation)'
  BY SMT DEF Quiet, QuietFrame
<1>2. QuietPlaces'
  BY SMT DEF QuietPlaces, Walk, Comparing, Copying
<1>3. QuietTree(generation)'
  BY Zenon DEF QuietTree
<1> QED BY <1>1, <1>2, <1>3, Zenon DEF Quiet

LEMMA SuccessIsQuiet ==
  ASSUME NEW generation \in Generations, Quiet(generation), PathInv, VerifyPublishedAgain
  PROVE  Quiet(generation)'
<1>1. pc = "boundagain" /\ pc \in Late /\ pc \in Comparing /\ pc \in (Walk \ {"root"}) \union Comparing
  BY SMT DEF VerifyPublishedAgain, Late, Comparing
<1>2. There = Own /\ Tree = trees[Own] /\ fd = Own /\ Own # Absent /\ LoadAdmits(input.doc, input.fs)
  BY <1>1, LateFacts DEF Tree
<1>3. CompleteOwnedTree(trees[Own])
  BY <1>1, LateIsAccepted, Zenon
<1>4. names.final = Own /\ read = RootMembers(trees[Own])
  BY <1>1, SMT DEF Quiet, QuietPlaces, PathInv
<1>5. BoundPublishedRoot /\ RootMembers(Tree) = read
  BY <1>2, <1>3, <1>4, SMT DEF BoundPublishedRoot
<1>6. pc' = "done" /\ result' = "OK"
  BY <1>5, Zenon DEF VerifyPublishedAgain, Refuse
<1>7. UNCHANGED <<input, sources, identities>>
  BY Zenon DEF VerifyPublishedAgain, asked
<1> QED BY <1>2, <1>6, <1>7, EndIsQuiet, Zenon

--------------------------------------------------------------------------------
(* Before anything is written.                                                  *)
LEMMA StartTree ==
  ASSUME NEW generation, QuietTree(generation), pc \in Early, pc' \in Start, UNCHANGED <<input, trees>>
  PROVE  QuietTree(generation)'
<1>1. /\ pc \in Start /\ pc \in Unbuilt /\ pc # "done"
      /\ pc' \in Start /\ pc' \in Unbuilt /\ pc' # "done"
  BY SMT DEF Start, Unbuilt, Early
<1>2. /\ \A n : CellAwaited(n) /\ CellAwaited(n)'
      /\ \A r : IdentityAwaited(r) /\ IdentityAwaited(r)'
  BY <1>1, Zenon DEF CellAwaited, IdentityAwaited
<1> QED BY <1>1, <1>2, Zenon DEF QuietTree, Lies

LEMMA LoadIsQuiet ==
  ASSUME NEW generation \in Generations, Quiet(generation), LoadConfiguration
  PROVE  Quiet(generation)'
<1> USE DEF Early, Walk, Comparing, Copying
<1>1. pc = "load" /\ UNCHANGED <<input, sources, identities, cells, receipt, output, names, trees, fd, read>>
  BY Zenon DEF LoadConfiguration, asked, owned
<1>2. CASE LoadAdmits(input.doc, input.fs)
  <2>1. admitted' = Admitted(input.doc, identities) /\ pc' = "admit" /\ result' = result
    BY <1>2, Zenon DEF LoadConfiguration, Goto
  <2>2. identities = IdentitiesOf(input.doc)
    BY Zenon DEF Quiet, QuietFrame
  <2>3. QuietFrame(generation)'
    BY <1>1, <1>2, <2>1, <2>2, SMT DEF Quiet, QuietFrame, Unbuilt, Start
  <2>4. QuietPlaces'
    BY <1>1, <2>1, SMT DEF Quiet, QuietPlaces
  <2>5. QuietTree(generation)'
    BY <1>1, <2>1, StartTree, SMT DEF Quiet, Start
  <2> QED BY <2>3, <2>4, <2>5, Zenon DEF Quiet
<1>3. CASE ~LoadAdmits(input.doc, input.fs)
  <2>1. pc' = "done" /\ result' = "PARSE"
    BY <1>3, Zenon DEF LoadConfiguration, Refuse
  <2>2. result' # "OK"
    BY <2>1
  <2> QED BY <1>1, <1>3, <2>1, <2>2, EndIsQuiet, Zenon
<1> QED BY <1>2, <1>3

(* What is known once the configuration is admitted.                             *)
LEMMA AdmissionFacts ==
  ASSUME NEW generation \in Generations, Quiet(generation), pc \notin {"load", "done"}
  PROVE  /\ LoadAdmits(input.doc, input.fs) /\ Reviewable(input.doc, generation)
         /\ Config = Configuration(input.doc) /\ admitted.raw = input.doc
         /\ admitted.config = Config
         /\ admitted.directories = CellDirectories(Config)
         /\ (Second <=> input.doc.schema_version = 2)
         /\ Second => admitted.identities = IdentitiesOf(input.doc)
         /\ DOMAIN Config.cells = DOMAIN CanonicalSlots /\ Len(Config.cells) = Len(CanonicalSlots)
         /\ \A n \in DOMAIN CanonicalSlots :
              /\ Found(input.doc, generation)[n] = sources[admitted.directories[n]]
              /\ Config.cells[n].slot = CanonicalSlots[n]
<1>1. LoadAdmits(input.doc, input.fs) /\ admitted = Admitted(input.doc, IdentitiesOf(input.doc))
      /\ sources = Evidence(input.doc, generation)
  BY Zenon DEF Quiet, QuietFrame
<1>2. Reviewable(input.doc, generation)
  BY <1>1, AdmittedIsReviewable, Zenon DEF Quiet, QuietFrame
<1>3. Worded(input.doc) /\ CellsAdmitted(input.doc.cells)
  BY <1>2, Zenon DEF Reviewable
<1>4. Config = Configuration(input.doc) /\ admitted.raw = input.doc
      /\ admitted.directories = CellDirectories(Config)
      /\ (input.doc.schema_version = 2 => admitted.identities = IdentitiesOf(input.doc))
  <2>1. /\ admitted.config = Configuration(input.doc) /\ admitted.raw = input.doc
        /\ admitted.directories = CellDirectories(Configuration(input.doc))
        /\ (input.doc.schema_version = 2 => admitted.identities = IdentitiesOf(input.doc))
    BY <1>1, AdmissionIs
  <2> QED BY <2>1, Zenon DEF Config
<1>5. Config.schema_version = input.doc.schema_version /\ Config.cells = CanonicalCells(input.doc.cells)
  BY <1>3, <1>4, ConfigurationIs, Zenon
<1>6. Config.cells = [n \in 1..Len(CanonicalSlots) |-> CanonicalCells(input.doc.cells)[n]]
  <2>1. DOMAIN CanonicalSlots = 1..Len(CanonicalSlots)
    BY GridSize
  <2> QED BY <1>5, <2>1, Zenon DEF CanonicalCells
<1>7. DOMAIN Config.cells = DOMAIN CanonicalSlots /\ Len(Config.cells) = Len(CanonicalSlots)
  BY <1>6, GridSize
<1>8. \A n \in DOMAIN CanonicalSlots : Found(input.doc, generation)[n] = sources[admitted.directories[n]]
  BY <1>1, <1>4, Zenon DEF Found
<1>9. \A n \in DOMAIN CanonicalSlots : Config.cells[n].slot = CanonicalSlots[n]
  BY <1>3, <1>4, FoundIs
<1> QED BY <1>1, <1>2, <1>4, <1>5, <1>7, <1>8, <1>9, Zenon DEF Second, Config

LEMMA AdmitIsQuiet ==
  ASSUME NEW generation \in Generations, Quiet(generation), AdmitEvidence
  PROVE  Quiet(generation)'
<1> USE DEF Early, Walk, Comparing, Copying
<1>1. pc = "admit" /\ UNCHANGED <<input, sources, identities, admitted, receipt, output, names, trees, fd, read>>
  BY Zenon DEF AdmitEvidence, asked, owned
<1> DEFINE found == [n \in DOMAIN Config.cells |-> sources[admitted.directories[n]]]
<1>2. /\ DOMAIN Config.cells = DOMAIN CanonicalSlots /\ Config = Configuration(input.doc)
      /\ \A n \in DOMAIN CanonicalSlots : Found(input.doc, generation)[n] = sources[admitted.directories[n]]
      /\ Reviewable(input.doc, generation)
  BY <1>1, AdmissionFacts
<1>3. found = Found(input.doc, generation)
  <2>1. Found(input.doc, generation) = [n \in DOMAIN CanonicalSlots |-> Found(input.doc, generation)[n]]
    BY Zenon DEF Found
  <2> QED BY <1>2, <2>1, Zenon
<1>4. identities = IdentitiesOf(input.doc)
  BY Zenon DEF Quiet, QuietFrame
<1>5. RuntimeEvidenceAdmitted(Config, found, identities)
  BY <1>2, <1>3, <1>4, FoundIsAdmitted, Zenon
<1>6. cells' = found /\ pc' = "create"
  BY <1>5, Zenon DEF AdmitEvidence, Goto
<1> HIDE DEF found
<1>7. QuietFrame(generation)'
  BY <1>1, <1>3, <1>6, SMT DEF Quiet, QuietFrame, Unbuilt, Start
<1>8. QuietPlaces'
  BY <1>1, <1>6, SMT DEF Quiet, QuietPlaces
<1>9. QuietTree(generation)'
  BY <1>1, <1>6, StartTree, SMT DEF Quiet, Start
<1> QED BY <1>7, <1>8, <1>9, Zenon DEF Quiet

(* Nothing of what a run knows changes.                                          *)
LEMMA FrameKept ==
  ASSUME NEW generation, QuietFrame(generation), UNCHANGED <<input, sources, identities, admitted, cells>>,
         pc \notin {"load", "admit", "done"}, pc' \notin {"load", "admit", "done"},
         pc' \in Unbuilt \/ receipt' = Undisturbed(input.doc, generation)
  PROVE  QuietFrame(generation)'
BY Zenon DEF QuietFrame

LEMMA CreateIsQuiet ==
  ASSUME NEW generation \in Generations, Quiet(generation), CreateOwnedOutputRoot
  PROVE  Quiet(generation)'
<1> USE DEF Early, Walk, Comparing, Copying
<1>1. pc = "create" /\ UNCHANGED <<input, identities, admitted, cells, receipt, names, trees, fd, read>>
  BY Zenon DEF CreateOwnedOutputRoot
<1>2. output = "absent"
  BY <1>1, SMT DEF Quiet, QuietPlaces
<1>3. /\ sources' = [d \in DOMAIN sources |->
                      IF d \in Dirtied(Config.output_dir) /\ sources[d] # Absent
                        THEN [sources[d] EXCEPT !.six = FALSE] ELSE sources[d]]
      /\ pc' = "stage"
  BY <1>2, Zenon DEF CreateOwnedOutputRoot, Goto
<1>4. /\ LoadAdmits(input.doc, input.fs) /\ Config = Configuration(input.doc) /\ Reviewable(input.doc, generation)
      /\ sources = Evidence(input.doc, generation)
  BY <1>1, AdmissionFacts DEF Quiet, QuietFrame
<1>5. Dirtied(Config.output_dir) = {}
  BY <1>4, NothingIsDirtied, Zenon DEF Reviewable
<1>6. sources' = sources
  <2>1. sources = [d \in DOMAIN sources |-> sources[d]]
    BY <1>4, Zenon DEF Evidence
  <2>2. \A d : d \notin Dirtied(Config.output_dir)
    BY <1>5
  <2> QED BY <1>3, <2>1, <2>2, Zenon
<1>7. QuietFrame(generation)'
  <2>1. /\ pc \in Unbuilt /\ pc' \in Unbuilt
        /\ pc \notin {"load", "admit", "done"} /\ pc' \notin {"load", "admit", "done"}
    BY <1>1, <1>3, SMT DEF Unbuilt, Start
  <2> QED BY <1>1, <1>6, <2>1, FrameKept, Zenon DEF Quiet
<1>8. QuietPlaces'
  BY <1>1, <1>3, SMT DEF Quiet, QuietPlaces
<1>9. QuietTree(generation)'
  BY <1>1, <1>3, StartTree, SMT DEF Quiet, Start
<1> QED BY <1>7, <1>8, <1>9, Zenon DEF Quiet

LEMMA StageIsQuiet ==
  ASSUME NEW generation \in Generations, Quiet(generation), ShapeInv, PathInv, MakeStaging \/ OpenStaging
  PROVE  Quiet(generation)'
<1> USE DEF Early, Walk, Comparing, Copying
<1>1. /\ pc \in {"stage", "open"}
      /\ UNCHANGED <<input, sources, identities, admitted, cells, receipt, output, trees, read>>
  BY Zenon DEF MakeStaging, OpenStaging, asked
<1>2. CASE MakeStaging
  <2>1. pc = "stage" /\ names.staging = Absent /\ names.final = Absent
    BY <1>2, SMT DEF MakeStaging, Quiet, QuietPlaces
  <2>2. names' = [names EXCEPT !.staging = Own] /\ pc' = "open" /\ fd' = fd
    BY <1>2, <2>1, Zenon DEF MakeStaging, Goto
  <2>3. names'.staging = Own /\ names'.final = Absent
    BY <2>1, <2>2 DEF ShapeInv
  <2>4. QuietFrame(generation)'
    BY <1>1, <2>1, <2>2, SMT DEF Quiet, QuietFrame, Unbuilt, Start
  <2>5. QuietPlaces'
    BY <1>1, <2>2, <2>3, SMT DEF Quiet, QuietPlaces
  <2>6. QuietTree(generation)'
    BY <1>1, <2>2, StartTree, SMT DEF Quiet, Start
  <2> QED BY <2>4, <2>5, <2>6, Zenon DEF Quiet
<1>3. CASE OpenStaging
  <2>1. pc = "open" /\ names.staging = Own /\ names.final = Absent
    BY <1>3, SMT DEF OpenStaging, Quiet, QuietPlaces
  <2>2. fd' = Own /\ pc' = "config" /\ slot' = 1 /\ UNCHANGED names
    BY <1>3, <2>1, InodesAreApart, SMT DEF OpenStaging, Goto
  <2>4. QuietFrame(generation)'
    BY <1>1, <2>1, <2>2, SMT DEF Quiet, QuietFrame, Unbuilt, Start
  <2>5. QuietPlaces'
    BY <1>1, <2>1, <2>2, SMT DEF Quiet, QuietPlaces
  <2>6. QuietTree(generation)'
    BY <1>1, <2>2, StartTree, SMT DEF Quiet, Start
  <2> QED BY <2>4, <2>5, <2>6, Zenon DEF Quiet
<1> QED BY <1>2, <1>3, Zenon
--------------------------------------------------------------------------------
(* One file after the other.                                                    *)
Writing == {"config"} \union Copying \union {"identity", "identified", "build", "json", "markdown"}

LEMMA CellLocatorsAreApart ==
  ASSUME NEW document, Worded(document), CellsAdmitted(document.cells),
         NEW m \in DOMAIN CanonicalSlots, NEW n \in DOMAIN CanonicalSlots, m # n
  PROVE  OwnedCellLocator(CanonicalSlots[m]) # OwnedCellLocator(CanonicalSlots[n])
<1>1. \A i \in DOMAIN CanonicalSlots :
        \E role, dt, repeat : CanonicalSlots[i] = [role |-> role, dt |-> dt, repeat |-> repeat]
  BY Zenon DEF CanonicalSlots
<1>2. PICK a, b, c : CanonicalSlots[m] = [role |-> a, dt |-> b, repeat |-> c]
  BY <1>1, Zenon
<1>3. PICK x, y, z : CanonicalSlots[n] = [role |-> x, dt |-> y, repeat |-> z]
  BY <1>1, Zenon
<1>4. CanonicalSlots[m] # CanonicalSlots[n]
  BY SlotsAreApart, Zenon DEF Worded
<1>5. OwnedCellLocator(CanonicalSlots[m]) = <<"evidence", a, b, c>>
  BY <1>2 DEF OwnedCellLocator
<1>6. OwnedCellLocator(CanonicalSlots[n]) = <<"evidence", x, y, z>>
  BY <1>3 DEF OwnedCellLocator
<1>7. <<"evidence", a, b, c>> = <<"evidence", x, y, z>> => a = x /\ b = y /\ c = z
  OBVIOUS
<1> QED BY <1>2, <1>3, <1>4, <1>5, <1>6, <1>7, Zenon

LEMMA Places ==
  /\ ConfigLocation \in Locations /\ JsonLocation \in Locations /\ MarkdownLocation \in Locations
  /\ \A n \in DOMAIN CanonicalSlots :
       /\ OwnedCellLocator(CanonicalSlots[n]) \in Locations
       /\ OwnedCellLocator(CanonicalSlots[n]) \notin {ConfigLocation, JsonLocation, MarkdownLocation}
       /\ \A r \in {1, 2} : OwnedCellLocator(CanonicalSlots[n]) # OwnedIdentityLocator(Roles[r])
  /\ \A r \in {1, 2} :
       /\ OwnedIdentityLocator(Roles[r]) \in Locations
       /\ OwnedIdentityLocator(Roles[r]) \notin {ConfigLocation, JsonLocation, MarkdownLocation}
  /\ OwnedIdentityLocator(Roles[1]) # OwnedIdentityLocator(Roles[2])
<1>1. \A r \in {1, 2} : OwnedIdentityLocator(Roles[r]) \in IdentityLocations
  <2>1. \A r \in {1, 2} : Roles[r] \in SetOf(Roles)
    BY DEF SetOf, Roles
  <2> QED BY <2>1, Zenon DEF IdentityLocations
<1>2. ConfigLocation \in RootLocations /\ JsonLocation \in RootLocations /\ MarkdownLocation \in RootLocations
  BY Zenon DEF RootLocations
<1>3. OwnedIdentityLocator(Roles[1]) # OwnedIdentityLocator(Roles[2])
  BY DEF OwnedIdentityLocator, IdentityFile, Roles
<1>4. \A l \in RootLocations : l \notin IdentityLocations /\ l \notin CellLocations /\ l \in Locations
  BY LocationsAreApart, Zenon DEF Locations
<1>5. \A l \in IdentityLocations : l \notin CellLocations /\ l \notin RootLocations /\ l \in Locations
  BY LocationsAreApart, Zenon DEF Locations
<1>6. \A l \in CellLocations : l \notin IdentityLocations /\ l \notin RootLocations /\ l \in Locations
  BY LocationsAreApart, Zenon DEF Locations
<1> QED BY <1>1, <1>2, <1>3, <1>4, <1>5, <1>6, CellIsALocation

(* A write of a file that is not there yet.                                      *)
LEMMA WriteLands ==
  ASSUME ShapeInv, fd = Own, NEW location \in Locations, NEW content, NEW next,
         trees[Own].at[location] = Absent, WriteNewFile(location, content, next)
  PROVE  /\ pc' = next /\ UNCHANGED <<slot, result>>
         /\ trees'[Own].at[location] = content
         /\ \A l \in Locations : l # location => trees'[Own].at[l] = trees[Own].at[l]
         /\ trees'[Own].linked = trees[Own].linked /\ trees'[Own].extra = trees[Own].extra
<1>1. trees' = [trees EXCEPT ![Own].at[location] = content] /\ pc' = next /\ UNCHANGED <<slot, result>>
  BY Zenon DEF WriteNewFile
<1>2. Own \in Inodes
  BY Zenon DEF Inodes
<1>3. trees'[Own].at[location] = content
  BY <1>1, <1>2, EntryIsWritten, Zenon
<1>4. \A l \in Locations : l # location => trees'[Own].at[l] = trees[Own].at[l]
  <2>1. Apart(trees', Own, location)
    BY WriteIsApart, Zenon
  <2> QED BY <1>2, <2>1, Zenon DEF Apart
<1>5. trees'[Own].linked = trees[Own].linked /\ trees'[Own].extra = trees[Own].extra
  <2>1. \A i \in Inodes : trees'[i].linked = trees[i].linked /\ trees'[i].extra = trees[i].extra
    BY <1>1, <1>2, EntryKeepsLinks
  <2> QED BY <1>2, <2>1, Zenon
<1> QED BY <1>1, <1>3, <1>4, <1>5, Zenon

(* From one write to the next only the tree is at stake.                         *)
LEMMA WriteMove ==
  ASSUME NEW generation, Quiet(generation), pc \in Writing, pc' \in (Writing \ {"config"}) \union {"verify"},
         UNCHANGED <<input, sources, identities, admitted, cells, names, fd>>,
         pc' \in Unbuilt \/ receipt' = Undisturbed(input.doc, generation),
         pc' \in Copying => slot' \in DOMAIN CanonicalSlots,
         pc' \in {"identity", "identified"} => slot' \in {1, 2},
         QuietTree(generation)'
  PROVE  Quiet(generation)'
<1> USE DEF Early, Walk, Comparing, Copying, Writing
<1>1. pc \notin {"load", "admit", "done"} /\ pc' \notin {"load", "admit", "done"}
  BY SMT
<1>2. QuietFrame(generation)'
  BY <1>1, FrameKept, Zenon DEF Quiet
<1>3. QuietPlaces'
  <2>1. fd = Own /\ names.staging = Own /\ names.final = Absent
    BY SMT DEF Quiet, QuietPlaces
  <2>2. /\ pc' \notin Early \union Walk \union Comparing \union {"done"}
    BY SMT
  <2> QED BY <2>1, <2>2, SMT DEF QuietPlaces
<1> QED BY <1>2, <1>3, Zenon DEF Quiet

(* What a run that writes finds.                                                 *)
LEMMA WritingFacts ==
  ASSUME NEW generation, Quiet(generation), pc \in Writing
  PROVE  /\ fd = Own /\ cells = Found(input.doc, generation) /\ identities = IdentitiesOf(input.doc)
         /\ pc \notin {"load", "done"}
         /\ trees[Own].linked = {} /\ ~trees[Own].extra
         /\ pc \in {"json", "markdown"} => receipt = Undisturbed(input.doc, generation)
         /\ QuietTree(generation)
<1> USE DEF Early, Copying, Writing, Walk, Comparing
<1>1. fd = Own
  BY SMT DEF Quiet, QuietPlaces
<1>2. pc \notin {"load", "admit", "done"} /\ (pc \in {"json", "markdown"} => pc \notin Unbuilt \union {"done"})
  BY SMT DEF Unbuilt, Start
<1>3. /\ cells = Found(input.doc, generation) /\ identities = IdentitiesOf(input.doc)
      /\ pc \in {"json", "markdown"} => receipt = Undisturbed(input.doc, generation)
  BY <1>2, Zenon DEF Quiet, QuietFrame
<1>4. trees[Own].linked = {} /\ ~trees[Own].extra /\ QuietTree(generation)
  BY <1>2, Zenon DEF Quiet, QuietTree
<1> QED BY <1>1, <1>2, <1>3, <1>4, Zenon

LEMMA ConfigurationIsQuiet ==
  ASSUME NEW generation \in Generations, Quiet(generation), ShapeInv, WriteConfiguration
  PROVE  Quiet(generation)'
<1> USE DEF Copying
<1>1. pc = "config" /\ pc \in Writing /\ pc \in Start /\ pc \in Unbuilt
      /\ UNCHANGED <<input, sources, identities, admitted, cells, receipt, names, fd>>
  BY SMT DEF WriteConfiguration, asked, Writing, Start, Unbuilt
<1>2. fd = Own /\ admitted.raw = input.doc /\ slot = 1 /\ 1 \in DOMAIN CanonicalSlots /\ QuietTree(generation)
      /\ trees[Own].linked = {} /\ ~trees[Own].extra /\ DOMAIN CanonicalSlots \subseteq Nat \ {0}
  <2>1. slot = 1
    BY <1>1, Zenon DEF Quiet, QuietPlaces
  <2>2. 1 \in DOMAIN CanonicalSlots /\ DOMAIN CanonicalSlots \subseteq Nat \ {0}
    BY GridSize
  <2> QED BY <1>1, <2>1, <2>2, WritingFacts, AdmissionFacts, Zenon
<1>3. trees[Own].at[ConfigLocation] = Absent
  BY <1>1, <1>2, Zenon DEF QuietTree, Lies
<1>4. WriteNewFile(ConfigLocation, input.doc, "copy")
  BY <1>2, Zenon DEF WriteConfiguration
<1>5. /\ pc' = "copy" /\ slot' = 1 /\ trees'[Own].at[ConfigLocation] = input.doc
      /\ \A l \in Locations : l # ConfigLocation => trees'[Own].at[l] = trees[Own].at[l]
      /\ trees'[Own].linked = {} /\ ~trees'[Own].extra
  BY <1>2, <1>3, <1>4, Places, WriteLands, Zenon
<1>6. pc' \notin Start /\ pc' \in Unbuilt /\ pc' \in Copying /\ pc' \in Writing \ {"config"} /\ pc' # "done"
  BY <1>5, SMT DEF Start, Early, Unbuilt, Writing
<1>7. \A n \in DOMAIN CanonicalSlots : CellAwaited(n) /\ CellAwaited(n)'
  BY <1>1, <1>2, <1>5, SMT DEF CellAwaited
<1>8. \A r \in {1, 2} : IdentityAwaited(r) /\ IdentityAwaited(r)'
  BY <1>1, <1>6, Zenon DEF IdentityAwaited
<1>9. QuietTree(generation)'
  <2>1. Lies(ConfigLocation, pc \in Start, input.doc)'
    BY <1>1, <1>5, <1>6, Zenon DEF Lies
  <2>2. /\ Lies(JsonLocation, pc \in Unbuilt \union {"json"},
                [receipt |-> Undisturbed(input.doc, generation), canonical |-> TRUE])'
        /\ Lies(MarkdownLocation, pc \in Unbuilt \union {"json", "markdown"},
                RenderRuntimeReviewMarkdown(Undisturbed(input.doc, generation)))'
    <3>1. ConfigLocation # JsonLocation /\ ConfigLocation # MarkdownLocation
      BY LocationsAreApart
    <3> QED BY <1>1, <1>2, <1>5, <1>6, <3>1, Places, Zenon DEF QuietTree, Lies
  <2>3. \A n \in DOMAIN CanonicalSlots :
           Lies(OwnedCellLocator(CanonicalSlots[n]), CellAwaited(n), Found(input.doc, generation)[n])'
    BY <1>1, <1>2, <1>5, <1>6, <1>7, Places, Zenon DEF QuietTree, Lies
  <2>4. \A r \in {1, 2} :
           Lies(OwnedIdentityLocator(Roles[r]), IdentityAwaited(r), IdentitiesOf(input.doc)[r])'
    BY <1>1, <1>2, <1>5, <1>6, <1>8, Places, Zenon DEF QuietTree, Lies
  <2> QED BY <1>5, <2>1, <2>2, <2>3, <2>4, Zenon DEF QuietTree
<1> QED BY <1>1, <1>2, <1>5, <1>6, <1>9, WriteMove, Zenon

LEMMA CopyIsQuiet ==
  ASSUME NEW generation \in Generations, Quiet(generation), ShapeInv, CopyCell
  PROVE  Quiet(generation)'
<1> USE DEF Copying
<1>1. pc = "copy" /\ pc \in Writing /\ pc \notin Start /\ pc \in Unbuilt
      /\ UNCHANGED <<input, sources, identities, admitted, cells, receipt, names, fd>>
  BY SMT DEF CopyCell, asked, Writing, Start, Early, Unbuilt
<1>2. slot \in DOMAIN CanonicalSlots /\ DOMAIN CanonicalSlots \subseteq Nat \ {0}
  <2>1. slot \in DOMAIN CanonicalSlots
    BY <1>1, Zenon DEF Quiet, QuietPlaces
  <2> QED BY <2>1, GridSize
<1> DEFINE location == OwnedCellLocator(CanonicalSlots[slot])
           content == Found(input.doc, generation)[slot]
<1>3. /\ fd = Own /\ QuietTree(generation) /\ trees[Own].linked = {} /\ ~trees[Own].extra
      /\ cells[slot] = content /\ sources[admitted.directories[slot]] = cells[slot] /\ CellLocation = location
      /\ Worded(input.doc) /\ CellsAdmitted(input.doc.cells)
  <2>1. /\ fd = Own /\ QuietTree(generation) /\ trees[Own].linked = {} /\ ~trees[Own].extra
        /\ cells = Found(input.doc, generation) /\ pc \notin {"load", "done"}
    BY <1>1, WritingFacts, Zenon
  <2>2. /\ Found(input.doc, generation)[slot] = sources[admitted.directories[slot]]
        /\ Config.cells[slot].slot = CanonicalSlots[slot] /\ Reviewable(input.doc, generation)
    BY <1>2, <2>1, AdmissionFacts
  <2> QED BY <2>1, <2>2, Zenon DEF CellLocation, Reviewable
<1>4. \A n \in DOMAIN CanonicalSlots : n # slot => OwnedCellLocator(CanonicalSlots[n]) # location
  BY <1>2, <1>3, CellLocatorsAreApart
<1>5. location \in Locations
  BY <1>2, Places, Zenon
<1>6. CellAwaited(slot)
  BY <1>1, <1>2, SMT DEF CellAwaited
<1>7. trees[Own].at[location] = Absent
  BY <1>1, <1>2, <1>3, <1>6, Zenon DEF QuietTree, Lies
<1>8. WriteNewFile(location, content, "copied")
  BY <1>3, Zenon DEF CopyCell
<1> HIDE DEF location, content
<1>9. /\ pc' = "copied" /\ slot' = slot /\ trees'[Own].at[location] = content
      /\ \A l \in Locations : l # location => trees'[Own].at[l] = trees[Own].at[l]
      /\ trees'[Own].linked = {} /\ ~trees'[Own].extra
  BY <1>3, <1>5, <1>7, <1>8, WriteLands, Zenon
<1>10. pc' \notin Start /\ pc' \in Unbuilt /\ pc' \in Copying /\ pc' \in Writing \ {"config"} /\ pc' # "done"
  BY <1>9, SMT DEF Start, Early, Unbuilt, Writing
<1>11. \A n \in DOMAIN CanonicalSlots : n # slot => (CellAwaited(n)' <=> CellAwaited(n))
  BY <1>1, <1>2, <1>9, <1>10, SMT DEF CellAwaited
<1>12. ~CellAwaited(slot)'
  BY <1>2, <1>9, <1>10, SMT DEF CellAwaited
<1>13. \A r \in {1, 2} : IdentityAwaited(r) /\ IdentityAwaited(r)'
  BY <1>1, <1>10, Zenon DEF IdentityAwaited
<1>14. QuietTree(generation)'
  <2>1. ConfigLocation # location /\ JsonLocation # location /\ MarkdownLocation # location
        /\ \A r \in {1, 2} : OwnedIdentityLocator(Roles[r]) # location
    BY <1>2, Places, Zenon DEF location
  <2>2. ASSUME NEW n \in DOMAIN CanonicalSlots
        PROVE  Lies(OwnedCellLocator(CanonicalSlots[n]), CellAwaited(n), Found(input.doc, generation)[n])'
    <3>1. CASE n = slot
      BY <1>1, <1>9, <1>12, <3>1, Zenon DEF Lies, location, content
    <3>2. CASE n # slot
      BY <1>1, <1>3, <1>4, <1>9, <1>11, <3>2, Places, Zenon DEF QuietTree, Lies
    <3> QED BY <3>1, <3>2
  <2>3. /\ Lies(ConfigLocation, pc \in Start, input.doc)'
        /\ Lies(JsonLocation, pc \in Unbuilt \union {"json"},
                [receipt |-> Undisturbed(input.doc, generation), canonical |-> TRUE])'
        /\ Lies(MarkdownLocation, pc \in Unbuilt \union {"json", "markdown"},
                RenderRuntimeReviewMarkdown(Undisturbed(input.doc, generation)))'
    BY <1>1, <1>3, <1>9, <1>10, <2>1, Places, Zenon DEF QuietTree, Lies
  <2>4. \A r \in {1, 2} :
           Lies(OwnedIdentityLocator(Roles[r]), IdentityAwaited(r), IdentitiesOf(input.doc)[r])'
    BY <1>1, <1>3, <1>9, <1>13, <2>1, Places, Zenon DEF QuietTree, Lies
  <2> QED BY <1>9, <2>2, <2>3, <2>4, Zenon DEF QuietTree
<1> QED BY <1>1, <1>2, <1>9, <1>10, <1>14, WriteMove, Zenon

(* A step that reads: what is awaited is so before and after it.                 *)
LEMMA TreeStays ==
  ASSUME NEW generation, QuietTree(generation), UNCHANGED <<input, trees>>,
         pc \in Unbuilt \ Start, pc' \in (Unbuilt \ Start) \union {"json"},
         \A n \in DOMAIN CanonicalSlots : CellAwaited(n)' <=> CellAwaited(n),
         \A r \in {1, 2} : (IdentityAwaited(r)' <=> IdentityAwaited(r)) \/ IdentitiesOf(input.doc)[r] = Absent
  PROVE  QuietTree(generation)'
<1>1. /\ pc # "done" /\ pc \notin Start /\ pc \in Unbuilt
      /\ pc' # "done" /\ pc' \notin Start /\ pc' \in Unbuilt \union {"json"}
  BY SMT DEF Unbuilt, Start, Early, Copying
<1>2. Lies(ConfigLocation, pc \in Start, input.doc)'
  BY <1>1, Zenon DEF QuietTree, Lies
<1>3. /\ Lies(JsonLocation, pc \in Unbuilt \union {"json"},
              [receipt |-> Undisturbed(input.doc, generation), canonical |-> TRUE])'
      /\ Lies(MarkdownLocation, pc \in Unbuilt \union {"json", "markdown"},
              RenderRuntimeReviewMarkdown(Undisturbed(input.doc, generation)))'
  BY <1>1, Zenon DEF QuietTree, Lies
<1>4. \A n \in DOMAIN CanonicalSlots :
        Lies(OwnedCellLocator(CanonicalSlots[n]), CellAwaited(n), Found(input.doc, generation)[n])'
  BY <1>1, Zenon DEF QuietTree, Lies
<1>5. \A r \in {1, 2} : Lies(OwnedIdentityLocator(Roles[r]), IdentityAwaited(r), IdentitiesOf(input.doc)[r])'
  BY <1>1, Zenon DEF QuietTree, Lies
<1> QED BY <1>1, <1>2, <1>3, <1>4, <1>5, Zenon DEF QuietTree

LEMMA RereadIsQuiet ==
  ASSUME NEW generation \in Generations, Quiet(generation), RereadCell
  PROVE  Quiet(generation)'
<1> USE DEF Copying
<1>1. pc = "copied" /\ pc \in Writing /\ pc \in Unbuilt \ Start
      /\ UNCHANGED <<input, sources, identities, admitted, cells, receipt, names, trees, fd>>
  BY SMT DEF RereadCell, asked, Writing, Start, Early, Unbuilt
<1> DEFINE N == Len(CanonicalSlots)
<1>2. slot \in 1..N /\ DOMAIN CanonicalSlots = 1..N /\ N \in Nat
  <2>1. slot \in DOMAIN CanonicalSlots
    BY <1>1, Zenon DEF Quiet, QuietPlaces
  <2> QED BY <2>1, GridSize
<1>3. /\ fd = Own /\ QuietTree(generation) /\ trees[Own].linked = {} /\ pc \notin {"load", "done"}
      /\ cells = Found(input.doc, generation)
  BY <1>1, WritingFacts, Zenon
<1>4. /\ Config.cells[slot].slot = CanonicalSlots[slot] /\ Reviewable(input.doc, generation)
      /\ Len(Config.cells) = N /\ (Second <=> input.doc.schema_version = 2)
  BY <1>2, <1>3, AdmissionFacts
<1> HIDE DEF N
<1>5. ~CellAwaited(slot)
  BY <1>1, <1>2, SMT DEF CellAwaited, Start, Early
<1>6. trees[Own].at[CellLocation] = cells[slot] /\ cells[slot] # Absent
  BY <1>1, <1>2, <1>3, <1>4, <1>5, Zenon DEF QuietTree, Lies, CellLocation, Reviewable
<1>7. Single(fd, CellLocation) /\ trees[fd].at[CellLocation] = cells[slot]
  BY <1>3, <1>6 DEF Single
<1>8. IF slot < N THEN pc' = "copy" /\ slot' = slot + 1
                  ELSE pc' = (IF Second THEN "identity" ELSE "build") /\ slot' = 1
  BY <1>4, <1>7, Zenon DEF RereadCell, Goto
<1>9. /\ pc' \in Unbuilt \ Start /\ pc' \in Writing \ {"config"} /\ (pc' \in Copying => slot' \in 1..N)
      /\ pc' \in {"identity", "identified"} => slot' \in {1, 2}
  BY <1>2, <1>8, SMT DEF Writing, Start, Early, Unbuilt
<1>10. \A n \in 1..N : CellAwaited(n)' <=> CellAwaited(n)
  BY <1>1, <1>2, <1>8, SMT DEF CellAwaited, Start, Early
<1>11. ASSUME NEW r \in {1, 2}
       PROVE  (IdentityAwaited(r)' <=> IdentityAwaited(r)) \/ IdentitiesOf(input.doc)[r] = Absent
  <2>1. IdentityAwaited(r)
    BY <1>1, Zenon DEF IdentityAwaited
  <2>2. CASE pc' # "build"
    <3>1. IdentityAwaited(r)'
      BY <1>8, <2>2, SMT DEF IdentityAwaited
    <3> QED BY <2>1, <3>1
  <2>3. CASE pc' = "build"
    <3>1. ~Second
      BY <1>8, <2>3
    <3>2. input.doc.schema_version = 1
      BY <1>4, <3>1 DEF Reviewable
    <3> QED BY <3>2, NoIdentityOnTheFirstRoute, Zenon
  <2> QED BY <2>2, <2>3
<1>12. QuietTree(generation)'
  BY <1>1, <1>2, <1>3, <1>9, <1>10, <1>11, TreeStays, Zenon
<1>13. pc' \in Unbuilt
  BY <1>9
<1> QED BY <1>1, <1>2, <1>9, <1>12, <1>13, WriteMove, Zenon

LEMMA CopyIdentityIsQuiet ==
  ASSUME NEW generation \in Generations, Quiet(generation), ShapeInv, PathInv, CopyProfileIdentity
  PROVE  Quiet(generation)'
<1> USE DEF Copying
<1>1. pc = "identity" /\ pc \in Writing /\ pc \notin Start /\ pc \in Unbuilt /\ Second
      /\ UNCHANGED <<input, sources, identities, admitted, cells, receipt, names, fd>>
  BY SMT DEF CopyProfileIdentity, asked, Writing, Start, Early, Unbuilt, PathInv
<1>2. slot \in {1, 2}
  BY <1>1, Zenon DEF Quiet, QuietPlaces
<1> DEFINE location == OwnedIdentityLocator(Roles[slot])
           content == IdentitiesOf(input.doc)[slot]
<1>3. /\ fd = Own /\ QuietTree(generation) /\ trees[Own].linked = {} /\ ~trees[Own].extra
      /\ identities = IdentitiesOf(input.doc) /\ pc \notin {"load", "done"}
  BY <1>1, WritingFacts, Zenon
<1>4. admitted.identities = IdentitiesOf(input.doc)
  BY <1>1, <1>3, AdmissionFacts
<1>5. location \in Locations /\ ConfigLocation # location /\ JsonLocation # location /\ MarkdownLocation # location
      /\ \A n \in DOMAIN CanonicalSlots : OwnedCellLocator(CanonicalSlots[n]) # location
  BY <1>2, Places, Zenon
<1>6. \A r \in {1, 2} : r # slot => OwnedIdentityLocator(Roles[r]) # location
  BY <1>2, Places, SMT
<1>7. IdentityAwaited(slot)
  BY <1>1, <1>2, SMT DEF IdentityAwaited
<1>8. trees[Own].at[location] = Absent
  BY <1>1, <1>2, <1>3, <1>7, Zenon DEF QuietTree, Lies
<1>9. WriteNewFile(location, content, "identified")
  BY <1>3, <1>4, Zenon DEF CopyProfileIdentity
<1> HIDE DEF location, content
<1>10. /\ pc' = "identified" /\ slot' = slot /\ trees'[Own].at[location] = content
       /\ \A l \in Locations : l # location => trees'[Own].at[l] = trees[Own].at[l]
       /\ trees'[Own].linked = {} /\ ~trees'[Own].extra
  BY <1>3, <1>5, <1>8, <1>9, WriteLands, Zenon
<1>11. pc' \notin Start /\ pc' \in Unbuilt /\ pc' \notin Copying /\ pc' \in Writing \ {"config"} /\ pc' # "done"
  BY <1>10, SMT DEF Start, Early, Unbuilt, Writing
<1>12. \A n : ~CellAwaited(n) /\ ~CellAwaited(n)'
  BY <1>1, <1>10, <1>11, SMT DEF CellAwaited
<1>13. /\ ~IdentityAwaited(slot)'
       /\ \A r \in {1, 2} : r # slot => (IdentityAwaited(r)' <=> IdentityAwaited(r))
  BY <1>1, <1>2, <1>10, <1>11, SMT DEF IdentityAwaited, Start, Early
<1>14. QuietTree(generation)'
  <2>1. ASSUME NEW r \in {1, 2}
        PROVE  Lies(OwnedIdentityLocator(Roles[r]), IdentityAwaited(r), IdentitiesOf(input.doc)[r])'
    <3>1. CASE r = slot
      BY <1>1, <1>10, <1>13, <3>1, Zenon DEF Lies, location, content
    <3>2. CASE r # slot
      BY <1>1, <1>3, <1>6, <1>10, <1>13, <3>2, Places, Zenon DEF QuietTree, Lies
    <3> QED BY <3>1, <3>2
  <2>2. /\ Lies(ConfigLocation, pc \in Start, input.doc)'
        /\ Lies(JsonLocation, pc \in Unbuilt \union {"json"},
                [receipt |-> Undisturbed(input.doc, generation), canonical |-> TRUE])'
        /\ Lies(MarkdownLocation, pc \in Unbuilt \union {"json", "markdown"},
                RenderRuntimeReviewMarkdown(Undisturbed(input.doc, generation)))'
    BY <1>1, <1>3, <1>5, <1>10, <1>11, Places, Zenon DEF QuietTree, Lies
  <2>3. \A n \in DOMAIN CanonicalSlots :
          Lies(OwnedCellLocator(CanonicalSlots[n]), CellAwaited(n), Found(input.doc, generation)[n])'
    BY <1>1, <1>3, <1>5, <1>10, <1>12, Places, Zenon DEF QuietTree, Lies
  <2> QED BY <1>10, <2>1, <2>2, <2>3, Zenon DEF QuietTree
<1> QED BY <1>1, <1>2, <1>10, <1>11, <1>14, WriteMove, Zenon

LEMMA RereadIdentityIsQuiet ==
  ASSUME NEW generation \in Generations, Quiet(generation), PathInv, RereadProfileIdentity
  PROVE  Quiet(generation)'
<1> USE DEF Copying
<1>1. pc = "identified" /\ pc \in Writing /\ pc \in Unbuilt \ Start /\ pc # "done" /\ Second
      /\ UNCHANGED <<input, sources, identities, admitted, cells, receipt, names, trees, fd>>
  BY SMT DEF RereadProfileIdentity, asked, Writing, Start, Early, Unbuilt, PathInv
<1>2. slot \in {1, 2}
  BY <1>1, Zenon DEF Quiet, QuietPlaces
<1> DEFINE location == OwnedIdentityLocator(Roles[slot])
<1>3. fd = Own /\ QuietTree(generation) /\ trees[Own].linked = {} /\ pc \notin {"load", "done"}
  BY <1>1, WritingFacts, Zenon
<1>4. /\ admitted.identities = IdentitiesOf(input.doc) /\ Reviewable(input.doc, generation)
      /\ input.doc.schema_version = 2
  BY <1>1, <1>3, AdmissionFacts
<1>5. ~IdentityAwaited(slot)
  BY <1>1, <1>2, SMT DEF IdentityAwaited, Start, Early
<1>6. trees[Own].at[location] = admitted.identities[slot] /\ admitted.identities[slot] # Absent
  BY <1>1, <1>2, <1>3, <1>4, <1>5, Zenon DEF QuietTree, Lies, Reviewable
<1>7. Single(fd, location) /\ trees[fd].at[location] = admitted.identities[slot]
  <2> HIDE DEF location
  <2> QED BY <1>3, <1>6 DEF Single
<1>8. IF slot = 1 THEN pc' = "identity" /\ slot' = 2 ELSE pc' = "build" /\ slot' = 1
  BY <1>7, Zenon DEF RereadProfileIdentity, Goto
<1>9. /\ pc' \in Unbuilt \ Start /\ pc' \in Writing \ {"config"} /\ pc' \notin Copying
      /\ pc' \in {"identity", "identified"} => slot' \in {1, 2}
  BY <1>8, SMT DEF Writing, Start, Early, Unbuilt
<1>10. \A n : ~CellAwaited(n) /\ ~CellAwaited(n)'
  BY <1>1, <1>9, SMT DEF CellAwaited, Start, Early
<1>11. \A r \in {1, 2} : IdentityAwaited(r)' <=> IdentityAwaited(r)
  BY <1>1, <1>2, <1>8, SMT DEF IdentityAwaited, Start, Early
<1>12. QuietTree(generation)'
  BY <1>1, <1>3, <1>9, <1>10, <1>11, TreeStays, Zenon
<1>13. pc' \in Unbuilt
  BY <1>9
<1> QED BY <1>1, <1>9, <1>12, <1>13, WriteMove, Zenon

LEMMA BuildIsQuiet ==
  ASSUME NEW generation \in Generations, Quiet(generation), BuildReceipt
  PROVE  Quiet(generation)'
<1> USE DEF Copying
<1>1. pc = "build" /\ pc \in Writing /\ pc \in Unbuilt \ Start
      /\ UNCHANGED <<input, sources, identities, admitted, cells, names, trees, fd>>
  BY SMT DEF BuildReceipt, asked, owned, Writing, Start, Early, Unbuilt
<1>2. /\ QuietTree(generation) /\ pc \notin {"load", "done"} /\ cells = Found(input.doc, generation)
  BY <1>1, WritingFacts, Zenon
<1>3. /\ Reviewable(input.doc, generation) /\ admitted.config = Configuration(input.doc)
      /\ input.doc.schema_version = 2 => admitted.identities = IdentitiesOf(input.doc)
      /\ (Second <=> input.doc.schema_version = 2)
  BY <1>2, AdmissionFacts DEF Config
<1>4. ReceiptBuilds(admitted, cells, admitted.identities, admitted.identities)
  <2>1. CASE Second
    <3>1. ReceiptBuilds(admitted, Found(input.doc, generation), IdentitiesOf(input.doc), IdentitiesOf(input.doc))
      BY <1>3, UndisturbedBuilds, Zenon
    <3> QED BY <1>2, <1>3, <2>1, <3>1, Zenon
  <2>2. CASE ~Second
    <3>1. StatusReason(Decision(cells).status, Decision(cells).reason)
      BY <1>2, <1>3, Zenon DEF Reviewable, DecisionFormed
    <3> QED BY <2>2, <3>1, Zenon DEF ReceiptBuilds, Second, Config
  <2> QED BY <2>1, <2>2
<1>5. /\ receipt' = BuildRuntimeReviewReceipt(admitted, cells, admitted.identities, admitted.identities,
                                              RuntimeReviewToolIdentity)
      /\ pc' = "json" /\ slot' = 1
  BY <1>4, Zenon DEF BuildReceipt, Goto
<1>6. receipt' = Undisturbed(input.doc, generation)
  <2>1. admitted = Admitted(input.doc, IdentitiesOf(input.doc))
    BY <1>2, Zenon DEF Quiet, QuietFrame
  <2> QED BY <1>2, <1>5, <2>1, Zenon DEF Undisturbed, IdentitiesOf
<1>7. /\ pc' \notin Start /\ pc' \in Writing \ {"config"} /\ pc' \notin Copying
      /\ pc' \notin {"identity", "identified"} /\ pc' \in (Unbuilt \ Start) \union {"json"}
  BY <1>5, SMT DEF Writing, Start, Early
<1>8. \A n : ~CellAwaited(n) /\ ~CellAwaited(n)'
  BY <1>1, <1>7, SMT DEF CellAwaited, Start, Early
<1>9. \A r : ~IdentityAwaited(r) /\ ~IdentityAwaited(r)'
  BY <1>1, <1>7, SMT DEF IdentityAwaited, Start, Early
<1>10. QuietTree(generation)'
  BY <1>1, <1>2, <1>7, <1>8, <1>9, TreeStays, Zenon
<1> QED BY <1>1, <1>6, <1>7, <1>10, WriteMove, Zenon

(* The receipt and the page, behind everything else.                             *)
LEMMA TreeGrows ==
  ASSUME NEW generation, QuietTree(generation), UNCHANGED input, NEW location,
         pc \in {"json", "markdown"}, pc' \in {"markdown", "verify"},
         location = IF pc = "json" THEN JsonLocation ELSE MarkdownLocation,
         \A l \in Locations : l # location => trees'[Own].at[l] = trees[Own].at[l],
         trees'[Own].linked = trees[Own].linked, trees'[Own].extra = trees[Own].extra
  PROVE  /\ trees'[Own].linked = {} /\ ~trees'[Own].extra
         /\ Lies(ConfigLocation, pc \in Start, input.doc)'
         /\ \A n \in DOMAIN CanonicalSlots :
              Lies(OwnedCellLocator(CanonicalSlots[n]), CellAwaited(n), Found(input.doc, generation)[n])'
         /\ \A r \in {1, 2} :
              Lies(OwnedIdentityLocator(Roles[r]), IdentityAwaited(r), IdentitiesOf(input.doc)[r])'
<1>1. location \in {JsonLocation, MarkdownLocation}
  BY Zenon
<1>2. pc # "done" /\ pc \notin Start /\ pc' \notin Start
  BY SMT DEF Start, Early
<1>3. \A n : ~CellAwaited(n) /\ ~CellAwaited(n)'
  BY <1>2, SMT DEF CellAwaited
<1>4. \A r : ~IdentityAwaited(r) /\ ~IdentityAwaited(r)'
  BY <1>2, SMT DEF IdentityAwaited, Copying
<1>5. ConfigLocation # location
  BY <1>1, LocationsAreApart, Zenon
<1>6. Lies(ConfigLocation, pc \in Start, input.doc)'
  BY <1>2, <1>5, Places, Zenon DEF QuietTree, Lies
<1>7. \A n \in DOMAIN CanonicalSlots :
        Lies(OwnedCellLocator(CanonicalSlots[n]), CellAwaited(n), Found(input.doc, generation)[n])'
  BY <1>1, <1>2, <1>3, Places, Zenon DEF QuietTree, Lies
<1>8. \A r \in {1, 2} :
        Lies(OwnedIdentityLocator(Roles[r]), IdentityAwaited(r), IdentitiesOf(input.doc)[r])'
  BY <1>1, <1>2, <1>4, Places, Zenon DEF QuietTree, Lies
<1>9. trees'[Own].linked = {} /\ ~trees'[Own].extra
  BY <1>2, Zenon DEF QuietTree
<1> QED BY <1>6, <1>7, <1>8, <1>9, Zenon

LEMMA JsonIsQuiet ==
  ASSUME NEW generation \in Generations, Quiet(generation), ShapeInv, WriteJson
  PROVE  Quiet(generation)'
<1> USE DEF Copying
<1>1. pc = "json" /\ pc \in Writing /\ pc \notin Unbuilt /\ pc # "done"
      /\ UNCHANGED <<input, sources, identities, admitted, cells, receipt, names, fd>>
  BY SMT DEF WriteJson, asked, Writing, Start, Early, Unbuilt
<1> DEFINE content == [receipt |-> Undisturbed(input.doc, generation), canonical |-> TRUE]
<1>2. fd = Own /\ QuietTree(generation) /\ receipt = Undisturbed(input.doc, generation)
  BY <1>1, WritingFacts, Zenon
<1>3. trees[Own].at[JsonLocation] = Absent /\ trees[Own].at[MarkdownLocation] = Absent
  BY <1>1, <1>2, Zenon DEF QuietTree, Lies
<1>4. WriteNewFile(JsonLocation, content, "markdown")
  BY <1>2, Zenon DEF WriteJson
<1> HIDE DEF content
<1>5. /\ pc' = "markdown" /\ slot' = slot /\ trees'[Own].at[JsonLocation] = content
      /\ \A l \in Locations : l # JsonLocation => trees'[Own].at[l] = trees[Own].at[l]
      /\ trees'[Own].linked = trees[Own].linked /\ trees'[Own].extra = trees[Own].extra
  <2>1. JsonLocation \in Locations
    BY Places, Zenon
  <2>2. trees[Own].at[JsonLocation] = Absent
    BY <1>3, Zenon
  <2> QED BY <1>2, <1>4, <2>1, <2>2, WriteLands
<1>6. /\ pc' \in Writing \ {"config"} /\ pc' \notin Copying /\ pc' \notin {"identity", "identified"}
      /\ pc' \notin Unbuilt \union {"json"} /\ pc' # "done"
  BY <1>5, SMT DEF Writing, Start, Early, Unbuilt
<1>7. QuietTree(generation)'
  <2>1. Lies(JsonLocation, pc \in Unbuilt \union {"json"},
             [receipt |-> Undisturbed(input.doc, generation), canonical |-> TRUE])'
    BY <1>1, <1>5, <1>6, Zenon DEF Lies, content
  <2>2. Lies(MarkdownLocation, pc \in Unbuilt \union {"json", "markdown"},
             RenderRuntimeReviewMarkdown(Undisturbed(input.doc, generation)))'
    BY <1>3, <1>5, LocationsAreApart, Places, Zenon DEF Lies
  <2>3. /\ trees'[Own].linked = {} /\ ~trees'[Own].extra
        /\ Lies(ConfigLocation, pc \in Start, input.doc)'
        /\ \A n \in DOMAIN CanonicalSlots :
             Lies(OwnedCellLocator(CanonicalSlots[n]), CellAwaited(n), Found(input.doc, generation)[n])'
        /\ \A r \in {1, 2} :
             Lies(OwnedIdentityLocator(Roles[r]), IdentityAwaited(r), IdentitiesOf(input.doc)[r])'
    BY <1>1, <1>2, <1>5, TreeGrows
  <2> QED BY <2>1, <2>2, <2>3, Zenon DEF QuietTree
<1> QED BY <1>1, <1>2, <1>6, <1>7, WriteMove, Zenon

LEMMA MarkdownIsQuiet ==
  ASSUME NEW generation \in Generations, Quiet(generation), ShapeInv, WriteMarkdown
  PROVE  Quiet(generation)'
<1> USE DEF Copying
<1>1. pc = "markdown" /\ pc \in Writing /\ pc \notin Unbuilt \union {"json", "done"}
      /\ UNCHANGED <<input, sources, identities, admitted, cells, receipt, names, fd>>
  BY SMT DEF WriteMarkdown, asked, Writing, Start, Early, Unbuilt
<1> DEFINE content == RenderRuntimeReviewMarkdown(Undisturbed(input.doc, generation))
<1>2. fd = Own /\ QuietTree(generation) /\ receipt = Undisturbed(input.doc, generation)
  BY <1>1, WritingFacts, Zenon
<1>3. /\ trees[Own].at[MarkdownLocation] = Absent
      /\ trees[Own].at[JsonLocation] = [receipt |-> Undisturbed(input.doc, generation), canonical |-> TRUE]
  BY <1>1, <1>2, Zenon DEF QuietTree, Lies
<1>4. WriteNewFile(MarkdownLocation, content, "verify")
  BY <1>2, Zenon DEF WriteMarkdown
<1> HIDE DEF content
<1>5. /\ pc' = "verify" /\ slot' = slot /\ trees'[Own].at[MarkdownLocation] = content
      /\ \A l \in Locations : l # MarkdownLocation => trees'[Own].at[l] = trees[Own].at[l]
      /\ trees'[Own].linked = trees[Own].linked /\ trees'[Own].extra = trees[Own].extra
  <2>1. MarkdownLocation \in Locations
    BY Places, Zenon
  <2>2. trees[Own].at[MarkdownLocation] = Absent
    BY <1>3, Zenon
  <2> QED BY <1>2, <1>4, <2>1, <2>2, WriteLands
<1>6. /\ pc' \in (Writing \ {"config"}) \union {"verify"} /\ pc' \notin Copying
      /\ pc' \notin {"identity", "identified"} /\ pc' \notin Unbuilt \union {"json", "markdown"} /\ pc' # "done"
  BY <1>5, SMT DEF Writing, Start, Early, Unbuilt
<1>7. QuietTree(generation)'
  <2>1. Lies(JsonLocation, pc \in Unbuilt \union {"json"},
             [receipt |-> Undisturbed(input.doc, generation), canonical |-> TRUE])'
    BY <1>1, <1>3, <1>5, <1>6, LocationsAreApart, Places, Zenon DEF Lies
  <2>2. Lies(MarkdownLocation, pc \in Unbuilt \union {"json", "markdown"},
             RenderRuntimeReviewMarkdown(Undisturbed(input.doc, generation)))'
    BY <1>1, <1>5, <1>6, Zenon DEF Lies, content
  <2>3. /\ trees'[Own].linked = {} /\ ~trees'[Own].extra
        /\ Lies(ConfigLocation, pc \in Start, input.doc)'
        /\ \A n \in DOMAIN CanonicalSlots :
             Lies(OwnedCellLocator(CanonicalSlots[n]), CellAwaited(n), Found(input.doc, generation)[n])'
        /\ \A r \in {1, 2} :
             Lies(OwnedIdentityLocator(Roles[r]), IdentityAwaited(r), IdentitiesOf(input.doc)[r])'
    <3>1. pc # "json"
      BY <1>1
    <3> QED BY <1>1, <1>2, <1>5, <3>1, TreeGrows
  <2> QED BY <2>1, <2>2, <2>3, Zenon DEF QuietTree
<1> QED BY <1>1, <1>2, <1>6, <1>7, WriteMove, Zenon

LEMMA RunAsksTheSame == Run => UNCHANGED <<input, rivals>>
<1> SUFFICES ASSUME Run PROVE UNCHANGED <<input, rivals>>
  OBVIOUS
<1>1. CASE CreateOwnedOutputRoot
  BY <1>1, Zenon DEF CreateOwnedOutputRoot
<1>2. CASE ~CreateOwnedOutputRoot
  BY <1>2, Zenon
     DEF Run, LoadConfiguration, AdmitEvidence, MakeStaging, OpenStaging, WriteConfiguration, CopyCell, RereadCell,
         CopyProfileIdentity, RereadProfileIdentity, BuildReceipt, WriteJson, WriteMarkdown, VerifyStaging,
         ReadRoot, ValidateCells, Replay, RevalidateCells, RereadRoot, ProbeFinal, PublishOutput, CompareReceipts,
         VerifyPublishedRoot, VerifyPublishedCells, VerifyPublishedAgain, asked
<1> QED BY <1>1, <1>2

LEMMA RunIsQuiet ==
  ASSUME NEW generation \in Generations, Quiet(generation), ShapeInv, PathInv, Run
  PROVE  Quiet(generation)'
BY LoadIsQuiet, AdmitIsQuiet, CreateIsQuiet, StageIsQuiet, ConfigurationIsQuiet, CopyIsQuiet, RereadIsQuiet,
   CopyIdentityIsQuiet, RereadIdentityIsQuiet, BuildIsQuiet, JsonIsQuiet, MarkdownIsQuiet, VerifyIsQuiet,
   WalkIsQuiet, PublicationIsQuiet, SuccessIsQuiet, Zenon DEF Run

LEMMA QuietStep == ShapeInv /\ PathInv /\ QuietInv /\ [Next]_vars => QuietInv'
<1> SUFFICES ASSUME ShapeInv, PathInv, QuietInv, [Next]_vars PROVE QuietInv'
  OBVIOUS
<1>1. CASE Run
  <2>1. UNCHANGED <<input, rivals>>
    BY <1>1, RunAsksTheSame, Zenon
  <2>2. ASSUME NEW generation \in Generations, Quiet(generation) PROVE Quiet(generation)'
    BY <1>1, <2>2, RunIsQuiet, Zenon
  <2> QED BY <2>1, <2>2, Zenon DEF QuietInv
<1>2. CASE Fault \/ Rivals
  <2>1. rivals' = rivals + 1
    BY <1>2, Zenon DEF Fault, Rivals, RivalSource, RivalIdentity, RivalName, RivalSwap, RivalEntry, Rival
  <2>2. rivals \in Nat
    BY Zenon DEF QuietInv
  <2>3. rivals' \in Nat /\ rivals' # 0
    BY <2>1, <2>2, SMT
  <2> QED BY <2>3, Zenon DEF QuietInv
<1>3. CASE UNCHANGED vars
  <2>1. UNCHANGED <<input, rivals>>
    BY <1>3, Zenon DEF vars
  <2>2. ASSUME NEW generation \in Generations, Quiet(generation) PROVE Quiet(generation)'
    <3>1. QuietFrame(generation)'
      BY <1>3, <2>2, Zenon DEF vars, Quiet, QuietFrame
    <3>2. QuietPlaces'
      <4>1. QuietPlaces
        BY <2>2, Zenon DEF Quiet
      <4>2. RootMembers(trees[Own])' = RootMembers(trees[Own])
        BY <1>3, Zenon DEF vars
      <4> QED BY <1>3, <4>1, <4>2, SMT DEF vars, QuietPlaces
    <3>3. QuietTree(generation)'
      <4>1. \A n : CellAwaited(n)' <=> CellAwaited(n)
        BY <1>3, SMT DEF vars, CellAwaited
      <4>2. \A r : IdentityAwaited(r)' <=> IdentityAwaited(r)
        BY <1>3, SMT DEF vars, IdentityAwaited
      <4> QED BY <1>3, <2>2, <4>1, <4>2, Zenon DEF vars, Quiet, QuietTree, Lies
    <3> QED BY <3>1, <3>2, <3>3, Zenon DEF Quiet
  <2> QED BY <2>1, <2>2, Zenon DEF QuietInv
<1> QED BY <1>1, <1>2, <1>3, Zenon DEF Next, Done

(* A review that no other process and no failing call disturbs ends with a        *)
(* published output exactly if its configuration is admitted, for every grid,     *)
(* document, measurement and decision of the receipt's form.                     *)
THEOREM UndisturbedReviewsSucceed == Spec => []UndisturbedReviewSucceeds
<1>1. QuietInv => UndisturbedReviewSucceeds
  <2> SUFFICES ASSUME QuietInv, pc = "done", rivals = 0, input.canonical
               PROVE  result = "OK" <=> LoadAdmits(input.doc, input.fs)
    BY Zenon DEF UndisturbedReviewSucceeds
  <2>1. PICK generation \in Generations : Quiet(generation)
    BY Zenon DEF QuietInv
  <2> QED BY <2>1, Zenon DEF Quiet, QuietFrame
<1> QED BY <1>1, InitShape, InitPath, InitQuiet, ShapeStep, PathStep, QuietStep, PTL DEF Spec
================================================================================
