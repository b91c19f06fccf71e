------------------------- MODULE MCRuntimeReviewOutput -------------------------
(* Instances of RuntimeReviewOutput: one step size, two repeats, four cells.     *)
EXTENDS RuntimeReviewOutput, TLC

MCStepDts == <<"0.004">>
MCRepeatIds == <<0, 1>>
MCClasses == {"WITHIN", "UNRESOLVED", "OUTSIDE"}

Directory(cell) == <<"cells", cell.role, ToString(cell.repeat)>>

DocumentCells == [n \in DOMAIN CanonicalSlots |->
  [keys |-> TRUE, slot |-> CanonicalSlots[n], directory |-> Directory(CanonicalSlots[n])]]
Reversed(s) == [n \in DOMAIN s |-> s[Len(s) + 1 - n]]

V1Profiles == <<[keys |-> TRUE, id |-> "A_3.10.0", version |-> "3.10.0"],
                [keys |-> TRUE, id |-> "B_3.11.0", version |-> "3.11.0"]>>
V2Profile(r, form, triplet) ==
  [keys |-> TRUE, role |-> Roles[r], package |-> [form |-> form, triplet |-> triplet],
   native |-> [form |-> "bare", triplet |-> triplet], integer |-> IntegerOf(triplet),
   digest |-> Roles[r], file |-> IdentityFile(Roles[r])]
V2Profiles == <<V2Profile(1, "bare", <<3, 9, 0>>), V2Profile(2, "suffixed", <<3, 11, 0>>)>>

Document(version, profiles, documentCells, out) ==
  [schema_version |-> version, keys |-> TRUE, profiles |-> profiles, subject |-> [keys |-> TRUE, id |-> "subject"],
   workload |-> [keys |-> TRUE, id |-> "workload"], horizon |-> 1, step_dts |-> MCStepDts,
   repeat_ids |-> Reversed(MCRepeatIds), cells |-> documentCells, output_dir |-> out]

Out == <<"out">>
Inside == Append(DocumentCells[1].directory, "out")

Directories == UNION {Prefixes(DocumentCells[n].directory) : n \in DOMAIN DocumentCells}
               \union {<<"profile_identities">>}
Files == {IdentityFile(role) : role \in SetOf(Roles)}
Plain == [path \in Directories \union Files |-> IF path \in Files THEN "file" ELSE "directory"]
Linked == [Plain EXCEPT ![<<"cells", "candidate">>] = "link"]
Taken == [path \in DOMAIN Plain \union {Out} |-> IF path = Out THEN "file" ELSE Plain[path]]

Good == {[doc |-> Document(1, V1Profiles, Reversed(DocumentCells), Out), fs |-> Plain],
         [doc |-> Document(2, V2Profiles, Reversed(DocumentCells), Out), fs |-> Plain]}

(* Refused: output in a cell, a link, an output that exists, a slot twice, a      *)
(* directory twice, versions that do not agree, a native version with a suffix.   *)
Bad == {[doc |-> Document(1, V1Profiles, DocumentCells, Inside), fs |-> Plain],
        [doc |-> Document(1, V1Profiles, DocumentCells, Out), fs |-> Linked],
        [doc |-> Document(1, V1Profiles, DocumentCells, Out), fs |-> Taken],
        [doc |-> Document(1, V1Profiles, [DocumentCells EXCEPT ![2].slot = CanonicalSlots[1]], Out), fs |-> Plain],
        [doc |-> Document(2, V2Profiles, [DocumentCells EXCEPT ![2].directory = Directory(CanonicalSlots[1])], Out),
         fs |-> Plain],
        [doc |-> Document(2, [V2Profiles EXCEPT ![1].native.triplet = <<3, 9, 1>>], DocumentCells, Out), fs |-> Plain],
        [doc |-> Document(2, [V2Profiles EXCEPT ![2].native.form = "suffixed"], DocumentCells, Out), fs |-> Plain],
        [doc |-> Document(2, <<V2Profile(1, "bare", <<3, 8, 9>>), V2Profiles[2]>>, DocumentCells, Out), fs |-> Plain]}

MCDocuments == Good \union Bad

Witness(time, channel, class) == [time |-> time, channel |-> channel, class |-> class, tolerance |-> 1]

(* Two decisions: a rejection with witnesses, and one without enough evidence.   *)
MCDecision(contents) ==
  LET witnesses == <<Witness(0, 1, "WITHIN"), Witness(0, 2, "OUTSIDE"), Witness(1, 1, "UNRESOLVED")>> IN
  IF \A n \in DOMAIN contents : contents[n].generation = 1
    THEN [status |-> "OUTSIDE", reason |-> None, prefix |-> 1, gate |-> None, witnesses |-> witnesses,
          first |-> witnesses[2], worst |-> witnesses[2], counts |-> CountsOf(witnesses)]
    ELSE [status |-> "INSUFFICIENT_EVIDENCE", reason |-> "SOLVER_NOT_CONVERGED", prefix |-> 0,
          gate |-> [status |-> "SOLVER_NOT_CONVERGED"], witnesses |-> <<Witness(0, 1, "WITHIN")>>,
          first |-> None, worst |-> Witness(0, 1, "WITHIN"), counts |-> CountsOf(<<Witness(0, 1, "WITHIN")>>)]
================================================================================
