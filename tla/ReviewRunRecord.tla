-------------------------- MODULE ReviewRunRecord --------------------------
(***************************************************************************)
(* The record of a completed run as a document: what the retained outputs, *)
(* the preflights and the attempts of _execution.py put into it, and what  *)
(* verify_completed_run_record of _execution_output.py reads again to      *)
(* replay it.  RuntimeReviewRun says when it is written and verified and   *)
(* what other processes do meanwhile; this module opens the documents.     *)
(*                                                                         *)
(* A retained file is its state and what it says; a digest is the pair.    *)
(* Two identities stand for all the fields an identity has in the code.    *)
(* Records of schema version 1 are only read, never built, and left out.   *)
(***************************************************************************)
EXTENDS RuntimeReviewRun, Sequences

-----------------------------------------------------------------------------
(* Admitted inputs                                                         *)

RunConfig == [baseline |-> "baseline", candidate |-> "candidate", fixture |-> "fixture"]

\* A launcher: the spelling that is configured, what it resolves to, and the bytes there.
InterpreterIdentity(role) ==
    [lexical |-> RunConfig[role], resolved |-> role, sha256 |-> "admitted"]

-----------------------------------------------------------------------------
(* The files of a run                                                      *)

Cells == Slots \ Preflights
ProcessFiles == {"command", "stdout", "stderr", "exit_code"}
Payloads == {"fixture.xml", "input_manifest.json", "model.mjb", "result.json", "trace.npz"}
CellMembers == Payloads \cup {"CHECKSUMS.sha256"}

\* The directory of a slot and the name in it; slot 0 holds the single files.
Members == ({0} \X {"copy", "generated", "receipt"}) \cup (Slots \X ProcessFiles)
           \cup (Preflights \X {"identity"}) \cup (Cells \X (CellMembers \cup {"another"}))

StepDt(s) == (s - 3) \div RepeatIds % StepDts
RepeatId(s) == (s - 3) % RepeatIds

\* What the child was given: no profile identity in a preflight, no collector in a cell.
Command(s) ==
    [interpreter |-> InterpreterIdentity(Role(s)), worker |-> "admitted",
     collector |-> IF s \in Preflights THEN "admitted" ELSE "none",
     identity |-> IF s \in Preflights THEN 0 ELSE Identity(s)]

\* What an admitted artifact says of itself; a result names the profile it was run under.
ProfileIdentity(role) == [role |-> role, profile |-> admitted[IF role = "baseline" THEN 1 ELSE 2]]
Result(s) == [role |-> Role(s), step |-> StepDt(s), repeat |-> RepeatId(s),
              profile |-> ProfileIdentity(Role(s))]

\* The configuration of the referee: grid and profiles, its subject from the first result.
GeneratedConfiguration ==
    [profiles |-> [role \in Roles |-> ProfileIdentity(role)], subject |-> RunConfig.fixture,
     cells |-> [s \in Cells |-> <<Role(s), StepDt(s), RepeatId(s)>>]]

Payload(s, name) == <<disk[s], IF name = "result.json" THEN <<Result(s)>> ELSE << >>>>

Entry(s, name) ==
    CASE name = "copy" -> <<paper["copy"], RunConfig>>
      [] name = "generated" -> <<paper["generated"], GeneratedConfiguration>>
      \* the receipt binds the configuration it was made from
      [] name = "receipt" -> <<paper["receipt"], GeneratedConfiguration>>
      [] name = "command" -> <<observation[s], Command(s)>>
      [] name \in {"stdout", "stderr", "exit_code"} -> <<observation[s]>>
      [] name = "identity" -> <<disk[s], ProfileIdentity(Role(s))>>
      [] name = "CHECKSUMS.sha256" -> <<disk[s], [n \in Payloads |-> Payload(s, n)]>>
      [] name = "another" -> <<"absent">>
      [] name \in Payloads -> Payload(s, name)

Tree == [m \in Members |-> Entry(m[1], m[2])]

-----------------------------------------------------------------------------
(* The record                                                              *)

RetainedFile(tree, s, name) == [locator |-> <<s, name>>, sha256 |-> tree[<<s, name>>]]

RetainedProcessOutput(tree, s) ==
    [files |-> [name \in ProcessFiles |-> RetainedFile(tree, s, name)],
     exit |-> observation[s], executable |-> InterpreterIdentity(Role(s))]

AdmittedProfilePreflight(tree, s) ==
    [process |-> RetainedProcessOutput(tree, s), role |-> Role(s),
     identity |-> RetainedFile(tree, s, "identity"), profile |-> ProfileIdentity(Role(s))]

AdmittedEvidenceAttempt(tree, s) ==
    [process |-> RetainedProcessOutput(tree, s), role |-> Role(s),
     step |-> StepDt(s), repeat |-> RepeatId(s), profile |-> ProfileIdentity(Role(s)),
     cell |-> s, result |-> tree[<<s, "result.json">>],
     checksums |-> tree[<<s, "CHECKSUMS.sha256">>]]

CompletedRunRecord(tree) ==
    [input |-> RetainedFile(tree, 0, "copy"), worker |-> "admitted", collector |-> "admitted",
     preflights |-> [s \in Preflights |-> AdmittedProfilePreflight(tree, s)],
     attempts |-> [s \in Cells |-> AdmittedEvidenceAttempt(tree, s)],
     generated |-> RetainedFile(tree, 0, "generated"),
     receipt |-> RetainedFile(tree, 0, "receipt")]

-----------------------------------------------------------------------------
(* Its replay                                                              *)

Rehashed(tree, file, s, name) ==
    file.locator = <<s, name>> /\ tree[<<s, name>>] = file.sha256 /\ file.sha256[1] # "absent"

\* _verify_process_record, with the launcher of the configuration copy and its resolved bytes.
ProcessReplays(p, tree, s) ==
    /\ \A name \in ProcessFiles : Rehashed(tree, p.files[name], s, name)
    /\ p.exit = "zero" /\ tree[<<s, "exit_code">>] = <<p.exit>>
    /\ p.executable.lexical = tree[<<0, "copy">>][2][Role(s)]
    /\ input[p.executable.resolved] = p.executable.sha256

PreflightReplays(r, tree, s) ==
    /\ r.role = Role(s)
    /\ ProcessReplays(r.process, tree, s)
    /\ Rehashed(tree, r.identity, s, "identity")
    /\ r.profile = tree[<<s, "identity">>][2]

\* _list_relative_directory: a cell has its six members and nothing else.
ListingMutant(tree, s) == CellMembers
Listing(tree, s) == {name \in CellMembers \cup {"another"} : tree[<<s, name>>][1] # "absent"}

\* _verify_cell_checksums: every payload is the one the checksum manifest declares.
CellReplays(tree, s, result) ==
    LET declared == tree[<<s, "CHECKSUMS.sha256">>][2]
    IN  /\ Listing(tree, s) = CellMembers
        /\ \A name \in Payloads : tree[<<s, name>>] = declared[name]
        /\ declared["result.json"] = result

AttemptReplays(r, tree, s) ==
    /\ r.role = Role(s) /\ r.step = StepDt(s) /\ r.repeat = RepeatId(s)
    /\ ProcessReplays(r.process, tree, s)
    /\ r.cell = s
    /\ tree[<<s, "CHECKSUMS.sha256">>] = r.checksums
    /\ CellReplays(tree, s, r.result)
    /\ LET result == tree[<<s, "result.json">>][2][1]
       IN  result = [role |-> r.role, step |-> r.step, repeat |-> r.repeat, profile |-> r.profile]

ExternalResource(locator, sha256) == input[locator] = sha256

Replays(r, tree) ==
    /\ Rehashed(tree, r.input, 0, "copy")
    /\ ExternalResource("worker", r.worker) /\ ExternalResource("collector", r.collector)
    /\ \A s \in Preflights : PreflightReplays(r.preflights[s], tree, s)
    /\ \A s \in Cells : AttemptReplays(r.attempts[s], tree, s)
    /\ Rehashed(tree, r.generated, 0, "generated")
    /\ Rehashed(tree, r.receipt, 0, "receipt")
    /\ tree[<<0, "receipt">>][2] = tree[<<0, "generated">>][2]

-----------------------------------------------------------------------------
(* Properties                                                              *)

Changed(tree, m, state) == [tree EXCEPT ![m][1] = state]
Exchanged(entries, s, t) == [entries EXCEPT ![s] = entries[t], ![t] = entries[s]]

\* The record a run completes with replays while its launchers and resources stay; afterwards no
\* retained file can be altered, removed or added to a cell, and no two attempts or preflights
\* exchanged in the record, without the replay noticing it.
RecordBindsEveryFile ==
    exit = "completed" /\ AsAdmitted({"worker", "collector"} \cup Roles) =>
        LET record == CompletedRunRecord(Tree)
        IN  /\ Replays(record, Tree)
            /\ \A m \in Members : \A state \in {"absent", "altered"} \ {Tree[m][1]} :
                  ~Replays(record, Changed(Tree, m, state))
            /\ \A s, t \in Cells : s # t =>
                  ~Replays([record EXCEPT !.attempts = Exchanged(@, s, t)], Tree)
            /\ ~Replays([record EXCEPT !.preflights = Exchanged(@, 1, 2)], Tree)
=============================================================================
