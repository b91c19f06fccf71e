-------------------------- MODULE RuntimeReviewRun --------------------------
(***************************************************************************)
(* One run of run_runtime_review_configuration_file: two profile           *)
(* preflights, the grid of one-shot evidence cells, the referee, and the   *)
(* run record published last (runtime_review/_execution.py,                *)
(* _execution_output.py and the identity rechecks of _execution_config.py).*)
(*                                                                         *)
(* Slots 1 and 2 are the preflights, the others the cells in role, grid,   *)
(* repeat order.  Bytes are told apart by where they come from: "sound" is *)
(* what the admitted programs wrote from the admitted inputs, "unbound" an *)
(* honest artifact of other inputs, "forged" passes every admission        *)
(* although no admitted program wrote it, "broken" passes none.  The       *)
(* identities of inputs are compared, so an input is as admitted, other or *)
(* missing.  Another process moves inputs and files aside and back,        *)
(* MaxRival times, and a file-system call may fail, MaxFaults times.       *)
(***************************************************************************)
EXTENDS Naturals, FiniteSets

CONSTANTS StepDts, RepeatIds, \* how many of each: 3 and 2 in the code
          MaxRival, MaxFaults

ASSUME GridAssumption == StepDts \in Nat \ {0} /\ RepeatIds \in Nat \ {0}
ASSUME BoundsAssumption == MaxRival \in Nat /\ MaxFaults \in Nat

Roles == {"baseline", "candidate"}
RoleCells == StepDts * RepeatIds
Last == 2 + 2 * RoleCells
Slots == 1 .. Last
Preflights == {1, 2}
Role(s) == IF s = 1 \/ (s > 2 /\ s <= 2 + RoleCells) THEN "baseline" ELSE "candidate"
Identity(s) == IF Role(s) = "baseline" THEN 1 ELSE 2

Inputs == {"config", "manifest", "worker", "collector"} \cup Roles
Programs(s) == {Role(s), "worker"} \cup (IF s \in Preflights THEN {"collector"} ELSE {})
Contents == {"absent", "sound", "unbound", "forged", "broken"}
Outcomes == {"TIMEOUT", "NOT_STARTED", "nonzero", "zero"}
Papers == {"copy", "generated", "receipt", "record"}

VARIABLES
    pc, slot,
    input,    \* each input: "admitted", "other" or "missing"
    root,     \* does the public path name the owned root
    disk,     \* the artifact of each slot, as its path shows it
    paper,    \* the single files: "absent", "exact" or "altered"
    observation, \* the retained four files of each slot
    outcome,  \* how the last process ended
    observed, \* content read before it is admitted
    admitted, \* content bound by the record, per slot
    decision, \* evidence of the published receipt, per slot, <<>> before
    compatible, \* do the two profiles agree where they must
    exit,     \* "running", "completed", 64 or 70
    ran,      \* ghost: inputs and identity when it was
    wrote,    \* ghost: what each process wrote
    meddled,  \* ghost: were programs or slot files ever touched, or moved back
    rival, faults

memory == <<slot, outcome, observed, admitted, decision, compatible>>
retained == <<disk, paper, observation>>
ghosts == <<ran, wrote, meddled, rival, faults>>
vars == <<pc, memory, input, root, retained, exit, ghosts>>

Steps == {"start", "own", "recheck", "reserve", "launch", "retain", "judge", "load", "admit",
          "compare", "generate", "reload", "review", "decide", "replay", "finalcheck", "build",
          "precheck", "stage", "link", "settle", "verify", "end"}
NotRun == [inputs |-> {}, identity |-> "absent"]

Nothing == [s \in Slots |-> "absent"]

\* The configuration, both interpreters, the manifest and the packaged resources are admitted.
Init ==
    /\ pc = "start" /\ slot = 1
    /\ input = [i \in Inputs |-> "admitted"]
    /\ root = TRUE
    /\ disk = Nothing /\ observation = Nothing /\ admitted = Nothing /\ decision = Nothing
    /\ paper = [p \in Papers |-> "absent"]
    /\ outcome = "zero" /\ observed = "absent"
    /\ compatible \in BOOLEAN
    /\ exit = "running"
    /\ ran = [s \in Slots |-> NotRun] /\ wrote = Nothing
    /\ meddled = [programs |-> FALSE, restored |-> FALSE, files |-> FALSE]
    /\ rival = 0 /\ faults = 0

-----------------------------------------------------------------------------
(* How a step ends                                                         *)

Goto(l) == pc' = l /\ UNCHANGED exit
End(how) == pc' = "end" /\ exit' = how
\* ComparisonOperationError, _ExecutionRefusal, RuntimeReviewRunOutputError, PathAdmissionError,
\* ProfileIdentityRefusal and OSError are operational refusals (exit 64) ...
Refuse == End("refused")
\* ... and what else is raised passes the handlers: the CLI reports an internal failure (70).
Escapes == End("failed")

Check(l, ok, next) ==
    /\ pc = l
    /\ IF ok THEN Goto(next) ELSE Refuse
    /\ UNCHANGED <<memory, input, root, retained, ghosts>>

Admissible == {"sound", "forged"}
AsAdmitted(S) == \A i \in S : input[i] = "admitted"

\* recheck_runtime_review_run_configuration; read_bounded_regular_file raises JsonAdmissionError.
StartRecheck ==
    /\ pc = "start"
    /\ CASE input["config"] = "missing" -> Escapes
         [] input["config"] # "missing" /\ AsAdmitted({"config", "manifest"} \cup Roles) ->
                Goto("own")
         [] OTHER -> Refuse
    /\ UNCHANGED <<memory, input, root, retained, ghosts>>

OwnRoot ==
    /\ pc = "own"
    /\ IF root THEN Goto("recheck") /\ paper' = [paper EXCEPT !["copy"] = "exact"]
       ELSE Refuse /\ UNCHANGED paper
    /\ UNCHANGED <<memory, input, root, disk, observation, ghosts>>

-----------------------------------------------------------------------------
(* One slot: recheck, launch once, retain, judge, admit                    *)

Rechecked == Inputs \ (IF slot \in Preflights THEN {} ELSE {"collector"})
RecheckBeforeProcess == Check("recheck", AsAdmitted(Rechecked), "reserve")

Reserve == Check("reserve", disk[slot] = "absent" /\ root, "launch")

\* What a process may write: honest programs bind what they read, others write anything.
Written(s, how) ==
    CASE how = "NOT_STARTED" -> {"absent"}
      [] how \in {"TIMEOUT", "nonzero"} -> {"absent", "broken"}
      [] how = "zero" /\ ~AsAdmitted(Programs(s)) -> Contents \ {"sound"}
      [] how = "zero" /\ AsAdmitted(Programs(s)) ->
            IF input["manifest"] = "admitted"
               /\ (s \in Preflights \/ disk[Identity(s)] = admitted[Identity(s)])
            THEN {"sound", "broken"} ELSE {"unbound", "broken"}

Launch ==
    /\ pc = "launch"
    /\ \E how \in Outcomes : \E bytes \in Written(slot, how) :
          /\ outcome' = how
          /\ disk' = [disk EXCEPT ![slot] = bytes]
          /\ wrote' = [wrote EXCEPT ![slot] = bytes]
    /\ ran' = [ran EXCEPT ![slot] =
                  [inputs |-> {i \in Inputs : input[i] = "admitted"},
                   identity |-> IF slot \in Preflights THEN "absent" ELSE disk[Identity(slot)]]]
    /\ Goto("retain")
    /\ UNCHANGED <<slot, observed, admitted, decision, compatible, input, root, paper,
                   observation, meddled, rival, faults>>

\* Exclusive creation: an attempt's directory is never reused.
Retain ==
    /\ pc = "retain"
    /\ IF observation[slot] = "absent"
       THEN Goto("judge") /\ observation' = [observation EXCEPT ![slot] = outcome]
       ELSE Refuse /\ UNCHANGED observation
    /\ UNCHANGED <<memory, input, root, disk, paper, ghosts>>

RequireSuccess == Check("judge", outcome = "zero", "load")

Load ==
    /\ pc = "load"
    /\ observed' = disk[slot]
    /\ IF disk[slot] = "absent" THEN Refuse ELSE Goto("admit")
    /\ UNCHANGED <<slot, outcome, admitted, decision, compatible, input, root, retained, ghosts>>

\* Deep admission of the bytes that were loaded, and their binding to manifest and profile.
BindsMutant(content) == content = observed /\ content \in Admissible \cup {"unbound"}
Binds(content) == content = observed /\ content \in Admissible

Admit ==
    /\ pc = "admit"
    /\ IF Binds(disk[slot])
       THEN /\ admitted' = [admitted EXCEPT ![slot] = disk[slot]]
            /\ slot' = IF slot \in {2, Last} THEN slot ELSE slot + 1
            /\ Goto(CASE slot = 2 -> "compare" [] slot = Last -> "generate"
                      [] OTHER -> "recheck")
       ELSE Refuse /\ UNCHANGED <<admitted, slot>>
    /\ UNCHANGED <<outcome, observed, decision, compatible, input, root, retained, ghosts>>

CompareProfiles ==
    /\ pc = "compare"
    /\ IF compatible THEN Goto("recheck") /\ slot' = 3 ELSE Refuse /\ UNCHANGED slot
    /\ UNCHANGED <<outcome, observed, admitted, decision, compatible, input, root, retained,
                   ghosts>>

-----------------------------------------------------------------------------
(* The referee (review_runtime_configuration_file)                         *)

Generate ==
    /\ pc = "generate"
    /\ IF paper["generated"] = "absent"
       THEN Goto("reload") /\ paper' = [paper EXCEPT !["generated"] = "exact"]
       ELSE Refuse /\ UNCHANGED paper
    /\ UNCHANGED <<memory, input, root, disk, observation, ghosts>>

\* Another strict configuration in its place may be loaded as well.
Reload ==
    /\ pc = "reload"
    /\ \/ paper["generated"] # "absent" /\ Goto("review")
       \/ paper["generated"] # "exact" /\ Refuse
    /\ UNCHANGED <<memory, input, root, retained, ghosts>>

\* Every cell is admitted again from its path, and across cells (which may fail on any evidence);
\* the referee knows neither the admitted manifest nor the launchers.
Review ==
    /\ pc = "review"
    /\ \/ /\ \A s \in Slots : disk[s] \notin {"absent", "broken"}
          /\ decision' = disk
          /\ Goto("decide")
       \/ Refuse /\ UNCHANGED decision
    /\ UNCHANGED <<slot, outcome, observed, admitted, compatible, input, root, retained, ghosts>>

\* The evidence is copied member by member and compared with what was decided on.
Decide ==
    /\ pc = "decide"
    /\ IF disk = decision /\ paper["receipt"] = "absent"
       THEN Goto("replay") /\ paper' = [paper EXCEPT !["receipt"] = "exact"]
       ELSE Refuse /\ UNCHANGED paper
    /\ UNCHANGED <<memory, input, root, disk, observation, ghosts>>

ReplayReceipt == Check("replay", paper["receipt"] = "exact", "finalcheck")

-----------------------------------------------------------------------------
(* The run record                                                          *)

FinalRecheck == Check("finalcheck", AsAdmitted(Inputs), "build")

Build ==
    /\ pc = "build"
    /\ IF paper["receipt"] = "absent" THEN Escapes ELSE Goto("precheck")
    /\ UNCHANGED <<memory, input, root, retained, ghosts>>

\* _verify_record_references: the retained bytes are those the record binds.
ReferencesMutant ==
    /\ AsAdmitted({"worker", "collector"} \cup Roles)
    /\ \A s \in Slots : observation[s] = "zero"
    /\ \A p \in {"copy", "generated"} : paper[p] = "exact"
References ==
    /\ AsAdmitted({"worker", "collector"} \cup Roles)
    /\ \A s \in Slots : observation[s] = "zero" /\ disk[s] = admitted[s]
    /\ \A p \in {"copy", "generated"} : paper[p] = "exact"

\* The receipt is validated last; what its validation raises is not a refusal of this module.
Verified(ok, success) ==
    \/ ok /\ References /\ paper["receipt"] = "exact" /\ success
    \/ ~(ok /\ References) /\ Refuse
    \/ ok /\ References /\ paper["receipt"] # "exact" /\ (Refuse \/ Escapes)

Precheck ==
    /\ pc = "precheck"
    /\ Verified(root, IF AsAdmitted(Inputs \ {"worker", "collector"}) THEN Goto("stage")
                      ELSE Refuse)
    /\ UNCHANGED <<memory, input, root, retained, ghosts>>

Stage == Check("stage", paper["record"] = "absent", "link")

Link ==
    /\ pc = "link"
    /\ IF paper["record"] = "absent"
       THEN Goto("settle") /\ paper' = [paper EXCEPT !["record"] = "exact"]
       ELSE Refuse /\ UNCHANGED paper
    /\ UNCHANGED <<memory, input, root, disk, observation, ghosts>>

Settle == Check("settle", paper["record"] = "exact", "verify")

\* verify_completed_run_record replays what was published; a record that is gone raises
\* JsonAdmissionError, one that was altered may be refused or fail to parse.
Verify ==
    /\ pc = "verify"
    /\ \/ paper["record"] = "exact" /\ Verified(TRUE, End("completed"))
       \/ paper["record"] = "altered" /\ (Refuse \/ Escapes)
       \/ paper["record"] = "absent" /\ Escapes
    /\ UNCHANGED <<memory, input, root, retained, ghosts>>

\* A file-system call of the owned output fails: what was retained stays.
CallFails ==
    /\ pc \in {"own", "reserve", "retain", "generate", "decide", "stage", "link", "settle"}
    /\ faults < MaxFaults
    /\ faults' = faults + 1
    /\ Refuse
    /\ UNCHANGED <<memory, input, root, retained, ran, wrote, meddled, rival>>

-----------------------------------------------------------------------------
(* Other processes                                                         *)

Meddle == exit = "running" /\ rival < MaxRival /\ rival' = rival + 1
          /\ UNCHANGED <<pc, memory, observation, exit, ran, wrote, faults>>

RivalInput ==
    /\ Meddle
    /\ \E i \in Inputs, v \in {"admitted", "other", "missing"} :
          /\ input' = [input EXCEPT ![i] = v]
          /\ meddled' = [meddled EXCEPT !.programs = @ \/ i \in {"worker", "collector"} \cup Roles]
    /\ UNCHANGED <<root, disk, paper>>

\* A file is replaced, removed, or moved back to where it was.
RivalFile ==
    /\ Meddle
    /\ \E s \in Slots : \E bytes \in {"forged", "broken", "absent", wrote[s]} :
          /\ disk' = [disk EXCEPT ![s] = bytes]
          /\ meddled' = [meddled EXCEPT !.files = TRUE, !.restored = @ \/ bytes = wrote[s]]
    /\ UNCHANGED <<input, root, paper>>

RivalPaper ==
    /\ Meddle
    /\ \E p \in Papers, state \in {"altered", "absent"} : paper' = [paper EXCEPT ![p] = state]
    /\ UNCHANGED <<input, root, disk, meddled>>

RivalRoot ==
    /\ Meddle
    /\ root' = ~root
    /\ UNCHANGED <<input, disk, paper, meddled>>

Run == \/ StartRecheck \/ OwnRoot
       \/ RecheckBeforeProcess \/ Reserve \/ Launch \/ Retain \/ RequireSuccess \/ Load \/ Admit
       \/ CompareProfiles \/ Generate \/ Reload \/ Review \/ Decide \/ ReplayReceipt
       \/ FinalRecheck \/ Build \/ Precheck \/ Stage \/ Link \/ Settle \/ Verify \/ CallFails
Environment == RivalInput \/ RivalFile \/ RivalPaper \/ RivalRoot
Done == exit # "running" /\ UNCHANGED vars
Next == Run \/ Environment \/ Done
Spec == Init /\ [][Next]_vars

-----------------------------------------------------------------------------
(* Properties                                                              *)

\* Inputs may be swapped and put back between any two rechecks: a completed run of honest programs
\* was measured on the admitted manifest and under the very profile identities it records.
BoundToAdmittedInputs ==
    exit = "completed" /\ ~meddled.programs /\ ~meddled.files =>
        \A s \in Slots : /\ "manifest" \in ran[s].inputs
                         /\ s \notin Preflights => ran[s].identity = admitted[Identity(s)]

\* The decision of a completed run was made on the very evidence its record binds, although the
\* referee reads every cell again from its path: no replacement is missed unless it is undone.
DecisionRestsOnRecord ==
    exit = "completed" /\ ~meddled.restored => decision = admitted
=============================================================================
