------------------------- MODULE PairedPublication -------------------------
(***************************************************************************)
(* No-clobber publication of one output pair: src/metrifid/                *)
(* _owned_artifacts.py and publish_paired_results of _atomic_output.py,    *)
(* one step per file-system call, for several publishers of the same       *)
(* directory.                                                              *)
(*                                                                         *)
(* A file is the inode that create_owned_artifact opened, so it is named   *)
(* by its publisher and artifact; every file of anybody else is Foreign.   *)
(* Bytes are told apart only as absent, partial, the payload, or altered   *)
(* by somebody else.  Other processes of the same user may touch names,    *)
(* bytes and the public path between any two calls, any call may fail and  *)
(* the machine may stop.  The publishers of one group come together; the   *)
(* group bounds how often others act (MaxRival) and calls fail (MaxFaults) *)
(* and whether power is lost (CanCrash).                                   *)
(***************************************************************************)
EXTENDS Naturals, Sequences, FiniteSets

CONSTANTS Publishers, Groups, MaxRival, MaxFaults, CanCrash,
          Foreign, \* a file that no publisher created
          None     \* no directory entry

ASSUME BoundsAssumption ==
    /\ Groups \subseteq (SUBSET Publishers) \ {{}}
    /\ MaxRival \in [Groups -> Nat] /\ MaxFaults \in [Groups -> Nat]
    /\ CanCrash \in [Groups -> BOOLEAN]
ASSUME NamesAssumption ==
    /\ Foreign # None
    /\ {Foreign, None} \cap (Publishers \cup Publishers \X {"json", "markdown"}) = {}

Artifacts == {"json", "markdown"}
Owned == Publishers \X Artifacts
Entries == Owned \cup {Foreign, None}

VARIABLES
    final,     \* public directory entries
    temp,      \* private temporary entries, one name per publisher and artifact
    bytes,     \* what each owned file holds now
    bound,     \* does the public path still name the bound directory
    pc,        \* position of each publisher in Script
    state,     \* "publishing", "cleaning", "published", "failed", "stopped" or "absent"
    expected,  \* expected_length and expected_sha256: the bytes that were sealed
    tempOwned, \* temporary_owned
    cleanup,   \* what a failing publisher still has to clean, how often it raised, and the
               \* artifacts that it gave up on an error
    durable,   \* files whose payload and final entries that are on disk
    rival, faults, \* calls of other processes and failing calls so far
    touched    \* position of each publisher when somebody else last acted

files == <<final, temp, bytes, bound>>
records == <<expected, tempOwned>>
ghosts == <<rival, faults, touched>>
vars == <<files, pc, state, records, cleanup, durable, ghosts>>

-----------------------------------------------------------------------------
(* _publish_paired_results, call by call.                                  *)

Ops(section, a, ops) == [i \in DOMAIN ops |-> [op |-> ops[i], art |-> a, in |-> section]]
\* _write_temp: create_owned_artifact, write_owned_stream
WriteOps(section, a) ==
    Ops(section, a, <<"create", "write", "sync", "seal", "bytes", "temp">>)
\* link_owned_artifact
LinkOps(a) == Ops("commit", a, <<"bytes", "temp", "link", "bytes", "final">>)
\* finalize_owned_artifact
FinalizeOpsMutant(a) ==
    Ops("commit", a, <<"bytes", "final", "bytes", "temp", "unlink", "bytes", "final">>)
FinalizeOps(a) ==
    Ops("commit", a, <<"bytes", "final", "bytes", "temp", "unlink", "syncdir", "bytes", "final">>)
VerifyOps(section, a) == Ops(section, a, <<"bytes", "final">>)
\* RetainedArtifactPair.verify
PairVerifyOpsMutant(section) == VerifyOps(section, "json")
PairVerifyOps(section) == VerifyOps(section, "json") \o VerifyOps(section, "markdown")

ScriptMutant ==
    Ops("enter", "json", <<"path", "empty">>)
    \o WriteOps("first", "json") \o WriteOps("second", "markdown")
    \o LinkOps("markdown") \o LinkOps("json")
    \o FinalizeOps("json") \o FinalizeOps("markdown") \o PairVerifyOps("commit")
    \o Ops("return", "json", <<"path">>) \o PairVerifyOps("return")
Script ==
    Ops("enter", "json", <<"path", "empty">>)
    \o WriteOps("first", "json") \o WriteOps("second", "markdown")
    \o LinkOps("json") \o LinkOps("markdown")
    \o FinalizeOps("json") \o FinalizeOps("markdown") \o PairVerifyOps("commit")
    \o Ops("return", "json", <<"path">>) \o PairVerifyOps("return")

Steps == DOMAIN Script
LastCheck == CHOOSE i \in Steps : Script[i].in = "return" /\ Script[i].op = "path"

Present == {p \in Publishers : state[p] # "absent"}
At(p, op) == state[p] = "publishing" /\ Script[pc[p]].op = op
Art(p) == Script[pc[p]].art
File(p) == <<p, Art(p)>>

NoCleanup == [batch |-> <<>>, next |-> <<>>, always |-> FALSE, at |-> "bytes",
              raises |-> 0, left |-> {}]

Init ==
    /\ final = [a \in Artifacts |-> None]
    /\ temp = [f \in Owned |-> None]
    /\ bytes = [f \in Owned |-> "absent"]
    /\ bound = TRUE
    /\ pc = [p \in Publishers |-> 1]
    /\ \E here \in Groups :
          state = [p \in Publishers |-> IF p \in here THEN "publishing" ELSE "absent"]
    /\ expected = [f \in Owned |-> "absent"]
    /\ tempOwned = [f \in Owned |-> FALSE]
    /\ cleanup = [p \in Publishers |-> NoCleanup]
    /\ durable = [files |-> {}, final |-> [a \in Artifacts |-> None]]
    /\ rival = 0 /\ faults = 0
    /\ touched = [p \in Publishers |-> 0]

-----------------------------------------------------------------------------
(* How a call continues: to the next one, or to the cleanup of its section *)

Advance(p) ==
    /\ IF pc[p] = Len(Script)
       THEN state' = [state EXCEPT ![p] = "published"] /\ UNCHANGED pc
       ELSE pc' = [pc EXCEPT ![p] = @ + 1] /\ UNCHANGED state
    /\ UNCHANGED cleanup

Plan(batch, next, always) == [NoCleanup EXCEPT !.batch = batch, !.next = next, !.always = always]
Reversed == <<"markdown", "json">>

\* _write_temp cleans its own file and _publish_paired_results the earlier one; the handler of
\* commit_owned_pair cleans and closes the pair, and _cleanup_artifacts finds it closed unless
\* that cleanup itself raised.
CleanupPlanMutant(p) ==
    LET section == Script[pc[p]].in
    IN  CASE section = "enter" -> NoCleanup
          [] section = "first" -> Plan(<<"json">>, <<>>, TRUE)
          [] section = "second" -> Plan(<<"markdown">>, <<"json">>, TRUE)
          [] section \in {"commit", "return"} -> Plan(Reversed, <<>>, FALSE)
CleanupPlan(p) ==
    LET section == Script[pc[p]].in
        creating == Script[pc[p]].op = "create"
    IN  CASE section = "enter" -> NoCleanup
          [] section = "first" -> Plan(IF creating THEN <<>> ELSE <<"json">>, <<>>, TRUE)
          [] section = "second" ->
                Plan(IF creating THEN <<>> ELSE <<"markdown">>, <<"json">>, TRUE)
          [] section = "commit" -> Plan(Reversed, Reversed, FALSE)
          [] section = "return" -> Plan(Reversed, <<>>, TRUE)

Fail(p) ==
    /\ state' = [state EXCEPT ![p] = "cleaning"]
    /\ cleanup' = [cleanup EXCEPT ![p] = CleanupPlan(p)]
    /\ UNCHANGED pc

Continue(p, ok) == IF ok THEN Advance(p) ELSE Fail(p)

\* A call that observes and changes nothing.
Observe(p, ok) ==
    /\ Continue(p, ok)
    /\ UNCHANGED <<files, records, durable, ghosts>>

-----------------------------------------------------------------------------
(* The calls                                                               *)

CheckPath(p) == At(p, "path") /\ Observe(p, bound)

NothingThere == \A a \in Artifacts : final[a] = None
                /\ \A p \in Publishers : temp[<<p, a>>] = None
CheckEmpty(p) == At(p, "empty") /\ Observe(p, NothingThere)

\* O_CREAT | O_EXCL: a taken name is never opened (after 100 names the call gives up).
Create(p) ==
    /\ At(p, "create")
    /\ IF temp[File(p)] = None
       THEN /\ temp' = [temp EXCEPT ![File(p)] = File(p)]
            /\ bytes' = [bytes EXCEPT ![File(p)] = "partial"]
            /\ tempOwned' = [tempOwned EXCEPT ![File(p)] = TRUE]
            /\ Advance(p)
       ELSE Fail(p) /\ UNCHANGED <<temp, bytes, tempOwned>>
    /\ UNCHANGED <<final, bound, expected, durable, ghosts>>

Write(p) ==
    /\ At(p, "write")
    /\ bytes' = [bytes EXCEPT ![File(p)] = "payload"]
    /\ Advance(p)
    /\ UNCHANGED <<final, temp, bound, records, durable, ghosts>>

Sync(p) ==
    /\ At(p, "sync")
    /\ durable' = [durable EXCEPT !.files = @ \cup {File(p)}]
    /\ Advance(p)
    /\ UNCHANGED <<files, records, ghosts>>

\* The seal is measured from the file, not from the payload.
Seal(p) ==
    /\ At(p, "seal")
    /\ expected' = [expected EXCEPT ![File(p)] = bytes[File(p)]]
    /\ Advance(p)
    /\ UNCHANGED <<files, tempOwned, durable, ghosts>>

BytesExact(f) == expected[f] # "absent" /\ bytes[f] = expected[f]
CheckBytes(p) == At(p, "bytes") /\ Observe(p, BytesExact(File(p)))
CheckTemp(p) == At(p, "temp") /\ Observe(p, temp[File(p)] = File(p))
CheckFinal(p) == At(p, "final") /\ Observe(p, final[Art(p)] = File(p))

\* os.link fails on a taken final name; it links whatever the temporary name names now.
NameFreeMutant(a) == a \in Artifacts
NameFree(a) == final[a] = None
Link(p) ==
    /\ At(p, "link")
    /\ IF NameFree(Art(p)) /\ temp[File(p)] # None
       THEN final' = [final EXCEPT ![Art(p)] = temp[File(p)]] /\ Advance(p)
       ELSE Fail(p) /\ UNCHANGED final
    /\ UNCHANGED <<temp, bytes, bound, records, durable, ghosts>>

Unlink(p) ==
    /\ At(p, "unlink")
    /\ IF temp[File(p)] # None
       THEN /\ temp' = [temp EXCEPT ![File(p)] = None]
            /\ tempOwned' = [tempOwned EXCEPT ![File(p)] = FALSE]
            /\ Advance(p)
       ELSE Fail(p) /\ UNCHANGED <<temp, tempOwned>>
    /\ UNCHANGED <<final, bytes, bound, expected, durable, ghosts>>

SyncDirectory(p) ==
    /\ At(p, "syncdir")
    /\ durable' = [durable EXCEPT !.final = final]
    /\ Advance(p)
    /\ UNCHANGED <<files, records, ghosts>>

\* A call raises OSError.  A failing write or fsync first seals what the file holds, if it can.
CallFails(p) ==
    /\ state[p] = "publishing"
    /\ faults < MaxFaults[Present]
    /\ faults' = faults + 1
    /\ IF Script[pc[p]].op \in {"write", "sync"}
       THEN \E held \in (IF Script[pc[p]].op = "write" THEN {"partial", bytes[File(p)]}
                         ELSE {bytes[File(p)]}) :
                /\ bytes' = [bytes EXCEPT ![File(p)] = held]
                /\ \E sealed \in {"absent", held} :
                      expected' = [expected EXCEPT ![File(p)] = sealed]
       ELSE UNCHANGED <<bytes, expected>>
    /\ Fail(p)
    /\ UNCHANGED <<final, temp, bound, tempOwned, durable, rival, touched>>

-----------------------------------------------------------------------------
(* OwnedArtifact.cleanup, artifact by artifact.                            *)

Target(p) == <<p, Head(cleanup[p].batch)>>
Cleaning(p, at) == /\ state[p] = "cleaning" /\ cleanup[p].batch # <<>>
                   /\ cleanup[p].at = at

\* The artifact is done with: it is no longer a private temporary of ours.
Disowned(p, left) ==
    /\ tempOwned' = [tempOwned EXCEPT ![Target(p)] = FALSE]
    /\ cleanup' = [cleanup EXCEPT ![p].batch = Tail(@), ![p].at = "bytes", ![p].left = @ \cup left]

CleanupBytes(p) ==
    /\ Cleaning(p, "bytes")
    /\ IF tempOwned[Target(p)] /\ BytesExact(Target(p))
       THEN cleanup' = [cleanup EXCEPT ![p].at = "temp"] /\ UNCHANGED tempOwned
       ELSE Disowned(p, {})
    /\ UNCHANGED <<files, pc, state, expected, durable, ghosts>>

CleanupTemp(p) ==
    /\ Cleaning(p, "temp")
    /\ IF temp[Target(p)] = Target(p)
       THEN cleanup' = [cleanup EXCEPT ![p].at = "unlink"] /\ UNCHANGED tempOwned
       ELSE Disowned(p, {})
    /\ UNCHANGED <<files, pc, state, expected, durable, ghosts>>

\* A read or a stat that raises counts as a file that is not exact: the artifact is given up.
CleanupMisreads(p) ==
    /\ Cleaning(p, "bytes") \/ Cleaning(p, "temp")
    /\ tempOwned[Target(p)]
    /\ faults < MaxFaults[Present]
    /\ faults' = faults + 1
    /\ Disowned(p, {Head(cleanup[p].batch)})
    /\ UNCHANGED <<files, pc, state, expected, durable, rival, touched>>

CleanupUnlink(p) ==
    /\ Cleaning(p, "unlink")
    /\ temp' = [temp EXCEPT ![Target(p)] = None]
    /\ Disowned(p, {})
    /\ UNCHANGED <<final, bytes, bound, pc, state, expected, durable, ghosts>>

\* os.unlink raises: the rest of this cleanup is abandoned.
CleanupRaises(p) ==
    /\ Cleaning(p, "unlink")
    /\ faults < MaxFaults[Present]
    /\ faults' = faults + 1
    /\ cleanup' = [cleanup EXCEPT ![p].batch = <<>>, ![p].at = "bytes", ![p].raises = @ + 1,
                                  ![p].left = @ \cup {Head(cleanup[p].batch)}]
    /\ UNCHANGED <<files, pc, state, records, durable, rival, touched>>

CleanupEnds(p) ==
    /\ state[p] = "cleaning"
    /\ cleanup[p].batch = <<>>
    /\ LET c == cleanup[p]
       IN  IF c.next # <<>> /\ (c.always \/ c.raises > 0)
           THEN /\ cleanup' = [cleanup EXCEPT ![p] = [Plan(c.next, <<>>, TRUE) EXCEPT
                                                         !.raises = c.raises, !.left = c.left]]
                /\ UNCHANGED state
           ELSE state' = [state EXCEPT ![p] = "failed"] /\ UNCHANGED cleanup
    /\ UNCHANGED <<files, pc, records, durable, ghosts>>

-----------------------------------------------------------------------------
(* Everybody else                                                          *)

Running == \E p \in Publishers : state[p] \in {"publishing", "cleaning"}

Touch ==
    /\ Running
    /\ rival < MaxRival[Present]
    /\ rival' = rival + 1
    /\ touched' = pc
    /\ UNCHANGED <<pc, state, records, cleanup, durable, faults>>

RivalNames ==
    /\ Touch
    /\ \/ \E a \in Artifacts, entry \in {Foreign, None} :
             final' = [final EXCEPT ![a] = entry] /\ UNCHANGED temp
       \/ \E f \in Present \X Artifacts, entry \in {Foreign, None} :
             temp' = [temp EXCEPT ![f] = entry] /\ UNCHANGED final
    /\ UNCHANGED <<bytes, bound>>

\* A file can be rewritten by whoever can name it.
RivalBytes ==
    /\ Touch
    /\ \E f \in Owned :
          /\ temp[f] = f \/ final[f[2]] = f
          /\ bytes' = [bytes EXCEPT ![f] = "altered"]
    /\ UNCHANGED <<final, temp, bound>>

RivalPath ==
    /\ Touch
    /\ bound' = FALSE
    /\ UNCHANGED <<final, temp, bytes>>

\* Power loss: an entry that was not synchronized may be lost or kept, and so may bytes.
Crash ==
    /\ CanCrash[Present] /\ Running
    /\ state' = [p \in Publishers |->
                    IF state[p] \in {"publishing", "cleaning"} THEN "stopped" ELSE state[p]]
    /\ final' \in {g \in [Artifacts -> Entries] :
                      \A a \in Artifacts : g[a] \in {final[a], durable.final[a]}}
    /\ bytes' = [f \in Owned |-> IF f \in durable.files THEN bytes[f] ELSE "partial"]
    /\ UNCHANGED <<temp, bound, pc, records, cleanup, durable, ghosts>>

Publisher(p) ==
    \/ CheckPath(p) \/ CheckEmpty(p) \/ Create(p) \/ Write(p) \/ Sync(p) \/ Seal(p)
    \/ CheckBytes(p) \/ CheckTemp(p) \/ CheckFinal(p) \/ Link(p) \/ Unlink(p)
    \/ SyncDirectory(p) \/ CallFails(p)
    \/ CleanupBytes(p) \/ CleanupTemp(p) \/ CleanupMisreads(p) \/ CleanupUnlink(p)
    \/ CleanupRaises(p) \/ CleanupEnds(p)
Environment == RivalNames \/ RivalBytes \/ RivalPath \/ Crash
Done == ~Running /\ UNCHANGED vars

Next == (\E p \in Publishers : Publisher(p)) \/ Environment \/ Done
Spec == Init /\ [][Next]_vars
FairSpec == Spec /\ \A p \in Publishers : WF_vars(Publisher(p))

-----------------------------------------------------------------------------
(* Properties                                                              *)

Finished(p) == state[p] \notin {"publishing", "cleaning"}

\* No publisher overwrites or removes a public name, its own or anybody's, in any success,
\* failure or cleanup: only other processes and a power loss ever take an entry away.
NoClobber ==
    [][ \/ rival' # rival
        \/ \E p \in Publishers : state[p] # "stopped" /\ state'[p] = "stopped"
        \/ \A a \in Artifacts : final[a] # None => final'[a] = final[a] ]_vars

\* Success means what it says if the others kept still since the last path check: both public
\* names name the very files of this publisher with the bytes it sealed, at the public path,
\* and no private name of them is left.
PublishedIsExact ==
    \A p \in Publishers :
        state[p] = "published" /\ touched[p] <= LastCheck =>
            /\ bound
            /\ \A a \in Artifacts :
                  final[a] = <<p, a>> /\ BytesExact(<<p, a>>) /\ temp[<<p, a>>] # <<p, a>>

\* A success is durable: a later power loss can take neither of the two files away.
PublishedIsDurable ==
    \A p \in Publishers : state[p] = "published" /\ rival = 0 =>
        \A a \in Artifacts : durable.final[a] = <<p, a>> /\ <<p, a>> \in durable.files

\* A failure leaves no sealed private file behind but one whose own cleanup met an error: one
\* unlink that raises abandons its pass, and still never leaves the other file of the pair.
FailureLeavesNoTemporary ==
    \A p \in Publishers : state[p] = "failed" /\ rival = 0 /\ cleanup[p].raises <= 1 =>
        \A a \in Artifacts \ cleanup[p].left :
            temp[<<p, a>>] = <<p, a>> => expected[<<p, a>>] = "absent"

\* With neither faults nor interference one of the competing publishers wins and the rest fail.
Quiet == rival = 0 /\ faults = 0 /\ \A p \in Publishers : state[p] # "stopped"
ExactlyOneWinner ==
    (\A p \in Publishers : Finished(p)) /\ Quiet =>
        Cardinality({p \in Publishers : state[p] = "published"}) = 1

\* The promise of NoClobberPair, kept step by step and with its liveness: one holder of both names,
\* the JSON taken first, names taken only while they are free, everybody decides.
holder == [a \in Artifacts |-> IF final[a] \in Owned THEN final[a][1] ELSE None]
outcome == [p \in Publishers |-> CASE state[p] \in {"publishing", "cleaning"} -> "working"
                                   [] state[p] = "published" -> "published"
                                   [] OTHER -> "failed"]
disturbed == rival > 0 \/ \E p \in Publishers : state[p] = "stopped"
Promise == INSTANCE NoClobberPair WITH Nobody <- None
KeepsPromise == Promise!Spec
=============================================================================
