---------------------------- MODULE RepairFiles ----------------------------
(***************************************************************************)
(* The files of a repair: `repair run` publishes a bundle while another    *)
(* process reads it, either `repair show` or `repair replay`, which        *)
(* publishes a record of its own (repair/_files.py over                    *)
(* workload_qualification/_owned_output.py).                               *)
(*                                                                         *)
(* A directory is known by who made it, a file by its number: members      *)
(* 1 .. Members in the order they are published, the last one the selected *)
(* policy, then repair.json and replay.json.  Bytes are told apart by the  *)
(* bundle they belong to: Ours is what the run serialized, Theirs another  *)
(* bundle that is consistent in itself, Junk what no admission accepts; a  *)
(* replay record is known by the bundle it binds.  Somebody else changes   *)
(* files and directory names, calls fail, MaxActs times altogether, and    *)
(* the machine may stop.  Private temporaries are those of the             *)
(* module PairedPublication.                                               *)
(***************************************************************************)
EXTENDS Naturals, FiniteSets, FiniteSetsExt, Functions

CONSTANTS Members, \* how many: 4 in the code
          MaxActs, \* acts of somebody else and failing calls together
          CanCrash

ASSUME SizeAssumption == Members \in Nat \ {0}
ASSUME BoundsAssumption == MaxActs \in Nat /\ CanCrash \in BOOLEAN

Processes == {"run", "reader"}
Directories == {"run", "replay", "foreign"} \* by who made them
Paths == {"run", "replay"}
RunRecord == Members + 1
ReplayRecord == Members + 2
Files == 1 .. ReplayRecord
Absent == 0
Root == 0 \* the public name of the directory, among the file numbers
Ours == 1
Theirs == 2
Junk == 3
Nowhere == "nowhere"

VARIABLES
    named,    \* the directory each public path names
    file,     \* the bytes each directory entry names
    settled,  \* files with one name only: the private name is gone
    durable,  \* entries that are on disk
    selected, \* did the run select a controller
    replays,  \* is the reader a replay
    pc,
    source,   \* directory a reader reads its input from
    own,      \* directory a process publishes into
    got,      \* bytes read and retained
    opened,   \* what an open file looked like when it was opened
    left,     \* files still to be read, or published, in this pass
    bound,    \* bundle that a replay evaluated
    verdict,  \* how the command ended
    linked,   \* ghost: files this process has given a public name
    changed,  \* ghost: files and names somebody else changed
    unseen,   \* ghost: the same, since a process last verified them
    early,    \* ghost: did the reader open a record before it was settled
    rival, faults, stopped

disk == <<named, file, settled, durable>>
commands == <<pc, source, own, got, opened, left, bound, verdict, selected, replays>>
ghosts == <<linked, changed, unseen, early>>
counters == <<rival, faults, stopped>>
vars == <<disk, commands, ghosts, counters>>

Reading == {"record", "members", "again", "root"}
Ended == {"done", "unpublished", "refused", "error", "stopped"}
Unopened == <<Junk, FALSE>>

Nothing == [n \in Files |-> Absent]

\* The foreign directory holds a bundle of its own or nothing.
Init ==
    /\ named = [d \in Paths |-> Nowhere]
    /\ \E b \in {Absent, Theirs} :
          file = [d \in Directories |-> [n \in Files |-> IF d = "foreign" THEN b ELSE Absent]]
    /\ settled = [d \in Directories |-> {}]
    /\ durable = [d \in Directories |-> {}]
    /\ selected = FALSE /\ replays \in BOOLEAN
    /\ pc = [p \in Processes |-> "start"]
    /\ source = Nowhere /\ own = [p \in Processes |-> Nowhere]
    /\ got = [p \in Processes |-> Nothing]
    /\ opened = [p \in Processes |-> Unopened] /\ left = [p \in Processes |-> {}]
    /\ bound = Absent
    /\ verdict = [p \in Processes |-> "running"]
    /\ linked = [p \in Processes |-> {}] /\ changed = {}
    /\ unseen = [p \in Processes |-> {}] /\ early = FALSE
    /\ rival = 0 /\ faults = 0 /\ stopped = FALSE

-----------------------------------------------------------------------------
(* What a process is at                                                    *)

Output(p) == IF p = "run" THEN "run" ELSE "replay"
\* A reader has its input verified before it evaluates; a run has none to verify.
ReadsInput(p) == p = "reader" /\ bound = Absent
Place(p) == IF ReadsInput(p) THEN source ELSE own[p]
Path(p) == IF ReadsInput(p) THEN "run" ELSE Output(p)

RecordOf(p) == IF p = "run" \/ ReadsInput(p) THEN RunRecord ELSE ReplayRecord

\* artifact_records: a run without a selected controller has no policy, a replay no members.
Bundle(b) == IF b = Ours /\ ~selected THEN 1 .. Members - 1 ELSE 1 .. Members
Declared(p, b) == IF RecordOf(p) = ReplayRecord THEN {} ELSE Bundle(b)

Phase(p) ==
    CASE pc[p] \in {"absent", "mkdir", "bind"} -> "destination"
      [] pc[p] = "execute" -> "execution"
      [] pc[p] = "start" \/ (pc[p] \in Reading /\ ReadsInput(p)) -> "input"
      [] OTHER -> "publication"

\* _failure: something inadmissible, a missing entry or another operating-system error.
Classify(p, cause) ==
    IF \/ Phase(p) # "publication" /\ cause = "inadmissible"
       \/ Phase(p) = "destination" /\ cause = "missing"
    THEN "refused" ELSE "error"

At(p, l) == pc[p] = l /\ ~stopped
Goto(p, l) == pc' = [pc EXCEPT ![p] = l] /\ UNCHANGED verdict
End(p, how) == pc' = [pc EXCEPT ![p] = "end"] /\ verdict' = [verdict EXCEPT ![p] = how]
Forget(P) ==
    /\ opened' = [p \in Processes |-> IF p \in P THEN Unopened ELSE opened[p]]
    /\ left' = [p \in Processes |-> IF p \in P THEN {} ELSE left[p]]
Fail(p, cause) ==
    /\ End(p, Classify(p, cause)) /\ Forget({p})
    /\ UNCHANGED <<file, settled, durable, own, got, linked, unseen, early>>

given == <<selected, replays>>
progress == <<own, got, opened, left, linked, unseen, early>>
contents == <<file, settled, durable>>

-----------------------------------------------------------------------------
(* Input and destination                                                   *)

\* load_request admits the request or refuses it.
RunStart ==
    /\ At("run", "start")
    /\ Goto("run", "absent") \/ End("run", "refused")
    /\ UNCHANGED <<disk, source, bound, given, progress, changed, counters>>

\* OwnedOutputRoot.bind_existing: whatever directory is there now.
ReaderStart ==
    /\ At("reader", "start")
    /\ IF named["run"] = Nowhere THEN End("reader", "error") /\ UNCHANGED <<source, left>>
       ELSE /\ Goto("reader", "record")
            /\ source' = named["run"]
            /\ left' = [left EXCEPT !["reader"] = {RunRecord}]
    /\ UNCHANGED <<disk, bound, given, own, got, opened, ghosts, counters>>

\* _own_destination: an existing destination is refused, ...
DestinationAbsent(p) ==
    /\ At(p, "absent")
    /\ IF named[Output(p)] = Nowhere THEN Goto(p, "mkdir") ELSE End(p, "refused")
    /\ UNCHANGED <<disk, source, bound, given, progress, changed, counters>>

\* ... OwnedOutputRoot creates it exclusively, ...
MakeDirectory(p) ==
    /\ At(p, "mkdir")
    /\ IF named[Output(p)] = Nowhere
       THEN Goto(p, "bind") /\ named' = [named EXCEPT ![Output(p)] = Output(p)] /\ UNCHANGED progress
       ELSE Fail(p, "exists") /\ UNCHANGED named
    /\ UNCHANGED <<contents, source, bound, given, changed, counters>>

\* ... and binds what the name names by then.  A replay verifies its input again.
Bind(p) ==
    /\ At(p, "bind")
    /\ IF named[Output(p)] = Nowhere THEN Fail(p, "missing")
       ELSE /\ own' = [own EXCEPT ![p] = named[Output(p)]]
            /\ Goto(p, IF p = "run" THEN "execute" ELSE "again")
            /\ left' = [left EXCEPT ![p] =
                           IF p = "run" THEN {} ELSE Bundle(got[p][RunRecord]) \cup {RunRecord}]
            /\ UNCHANGED <<contents, got, opened, linked, unseen, early>>
    /\ UNCHANGED <<named, source, bound, given, changed, counters>>

-----------------------------------------------------------------------------
(* Execution: the engine refuses, raises or returns what is published      *)

Unpublished(p) ==
    /\ At(p, "execute")
    /\ \E how \in {"unpublished", "error"} : End(p, how)
    /\ UNCHANGED <<disk, source, bound, given, progress, changed, counters>>

RepairController ==
    /\ At("run", "execute")
    /\ selected' \in BOOLEAN
    /\ Goto("run", "link")
    /\ left' = [left EXCEPT !["run"] =
                   (1 .. RunRecord) \ (IF selected' THEN {} ELSE {Members})]
    /\ UNCHANGED <<disk, source, bound, replays, own, got, opened, ghosts, counters>>

ReplayController ==
    /\ At("reader", "execute")
    /\ bound' = got["reader"][RunRecord]
    /\ Goto("reader", "link")
    /\ left' = [left EXCEPT !["reader"] = {ReplayRecord}]
    /\ unseen' = [unseen EXCEPT !["reader"] = {}]
    /\ UNCHANGED <<disk, source, given, own, got, opened, linked, changed, early, counters>>

-----------------------------------------------------------------------------
(* _publish: members first, the record last                                *)

Payload(p) == IF p = "run" THEN Ours ELSE bound
\* sorted(members.items()), then the record
UpcomingMutant(S) == {n \in S : \A m \in S : n >= m}
Upcoming(S) == {n \in S : \A m \in S : n <= m}

Show(d, n, b) == file' = [file EXCEPT ![d][n] = b]

\* create_owned_artifact .. link_owned_artifact
LinkMutant(p) ==
    /\ At(p, "link")
    /\ \E n \in Upcoming(left[p]) :
          /\ Show(own[p], n, Payload(p)) /\ settled' = [settled EXCEPT ![own[p]] = @ \ {n}]
          /\ linked' = [linked EXCEPT ![p] = @ \cup {n}]
    /\ Goto(p, "finalize")
    /\ UNCHANGED <<named, durable, source, bound, given, own, got, opened, left, changed, unseen,
                   early, counters>>
Link(p) ==
    /\ At(p, "link")
    /\ \E n \in Upcoming(left[p]) :
          IF file[own[p]][n] # Absent THEN Fail(p, "exists")
          ELSE /\ Show(own[p], n, Payload(p)) /\ settled' = [settled EXCEPT ![own[p]] = @ \ {n}]
               /\ linked' = [linked EXCEPT ![p] = @ \cup {n}]
               /\ Goto(p, "finalize")
               /\ UNCHANGED <<durable, own, got, opened, left, unseen, early>>
    /\ UNCHANGED <<named, source, bound, given, changed, counters>>

\* finalize_owned_artifact: verify, unlink the private name, sync the directory.
SyncedMutant(p) == durable
Synced(p) == [durable EXCEPT ![own[p]] = {n \in Files : file[own[p]][n] # Absent}]
Finalize(p) ==
    /\ At(p, "finalize")
    /\ \E n \in Upcoming(left[p]) :
          IF file[own[p]][n] # Payload(p) THEN Fail(p, "inadmissible")
          ELSE /\ settled' = [settled EXCEPT ![own[p]] = @ \cup {n}]
               /\ durable' = Synced(p)
               /\ left' = [left EXCEPT ![p] = @ \ {n}]
               /\ Goto(p, IF left[p] = {n} THEN "verify" ELSE "link")
               /\ UNCHANGED <<file, own, got, opened, linked, unseen, early>>
    /\ UNCHANGED <<named, source, bound, given, changed, counters>>

Verify(p) ==
    /\ At(p, "verify")
    /\ IF \E n \in linked[p] : file[own[p]][n] # Payload(p) THEN Fail(p, "inadmissible")
       ELSE /\ Goto(p, "record") /\ left' = [left EXCEPT ![p] = {RecordOf(p)}]
            /\ UNCHANGED <<contents, own, got, opened, linked, unseen, early>>
    /\ UNCHANGED <<named, source, bound, given, changed, counters>>

-----------------------------------------------------------------------------
(* _read_record: the record, its members, and all of them again            *)

\* read_bytes opens and observes a file, ...
Look(p, n) == <<file[Place(p)][n], n \in settled[Place(p)]>>
Open(p) ==
    /\ pc[p] \in Reading \ {"root"} /\ ~stopped /\ opened[p] = Unopened
    /\ LET n == Min(left[p]) IN
       IF file[Place(p)][n] = Absent THEN Fail(p, "missing")
       ELSE /\ opened' = [opened EXCEPT ![p] = Look(p, n)]
            /\ early' = (early \/ (p = "reader" /\ n = RunRecord /\ n \notin settled[Place(p)]))
            /\ UNCHANGED <<contents, pc, verdict, own, got, left, linked, unseen>>
    /\ UNCHANGED <<named, source, bound, given, changed, counters>>

\* ... and once it is read requires the same observation.  A member must have the digest its
\* record declares, and everything must still be what was admitted.
MatchesMutant(p, n, b) == pc[p] = "again" => b = got[p][n]
Matches(p, n, b) ==
    CASE pc[p] = "record" -> b # Junk
      [] pc[p] = "members" -> b = got[p][RecordOf(p)]
      [] pc[p] = "again" -> b = got[p][n]

\* The next pass and what it reads.
Upon(p, n, b) ==
    LET rest == left[p] \ {n} IN
    CASE pc[p] = "record" /\ Declared(p, b) # {} -> <<"members", Declared(p, b)>>
      [] pc[p] = "record" /\ Declared(p, b) = {} -> <<"again", {n}>>
      [] pc[p] = "members" /\ rest = {} ->
            <<"again", Declared(p, got[p][RecordOf(p)]) \cup {RecordOf(p)}>>
      [] pc[p] = "again" /\ rest = {} -> <<"root", {}>>
      [] OTHER -> <<pc[p], rest>>

Read(p) ==
    LET n == Min(left[p]) b == opened[p][1] IN
    /\ pc[p] \in Reading \ {"root"} /\ ~stopped /\ opened[p] # Unopened
    /\ IF Look(p, n) # opened[p] \/ ~Matches(p, n, b) THEN Fail(p, "inadmissible")
       ELSE /\ got' = [got EXCEPT ![p][n] = b]
            /\ opened' = [opened EXCEPT ![p] = Unopened]
            /\ Goto(p, Upon(p, n, b)[1]) /\ left' = [left EXCEPT ![p] = Upon(p, n, b)[2]]
            /\ unseen' = [unseen EXCEPT ![p] = IF pc[p] = "again" THEN @ \ {n} ELSE @]
            /\ UNCHANGED <<contents, own, linked, early>>
    /\ UNCHANGED <<named, source, bound, given, changed, counters>>

\* _verify_public_root, and where the caller goes from there.
SameRootMutant(p) == TRUE
SameRoot(p) == named[Path(p)] = Place(p)
VerifyRoot(p) ==
    /\ At(p, "root")
    /\ CASE ~SameRoot(p) ->
              Fail(p, IF named[Path(p)] = Nowhere THEN "missing" ELSE "inadmissible")
         [] SameRoot(p) ->
              /\ CASE ~ReadsInput(p) \/ ~replays -> End(p, "done")
                   [] ReadsInput(p) /\ replays /\ own[p] # Nowhere -> Goto(p, "execute")
                   [] ReadsInput(p) /\ replays /\ own[p] = Nowhere ->
                        IF got[p][RunRecord] = Ours /\ ~selected THEN End(p, "refused")
                        ELSE Goto(p, "absent")
              /\ unseen' = [unseen EXCEPT ![p] = @ \ {Root}]
              /\ UNCHANGED <<contents, own, got, opened, left, linked, early>>
    /\ UNCHANGED <<named, source, bound, given, changed, counters>>

-----------------------------------------------------------------------------
(* Failing calls, somebody else, and power loss                            *)

CallFails(p) ==
    /\ pc[p] # "end" /\ ~stopped /\ rival + faults < MaxActs
    /\ faults' = faults + 1
    /\ Fail(p, "other")
    /\ UNCHANGED <<named, source, bound, given, changed, rival, stopped>>

\* Directories there are by now.
Made(d) == d = "foreign" \/ d \in Range(named) \cup Range(own) \cup {source}
Meddle == rival + faults < MaxActs /\ rival' = rival + 1 /\ ~stopped /\ UNCHANGED <<faults, stopped>>

RivalFile(d, n, b) ==
    /\ Meddle /\ Made(d) /\ file[d][n] # b
    /\ Show(d, n, b)
    /\ settled' = [settled EXCEPT ![d] = @ \cup {n}]
    /\ durable' = [durable EXCEPT ![d] = @ \ {n}]
    /\ changed' = changed \cup {<<d, n>>}
    /\ unseen' = [p \in Processes |-> IF Place(p) = d THEN unseen[p] \cup {n} ELSE unseen[p]]
    /\ UNCHANGED <<named, commands, linked, early>>

\* A directory is moved aside, back, or another one is put in its place.
RivalRoot(path, d) ==
    /\ Meddle /\ named[path] # d
    /\ d = Nowhere \/ (Made(d) /\ \A q \in Paths : named[q] # d)
    /\ named' = [named EXCEPT ![path] = d]
    /\ unseen' = [p \in Processes |->
                     IF Path(p) = path THEN unseen[p] \cup {Root} ELSE unseen[p]]
    /\ UNCHANGED <<contents, commands, linked, changed, early>>

\* What was not synced may be lost; a payload is synced before it is linked.
PowerLoss ==
    /\ CanCrash /\ ~stopped
    /\ stopped' = TRUE
    /\ \E lost \in [{"run", "replay"} -> SUBSET Files] :
          /\ \A d \in {"run", "replay"} :
                lost[d] \subseteq {n \in Files : file[d][n] # Absent} \ durable[d]
          /\ file' = [d \in Directories |->
                         IF d = "foreign" THEN file[d]
                         ELSE [n \in Files |-> IF n \in lost[d] THEN Absent ELSE file[d][n]]]
    /\ verdict' = [p \in Processes |-> IF verdict[p] = "running" THEN "stopped" ELSE verdict[p]]
    \* memory is gone
    /\ pc' = [p \in Processes |-> "end"] /\ Forget(Processes)
    /\ got' = [p \in Processes |-> Nothing] /\ bound' = Absent
    /\ unseen' = [p \in Processes |-> {}]
    /\ UNCHANGED <<named, settled, durable, source, given, own, linked, changed, early, rival,
                   faults>>

Step(p) ==
    \/ DestinationAbsent(p) \/ MakeDirectory(p) \/ Bind(p) \/ Unpublished(p)
    \/ Link(p) \/ Finalize(p) \/ Verify(p) \/ Open(p) \/ Read(p) \/ VerifyRoot(p)
    \/ CallFails(p)

Next ==
    \/ RunStart \/ RepairController \/ ReaderStart \/ ReplayController
    \/ \E p \in Processes : Step(p)
    \/ \E d \in Directories, n \in Files, b \in {Absent, Theirs, Junk} : RivalFile(d, n, b)
    \/ \E path \in Paths, d \in Directories \cup {Nowhere} : RivalRoot(path, d)
    \/ PowerLoss

Spec == Init /\ [][Next]_vars

-----------------------------------------------------------------------------
\* repair.json is the commit marker: where the run's record can be seen, also after a power loss,
\* every member it declares is there unless somebody else changed it.
RecordComesLast ==
    LET d == own["run"] IN
    d # Nowhere /\ file[d][RunRecord] = Ours =>
        \A m \in Bundle(Ours) : file[d][m] = Ours \/ <<d, m>> \in changed

\* What a reader admits, and a replay evaluates, is one bundle and never a mixture of two, and the
\* replay's record binds that bundle.
OneBundle ==
    LET b == got["reader"][RunRecord] IN
    /\ (verdict["reader"] = "done" \/ bound # Absent) =>
          \A m \in Bundle(b) : got["reader"][m] = b
    /\ bound # Absent =>
          /\ bound = b
          /\ \A n \in linked["reader"] :
                file[own["reader"]][n] \in {b} \/ <<own["reader"], n>> \in changed \/ stopped

\* Success names paths: each of them showed the bytes reported when it was verified, and whatever
\* is different now was changed by somebody after that.
SuccessIsOnDisk ==
    \A p \in Processes : verdict[p] = "done" /\ ~stopped =>
        /\ named[Path(p)] = Place(p) \/ Root \in unseen[p]
        /\ \A n \in Declared(p, got[p][RecordOf(p)]) \cup {RecordOf(p)} :
              file[Place(p)][n] = got[p][n] \/ n \in unseen[p]

\* A reader that meets the record of a run once its private name is gone reads the bundle, even
\* while the run is still at work; only somebody else or a failing call can prevent it.
MarkedBundleIsReadable ==
    (~replays /\ got["reader"][RunRecord] # Absent /\ ~early /\ rival = 0 /\ faults = 0) =>
        verdict["reader"] \notin {"refused", "error"}

\* No command ever replaces or removes an entry.
NeverClobbers ==
    [][\A d \in Directories, n \in Files :
          (file[d][n] # Absent /\ file'[d][n] # file[d][n]) => (rival' # rival \/ stopped')]_vars
=============================================================================
