------------------------- MODULE RepairFilesProofs -------------------------
(* The commit marker of a repair, what its readers admit and what success  *)
(* means, for any number of members, acts of others and failing calls, and *)
(* after a power loss at any moment.                                       *)
EXTENDS RepairFiles, WellFoundedInduction, TLAPS

Shape ==
    /\ file = [d \in Directories |-> file[d]]
    /\ \A d \in Directories : file[d] = [n \in Files |-> file[d][n]]
    /\ durable \in [Directories -> SUBSET Files]
    /\ named \in [Paths -> Directories \cup {Nowhere}]
    /\ own \in [Processes -> Directories \cup {Nowhere}]
    /\ pc = [p \in Processes |-> pc[p]]
    /\ left = [p \in Processes |-> left[p]]
    /\ rival \in Nat

\* A process that publishes holds a directory, and a replay publishes its record only.
Publishing ==
    /\ pc["run"] \in {"execute", "link", "finalize"} => own["run"] # Nowhere
    /\ pc["reader"] \in {"execute", "link", "finalize"} => own["reader"] # Nowhere
    /\ pc["reader"] \in {"link", "finalize"} => left["reader"] = {ReplayRecord}

\* Nothing shows a record of the run before the run publishes.
Unborn ==
    pc["run"] \in {"start", "absent", "mkdir", "bind", "execute"} =>
        \A d \in Directories : file[d][RunRecord] # Ours

\* A member is in place, and will survive a power loss, unless somebody else changed it.
Kept(d, m) == (file[d][m] = Ours /\ m \in durable[d]) \/ <<d, m>> \in changed

\* While the run publishes, the record is to come and every member that is not is in place.
Ordered ==
    pc["run"] \in {"link", "finalize"} =>
        /\ left["run"] \subseteq 1 .. RunRecord /\ RunRecord \in left["run"]
        /\ \A m \in Bundle(Ours) \ left["run"] : Kept(own["run"], m)

Marked ==
    \A d \in Directories : (own["run"] = d /\ file[d][RunRecord] = Ours) =>
        \A m \in Bundle(Ours) : Kept(d, m)

MarkerInv == Shape /\ Publishing /\ Unborn /\ Ordered /\ Marked

-----------------------------------------------------------------------------
(* Steps that leave the contents of the directories alone                  *)

Quiet(p) == DestinationAbsent(p) \/ MakeDirectory(p) \/ Bind(p) \/ Unpublished(p)
            \/ Verify(p) \/ Open(p) \/ Read(p) \/ VerifyRoot(p) \/ CallFails(p)

Before == {"start", "absent", "mkdir", "bind", "execute"}
Publishes == {"link", "finalize"}

\* What the order of publication depends on is left alone, except that a run binds its directory.
Calm ==
    /\ UNCHANGED <<file, durable, changed, selected>>
    /\ pc'["run"] \in Publishes => UNCHANGED <<pc["run"], left["run"], own["run"]>>
    /\ own'["run"] = own["run"] \/ pc["run"] = "bind"
    /\ pc'["run"] \in Before => pc["run"] \in Before

LEMMA BundleMembers == Bundle(Ours) \subseteq 1 .. Members
  BY SizeAssumption DEF Bundle, Ours

LEMMA FileNumbers ==
  /\ RunRecord \in Files /\ ReplayRecord \in Files /\ 1 .. Members \subseteq Files
  /\ RunRecord # ReplayRecord /\ RunRecord \notin 1 .. Members /\ ReplayRecord \notin 1 .. Members
  /\ RunRecord \in Nat
  BY SizeAssumption DEF Files, RunRecord, ReplayRecord

LEMMA CalmKeepsOrder ==
  ASSUME MarkerInv, Calm PROVE Unborn' /\ Ordered' /\ Marked'
  <1>1. Bundle(Ours)' = Bundle(Ours)
    BY DEF Calm, Bundle
  <1>2. \A d, m : Kept(d, m)' <=> Kept(d, m)
    BY DEF Calm, Kept
  <1>3. Unborn'
    BY DEF Calm, MarkerInv, Unborn, Before
  <1>4. Ordered'
    BY <1>1, <1>2 DEF Calm, MarkerInv, Ordered, Publishes
  <1>5. Marked'
    <2>1. CASE own'["run"] = own["run"]
      BY <1>1, <1>2, <2>1 DEF Calm, MarkerInv, Marked
    <2>2. CASE pc["run"] = "bind"
      BY <2>2 DEF Calm, MarkerInv, Marked, Unborn
    <2> QED
      BY <2>1, <2>2 DEF Calm
  <1> QED
    BY <1>3, <1>4, <1>5

LEMMA GotoEffect ==
  ASSUME Shape, NEW p \in Processes, NEW l, Goto(p, l)
  PROVE  pc'[p] = l /\ \A q \in Processes : q # p => pc'[q] = pc[q]
  BY DEF Shape, Goto

LEMMA EndEffect ==
  ASSUME Shape, NEW p \in Processes, NEW how, End(p, how)
  PROVE  pc'[p] = "end" /\ \A q \in Processes : q # p => pc'[q] = pc[q]
  BY DEF Shape, End

LEMMA FailEffect ==
  ASSUME Shape, NEW p \in Processes, NEW cause, Fail(p, cause)
  PROVE  /\ pc'[p] = "end" /\ \A q \in Processes : q # p => pc'[q] = pc[q] /\ left'[q] = left[q]
         /\ UNCHANGED <<file, durable, own>>
  <1>1. End(p, Classify(p, cause)) /\ Forget({p}) /\ UNCHANGED <<file, durable, own>>
    BY DEF Fail
  <1>2. \A q \in Processes : q # p => left'[q] = left[q]
    BY <1>1 DEF Forget
  <1> QED
    BY <1>1, <1>2, EndEffect

\* A step of one process that does not lead the run to publish.
Aside(p) ==
    /\ UNCHANGED <<file, durable, changed, selected>>
    /\ \A q \in Processes : q # p => UNCHANGED <<pc[q], left[q], own[q]>>
    /\ pc'[p] \notin Publishes
    /\ own'[p] = own[p] \/ pc[p] = "bind"
    /\ (p = "run" /\ pc'[p] \in Before) => pc[p] \in Before

LEMMA AsideIsCalm == ASSUME NEW p \in Processes, Aside(p) PROVE Calm
  BY DEF Aside, Calm, Processes

LEMMA FailIsAside ==
  ASSUME Shape, NEW p \in Processes, NEW cause, Fail(p, cause), UNCHANGED <<changed, selected>>
  PROVE  Aside(p)
  BY FailEffect DEF Aside, Publishes, Before

LEMMA GoesAside ==
  ASSUME Shape, NEW p \in Processes, NEW l, Goto(p, l), l \notin Publishes,
         (p = "run" /\ l \in Before) => pc[p] \in Before,
         UNCHANGED <<file, durable, changed, selected>>,
         \A q \in Processes : q # p => UNCHANGED <<left[q], own[q]>>,
         own'[p] = own[p] \/ pc[p] = "bind"
  PROVE  Aside(p)
  BY GotoEffect DEF Aside

LEMMA EndsAside ==
  ASSUME Shape, NEW p \in Processes, NEW how, End(p, how),
         UNCHANGED <<file, durable, changed, selected, left, own>>
  PROVE  Aside(p)
  BY EndEffect DEF Aside, Publishes, Before

LEMMA QuietIsAside ==
  ASSUME Shape, NEW p \in Processes, Quiet(p) PROVE Aside(p)
  <1> USE DEF given, progress, contents, disk, ghosts, counters
  <1>1. CASE DestinationAbsent(p)
    <2>1. /\ pc[p] = "absent" /\ (Goto(p, "mkdir") \/ End(p, "refused"))
          /\ UNCHANGED <<file, durable, changed, selected, left, own>>
      BY <1>1 DEF DestinationAbsent, At
    <2> QED
      BY <2>1, GoesAside, EndsAside DEF Publishes, Before
  <1>2. CASE MakeDirectory(p)
    <2>1. /\ pc[p] = "mkdir"
          /\ (Goto(p, "bind") /\ UNCHANGED <<left, own>>) \/ Fail(p, "exists")
          /\ UNCHANGED <<file, durable, changed, selected>>
      BY <1>2 DEF MakeDirectory, At
    <2> QED
      BY <2>1, GoesAside, FailIsAside DEF Publishes, Before
  <1>3. CASE Bind(p)
    <2>1. /\ pc[p] = "bind" /\ UNCHANGED <<changed, selected>>
          /\ \/ Fail(p, "missing")
             \/ /\ \E l \in {"execute", "again"} : Goto(p, l)
                /\ UNCHANGED <<file, durable>>
                /\ \E d, S : own' = [own EXCEPT ![p] = d] /\ left' = [left EXCEPT ![p] = S]
      BY <1>3 DEF Bind, At
    <2>2. CASE Fail(p, "missing")
      BY <2>1, <2>2, FailIsAside
    <2>3. CASE ~Fail(p, "missing")
      <3>1. \A q \in Processes : q # p => UNCHANGED <<left[q], own[q]>>
        BY <2>1, <2>3 DEF Shape
      <3> QED
        BY <2>1, <2>3, <3>1, GoesAside DEF Publishes, Before
    <2> QED
      BY <2>2, <2>3
  <1>4. CASE Unpublished(p)
    BY <1>4, EndsAside DEF Unpublished
  <1>5. CASE Verify(p)
    <2>1. /\ UNCHANGED <<changed, selected>>
          /\ \/ Fail(p, "inadmissible")
             \/ /\ Goto(p, "record") /\ UNCHANGED <<file, durable, own>>
                /\ \E S : left' = [left EXCEPT ![p] = S]
      BY <1>5 DEF Verify
    <2>2. CASE Fail(p, "inadmissible")
      BY <2>1, <2>2, FailIsAside
    <2>3. CASE ~Fail(p, "inadmissible")
      <3>1. \A q \in Processes : q # p => UNCHANGED <<left[q], own[q]>>
        BY <2>1, <2>3 DEF Shape
      <3> QED
        BY <2>1, <2>3, <3>1, GoesAside DEF Publishes, Before
    <2> QED
      BY <2>2, <2>3
  <1>6. CASE Open(p)
    <2>1. /\ pc[p] \in Reading /\ UNCHANGED <<changed, selected>>
          /\ Fail(p, "missing") \/ UNCHANGED <<file, durable, pc, left, own>>
      BY <1>6 DEF Open
    <2>2. CASE UNCHANGED <<file, durable, pc, left, own>>
      BY <2>1, <2>2 DEF Aside, Publishes, Before, Reading
    <2> QED
      BY <2>1, <2>2, FailIsAside
  <1>7. CASE Read(p)
    <2> DEFINE n == Min(left[p])  b == opened[p][1]
    <2>1. /\ pc[p] \in Reading \ {"root"} /\ UNCHANGED <<changed, selected>>
          /\ \/ Fail(p, "inadmissible")
             \/ /\ Goto(p, Upon(p, n, b)[1]) /\ UNCHANGED <<file, durable, own>>
                /\ \E S : left' = [left EXCEPT ![p] = S]
      BY <1>7 DEF Read
    <2>2. Upon(p, n, b)[1] \in Reading
      BY <2>1 DEF Upon, Reading
    <2>3. CASE Fail(p, "inadmissible")
      BY <2>1, <2>3, FailIsAside
    <2>4. CASE ~Fail(p, "inadmissible")
      <3> HIDE DEF n, b
      <3>1. \A q \in Processes : q # p => UNCHANGED <<left[q], own[q]>>
        BY <2>1, <2>4 DEF Shape
      <3> QED
        BY <2>1, <2>2, <2>4, <3>1, GoesAside DEF Publishes, Before, Reading
    <2> QED
      BY <2>3, <2>4
  <1>8. CASE VerifyRoot(p)
    <2>1. /\ UNCHANGED <<changed, selected>> /\ pc[p] = "root"
          /\ \/ \E cause : Fail(p, cause)
             \/ /\ UNCHANGED <<file, durable, own, left>>
                /\ \/ \E how : End(p, how)
                   \/ Goto(p, "absent") /\ p = "reader"
                   \/ Goto(p, "execute") /\ p = "reader"
      BY <1>8 DEF VerifyRoot, At, ReadsInput
    <2> QED
      BY <2>1, FailIsAside, EndsAside, GoesAside DEF Publishes, Before
  <1>9. CASE CallFails(p)
    BY <1>9, FailIsAside DEF CallFails
  <1> QED
    BY <1>1, <1>2, <1>3, <1>4, <1>5, <1>6, <1>7, <1>8, <1>9 DEF Quiet

LEMMA OthersAreCalm ==
  ASSUME Shape,
         \/ RunStart \/ ReaderStart \/ ReplayController
         \/ \E path \in Paths, d \in Directories \cup {Nowhere} : RivalRoot(path, d)
  PROVE  Calm
  <1>1. CASE RunStart
    <2>1. Aside("run")
      BY <1>1, GoesAside, EndsAside
         DEF RunStart, At, given, progress, disk, Processes, Publishes, Before
    <2> QED
      BY <2>1, AsideIsCalm DEF Processes
  <1>2. CASE ReaderStart
    <2>1. "reader" \in Processes /\ UNCHANGED <<file, durable, changed, selected, own>>
      BY <1>2 DEF ReaderStart, disk, given, ghosts, Processes
    <2>2. pc'["run"] = pc["run"] /\ left'["run"] = left["run"]
      <3>1. CASE named["run"] = Nowhere
        BY <1>2, <2>1, <3>1, EndEffect DEF ReaderStart, Processes
      <3>2. CASE named["run"] # Nowhere
        BY <1>2, <2>1, <3>2, GotoEffect DEF ReaderStart, Processes, Shape
      <3> QED
        BY <3>1, <3>2
    <2> QED
      BY <2>1, <2>2 DEF Calm
  <1>3. CASE ReplayController
    <2>1. UNCHANGED <<file, durable, changed, selected, own>> /\ Goto("reader", "link")
      BY <1>3 DEF ReplayController, disk, given
    <2>2. pc'["run"] = pc["run"] /\ left'["run"] = left["run"]
      BY <1>3, <2>1, GotoEffect DEF ReplayController, Processes, Shape
    <2> QED
      BY <2>1, <2>2 DEF Calm
  <1>4. CASE \E path \in Paths, d \in Directories \cup {Nowhere} : RivalRoot(path, d)
    BY <1>4 DEF RivalRoot, Calm, contents, commands
  <1> QED
    BY <1>1, <1>2, <1>3, <1>4

-----------------------------------------------------------------------------
(* Steps that change what the directories hold                             *)

LEMMA RepairControllerKeepsOrder ==
  ASSUME MarkerInv, RepairController PROVE Unborn' /\ Ordered' /\ Marked'
  <1>1. /\ pc["run"] = "execute" /\ UNCHANGED <<file, own>>
        /\ left' = [left EXCEPT !["run"] = (1 .. RunRecord) \ (IF selected' THEN {} ELSE {Members})]
        /\ Goto("run", "link")
    BY DEF RepairController, At, disk
  <1>2. pc'["run"] = "link"
    BY <1>1, GotoEffect DEF MarkerInv, Processes
  <1>3. left'["run"] = (1 .. RunRecord) \ (IF selected' THEN {} ELSE {Members})
    BY <1>1 DEF MarkerInv, Shape, Processes
  <1>4. Bundle(Ours)' \subseteq left'["run"]
    BY <1>3, SizeAssumption DEF Bundle, Ours, RunRecord
  <1>5. left'["run"] \subseteq 1 .. RunRecord /\ RunRecord \in left'["run"]
    BY <1>3, SizeAssumption DEF RunRecord
  <1>6. Marked'
    BY <1>1 DEF MarkerInv, Unborn, Marked
  <1> QED
    BY <1>2, <1>4, <1>5, <1>6 DEF Unborn, Ordered

LEMMA LinkEffect ==
  ASSUME Shape, NEW p \in Processes, own[p] \in Directories, left[p] \subseteq Files, Link(p)
  PROVE  /\ UNCHANGED <<changed, selected, own, durable>>
         /\ \A q \in Processes : q # p => UNCHANGED <<pc[q], left[q]>>
         /\ \/ pc'[p] = "end" /\ UNCHANGED file
            \/ /\ pc'[p] = "finalize" /\ UNCHANGED left
               /\ \E n \in Upcoming(left[p]) :
                     /\ file'[own[p]][n] = Payload(p)
                     /\ \A d \in Directories, m \in Files :
                           (d # own[p] \/ m # n) => file'[d][m] = file[d][m]
  <1>1. PICK n \in Upcoming(left[p]) :
          IF file[own[p]][n] # Absent THEN Fail(p, "exists")
          ELSE Show(own[p], n, Payload(p)) /\ Goto(p, "finalize") /\ UNCHANGED <<durable, own, left>>
    BY DEF Link
  <1>2. UNCHANGED <<changed, selected>> /\ n \in Files
    BY DEF Link, given, Upcoming
  <1>3. CASE file[own[p]][n] # Absent
    BY <1>1, <1>2, <1>3, FailEffect
  <1>4. CASE file[own[p]][n] = Absent
    <2>1. Show(own[p], n, Payload(p)) /\ Goto(p, "finalize") /\ UNCHANGED <<durable, own, left>>
      BY <1>1, <1>4
    <2>2. /\ file'[own[p]][n] = Payload(p)
          /\ \A d \in Directories, m \in Files :
                (d # own[p] \/ m # n) => file'[d][m] = file[d][m]
      BY <1>2, <2>1 DEF Show, Shape
    <2> QED
      BY <1>2, <2>1, <2>2, GotoEffect
  <1> QED
    BY <1>3, <1>4

\* The record is linked when nothing else is left, so its members are in place by then.
LEMMA RunLinkKeepsOrder ==
  ASSUME MarkerInv, Link("run") PROVE Unborn' /\ Ordered' /\ Marked'
  <1> DEFINE o == own["run"]
  <1>1. pc["run"] = "link"
    BY DEF Link, At
  <1>2. o \in Directories /\ left["run"] \subseteq 1 .. RunRecord /\ RunRecord \in left["run"]
    BY <1>1 DEF MarkerInv, Publishing, Ordered, Shape, Processes
  <1>3. left["run"] \subseteq Files
    BY <1>2, SizeAssumption DEF Files, RunRecord, ReplayRecord
  <1>4. /\ UNCHANGED <<changed, selected, own, durable>>
        /\ \/ pc'["run"] = "end" /\ UNCHANGED file
           \/ /\ pc'["run"] = "finalize" /\ UNCHANGED left
              /\ \E n \in Upcoming(left["run"]) :
                    /\ file'[o][n] = Ours
                    /\ \A d \in Directories, m \in Files :
                          (d # o \/ m # n) => file'[d][m] = file[d][m]
    BY <1>2, <1>3, LinkEffect DEF MarkerInv, Processes, Payload
  <1>5. Bundle(Ours)' = Bundle(Ours) /\ Bundle(Ours) \subseteq Files
    BY <1>4, BundleMembers, FileNumbers DEF Bundle
  <1>6. Unborn'
    BY <1>4 DEF Unborn
  <1>7. \A m \in Bundle(Ours) : Kept(o, m) => Kept(o, m)'
    BY <1>2, <1>4, <1>5 DEF Kept
  <1>8. Ordered'
    BY <1>1, <1>4, <1>5, <1>7 DEF MarkerInv, Ordered
  <1>9. ASSUME file'[o][RunRecord] = Ours, NEW m \in Bundle(Ours) PROVE Kept(o, m)'
    <2>1. CASE file[o][RunRecord] = Ours
      BY <1>2, <1>7, <2>1 DEF MarkerInv, Marked
    <2>2. CASE file[o][RunRecord] # Ours
      <3>1. RunRecord \in Upcoming(left["run"])
        BY <1>2, <1>4, <1>9, <2>2, FileNumbers
      <3>2. left["run"] = {RunRecord}
        BY <1>2, <3>1, SizeAssumption DEF Upcoming, RunRecord
      <3>3. Kept(o, m)
        BY <1>1, <3>2, BundleMembers, FileNumbers DEF MarkerInv, Ordered
      <3> QED
        BY <1>7, <3>3
    <2> QED
      BY <2>1, <2>2
  <1>10. Marked'
    BY <1>4, <1>5, <1>9 DEF Marked
  <1> QED
    BY <1>6, <1>8, <1>10

\* The record of a replay has a name of its own.
LEMMA ReaderLinkKeepsOrder ==
  ASSUME MarkerInv, Link("reader") PROVE Unborn' /\ Ordered' /\ Marked'
  <1>1. own["reader"] \in Directories /\ left["reader"] = {ReplayRecord}
    BY DEF Link, At, MarkerInv, Publishing, Shape, Processes
  <1>2. left["reader"] \subseteq Files
    BY <1>1, FileNumbers
  <1>3. /\ UNCHANGED <<changed, selected, own, durable, pc["run"], left["run"]>>
        /\ \A d \in Directories, m \in Files : m # ReplayRecord => file'[d][m] = file[d][m]
    BY <1>1, <1>2, LinkEffect DEF MarkerInv, Processes, Upcoming
  <1>4. Bundle(Ours)' = Bundle(Ours) /\ Bundle(Ours) \subseteq Files \ {ReplayRecord}
    BY <1>3, BundleMembers, FileNumbers DEF Bundle
  <1>5. \A d \in Directories, m \in Bundle(Ours) : Kept(d, m)' <=> Kept(d, m)
    BY <1>3, <1>4 DEF Kept
  <1>6. \A d \in Directories : file'[d][RunRecord] = file[d][RunRecord]
    BY <1>3, FileNumbers
  <1>7. Unborn' /\ Marked'
    BY <1>3, <1>4, <1>5, <1>6 DEF MarkerInv, Unborn, Marked
  <1>8. Ordered'
    <2>1. pc["run"] \in {"link", "finalize"} => own["run"] \in Directories
      BY DEF MarkerInv, Publishing, Shape, Processes
    <2> QED
      BY <1>3, <1>4, <1>5, <2>1 DEF MarkerInv, Ordered
  <1> QED
    BY <1>7, <1>8

\* The sync of a directory covers whatever it names.
LEMMA FinalizeEffect ==
  ASSUME Shape, NEW p \in Processes, own[p] \in Directories, Finalize(p)
  PROVE  /\ UNCHANGED <<changed, selected, own, file>>
         /\ \A q \in Processes : q # p => UNCHANGED <<pc[q], left[q]>>
         /\ \/ pc'[p] = "end" /\ UNCHANGED durable
            \/ /\ durable' = Synced(p)
               /\ \E n \in Upcoming(left[p]) :
                     /\ file[own[p]][n] = Payload(p)
                     /\ left'[p] = left[p] \ {n}
                     /\ pc'[p] = IF left[p] = {n} THEN "verify" ELSE "link"
  <1>1. PICK n \in Upcoming(left[p]) :
          IF file[own[p]][n] # Payload(p) THEN Fail(p, "inadmissible")
          ELSE /\ durable' = Synced(p) /\ left' = [left EXCEPT ![p] = @ \ {n}]
               /\ Goto(p, IF left[p] = {n} THEN "verify" ELSE "link")
               /\ UNCHANGED <<file, own>>
    BY DEF Finalize
  <1>2. UNCHANGED <<changed, selected>>
    BY DEF Finalize, given
  <1>3. CASE file[own[p]][n] # Payload(p)
    BY <1>1, <1>2, <1>3, FailEffect
  <1>4. CASE file[own[p]][n] = Payload(p)
    <2>1. /\ left'[p] = left[p] \ {n}
          /\ \A q \in Processes : q # p => left'[q] = left[q]
      BY <1>1, <1>4 DEF Shape
    <2> QED
      BY <1>1, <1>2, <1>4, <2>1, GotoEffect
  <1> QED
    BY <1>3, <1>4

LEMMA SyncKeeps ==
  ASSUME Shape, NEW p \in Processes, own[p] \in Directories, durable' = Synced(p),
         UNCHANGED <<file, changed>>, NEW d \in Directories, NEW m \in Files, Kept(d, m)
  PROVE  Kept(d, m)'
  <1>1. d = own[p] => durable'[d] = {n \in Files : file[d][n] # Absent}
    BY DEF Synced, Shape
  <1>2. d # own[p] => durable'[d] = durable[d]
    BY DEF Synced, Shape
  <1> QED
    BY <1>1, <1>2 DEF Kept, Ours, Absent

LEMMA RunFinalizeKeepsOrder ==
  ASSUME MarkerInv, Finalize("run") PROVE Unborn' /\ Ordered' /\ Marked'
  <1> DEFINE o == own["run"]
  <1>1. pc["run"] = "finalize"
    BY DEF Finalize, At
  <1>2. o \in Directories /\ left["run"] \subseteq 1 .. RunRecord /\ RunRecord \in left["run"]
    BY <1>1 DEF MarkerInv, Publishing, Ordered, Shape, Processes
  <1>3. /\ UNCHANGED <<changed, selected, own, file>>
        /\ \/ pc'["run"] = "end" /\ UNCHANGED durable
           \/ /\ durable' = Synced("run")
              /\ \E n \in Upcoming(left["run"]) :
                    /\ file[o][n] = Ours
                    /\ left'["run"] = left["run"] \ {n}
                    /\ pc'["run"] = IF left["run"] = {n} THEN "verify" ELSE "link"
    BY <1>2, FinalizeEffect DEF MarkerInv, Processes, Payload
  <1>4. Bundle(Ours)' = Bundle(Ours) /\ Bundle(Ours) \subseteq Files
    BY <1>3, BundleMembers, FileNumbers DEF Bundle
  <1>5. \A m \in Bundle(Ours) : Kept(o, m) => Kept(o, m)'
    BY <1>2, <1>3, <1>4, SyncKeeps DEF MarkerInv, Kept, Processes
  <1>6. Unborn' /\ Marked'
    BY <1>2, <1>3, <1>4, <1>5 DEF MarkerInv, Unborn, Marked
  <1>7. ASSUME pc'["run"] \in {"link", "finalize"}
        PROVE  /\ left'["run"] \subseteq 1 .. RunRecord /\ RunRecord \in left'["run"]
               /\ \A m \in Bundle(Ours) \ left'["run"] : Kept(o, m)'
    <2>1. PICK n \in Upcoming(left["run"]) :
            /\ file[o][n] = Ours /\ durable' = Synced("run")
            /\ left'["run"] = left["run"] \ {n} /\ left["run"] # {n}
      BY <1>3, <1>7
    <2>2. n # RunRecord
      BY <1>2, <2>1, SizeAssumption DEF Upcoming, RunRecord
    <2>3. n \in Files
      BY <1>2, SizeAssumption DEF Upcoming, Files, RunRecord, ReplayRecord
    <2>4. Kept(o, n)'
      <3>1. durable'[o] = {k \in Files : file[o][k] # Absent}
        BY <1>2, <2>1 DEF MarkerInv, Synced, Shape
      <3> QED
        BY <1>3, <2>1, <2>3, <3>1 DEF Kept, Ours, Absent
    <2>5. \A m \in Bundle(Ours) \ left["run"] : Kept(o, m)'
      BY <1>1, <1>5 DEF MarkerInv, Ordered
    <2> QED
      BY <1>2, <2>1, <2>2, <2>4, <2>5
  <1>8. Ordered'
    BY <1>3, <1>4, <1>7 DEF Ordered
  <1> QED
    BY <1>6, <1>8

LEMMA ReaderFinalizeKeepsOrder ==
  ASSUME MarkerInv, Finalize("reader") PROVE Unborn' /\ Ordered' /\ Marked'
  <1>1. own["reader"] \in Directories
    BY DEF Finalize, At, MarkerInv, Publishing, Shape, Processes
  <1>2. /\ UNCHANGED <<changed, selected, own, file, pc["run"], left["run"]>>
        /\ UNCHANGED durable \/ durable' = Synced("reader")
    BY <1>1, FinalizeEffect DEF MarkerInv, Processes
  <1>3. Bundle(Ours)' = Bundle(Ours) /\ Bundle(Ours) \subseteq Files
    BY <1>2, BundleMembers, FileNumbers DEF Bundle
  <1>4. \A d \in Directories, m \in Bundle(Ours) : Kept(d, m) => Kept(d, m)'
    BY <1>1, <1>2, <1>3, SyncKeeps DEF MarkerInv, Kept, Processes
  <1>5. Unborn' /\ Marked'
    BY <1>2, <1>3, <1>4 DEF MarkerInv, Unborn, Marked
  <1>6. Ordered'
    <2>1. pc["run"] \in {"link", "finalize"} => own["run"] \in Directories
      BY DEF MarkerInv, Publishing, Shape, Processes
    <2> QED
      BY <1>2, <1>3, <1>4, <2>1 DEF MarkerInv, Ordered
  <1> QED
    BY <1>5, <1>6

LEMMA RivalFileKeepsOrder ==
  ASSUME MarkerInv, NEW e \in Directories, NEW k \in Files, NEW b \in {Absent, Theirs, Junk},
         RivalFile(e, k, b)
  PROVE  Unborn' /\ Ordered' /\ Marked'
  <1>1. /\ UNCHANGED <<pc, left, own, selected>> /\ changed' = changed \cup {<<e, k>>}
        /\ file' = [file EXCEPT ![e][k] = b]
        /\ durable' = [durable EXCEPT ![e] = @ \ {k}]
    BY DEF RivalFile, Show, commands
  <1>2. /\ file'[e][k] = b /\ b # Ours
        /\ \A d \in Directories, m \in Files : (d # e \/ m # k) => file'[d][m] = file[d][m]
    BY <1>1 DEF MarkerInv, Shape, Ours, Theirs, Junk, Absent
  <1>3. \A d \in Directories, m \in Files :
           (d # e \/ m # k) => (m \in durable'[d] <=> m \in durable[d])
    BY <1>1 DEF MarkerInv, Shape
  <1>4. Bundle(Ours)' = Bundle(Ours) /\ Bundle(Ours) \subseteq Files
    BY <1>1, BundleMembers, FileNumbers DEF Bundle
  <1>5. \A d \in Directories, m \in Bundle(Ours) : Kept(d, m) => Kept(d, m)'
    BY <1>1, <1>2, <1>3, <1>4 DEF Kept
  <1>6. \A d \in Directories : file'[d][RunRecord] = Ours => file[d][RunRecord] = Ours
    BY <1>2, FileNumbers
  <1>7. Unborn' /\ Marked'
    BY <1>1, <1>4, <1>5, <1>6 DEF MarkerInv, Unborn, Marked
  <1>8. Ordered'
    <2>1. pc["run"] \in {"link", "finalize"} => own["run"] \in Directories
      BY DEF MarkerInv, Publishing, Shape, Processes
    <2> QED
      BY <1>1, <1>4, <1>5, <2>1 DEF MarkerInv, Ordered
  <1> QED
    BY <1>7, <1>8

\* A member whose entry was synced is not lost with the power.
LEMMA PowerLossKeepsOrder ==
  ASSUME MarkerInv, PowerLoss PROVE Unborn' /\ Ordered' /\ Marked'
  <1>1. PICK lost \in [{"run", "replay"} -> SUBSET Files] :
          /\ \A d \in {"run", "replay"} :
                lost[d] \subseteq {n \in Files : file[d][n] # Absent} \ durable[d]
          /\ file' = [d \in Directories |->
                         IF d = "foreign" THEN file[d]
                         ELSE [n \in Files |-> IF n \in lost[d] THEN Absent ELSE file[d][n]]]
    BY DEF PowerLoss
  <1>2. pc'["run"] = "end" /\ UNCHANGED <<durable, changed, selected, own>>
    BY DEF PowerLoss, given, Processes
  <1>3. \A d \in Directories, m \in Files :
           /\ file'[d][m] = Ours => file[d][m] = Ours
           /\ m \in durable[d] => file'[d][m] = file[d][m]
    <2> SUFFICES ASSUME NEW d \in Directories, NEW m \in Files
                 PROVE  /\ file'[d][m] = Ours => file[d][m] = Ours
                        /\ m \in durable[d] => file'[d][m] = file[d][m]
      OBVIOUS
    <2>1. CASE d = "foreign"
      BY <1>1, <2>1
    <2>2. CASE d # "foreign"
      <3>1. d \in {"run", "replay"}
        BY <2>2 DEF Directories
      <3>2. file'[d][m] = IF m \in lost[d] THEN Absent ELSE file[d][m]
        BY <1>1, <2>2
      <3> QED
        BY <1>1, <3>1, <3>2 DEF Ours, Absent
    <2> QED
      BY <2>1, <2>2
  <1>4. Bundle(Ours)' = Bundle(Ours) /\ Bundle(Ours) \subseteq Files
    BY <1>2, BundleMembers, FileNumbers DEF Bundle
  <1>5. \A d \in Directories, m \in Bundle(Ours) : Kept(d, m) => Kept(d, m)'
    BY <1>2, <1>3, <1>4 DEF Kept
  <1>6. \A d \in Directories : file'[d][RunRecord] = Ours => file[d][RunRecord] = Ours
    BY <1>3, FileNumbers
  <1>7. Marked'
    BY <1>2, <1>4, <1>5, <1>6 DEF MarkerInv, Marked
  <1> QED
    BY <1>2, <1>7 DEF Unborn, Ordered

-----------------------------------------------------------------------------
(* Who publishes, and the shape of the state                               *)

LEMMA PublishingInductive ==
  ASSUME MarkerInv, Next PROVE Publishing'
  <1> USE DEF Processes
  <1>0. Shape /\ Publishing
    BY DEF MarkerInv
  <1>1. CASE RunStart \/ ReaderStart
    <2>1. UNCHANGED own
      BY <1>1 DEF RunStart, ReaderStart, progress
    <2>2. CASE RunStart
      <3>1. UNCHANGED left /\ \A q \in Processes : pc'[q] = pc[q] \/ pc'[q] \in {"absent", "end"}
        BY <1>0, <2>2, GotoEffect, EndEffect DEF RunStart, progress
      <3> QED
        BY <1>0, <2>1, <3>1 DEF Publishing
    <2>3. CASE ReaderStart
      <3>1. pc'["run"] = pc["run"] /\ pc'["reader"] \in {"record", "end"}
        BY <1>0, <2>3, GotoEffect, EndEffect DEF ReaderStart
      <3> QED
        BY <1>0, <2>1, <3>1 DEF Publishing
    <2> QED
      BY <1>1, <2>2, <2>3
  <1>2. CASE RepairController
    <2>1. UNCHANGED own /\ Goto("run", "link") /\ pc["run"] = "execute"
      BY <1>2 DEF RepairController, At
    <2>2. left'["reader"] = left["reader"]
      BY <1>0, <1>2 DEF RepairController, Shape
    <2> QED
      BY <1>0, <2>1, <2>2, GotoEffect DEF Publishing
  <1>3. CASE ReplayController
    <2>1. UNCHANGED own /\ Goto("reader", "link") /\ pc["reader"] = "execute"
      BY <1>3 DEF ReplayController, At
    <2>2. left'["reader"] = {ReplayRecord}
      BY <1>0, <1>3 DEF ReplayController, Shape
    <2> QED
      BY <1>0, <2>1, <2>2, GotoEffect DEF Publishing
  <1>4. ASSUME NEW p \in Processes, Quiet(p) PROVE Publishing'
    <2>1. Aside(p)
      BY <1>0, <1>4, QuietIsAside
    <2>2. pc'[p] = "execute" => own'[p] # Nowhere
      <3>1. CASE Bind(p)
        <4>1. CASE named[Output(p)] = Nowhere
          BY <1>0, <3>1, <4>1, FailEffect DEF Bind
        <4>2. CASE named[Output(p)] # Nowhere
          BY <1>0, <3>1, <4>2 DEF Bind, Shape
        <4> QED
          BY <4>1, <4>2
      <3>2. CASE VerifyRoot(p)
        <4>1. CASE ~SameRoot(p)
          BY <1>0, <3>2, <4>1, FailEffect DEF VerifyRoot
        <4>2. CASE SameRoot(p)
          <5>1. /\ UNCHANGED own
                /\ \/ \E how : End(p, how)
                   \/ own[p] # Nowhere
                   \/ Goto(p, "absent")
            BY <3>2, <4>2 DEF VerifyRoot
          <5> QED
            BY <1>0, <5>1, EndEffect, GotoEffect
        <4> QED
          BY <4>1, <4>2
      <3>3. CASE DestinationAbsent(p) \/ MakeDirectory(p) \/ Unpublished(p) \/ Verify(p) \/ CallFails(p)
        BY <1>0, <3>3, GotoEffect, EndEffect, FailEffect
           DEF DestinationAbsent, MakeDirectory, Unpublished, Verify, CallFails
      <3>4. CASE Open(p)
        <4>1. pc[p] \in Reading /\ (Fail(p, "missing") \/ UNCHANGED pc)
          BY <3>4 DEF Open
        <4> QED
          BY <1>0, <4>1, FailEffect DEF Reading
      <3>5. CASE Read(p)
        <4>1. pc[p] \in Reading \ {"root"}
              /\ (Fail(p, "inadmissible") \/ \E n, b : Goto(p, Upon(p, n, b)[1]))
          BY <3>5 DEF Read
        <4>2. \A n, b : Upon(p, n, b)[1] \in Reading
          BY <4>1 DEF Upon, Reading
        <4> QED
          BY <1>0, <4>1, <4>2, FailEffect, GotoEffect DEF Reading
      <3> QED
        BY <1>4, <3>1, <3>2, <3>3, <3>4, <3>5 DEF Quiet
    <2> QED
      BY <1>0, <2>1, <2>2 DEF Publishing, Aside, Publishes
  <1>5. ASSUME NEW p \in Processes, Link(p) PROVE Publishing'
    <2>1. pc[p] = "link" /\ own[p] \in Directories /\ left[p] \subseteq Files
      BY <1>5, FileNumbers, SizeAssumption
         DEF MarkerInv, Link, At, Publishing, Ordered, Shape, Files, RunRecord, ReplayRecord
    <2> QED
      BY <1>0, <1>5, <2>1, LinkEffect DEF Publishing
  <1>6. ASSUME NEW p \in Processes, Finalize(p) PROVE Publishing'
    <2>1. pc[p] = "finalize" /\ own[p] \in Directories
      BY <1>0, <1>6 DEF Finalize, At, Publishing, Shape
    <2>2. p = "reader" => (pc'[p] \in {"end", "verify"})
      BY <1>0, <1>6, <2>1, FinalizeEffect DEF Publishing, Upcoming
    <2> QED
      BY <1>0, <1>6, <2>1, <2>2, FinalizeEffect DEF Publishing
  <1>7. CASE \E d \in Directories, k \in Files, b \in {Absent, Theirs, Junk} : RivalFile(d, k, b)
    BY <1>0, <1>7 DEF RivalFile, commands, Publishing
  <1>8. CASE \E path \in Paths, d \in Directories \cup {Nowhere} : RivalRoot(path, d)
    BY <1>0, <1>8 DEF RivalRoot, commands, Publishing
  <1>9. CASE PowerLoss
    BY <1>9 DEF PowerLoss, Publishing
  <1> QED
    BY <1>1, <1>2, <1>3, <1>4, <1>5, <1>6, <1>7, <1>8, <1>9 DEF Next, Step, Quiet

LEMMA ShapeInductive ==
  ASSUME Shape, Next PROVE Shape'
  <1> USE DEF given, progress, contents, commands, disk, ghosts, counters, Goto, End
  <1>1. CASE RunStart
    BY <1>1 DEF RunStart, Shape
  <1>2. CASE ReaderStart
    BY <1>2 DEF ReaderStart, Shape
  <1>3. CASE RepairController \/ ReplayController
    BY <1>3 DEF RepairController, ReplayController, Shape
  <1>4. ASSUME NEW p \in Processes, NEW cause, Fail(p, cause), UNCHANGED <<named, rival>>
        PROVE  Shape'
    BY <1>4 DEF Fail, Forget, Shape
  <1>5. ASSUME NEW p \in Processes, Quiet(p) PROVE Shape'
    <2>1. CASE DestinationAbsent(p) \/ Unpublished(p)
      BY <2>1 DEF DestinationAbsent, Unpublished, Shape
    <2>2. CASE MakeDirectory(p)
      <3>1. CASE named[Output(p)] = Nowhere
        BY <2>2, <3>1 DEF MakeDirectory, Output, Directories, Shape
      <3>2. CASE named[Output(p)] # Nowhere
        BY <1>4, <2>2, <3>2 DEF MakeDirectory
      <3> QED
        BY <3>1, <3>2
    <2>3. CASE Bind(p)
      <3>1. CASE named[Output(p)] = Nowhere
        BY <1>4, <2>3, <3>1 DEF Bind
      <3>2. CASE named[Output(p)] # Nowhere
        <4>1. named[Output(p)] \in Directories
          BY <3>2 DEF Output, Paths, Shape
        <4>2. /\ UNCHANGED <<file, durable, named, rival>>
              /\ own' = [own EXCEPT ![p] = named[Output(p)]]
              /\ \E l : pc' = [pc EXCEPT ![p] = l]
              /\ \E S : left' = [left EXCEPT ![p] = S]
          BY <2>3, <3>2 DEF Bind
        <4> QED
          BY <4>1, <4>2 DEF Shape
      <3> QED
        BY <3>1, <3>2
    <2>4. CASE Verify(p)
      <3>1. CASE \E n \in linked[p] : file[own[p]][n] # Payload(p)
        BY <1>4, <2>4, <3>1 DEF Verify
      <3>2. CASE ~(\E n \in linked[p] : file[own[p]][n] # Payload(p))
        BY <2>4, <3>2 DEF Verify, Shape
      <3> QED
        BY <3>1, <3>2
    <2>5. CASE Open(p)
      <3>1. /\ UNCHANGED <<named, rival>>
            /\ Fail(p, "missing") \/ UNCHANGED <<file, durable, pc, own, left>>
        BY <2>5 DEF Open
      <3>2. CASE UNCHANGED <<file, durable, pc, own, left>>
        BY <3>1, <3>2 DEF Shape
      <3> QED
        BY <1>4, <3>1, <3>2
    <2>6. CASE Read(p)
      <3>1. /\ UNCHANGED <<named, rival>>
            /\ \/ Fail(p, "inadmissible")
               \/ /\ UNCHANGED <<file, durable, own>>
                  /\ \E l : pc' = [pc EXCEPT ![p] = l]
                  /\ \E S : left' = [left EXCEPT ![p] = S]
        BY <2>6 DEF Read
      <3>2. CASE ~Fail(p, "inadmissible")
        BY <3>1, <3>2 DEF Shape
      <3> QED
        BY <1>4, <3>1, <3>2
    <2>7. CASE VerifyRoot(p)
      <3>1. /\ UNCHANGED <<named, rival>>
            /\ \/ \E cause : Fail(p, cause)
               \/ /\ UNCHANGED <<file, durable, own, left>>
                  /\ \E l : pc' = [pc EXCEPT ![p] = l]
        BY <2>7 DEF VerifyRoot
      <3>2. CASE ~\E cause : Fail(p, cause)
        BY <3>1, <3>2 DEF Shape
      <3> QED
        BY <1>4, <3>1, <3>2
    <2>8. CASE CallFails(p)
      BY <1>4, <2>8 DEF CallFails
    <2> QED
      BY <1>5, <2>1, <2>2, <2>3, <2>4, <2>5, <2>6, <2>7, <2>8 DEF Quiet
  <1>6. ASSUME NEW p \in Processes, Link(p) PROVE Shape'
    <2>1. PICK n : IF file[own[p]][n] # Absent THEN Fail(p, "exists")
                   ELSE /\ file' = [file EXCEPT ![own[p]][n] = Payload(p)]
                        /\ UNCHANGED <<durable, own, left>> /\ Goto(p, "finalize")
      BY <1>6 DEF Link, Show
    <2>2. UNCHANGED <<named, rival>>
      BY <1>6 DEF Link
    <2>3. CASE file[own[p]][n] = Absent
      <3>1. /\ file' = [file EXCEPT ![own[p]][n] = Payload(p)]
            /\ pc' = [pc EXCEPT ![p] = "finalize"]
            /\ UNCHANGED <<durable, own, left, named, rival>>
        BY <2>1, <2>2, <2>3 DEF Goto
      <3>2. /\ file' = [e \in Directories |-> file'[e]]
            /\ \A e \in Directories : file'[e] = [m \in Files |-> file'[e][m]]
        BY <3>1 DEF Shape
      <3>3. pc' = [q \in Processes |-> pc'[q]]
        BY <3>1 DEF Shape
      <3>4. UNCHANGED <<durable, own, left, named, rival>>
        BY <3>1
      <3> QED
        BY <3>2, <3>3, <3>4, Zenon DEF Shape
    <2> QED
      BY <1>4, <2>1, <2>2, <2>3
  <1>7. ASSUME NEW p \in Processes, Finalize(p) PROVE Shape'
    <2>1. PICK n : IF file[own[p]][n] # Payload(p) THEN Fail(p, "inadmissible")
                   ELSE /\ durable' = Synced(p) /\ UNCHANGED <<file, own>>
                        /\ \E S, l : left' = [left EXCEPT ![p] = S] /\ Goto(p, l)
      BY <1>7 DEF Finalize
    <2>2. UNCHANGED <<named, rival>>
      BY <1>7 DEF Finalize
    <2>3. CASE file[own[p]][n] = Payload(p)
      <3> DEFINE S == {m \in Files : file[own[p]][m] # Absent}
      <3>1. S \in SUBSET Files /\ durable' = [durable EXCEPT ![own[p]] = S]
        BY <2>1, <2>3 DEF Synced
      <3>2. PICK T, l : left' = [left EXCEPT ![p] = T] /\ pc' = [pc EXCEPT ![p] = l]
        BY <2>1, <2>3
      <3> HIDE DEF S
      <3>3. durable' \in [Directories -> SUBSET Files]
        BY <3>1 DEF Shape
      <3>4. pc' = [q \in Processes |-> pc'[q]] /\ left' = [q \in Processes |-> left'[q]]
        BY <3>2 DEF Shape
      <3>5. UNCHANGED <<file, own, named, rival>>
        BY <2>1, <2>2, <2>3
      <3> QED
        BY <3>3, <3>4, <3>5 DEF Shape
    <2> QED
      BY <1>4, <2>1, <2>2, <2>3
  <1>8. ASSUME NEW d \in Directories, NEW k \in Files, NEW b, RivalFile(d, k, b) PROVE Shape'
    <2>1. /\ file' = [file EXCEPT ![d][k] = b]
          /\ durable' = [durable EXCEPT ![d] = @ \ {k}]
          /\ UNCHANGED <<named, own, pc, left>> /\ rival' = rival + 1
      BY <1>8 DEF RivalFile, Meddle, Show
    <2>2. durable' \in [Directories -> SUBSET Files]
      BY <2>1 DEF Shape
    <2>3. /\ file' = [e \in Directories |-> file'[e]]
          /\ \A e \in Directories : file'[e] = [n \in Files |-> file'[e][n]]
      BY <2>1 DEF Shape
    <2>4. rival' \in Nat
      BY <2>1 DEF Shape
    <2>5. UNCHANGED <<named, own, pc, left>>
      BY <2>1
    <2> QED
      BY <2>2, <2>3, <2>4, <2>5, Zenon DEF Shape
  <1>9. ASSUME NEW path \in Paths, NEW d \in Directories \cup {Nowhere}, RivalRoot(path, d)
        PROVE  Shape'
    BY <1>9 DEF RivalRoot, Meddle, Shape
  <1>10. CASE PowerLoss
    BY <1>10 DEF PowerLoss, Forget, Shape
  <1> QED
    BY <1>1, <1>2, <1>3, <1>5, <1>6, <1>7, <1>8, <1>9, <1>10 DEF Next, Step, Quiet

-----------------------------------------------------------------------------
LEMMA MarkerInvInductive == MarkerInv /\ [Next]_vars => MarkerInv'
  <1> SUFFICES ASSUME MarkerInv, Next \/ UNCHANGED vars PROVE MarkerInv'
    OBVIOUS
  <1>1. CASE Next
    <2>1. Shape' /\ Publishing'
      BY <1>1, ShapeInductive, PublishingInductive DEF MarkerInv
    <2>2. Unborn' /\ Ordered' /\ Marked'
      <3>1. ASSUME NEW p \in Processes, Quiet(p) PROVE Unborn' /\ Ordered' /\ Marked'
        BY <3>1, QuietIsAside, AsideIsCalm, CalmKeepsOrder DEF MarkerInv
      <3>2. ASSUME NEW p \in Processes, Link(p) \/ Finalize(p) PROVE Unborn' /\ Ordered' /\ Marked'
        BY <3>2, RunLinkKeepsOrder, ReaderLinkKeepsOrder, RunFinalizeKeepsOrder,
           ReaderFinalizeKeepsOrder DEF Processes
      <3>3. CASE RunStart \/ ReaderStart \/ ReplayController
                 \/ \E path \in Paths, d \in Directories \cup {Nowhere} : RivalRoot(path, d)
        BY <3>3, OthersAreCalm, CalmKeepsOrder DEF MarkerInv
      <3> QED
        BY <1>1, <3>1, <3>2, <3>3, RepairControllerKeepsOrder, RivalFileKeepsOrder,
           PowerLossKeepsOrder DEF Next, Step, Quiet
    <2> QED
      BY <2>1, <2>2 DEF MarkerInv
  <1>2. CASE UNCHANGED vars
    <2>1. UNCHANGED <<file, durable, named, own, pc, left, rival, changed, selected>>
      BY <1>2 DEF vars, disk, commands, ghosts, counters
    <2>2. Shape' /\ Publishing' /\ Unborn'
      BY <2>1 DEF MarkerInv, Shape, Publishing, Unborn
    <2>3. \A d, m : Kept(d, m)' <=> Kept(d, m)
      BY <2>1 DEF Kept
    <2>4. Bundle(Ours)' = Bundle(Ours)
      BY <2>1 DEF Bundle
    <2>5. Ordered' /\ Marked'
      BY <2>1, <2>3, <2>4 DEF MarkerInv, Ordered, Marked
    <2> QED
      BY <2>2, <2>5 DEF MarkerInv
  <1> QED
    BY <1>1, <1>2

LEMMA InitMarkerInv == Init => MarkerInv
  <1> SUFFICES ASSUME Init PROVE MarkerInv
    OBVIOUS
  <1>1. Shape
    BY DEF Init, Shape
  <1>2. \A d \in Directories : file[d][RunRecord] # Ours
    <2>1. \E b \in {Absent, Theirs} :
            file = [d \in Directories |-> [n \in Files |-> IF d = "foreign" THEN b ELSE Absent]]
      BY DEF Init
    <2> QED
      BY <2>1, FileNumbers DEF Absent, Ours, Theirs
  <1>3. pc["run"] = "start" /\ pc["reader"] = "start"
    BY DEF Init, Processes
  <1> QED
    BY <1>1, <1>2, <1>3 DEF MarkerInv, Publishing, Unborn, Ordered, Marked

\* Whatever the number of members, whoever interferes and whenever the power is lost: where the
\* record of a run can be seen, every member it declares is there unless somebody else changed it
\* (_publish of repair/_files.py).
THEOREM MarkerComesLast == Spec => []RecordComesLast
  <1>1. MarkerInv => RecordComesLast
    <2> SUFFICES ASSUME MarkerInv PROVE RecordComesLast
      OBVIOUS
    <2>1. own["run"] # Nowhere => own["run"] \in Directories
      BY DEF MarkerInv, Shape, Processes
    <2> QED
      BY <2>1 DEF MarkerInv, Marked, Kept, RecordComesLast
  <1> QED
    BY <1>1, InitMarkerInv, MarkerInvInductive, PTL DEF Spec

\* A publisher adds a name that was not there.
LEMMA LinkAdds ==
  ASSUME MarkerInv, NEW p \in Processes, Link(p), NEW d \in Directories, NEW n \in Files,
         file[d][n] # Absent
  PROVE  file'[d][n] = file[d][n]
  <1>1. pc[p] = "link"
    BY DEF Link, At
  <1>2. own[p] \in Directories /\ left[p] \subseteq Files
    <2>1. CASE p = "run"
      <3>1. own[p] \in Directories /\ left[p] \subseteq 1 .. RunRecord
        BY <1>1, <2>1 DEF MarkerInv, Publishing, Ordered, Shape
      <3> QED
        BY <3>1, SizeAssumption DEF Files, RunRecord, ReplayRecord
    <2>2. CASE p = "reader"
      <3>1. own[p] \in Directories /\ left[p] = {ReplayRecord}
        BY <1>1, <2>2 DEF MarkerInv, Publishing, Shape
      <3> QED
        BY <3>1, FileNumbers
    <2> QED
      BY <2>1, <2>2 DEF Processes
  <1>3. PICK k \in Upcoming(left[p]) :
          IF file[own[p]][k] # Absent THEN Fail(p, "exists") ELSE Show(own[p], k, Payload(p))
    BY DEF Link
  <1>4. k \in Files
    BY <1>2 DEF Upcoming
  <1>5. CASE file[own[p]][k] # Absent
    BY <1>3, <1>5 DEF Fail
  <1>6. CASE file[own[p]][k] = Absent
    <2>1. \A e \in Directories, m \in Files :
            (e # own[p] \/ m # k) => file'[e][m] = file[e][m]
      BY <1>2, <1>3, <1>4, <1>6 DEF Show, Shape, MarkerInv
    <2> QED
      BY <1>6, <2>1
  <1> QED
    BY <1>5, <1>6

\* No command ever replaces or removes an entry of any directory, whatever fails.
THEOREM NothingIsReplaced == Spec => NeverClobbers
  <1> DEFINE Entry(d, n) == file[d][n] # Absent /\ file'[d][n] # file[d][n]
  <1>1. ASSUME MarkerInv, Next, NEW d \in Directories, NEW n \in Files, Entry(d, n)
        PROVE  rival' # rival \/ stopped'
    <2> Shape
      BY <1>1 DEF MarkerInv
    <2>1. CASE \E e \in Directories, k \in Files, b \in {Absent, Theirs, Junk} : RivalFile(e, k, b)
      BY <1>1, <2>1 DEF RivalFile, Meddle, Shape
    <2>2. CASE PowerLoss
      BY <2>2 DEF PowerLoss
    <2>3. ASSUME NEW p \in Processes, Link(p) PROVE FALSE
      BY <1>1, <2>3, LinkAdds
    <2>4. ASSUME NEW p \in Processes, Finalize(p) PROVE FALSE
      BY <1>1, <2>4 DEF Finalize, Fail
    <2>5. ASSUME NEW p \in Processes, Quiet(p) PROVE FALSE
      BY <1>1, <2>5, QuietIsAside DEF Aside
    <2>6. CASE RunStart \/ ReaderStart \/ ReplayController \/ RepairController
               \/ \E path \in Paths, e \in Directories \cup {Nowhere} : RivalRoot(path, e)
      BY <1>1, <2>6
         DEF RunStart, ReaderStart, ReplayController, RepairController, RivalRoot, disk, contents
    <2> QED
      BY <1>1, <2>1, <2>2, <2>3, <2>4, <2>5, <2>6 DEF Next, Step, Quiet
  <1>2. MarkerInv /\ [Next]_vars =>
          [\A d \in Directories, n \in Files : Entry(d, n) => (rival' # rival \/ stopped')]_vars
    BY <1>1
  <1> QED
    BY <1>2, InitMarkerInv, MarkerInvInductive, PTL DEF Spec, NeverClobbers

-----------------------------------------------------------------------------
(* The bundle a reader gathers.  What a process remembers, while the       *)
(* machine runs:                                                           *)

Memory ==
    /\ got = [p \in Processes |-> got[p]]
    /\ \A p \in Processes : got[p] = [n \in Files |-> got[p][n]]
    /\ opened = [p \in Processes |-> opened[p]]
    /\ verdict = [p \in Processes |-> verdict[p]]
    /\ linked = [p \in Processes |-> linked[p]]
    /\ unseen = [p \in Processes |-> unseen[p]]
    /\ settled = [d \in Directories |-> settled[d]]
    /\ rival \in Nat /\ faults \in Nat

\* A reader between two verifications of its input.
Calls == {"absent", "mkdir", "bind", "execute"}

\* Where a process is, it knows the directory it works on.
Placed(p) ==
    /\ pc[p] \in {"execute", "link", "finalize", "verify"} => own[p] \in Directories
    /\ pc[p] \in Reading \/ verdict[p] = "done" => Place(p) \in Directories
    /\ pc[p] # "end" => verdict[p] = "running"

\* A replay evaluates once, between its input and its publication.
Replaying ==
    /\ pc["reader"] \in Calls => source \in Directories
    /\ pc["reader"] \in {"start"} \cup Calls => bound = Absent
    /\ pc["reader"] \in {"link", "finalize", "verify"} => bound # Absent
    /\ bound # Absent => own["reader"] \in Directories

\* What remains to be read in a pass, and what the others were.
Gathered(p) ==
    LET r == RecordOf(p) b == got[p][r] IN
    /\ opened[p] # Unopened => opened[p][1] # Absent
    /\ pc[p] = "record" => left[p] = {r}
    /\ pc[p] = "members" =>
          /\ left[p] \subseteq Declared(p, b) /\ left[p] # {} /\ b # Absent
          /\ \A m \in Declared(p, b) \ left[p] : got[p][m] = b
    /\ pc[p] = "again" => left[p] \subseteq Declared(p, b) \cup {r} /\ left[p] # {}
    /\ pc[p] \in {"again", "root"} \/ verdict[p] = "done" =>
          b # Absent /\ \A m \in Declared(p, b) : got[p][m] = b

\* The bytes verified are those on disk, unless somebody else came after that.
OnDisk(p, n) == file[Place(p)][n] = got[p][n] \/ n \in unseen[p]
Known(p) == Declared(p, got[p][RecordOf(p)]) \cup {RecordOf(p)}
Verified(p) ==
    /\ pc[p] = "again" => \A n \in Known(p) \ left[p] : OnDisk(p, n)
    /\ pc[p] = "root" \/ verdict[p] = "done" => \A n \in Known(p) : OnDisk(p, n)
    /\ verdict[p] = "done" => named[Path(p)] = Place(p) \/ Root \in unseen[p]

\* What a replay evaluated, and the record it published of that.
Evaluated ==
    LET b == got["reader"][RunRecord] IN
    /\ pc["reader"] \in Calls => b # Absent
    /\ pc["reader"] \in Calls \/ bound # Absent => \A m \in Bundle(b) : got["reader"][m] = b
    /\ bound # Absent => bound = b
    /\ linked["reader"] \subseteq {ReplayRecord}
    /\ linked["reader"] # {} => bound # Absent
    /\ \A n \in linked["reader"] :
          file[own["reader"]][n] = b \/ <<own["reader"], n>> \in changed

\* Nobody has bytes of the run before it publishes.
UnseenYet ==
    pc["run"] \in Before =>
        /\ \A d \in Directories, n \in Files : file[d][n] # Ours
        /\ \A n \in Files : got["reader"][n] # Ours
        /\ opened["reader"][1] # Ours /\ bound # Ours

\* A stop takes the memory of every process.
Gone == got = [p \in Processes |-> Nothing] /\ bound = Absent /\ \A p \in Processes : pc[p] = "end"

Held(p) == Placed(p) /\ Gathered(p) /\ Verified(p)
Holds == Replaying /\ Evaluated /\ \A p \in Processes : Held(p)
BundleInv ==
    /\ MarkerInv /\ Memory /\ UnseenYet
    /\ ~stopped => Holds
    /\ stopped => Gone

LEMMA BundleInvInit == Init => BundleInv
  <1> SUFFICES ASSUME Init PROVE BundleInv
    OBVIOUS
  <1>1. MarkerInv
    BY InitMarkerInv
  <1>2. Memory
    BY DEF Init, Memory, Nothing
  <1>3. \A d \in Directories, n \in Files : file[d][n] # Ours
    <2>1. \E b \in {Absent, Theirs} :
            file = [d \in Directories |-> [n \in Files |-> IF d = "foreign" THEN b ELSE Absent]]
      BY DEF Init
    <2> QED
      BY <2>1 DEF Absent, Ours, Theirs
  <1>4. UnseenYet
    BY <1>3 DEF Init, UnseenYet, Nothing, Absent, Ours, Unopened, Junk, Processes
  <1>5. /\ bound = Absent /\ ~stopped
        /\ \A p \in Processes : /\ pc[p] = "start" /\ verdict[p] = "running" /\ linked[p] = {}
                                /\ opened[p] = Unopened
    BY DEF Init
  <1>6. Replaying /\ Evaluated
    BY <1>5 DEF Replaying, Evaluated, Calls, Processes
  <1>7. \A p \in Processes : Held(p)
    BY <1>5 DEF Held, Placed, Gathered, Verified, Reading
  <1> QED
    BY <1>1, <1>2, <1>4, <1>5, <1>6, <1>7 DEF BundleInv, Holds

-----------------------------------------------------------------------------
(* What steps have in common                                               *)

LEMMA LeastIsLeft == ASSUME NEW S \in SUBSET Files, S # {} PROVE Min(S) \in S
  <1>1. S \subseteq Nat
    BY SizeAssumption DEF Files, ReplayRecord
  <1>2. PICK x \in S : \A y \in S : ~(<<y, x>> \in OpToRel(<, Nat))
    BY <1>1, WFMin, NatLessThanWellFounded
  <1>3. \A y \in S : x <= y
    <2> SUFFICES ASSUME NEW y \in S PROVE x <= y
      OBVIOUS
    <2>1. ~(y < x)
      BY <1>1, <1>2 DEF OpToRel
    <2> QED
      BY <1>1, <2>1
  <1> QED
    BY <1>3 DEF Min

\* A step of another process.
Idle(q) ==
    /\ UNCHANGED <<pc[q], verdict[q], got[q], opened[q], left[q], own[q], linked[q], unseen[q]>>
    /\ q = "reader" => UNCHANGED <<source, bound>>

\* No process takes anything away.
Grows ==
    /\ \A d \in Directories, n \in Files : file[d][n] # Absent =>
          file'[d][n] = file[d][n] /\ (n \in settled[d] => n \in settled'[d])
    /\ \A x \in Paths : named[x] # Nowhere => named'[x] = named[x]
    /\ UNCHANGED <<changed, replays, stopped, rival>>
    /\ selected' = selected \/ pc["run"] = "execute"

\* A process gives up, ...
Gives(p) ==
    /\ UNCHANGED <<named, file, settled, source, bound, selected, got, own, linked, unseen, early,
                   replays, changed, stopped, rival>>
    /\ pc'[p] = "end" /\ verdict'[p] \in {"refused", "error", "unpublished"}
    /\ opened'[p] \in {Unopened, opened[p]}
    /\ \A q \in Processes \ {p} : Idle(q)
\* ... or takes a step.
Takes(p, l) ==
    /\ pc'[p] = l /\ verdict'[p] = verdict[p]
    /\ \A q \in Processes \ {p} : Idle(q)

LEMMA FailGives ==
  ASSUME Shape, Memory, NEW p \in Processes, NEW cause, Fail(p, cause),
         UNCHANGED <<named, source, bound, selected, replays, changed, stopped, rival>>
  PROVE  Gives(p)
  <1>1. /\ pc' = [pc EXCEPT ![p] = "end"] /\ verdict' = [verdict EXCEPT ![p] = Classify(p, cause)]
        /\ opened' = [q \in Processes |-> IF q \in {p} THEN Unopened ELSE opened[q]]
        /\ left' = [q \in Processes |-> IF q \in {p} THEN {} ELSE left[q]]
        /\ UNCHANGED <<file, settled, own, got, linked, unseen, early>>
    BY DEF Fail, End, Forget
  <1>2. Classify(p, cause) \in {"refused", "error"}
    BY DEF Classify
  <1>3. pc'[p] = "end" /\ verdict'[p] = Classify(p, cause) /\ opened'[p] = Unopened
    BY <1>1 DEF Shape, Memory
  <1>4. \A q \in Processes \ {p} :
          UNCHANGED <<pc[q], verdict[q], opened[q], left[q]>>
    BY <1>1 DEF Shape, Memory
  <1> QED
    BY <1>1, <1>2, <1>3, <1>4 DEF Gives, Idle

LEMMA EndGives ==
  ASSUME Shape, Memory, NEW p \in Processes, NEW how \in {"refused", "error", "unpublished"},
         End(p, how), UNCHANGED <<disk, source, bound, given, progress, changed, stopped, rival>>
  PROVE  Gives(p)
  <1>1. /\ pc'[p] = "end" /\ verdict'[p] = how
        /\ \A q \in Processes \ {p} : UNCHANGED <<pc[q], verdict[q]>>
    BY DEF End, Shape, Memory
  <1> QED
    BY <1>1 DEF Gives, Idle, disk, given, progress

LEMMA GoesTakes ==
  ASSUME Shape, NEW p \in Processes, NEW l, Goto(p, l),
         \A q \in Processes \ {p} :
            /\ UNCHANGED <<got[q], opened[q], left[q], own[q], linked[q], unseen[q]>>
            /\ q = "reader" => UNCHANGED <<source, bound>>
  PROVE  Takes(p, l)
  <1>1. pc'[p] = l /\ \A q \in Processes \ {p} : pc'[q] = pc[q]
    BY GotoEffect
  <1>2. UNCHANGED verdict
    BY DEF Goto
  <1> QED
    BY <1>1, <1>2 DEF Takes, Idle

\* Everything but the position of a process, and what others know of it.
Same == UNCHANGED <<named, file, settled, selected, replays, changed, stopped, rival>>
Mind(p) == UNCHANGED <<got[p], opened[p], own[p], linked[p], unseen[p], bound>>

\* The steps before a process publishes.
LEMMA ApproachEffect ==
  ASSUME Shape, Memory, NEW p \in Processes
  PROVE  /\ RunStart => Gives("run") \/ (Takes("run", "absent") /\ Same /\ Mind("run") /\ UNCHANGED source)
         /\ ReaderStart =>
              \/ Gives("reader")
              \/ /\ Takes("reader", "record") /\ Same /\ Mind("reader")
                 /\ source' = named["run"] /\ named["run"] # Nowhere
                 /\ left'["reader"] = {RunRecord}
         /\ DestinationAbsent(p) =>
              Gives(p) \/ (Takes(p, "mkdir") /\ Same /\ Mind(p) /\ UNCHANGED source)
         /\ Unpublished(p) => Gives(p)
         /\ CallFails(p) => Gives(p)
  <1>1. ASSUME RunStart
        PROVE  Gives("run") \/ (Takes("run", "absent") /\ Same /\ Mind("run") /\ UNCHANGED source)
    <2>1. UNCHANGED <<disk, source, bound, given, progress, changed, rival, stopped>>
      BY <1>1 DEF RunStart, counters
    <2>2. CASE End("run", "refused")
      BY <2>1, <2>2, EndGives DEF Processes
    <2>3. CASE Goto("run", "absent")
      BY <2>1, <2>3, GoesTakes DEF Processes, Same, Mind, disk, given, progress
    <2> QED
      BY <1>1, <2>2, <2>3 DEF RunStart
  <1>2. ASSUME ReaderStart
        PROVE  \/ Gives("reader")
               \/ /\ Takes("reader", "record") /\ Same /\ Mind("reader")
                  /\ source' = named["run"] /\ named["run"] # Nowhere
                  /\ left'["reader"] = {RunRecord}
    <2>1. UNCHANGED <<disk, bound, given, own, got, opened, ghosts, rival, stopped>>
      BY <1>2 DEF ReaderStart, counters
    <2>2. CASE named["run"] = Nowhere
      <3>1. End("reader", "error") /\ UNCHANGED <<source, left>>
        BY <1>2, <2>2 DEF ReaderStart
      <3> QED
        BY <2>1, <3>1, EndGives DEF Processes, progress, ghosts
    <2>3. CASE named["run"] # Nowhere
      <3>1. /\ Goto("reader", "record") /\ source' = named["run"]
            /\ left' = [left EXCEPT !["reader"] = {RunRecord}]
        BY <1>2, <2>3 DEF ReaderStart
      <3>2. left'["reader"] = {RunRecord} /\ left'["run"] = left["run"]
        BY <3>1 DEF Shape, Processes
      <3>3. Takes("reader", "record")
        BY <2>1, <3>1, <3>2, GoesTakes DEF Processes, ghosts
      <3> QED
        BY <2>1, <2>3, <3>1, <3>2, <3>3 DEF Same, Mind, disk, given, ghosts
    <2> QED
      BY <2>2, <2>3
  <1>3. ASSUME DestinationAbsent(p)
        PROVE  Gives(p) \/ (Takes(p, "mkdir") /\ Same /\ Mind(p) /\ UNCHANGED source)
    <2>1. UNCHANGED <<disk, source, bound, given, progress, changed, rival, stopped>>
      BY <1>3 DEF DestinationAbsent, counters
    <2>2. CASE End(p, "refused")
      BY <2>1, <2>2, EndGives
    <2>3. CASE Goto(p, "mkdir")
      BY <2>1, <2>3, GoesTakes DEF Same, Mind, disk, given, progress
    <2> QED
      BY <1>3, <2>2, <2>3 DEF DestinationAbsent
  <1>4. ASSUME Unpublished(p) PROVE Gives(p)
    BY <1>4, EndGives DEF Unpublished, counters
  <1>5. ASSUME CallFails(p) PROVE Gives(p)
    BY <1>5, FailGives DEF CallFails, given
  <1> QED
    BY <1>1, <1>2, <1>3, <1>4, <1>5

LEMMA MakeDirectoryEffect ==
  ASSUME Shape, Memory, NEW p \in Processes, MakeDirectory(p)
  PROVE  \/ Gives(p)
         \/ /\ Takes(p, "bind") /\ Mind(p) /\ pc[p] = "mkdir"
            /\ named[Output(p)] = Nowhere /\ named' = [named EXCEPT ![Output(p)] = Output(p)]
            /\ UNCHANGED <<file, settled, selected, replays, changed, stopped, rival, source, faults>>
  <1>1. /\ pc[p] = "mkdir"
        /\ UNCHANGED <<file, settled, source, bound, selected, replays, changed, counters>>
    BY DEF MakeDirectory, At, contents, given, progress, Fail
  <1>2. CASE named[Output(p)] = Nowhere
    <2>1. Goto(p, "bind") /\ named' = [named EXCEPT ![Output(p)] = Output(p)] /\ UNCHANGED progress
      BY <1>2 DEF MakeDirectory
    <2> QED
      BY <1>1, <1>2, <2>1, GoesTakes DEF Mind, progress, counters
  <1>3. CASE named[Output(p)] # Nowhere
    BY <1>1, <1>3, FailGives DEF MakeDirectory, counters
  <1> QED
    BY <1>2, <1>3

LEMMA BindEffect ==
  ASSUME Shape, Memory, NEW p \in Processes, Bind(p)
  PROVE  \/ Gives(p)
         \/ /\ Takes(p, IF p = "run" THEN "execute" ELSE "again") /\ Same /\ pc[p] = "bind"
            /\ UNCHANGED <<got[p], opened[p], linked[p], unseen[p], bound, source, faults>>
            /\ own'[p] = named[Output(p)] /\ named[Output(p)] # Nowhere
            /\ left'[p] = IF p = "run" THEN {} ELSE Bundle(got[p][RunRecord]) \cup {RunRecord}
  <1>1. pc[p] = "bind" /\ UNCHANGED <<named, source, bound, selected, replays, changed, counters>>
    BY DEF Bind, At, given
  <1>2. CASE named[Output(p)] = Nowhere
    BY <1>1, <1>2, FailGives DEF Bind, counters
  <1>3. CASE named[Output(p)] # Nowhere
    <2> DEFINE S == IF p = "run" THEN {} ELSE Bundle(got[p][RunRecord]) \cup {RunRecord}
    <2>1. /\ own' = [own EXCEPT ![p] = named[Output(p)]] /\ left' = [left EXCEPT ![p] = S]
          /\ Goto(p, IF p = "run" THEN "execute" ELSE "again")
          /\ UNCHANGED <<contents, got, opened, linked, unseen, early>>
      BY <1>3 DEF Bind
    <2> HIDE DEF S
    <2>2. /\ own'[p] = named[Output(p)] /\ left'[p] = S
          /\ \A q \in Processes \ {p} : UNCHANGED <<own[q], left[q]>>
      BY <2>1 DEF Shape
    <2>3. Takes(p, IF p = "run" THEN "execute" ELSE "again")
      BY <1>1, <2>1, <2>2, GoesTakes
    <2> QED
      BY <1>1, <1>3, <2>1, <2>2, <2>3 DEF S, Same, contents, counters
  <1> QED
    BY <1>2, <1>3

LEMMA ControllerEffect ==
  ASSUME Shape, Memory
  PROVE  /\ RepairController =>
              /\ Takes("run", "link") /\ Mind("run") /\ pc["run"] = "execute"
              /\ UNCHANGED <<named, file, settled, replays, changed, counters, source, early>>
              /\ left'["run"] = (1 .. RunRecord) \ (IF selected' THEN {} ELSE {Members})
         /\ ReplayController =>
              /\ Takes("reader", "link") /\ Same /\ pc["reader"] = "execute"
              /\ UNCHANGED <<got, opened, own, linked, source, counters, early>>
              /\ bound' = got["reader"][RunRecord]
  <1>1. ASSUME RepairController
        PROVE  /\ Takes("run", "link") /\ Mind("run") /\ pc["run"] = "execute"
               /\ UNCHANGED <<named, file, settled, replays, changed, counters, source, early>>
               /\ left'["run"] = (1 .. RunRecord) \ (IF selected' THEN {} ELSE {Members})
    <2> DEFINE S == (1 .. RunRecord) \ (IF selected' THEN {} ELSE {Members})
    <2>1. /\ Goto("run", "link") /\ left' = [left EXCEPT !["run"] = S] /\ pc["run"] = "execute"
          /\ UNCHANGED <<disk, source, bound, replays, own, got, opened, ghosts, counters>>
      BY <1>1 DEF RepairController, At
    <2> HIDE DEF S
    <2>2. left'["run"] = S /\ left'["reader"] = left["reader"]
      BY <2>1 DEF Shape, Processes
    <2>3. Takes("run", "link")
      BY <2>1, <2>2, GoesTakes DEF Processes, ghosts
    <2> QED
      BY <2>1, <2>2, <2>3 DEF S, Mind, disk, ghosts
  <1>2. ASSUME ReplayController
        PROVE  /\ Takes("reader", "link") /\ Same /\ pc["reader"] = "execute"
               /\ UNCHANGED <<got, opened, own, linked, source, counters, early>>
               /\ bound' = got["reader"][RunRecord]
    <2>1. /\ Goto("reader", "link") /\ left' = [left EXCEPT !["reader"] = {ReplayRecord}]
          /\ pc["reader"] = "execute" /\ bound' = got["reader"][RunRecord]
          /\ unseen' = [unseen EXCEPT !["reader"] = {}]
          /\ UNCHANGED <<disk, source, given, own, got, opened, linked, changed, early, counters>>
      BY <1>2 DEF ReplayController, At
    <2>2. left'["run"] = left["run"] /\ unseen'["run"] = unseen["run"]
      BY <2>1 DEF Shape, Memory, Processes
    <2>3. Takes("reader", "link")
      BY <2>1, <2>2, GoesTakes DEF Processes
    <2> QED
      BY <2>1, <2>3 DEF Same, disk, given, counters
  <1> QED
    BY <1>1, <1>2

LEMMA LinkTakes ==
  ASSUME Shape, Memory, NEW p \in Processes, own[p] \in Directories, left[p] \subseteq Files, Link(p)
  PROVE  \/ Gives(p)
         \/ /\ Takes(p, "finalize") /\ pc[p] = "link"
            /\ UNCHANGED <<got[p], opened[p], left[p], own[p], unseen[p], bound>>
            /\ UNCHANGED <<named, source, selected, replays, changed, counters, early>>
            /\ \E n \in Upcoming(left[p]) :
                  /\ file[own[p]][n] = Absent /\ file'[own[p]][n] = Payload(p)
                  /\ \A d \in Directories, m \in Files :
                        (d # own[p] \/ m # n) =>
                           file'[d][m] = file[d][m] /\ (m \in settled[d] => m \in settled'[d])
                  /\ linked'[p] = linked[p] \cup {n}
  <1>1. /\ pc[p] = "link"
        /\ UNCHANGED <<named, source, bound, selected, replays, changed, counters>>
    BY DEF Link, At, given
  <1>2. PICK n \in Upcoming(left[p]) :
          IF file[own[p]][n] # Absent THEN Fail(p, "exists")
          ELSE /\ Show(own[p], n, Payload(p)) /\ settled' = [settled EXCEPT ![own[p]] = @ \ {n}]
               /\ linked' = [linked EXCEPT ![p] = @ \cup {n}]
               /\ Goto(p, "finalize")
               /\ UNCHANGED <<durable, own, got, opened, left, unseen, early>>
    BY DEF Link
  <1>3. n \in Files
    BY DEF Upcoming
  <1>4. CASE file[own[p]][n] # Absent
    BY <1>1, <1>2, <1>4, FailGives DEF counters
  <1>5. CASE file[own[p]][n] = Absent
    <2>1. /\ Show(own[p], n, Payload(p)) /\ settled' = [settled EXCEPT ![own[p]] = @ \ {n}]
          /\ linked' = [linked EXCEPT ![p] = @ \cup {n}]
          /\ Goto(p, "finalize")
          /\ UNCHANGED <<durable, own, got, opened, left, unseen, early>>
      BY <1>2, <1>5
    <2>2. /\ file'[own[p]][n] = Payload(p)
          /\ \A d \in Directories, m \in Files :
                (d # own[p] \/ m # n) => file'[d][m] = file[d][m]
      BY <1>3, <2>1 DEF Show, Shape
    <2>3. \A d \in Directories, m \in Files :
             (d # own[p] \/ m # n) => (m \in settled[d] => m \in settled'[d])
      BY <2>1 DEF Memory
    <2>4. linked'[p] = linked[p] \cup {n} /\ \A q \in Processes \ {p} : linked'[q] = linked[q]
      BY <2>1 DEF Memory
    <2>5. Takes(p, "finalize")
      BY <1>1, <2>1, <2>4, GoesTakes
    <2> QED
      BY <1>1, <1>5, <2>1, <2>2, <2>3, <2>4, <2>5
  <1> QED
    BY <1>4, <1>5

LEMMA FinalizeTakes ==
  ASSUME Shape, Memory, NEW p \in Processes, own[p] \in Directories, Finalize(p)
  PROVE  \/ Gives(p)
         \/ /\ pc[p] = "finalize" /\ Mind(p)
            /\ UNCHANGED <<named, file, source, selected, replays, changed, counters, early>>
            /\ \E n \in Upcoming(left[p]) :
                  /\ file[own[p]][n] = Payload(p)
                  /\ Takes(p, IF left[p] = {n} THEN "verify" ELSE "link")
                  /\ left'[p] = left[p] \ {n}
                  /\ n \in settled'[own[p]]
                  /\ \A d \in Directories : settled[d] \subseteq settled'[d]
  <1>1. /\ pc[p] = "finalize"
        /\ UNCHANGED <<named, source, bound, selected, replays, changed, counters>>
    BY DEF Finalize, At, given
  <1>2. PICK n \in Upcoming(left[p]) :
          IF file[own[p]][n] # Payload(p) THEN Fail(p, "inadmissible")
          ELSE /\ settled' = [settled EXCEPT ![own[p]] = @ \cup {n}]
               /\ left' = [left EXCEPT ![p] = @ \ {n}]
               /\ Goto(p, IF left[p] = {n} THEN "verify" ELSE "link")
               /\ UNCHANGED <<file, own, got, opened, linked, unseen, early>>
    BY DEF Finalize
  <1>3. CASE file[own[p]][n] # Payload(p)
    BY <1>1, <1>2, <1>3, FailGives DEF counters
  <1>4. CASE file[own[p]][n] = Payload(p)
    <2>1. /\ settled' = [settled EXCEPT ![own[p]] = @ \cup {n}]
          /\ left' = [left EXCEPT ![p] = @ \ {n}]
          /\ Goto(p, IF left[p] = {n} THEN "verify" ELSE "link")
          /\ UNCHANGED <<file, own, got, opened, linked, unseen, early>>
      BY <1>2, <1>4
    <2>2. n \in settled'[own[p]] /\ \A d \in Directories : settled[d] \subseteq settled'[d]
      BY <2>1 DEF Memory
    <2>3. left'[p] = left[p] \ {n} /\ \A q \in Processes \ {p} : left'[q] = left[q]
      BY <2>1 DEF Shape
    <2>4. Takes(p, IF left[p] = {n} THEN "verify" ELSE "link")
      BY <1>1, <2>1, <2>3, GoesTakes
    <2> QED
      BY <1>1, <1>4, <2>1, <2>2, <2>3, <2>4 DEF Mind
  <1> QED
    BY <1>3, <1>4

LEMMA VerifyTakes ==
  ASSUME Shape, Memory, NEW p \in Processes, Verify(p)
  PROVE  \/ Gives(p)
         \/ /\ Takes(p, "record") /\ Same /\ Mind(p) /\ pc[p] = "verify"
            /\ UNCHANGED <<source, faults, early>> /\ left'[p] = {RecordOf(p)}
  <1>1. pc[p] = "verify" /\ UNCHANGED <<named, source, bound, selected, replays, changed, counters>>
    BY DEF Verify, At, given
  <1>2. \/ Fail(p, "inadmissible")
        \/ /\ Goto(p, "record") /\ left' = [left EXCEPT ![p] = {RecordOf(p)}]
           /\ UNCHANGED <<contents, own, got, opened, linked, unseen, early>>
    BY DEF Verify
  <1>3. CASE Fail(p, "inadmissible")
    BY <1>1, <1>3, FailGives DEF counters
  <1>4. CASE ~Fail(p, "inadmissible")
    <2>1. /\ Goto(p, "record") /\ left' = [left EXCEPT ![p] = {RecordOf(p)}]
          /\ UNCHANGED <<contents, own, got, opened, linked, unseen, early>>
      BY <1>2, <1>4
    <2>2. left'[p] = {RecordOf(p)} /\ \A q \in Processes \ {p} : left'[q] = left[q]
      BY <2>1 DEF Shape
    <2>3. Takes(p, "record")
      BY <1>1, <2>1, <2>2, GoesTakes
    <2> QED
      BY <1>1, <2>1, <2>2, <2>3 DEF Same, Mind, contents, counters
  <1> QED
    BY <1>3, <1>4

LEMMA OpenTakes ==
  ASSUME Shape, Memory, NEW p \in Processes, Open(p)
  PROVE  /\ pc[p] \in Reading \ {"root"} /\ opened[p] = Unopened
         /\ \/ Gives(p) /\ file[Place(p)][Min(left[p])] = Absent
            \/ /\ file[Place(p)][Min(left[p])] # Absent
               /\ Takes(p, pc[p]) /\ Same
               /\ UNCHANGED <<got[p], left[p], own[p], linked[p], unseen[p], bound, source, faults>>
               /\ opened'[p] = Look(p, Min(left[p]))
               /\ early' = (early \/ (p = "reader" /\ Min(left[p]) = RunRecord
                                       /\ Min(left[p]) \notin settled[Place(p)]))
  <1> DEFINE n == Min(left[p])
  <1>1. /\ pc[p] \in Reading \ {"root"} /\ opened[p] = Unopened
        /\ UNCHANGED <<named, source, bound, selected, replays, changed, counters>>
    BY DEF Open, given
  <1>2. CASE file[Place(p)][n] = Absent
    BY <1>1, <1>2, FailGives DEF Open, counters
  <1>3. CASE file[Place(p)][n] # Absent
    <2>1. /\ opened' = [opened EXCEPT ![p] = Look(p, n)]
          /\ early' = (early \/ (p = "reader" /\ n = RunRecord /\ n \notin settled[Place(p)]))
          /\ UNCHANGED <<contents, pc, verdict, own, got, left, linked, unseen>>
      BY <1>3 DEF Open
    <2> HIDE DEF n
    <2>2. opened'[p] = Look(p, n) /\ \A q \in Processes \ {p} : opened'[q] = opened[q]
      BY <2>1 DEF Memory
    <2>3. Takes(p, pc[p])
      BY <1>1, <2>1, <2>2 DEF Takes, Idle
    <2>4. Same /\ UNCHANGED <<got[p], left[p], own[p], linked[p], unseen[p], bound, source, faults>>
      BY <1>1, <2>1 DEF Same, contents, counters
    <2> QED
      BY <1>1, <1>3, <2>1, <2>2, <2>3, <2>4 DEF n
  <1> QED
    BY <1>2, <1>3

LEMMA ReadTakes ==
  ASSUME Shape, Memory, NEW p \in Processes, Read(p), Min(left[p]) \in Files
  PROVE  /\ pc[p] \in Reading \ {"root"} /\ opened[p] # Unopened
         /\ LET n == Min(left[p]) b == opened[p][1] IN
            \/ Gives(p) /\ (Look(p, n) # opened[p] \/ ~Matches(p, n, b))
            \/ /\ Look(p, n) = opened[p] /\ Matches(p, n, b)
               /\ Takes(p, Upon(p, n, b)[1]) /\ Same
               /\ UNCHANGED <<own[p], linked[p], bound, source, faults, early>>
               /\ got'[p][n] = b /\ \A m \in Files \ {n} : got'[p][m] = got[p][m]
               /\ opened'[p] = Unopened /\ left'[p] = Upon(p, n, b)[2]
               /\ unseen'[p] = IF pc[p] = "again" THEN unseen[p] \ {n} ELSE unseen[p]
  <1> DEFINE n == Min(left[p])  b == opened[p][1]  ok == Look(p, n) = opened[p] /\ Matches(p, n, b)
  <1>1. /\ pc[p] \in Reading \ {"root"} /\ opened[p] # Unopened
        /\ UNCHANGED <<named, source, bound, selected, replays, changed, counters>>
    BY DEF Read, given
  <1>2. CASE ~ok
    BY <1>1, <1>2, FailGives DEF Read, counters
  <1>3. CASE ok
    <2>1. /\ got' = [got EXCEPT ![p][n] = b]
          /\ opened' = [opened EXCEPT ![p] = Unopened]
          /\ Goto(p, Upon(p, n, b)[1]) /\ left' = [left EXCEPT ![p] = Upon(p, n, b)[2]]
          /\ unseen' = [unseen EXCEPT ![p] = IF pc[p] = "again" THEN @ \ {n} ELSE @]
          /\ UNCHANGED <<contents, own, linked, early>>
      BY <1>3 DEF Read
    <2> n \in Files
      OBVIOUS
    <2> HIDE DEF n, b
    <2>2. /\ got'[p][n] = b /\ \A m \in Files \ {n} : got'[p][m] = got[p][m]
          /\ \A q \in Processes \ {p} : got'[q] = got[q]
      BY <2>1 DEF Memory
    <2>3. /\ opened'[p] = Unopened /\ left'[p] = Upon(p, n, b)[2]
          /\ \A q \in Processes \ {p} : opened'[q] = opened[q] /\ left'[q] = left[q]
      BY <2>1 DEF Memory, Shape
    <2>4. /\ unseen'[p] = IF pc[p] = "again" THEN unseen[p] \ {n} ELSE unseen[p]
          /\ \A q \in Processes \ {p} : unseen'[q] = unseen[q]
      BY <2>1 DEF Memory
    <2>5. Takes(p, Upon(p, n, b)[1])
      BY <1>1, <2>1, <2>2, <2>3, <2>4, GoesTakes
    <2>6. Same
      BY <1>1, <2>1 DEF Same, contents, counters
    <2>7. UNCHANGED <<own[p], linked[p], bound, source, faults, early>>
      BY <1>1, <2>1 DEF counters
    <2> QED
      BY <1>1, <1>3, <2>2, <2>3, <2>4, <2>5, <2>6, <2>7 DEF n, b
  <1> QED
    BY <1>2, <1>3

LEMMA VerifyRootTakes ==
  ASSUME Shape, Memory, NEW p \in Processes, VerifyRoot(p)
  PROVE  /\ pc[p] = "root"
         /\ \/ Gives(p) /\ (~SameRoot(p) \/ (ReadsInput(p) /\ replays))
            \/ /\ SameRoot(p) /\ Same
               /\ UNCHANGED <<got[p], opened[p], left[p], own[p], linked[p], bound, source, faults, early>>
               /\ unseen'[p] = unseen[p] \ {Root}
               /\ \A q \in Processes \ {p} : Idle(q)
               /\ \/ pc'[p] = "end" /\ verdict'[p] = "done"
                  \/ /\ pc'[p] \in {"execute", "absent"} /\ verdict'[p] = verdict[p]
                     /\ ReadsInput(p) /\ replays
                     /\ pc'[p] = "execute" => own[p] # Nowhere
                  \/ pc'[p] = "end" /\ verdict'[p] = "refused" /\ ReadsInput(p) /\ replays
  <1>1. pc[p] = "root" /\ UNCHANGED <<named, source, bound, selected, replays, changed, counters>>
    BY DEF VerifyRoot, At, given
  <1>2. CASE ~SameRoot(p)
    BY <1>1, <1>2, FailGives DEF VerifyRoot, counters
  <1>3. CASE SameRoot(p)
    <2>1. /\ \/ End(p, "done")
             \/ Goto(p, "execute") /\ ReadsInput(p) /\ replays /\ own[p] # Nowhere
             \/ (End(p, "refused") \/ Goto(p, "absent")) /\ ReadsInput(p) /\ replays
          /\ unseen' = [unseen EXCEPT ![p] = @ \ {Root}]
          /\ UNCHANGED <<contents, own, got, opened, left, linked, early>>
      BY <1>3 DEF VerifyRoot
    <2>2. unseen'[p] = unseen[p] \ {Root} /\ \A q \in Processes \ {p} : unseen'[q] = unseen[q]
      BY <2>1 DEF Memory
    <2>3. /\ \A q \in Processes \ {p} : UNCHANGED <<pc[q], verdict[q]>>
          /\ \/ pc'[p] = "end" /\ verdict'[p] = "done"
             \/ /\ pc'[p] \in {"execute", "absent"} /\ verdict'[p] = verdict[p]
                /\ ReadsInput(p) /\ replays
                /\ pc'[p] = "execute" => own[p] # Nowhere
             \/ pc'[p] = "end" /\ verdict'[p] = "refused" /\ ReadsInput(p) /\ replays
      <3>1. CASE End(p, "done")
        BY <3>1 DEF End, Shape, Memory
      <3>2. CASE End(p, "refused") /\ ReadsInput(p) /\ replays
        BY <3>2 DEF End, Shape, Memory
      <3>3. CASE Goto(p, "execute") /\ ReadsInput(p) /\ replays /\ own[p] # Nowhere
        BY <3>3, GotoEffect DEF Goto
      <3>4. CASE Goto(p, "absent") /\ ReadsInput(p) /\ replays
        <4>1. pc'[p] = "absent" /\ pc'[p] # "execute"
          BY <3>4, GotoEffect
        <4>2. verdict' = verdict /\ \A q \in Processes \ {p} : pc'[q] = pc[q]
          BY <3>4, GotoEffect DEF Goto
        <4> QED
          BY <3>4, <4>1, <4>2
      <3> QED
        BY <2>1, <3>1, <3>2, <3>3, <3>4
    <2>4. \A q \in Processes \ {p} : Idle(q)
      BY <1>1, <2>1, <2>2, <2>3 DEF Idle
    <2>5. Same /\ UNCHANGED <<got[p], opened[p], left[p], own[p], linked[p], bound, source, faults, early>>
      BY <1>1, <2>1 DEF Same, contents, counters
    <2> QED
      BY <1>1, <1>3, <2>2, <2>3, <2>4, <2>5
  <1> QED
    BY <1>2, <1>3

-----------------------------------------------------------------------------
(* What a process knows stays true under the steps of the others           *)

LEMMA KnownFiles ==
  ASSUME NEW p \in Processes, NEW b
  PROVE  RecordOf(p) \in Files /\ Declared(p, b) \subseteq Files /\ Bundle(b) \subseteq 1 .. Members
  BY FileNumbers, SizeAssumption DEF RecordOf, Declared, Bundle

LEMMA LeastOfPass ==
  ASSUME NEW p \in Processes, Gathered(p), pc[p] \in Reading \ {"root"}
  PROVE  /\ Min(left[p]) \in left[p] /\ Min(left[p]) \in Files
         /\ Min(left[p]) \in Known(p) /\ left[p] \subseteq Files
         /\ pc[p] = "members" => Min(left[p]) \in Declared(p, got[p][RecordOf(p)])
  <1>1. left[p] \in SUBSET Files /\ left[p] # {} /\ left[p] \subseteq Known(p)
        /\ (pc[p] = "members" => left[p] \subseteq Declared(p, got[p][RecordOf(p)]))
    BY KnownFiles DEF Gathered, Reading, Known
  <1> QED
    BY <1>1, LeastIsLeft

\* A bundle is fixed before anybody can have read its record.
LEMMA BundleIsFixed ==
  ASSUME BundleInv, selected' = selected \/ pc["run"] = "execute",
         got'["reader"][RunRecord] = got["reader"][RunRecord]
  PROVE  Bundle(got["reader"][RunRecord])' = Bundle(got["reader"][RunRecord])
  <1>1. got["reader"][RunRecord] # Ours \/ selected' = selected
    BY FileNumbers DEF BundleInv, UnseenYet, Before
  <1> QED
    BY <1>1 DEF Bundle

LEMMA IdleKnows ==
  ASSUME BundleInv, ~stopped, NEW q \in Processes, Idle(q), selected' = selected \/ pc["run"] = "execute",
         pc[q] \in Reading \/ verdict[q] = "done"
  PROVE  /\ RecordOf(q)' = RecordOf(q) /\ Place(q)' = Place(q) /\ Path(q)' = Path(q)
         /\ Declared(q, got[q][RecordOf(q)])' = Declared(q, got[q][RecordOf(q)])
         /\ Known(q)' = Known(q)
  <1>1. /\ RecordOf(q)' = RecordOf(q) /\ Place(q)' = Place(q) /\ Path(q)' = Path(q)
        /\ got'[q] = got[q]
    BY DEF Idle, RecordOf, Place, Path, ReadsInput, Output
  <1>2. Declared(q, got[q][RecordOf(q)])' = Declared(q, got[q][RecordOf(q)])
    <2>1. CASE q = "run"
      <3>1. pc["run"] # "execute"
        BY <2>1 DEF BundleInv, Holds, Held, Placed, Reading
      <3> QED
        BY <1>1, <3>1 DEF Declared, Bundle
    <2>2. CASE q = "reader"
      <3>1. CASE RecordOf(q) = ReplayRecord
        BY <1>1, <3>1 DEF Declared
      <3>2. CASE RecordOf(q) = RunRecord
        BY <1>1, <2>2, <3>2, BundleIsFixed DEF Declared
      <3> QED
        BY <3>1, <3>2 DEF RecordOf
    <2> QED
      BY <2>1, <2>2 DEF Processes
  <1> QED
    BY <1>1, <1>2 DEF Known

LEMMA HeldIsPlaced ==
  ASSUME BundleInv, ~stopped, NEW q \in Processes, pc[q] \in Reading \/ verdict[q] = "done"
  PROVE  Place(q) \in Directories
  BY DEF BundleInv, Holds, Held, Placed

\* What is known is there, so that it stays.
LEMMA OnDiskStays ==
  ASSUME BundleInv, ~stopped, NEW q \in Processes, Grows, NEW n \in Files, OnDisk(q, n),
         Place(q) \in Directories, Place(q)' = Place(q), got[q][n] # Absent,
         got'[q][n] = got[q][n], unseen[q] \subseteq unseen'[q]
  PROVE  OnDisk(q, n)'
  BY DEF OnDisk, Grows

LEMMA KnownIsSomething ==
  ASSUME NEW q \in Processes, Gathered(q), NEW n \in Known(q),
         (pc[q] = "again" /\ n \notin left[q]) \/ pc[q] = "root" \/ verdict[q] = "done"
  PROVE  got[q][n] # Absent
  BY DEF Gathered, Known

LEMMA IdleKeepsHeld ==
  ASSUME BundleInv, ~stopped, NEW q \in Processes, Idle(q), Grows
  PROVE  Held(q)'
  <1>0. /\ UNCHANGED <<pc[q], verdict[q], got[q], opened[q], left[q], own[q], linked[q], unseen[q]>>
        /\ Placed(q) /\ Gathered(q) /\ Verified(q)
        /\ selected' = selected \/ pc["run"] = "execute"
    BY DEF Idle, BundleInv, Holds, Held, Grows
  <1>1. CASE pc[q] \in Reading \/ verdict[q] = "done"
    <2>1. /\ RecordOf(q)' = RecordOf(q) /\ Place(q)' = Place(q) /\ Path(q)' = Path(q)
          /\ Declared(q, got[q][RecordOf(q)])' = Declared(q, got[q][RecordOf(q)])
          /\ Known(q)' = Known(q)
      BY <1>0, <1>1, IdleKnows
    <2>2. Placed(q)'
      BY <1>0, <2>1 DEF Placed
    <2>3. Gathered(q)'
      BY <1>0, <2>1 DEF Gathered
    <2>4. ASSUME NEW n \in Known(q), OnDisk(q, n),
                 (pc[q] = "again" /\ n \notin left[q]) \/ pc[q] = "root" \/ verdict[q] = "done"
          PROVE  OnDisk(q, n)'
      <3>1. n \in Files
        BY KnownFiles DEF Known
      <3>2. got[q][n] # Absent
        BY <1>0, <2>4, KnownIsSomething
      <3> QED
        BY <1>0, <1>1, <2>1, <2>4, <3>1, <3>2, OnDiskStays, HeldIsPlaced
    <2>5. verdict[q] = "done" => (named[Path(q)] = Place(q) => named'[Path(q)] = Place(q))
      BY <1>1, HeldIsPlaced DEF Grows, Path, Output, Paths, Directories, Nowhere
    <2>6. Verified(q)'
      BY <1>0, <2>1, <2>4, <2>5 DEF Verified
    <2> QED
      BY <2>2, <2>3, <2>6 DEF Held
  <1>2. CASE pc[q] \notin Reading /\ verdict[q] # "done"
    BY <1>0, <1>2 DEF Held, Placed, Gathered, Verified, Reading
  <1> QED
    BY <1>1, <1>2

\* What a replay evaluated stays what it was.
LEMMA EvaluatedStays ==
  ASSUME BundleInv, ~stopped, Grows, bound' = bound, linked'["reader"] = linked["reader"],
         own'["reader"] = own["reader"] \/ linked["reader"] = {},
         pc'["reader"] \in Calls => pc["reader"] \in Calls,
         \/ \A n \in Files \ {ReplayRecord} : got'["reader"][n] = got["reader"][n]
         \/ bound = Absent /\ pc'["reader"] \notin Calls
  PROVE  Evaluated'
  <1>1. Evaluated /\ (bound # Absent => own["reader"] \in Directories)
    BY DEF BundleInv, Holds, Replaying
  <1>2. CASE \A n \in Files \ {ReplayRecord} : got'["reader"][n] = got["reader"][n]
    <2>1. got'["reader"][RunRecord] = got["reader"][RunRecord]
      BY <1>2, FileNumbers
    <2>2. Bundle(got["reader"][RunRecord])' = Bundle(got["reader"][RunRecord])
      BY <2>1, BundleIsFixed DEF Grows
    <2>3. \A m \in Bundle(got["reader"][RunRecord]) : got'["reader"][m] = got["reader"][m]
      BY <1>2, KnownFiles, FileNumbers DEF Processes
    <2>4. linked["reader"] # {} => got["reader"][RunRecord] # Absent /\ own["reader"] \in Directories
      BY <1>1 DEF Evaluated
    <2>5. \A n \in linked["reader"] : n \in Files
      BY <1>1, FileNumbers DEF Evaluated
    <2>6. \A n \in linked["reader"] : file'[own'["reader"]][n] = got["reader"][RunRecord]
                                      \/ <<own'["reader"], n>> \in changed'
      BY <1>1, <2>4, <2>5 DEF Evaluated, Grows
    <2> QED
      BY <1>1, <2>1, <2>2, <2>3, <2>6 DEF Evaluated
  <1>3. CASE bound = Absent /\ pc'["reader"] \notin Calls
    BY <1>1, <1>3 DEF Evaluated
  <1> QED
    BY <1>2, <1>3

LEMMA IdleReaderReplays ==
  ASSUME BundleInv, ~stopped, Idle("reader"), Grows PROVE Replaying' /\ Evaluated'
  <1>1. UNCHANGED <<pc["reader"], got["reader"], own["reader"], linked["reader"], source, bound>>
    BY DEF Idle
  <1>2. Replaying'
    BY <1>1 DEF BundleInv, Holds, Replaying
  <1> QED
    BY <1>1, <1>2, EvaluatedStays

\* One process has moved.
LEMMA MovedHolds ==
  ASSUME BundleInv, ~stopped, Grows, NEW p \in Processes, \A q \in Processes \ {p} : Idle(q),
         Held(p)', p = "reader" => Replaying' /\ Evaluated'
  PROVE  Holds'
  <1>1. \A q \in Processes : Held(q)'
    BY IdleKeepsHeld
  <1>2. Replaying' /\ Evaluated'
    BY IdleReaderReplays DEF Processes
  <1> QED
    BY <1>1, <1>2 DEF Holds

LEMMA GivingUpHolds ==
  ASSUME BundleInv, ~stopped, NEW p \in Processes, Gives(p)
  PROVE  Grows /\ Holds'
  <1>1. Grows
    BY DEF Gives, Grows
  <1>2. pc'[p] = "end" /\ verdict'[p] # "done" /\ opened'[p] \in {Unopened, opened[p]}
    BY DEF Gives
  <1>3. Held(p)'
    BY <1>2 DEF Held, Placed, Gathered, Verified, Reading, BundleInv, Holds
  <1>4. p = "reader" => Replaying' /\ Evaluated'
    <2> SUFFICES ASSUME p = "reader" PROVE Replaying' /\ Evaluated'
      OBVIOUS
    <2>1. pc'["reader"] = "end" /\ UNCHANGED <<bound, linked, own, got>>
      BY DEF Gives
    <2>2. Replaying'
      BY <2>1 DEF BundleInv, Holds, Replaying, Calls
    <2> QED
      BY <1>1, <2>1, <2>2, EvaluatedStays DEF Calls
  <1> QED
    BY <1>1, <1>3, <1>4, MovedHolds DEF Gives

-----------------------------------------------------------------------------
(* The steps of a process before it reads                                  *)

LEMMA AwayKeepsHeld ==
  ASSUME BundleInv, ~stopped, NEW p \in Processes, pc[p] # "end",
         NEW l \in Calls \cup {"link", "finalize", "verify"}, Takes(p, l), opened'[p] = opened[p],
         l \in {"execute", "link", "finalize", "verify"} => own'[p] \in Directories
  PROVE  Held(p)'
  <1>1. pc'[p] = l /\ verdict'[p] = "running" /\ l \notin Reading /\ l # "end"
    BY DEF Takes, BundleInv, Holds, Held, Placed, Calls, Reading
  <1>2. (opened[p] # Unopened => opened[p][1] # Absent)
    BY DEF BundleInv, Holds, Held, Gathered
  <1> QED
    BY <1>1, <1>2 DEF Held, Placed, Gathered, Verified, Reading

LEMMA ApproachHolds ==
  ASSUME BundleInv, ~stopped, NEW p \in Processes,
         RunStart \/ DestinationAbsent(p) \/ MakeDirectory(p) \/ Unpublished(p) \/ CallFails(p)
  PROVE  Grows /\ Holds'
  <1>0. Shape /\ Memory
    BY DEF BundleInv, MarkerInv
  <1>1. ASSUME NEW q \in Processes, NEW l \in {"absent", "mkdir", "bind"}, pc[q] # "end",
               Takes(q, l), Mind(q), Grows, UNCHANGED source,
               q = "reader" => pc[q] \in Calls
        PROVE  Holds'
    <2>1. Held(q)'
      BY <1>1, AwayKeepsHeld DEF Mind, Calls
    <2>2. ASSUME q = "reader" PROVE Replaying' /\ Evaluated'
      <3>1. UNCHANGED <<got["reader"], own["reader"], linked["reader"], bound, source>>
            /\ pc'["reader"] = l /\ l \in Calls /\ pc["reader"] \in Calls
        BY <1>1, <2>2 DEF Mind, Takes, Calls
      <3>2. Replaying'
        BY <3>1 DEF BundleInv, Holds, Replaying, Calls
      <3> QED
        BY <1>1, <3>1, <3>2, EvaluatedStays
    <2> QED
      BY <1>1, <2>1, <2>2, MovedHolds DEF Takes
  <1>2. CASE RunStart
    <2>1. Gives("run") \/ (Takes("run", "absent") /\ Same /\ Mind("run") /\ UNCHANGED source)
      BY <1>0, <1>2, ApproachEffect
    <2>2. pc["run"] # "end"
      BY <1>2 DEF RunStart, At
    <2>3. Same => Grows
      BY DEF Same, Grows
    <2> QED
      BY <1>1, <2>1, <2>2, <2>3, GivingUpHolds DEF Processes
  <1>3. CASE DestinationAbsent(p)
    <2>1. Gives(p) \/ (Takes(p, "mkdir") /\ Same /\ Mind(p) /\ UNCHANGED source)
      BY <1>0, <1>3, ApproachEffect
    <2>2. pc[p] \in Calls /\ pc[p] # "end"
      BY <1>3 DEF DestinationAbsent, At, Calls
    <2>3. Same => Grows
      BY DEF Same, Grows
    <2> QED
      BY <1>1, <2>1, <2>2, <2>3, GivingUpHolds
  <1>4. CASE MakeDirectory(p)
    <2>1. \/ Gives(p)
          \/ /\ Takes(p, "bind") /\ Mind(p) /\ pc[p] = "mkdir"
             /\ named[Output(p)] = Nowhere /\ named' = [named EXCEPT ![Output(p)] = Output(p)]
             /\ UNCHANGED <<file, settled, selected, replays, changed, stopped, rival, source>>
      BY <1>0, <1>4, MakeDirectoryEffect
    <2>2. CASE ~Gives(p)
      <3>1. \A x \in Paths : named[x] # Nowhere => named'[x] = named[x]
        BY <1>0, <2>1, <2>2 DEF Shape
      <3>2. Grows
        BY <2>1, <2>2, <3>1 DEF Grows
      <3> QED
        BY <1>1, <2>1, <2>2, <3>2 DEF Calls
    <2> QED
      BY <2>2, GivingUpHolds
  <1>5. CASE Unpublished(p) \/ CallFails(p)
    BY <1>0, <1>5, ApproachEffect, GivingUpHolds
  <1> QED
    BY <1>2, <1>3, <1>4, <1>5

LEMMA ReaderStartHolds ==
  ASSUME BundleInv, ~stopped, ReaderStart PROVE Grows /\ Holds'
  <1>0. Shape /\ Memory
    BY DEF BundleInv, MarkerInv
  <1>1. CASE Gives("reader")
    BY <1>1, GivingUpHolds DEF Processes
  <1>2. CASE ~Gives("reader")
    <2>1. /\ Takes("reader", "record") /\ Same /\ Mind("reader")
          /\ source' = named["run"] /\ named["run"] # Nowhere /\ left'["reader"] = {RunRecord}
      BY <1>0, <1>2, ApproachEffect DEF Processes
    <2>2. pc["reader"] = "start" /\ source' \in Directories
      BY <1>0, <2>1 DEF ReaderStart, At, Shape, Paths
    <2>3. bound = Absent /\ bound' = Absent /\ verdict'["reader"] = "running"
      BY <2>1, <2>2 DEF Mind, Takes, BundleInv, Holds, Replaying, Held, Placed, Processes
    <2>4. /\ RecordOf("reader")' = RunRecord /\ Place("reader")' = source' /\ pc'["reader"] = "record"
      BY <2>1, <2>3 DEF RecordOf, Place, ReadsInput, Takes
    <2>5. Held("reader")'
      <3>1. opened'["reader"] # Unopened => opened'["reader"][1] # Absent
        BY <2>1 DEF Mind, BundleInv, Holds, Held, Gathered, Processes
      <3> QED
        BY <2>1, <2>2, <2>3, <2>4, <3>1 DEF Held, Placed, Gathered, Verified
    <2>6. Grows
      BY <2>1 DEF Same, Grows
    <2>7. Replaying'
      BY <2>3, <2>4 DEF Replaying, Calls
    <2>8. Evaluated'
      BY <2>1, <2>3, <2>4, <2>6, EvaluatedStays DEF Mind, Calls
    <2> QED
      BY <2>1, <2>5, <2>6, <2>7, <2>8, MovedHolds DEF Takes, Processes
  <1> QED
    BY <1>1, <1>2

LEMMA BindHolds ==
  ASSUME BundleInv, ~stopped, NEW p \in Processes, Bind(p) PROVE Grows /\ Holds'
  <1>0. Shape /\ Memory
    BY DEF BundleInv, MarkerInv
  <1>1. CASE Gives(p)
    BY <1>1, GivingUpHolds
  <1>2. CASE ~Gives(p)
    <2>1. /\ Takes(p, IF p = "run" THEN "execute" ELSE "again") /\ Same /\ pc[p] = "bind"
          /\ UNCHANGED <<got[p], opened[p], linked[p], unseen[p], bound, source>>
          /\ own'[p] = named[Output(p)] /\ named[Output(p)] # Nowhere
          /\ left'[p] = IF p = "run" THEN {} ELSE Bundle(got[p][RunRecord]) \cup {RunRecord}
      BY <1>0, <1>2, BindEffect
    <2>2. Grows
      BY <2>1 DEF Same, Grows
    <2>3. own'[p] \in Directories
      BY <1>0, <2>1 DEF Shape, Output, Paths
    <2>4. CASE p = "run"
      <3>1. Held(p)'
        BY <2>1, <2>3, <2>4, AwayKeepsHeld DEF Calls
      <3> QED
        BY <2>1, <2>2, <2>4, <3>1, MovedHolds DEF Takes
    <2>5. CASE p = "reader"
      <3> DEFINE b == got["reader"][RunRecord]
      <3>1. /\ bound = Absent /\ bound' = Absent /\ source' \in Directories /\ b # Absent
            /\ \A m \in Bundle(b) : got["reader"][m] = b
            /\ (opened["reader"] # Unopened => opened["reader"][1] # Absent)
            /\ verdict["reader"] = "running"
        BY <2>1, <2>5
           DEF BundleInv, Holds, Replaying, Evaluated, Held, Placed, Gathered, Calls
      <3>2. /\ pc'["reader"] = "again" /\ verdict'["reader"] = "running"
            /\ got'["reader"] = got["reader"] /\ opened'["reader"] = opened["reader"]
            /\ left'["reader"] = Bundle(b) \cup {RunRecord}
        BY <2>1, <2>5, <3>1 DEF Takes
      <3>3. RecordOf("reader")' = RunRecord /\ Place("reader")' = source'
        BY <3>1 DEF RecordOf, Place, ReadsInput
      <3>4. Declared("reader", b)' = Bundle(b)
        <4>1. Bundle(b)' = Bundle(b)
          BY <3>2, BundleIsFixed, <2>1 DEF Same
        <4> QED
          BY <3>2, <3>3, <4>1, FileNumbers DEF Declared
      <3>5. Held("reader")'
        BY <3>1, <3>2, <3>3, <3>4 DEF Held, Placed, Gathered, Verified, Known, Reading
      <3>6. Replaying'
        BY <3>1, <3>2 DEF Replaying, Calls
      <3>7. Evaluated'
        <4>1. linked["reader"] = {}
          BY <3>1 DEF BundleInv, Holds, Evaluated
        <4> QED
          BY <2>1, <2>2, <2>5, <3>1, <3>2, <4>1, EvaluatedStays DEF Calls
      <3> QED
        BY <2>1, <2>2, <2>5, <3>5, <3>6, <3>7, MovedHolds DEF Takes
    <2> QED
      BY <2>4, <2>5 DEF Processes
  <1> QED
    BY <1>1, <1>2

LEMMA ControllersHold ==
  ASSUME BundleInv, ~stopped, RepairController \/ ReplayController PROVE Grows /\ Holds'
  <1>0. Shape /\ Memory
    BY DEF BundleInv, MarkerInv
  <1>1. CASE RepairController
    <2>1. /\ Takes("run", "link") /\ Mind("run") /\ pc["run"] = "execute"
          /\ UNCHANGED <<named, file, settled, replays, changed, counters>>
      BY <1>0, <1>1, ControllerEffect
    <2>2. Grows
      BY <2>1 DEF Grows, counters
    <2>3. own'["run"] \in Directories
      BY <2>1 DEF Mind, BundleInv, Holds, Held, Placed, Processes
    <2>4. Held("run")'
      BY <2>1, <2>3, AwayKeepsHeld DEF Mind, Processes
    <2> QED
      BY <2>1, <2>2, <2>4, MovedHolds DEF Takes, Processes
  <1>2. CASE ReplayController
    <2>1. /\ Takes("reader", "link") /\ Same /\ pc["reader"] = "execute"
          /\ UNCHANGED <<got, opened, own, linked>> /\ bound' = got["reader"][RunRecord]
      BY <1>0, <1>2, ControllerEffect
    <2>2. Grows
      BY <2>1 DEF Same, Grows
    <2>3. /\ own["reader"] \in Directories /\ bound = Absent /\ got["reader"][RunRecord] # Absent
          /\ \A m \in Bundle(got["reader"][RunRecord]) :
                got["reader"][m] = got["reader"][RunRecord]
          /\ linked["reader"] = {}
      BY <2>1 DEF BundleInv, Holds, Replaying, Evaluated, Held, Placed, Calls, Processes
    <2>4. Held("reader")'
      BY <2>1, <2>3, AwayKeepsHeld DEF Processes
    <2>5. pc'["reader"] = "link"
      BY <2>1 DEF Takes
    <2>6. Replaying'
      BY <2>1, <2>3, <2>5 DEF Replaying, Calls
    <2>7. Evaluated'
      <3>1. Bundle(got["reader"][RunRecord])' = Bundle(got["reader"][RunRecord])
        BY <2>1, BundleIsFixed DEF Same
      <3> QED
        BY <2>1, <2>3, <2>5, <3>1 DEF Evaluated, Calls
    <2> QED
      BY <2>1, <2>2, <2>4, <2>6, <2>7, MovedHolds DEF Takes, Processes
  <1> QED
    BY <1>1, <1>2

-----------------------------------------------------------------------------
(* Publishing                                                              *)

LEMMA PublisherPlace ==
  ASSUME BundleInv, NEW p \in Processes, pc[p] \in {"link", "finalize"}
  PROVE  own[p] \in Directories /\ left[p] \subseteq Files
  <1>1. CASE p = "run"
    <2>1. own[p] \in Directories /\ left[p] \subseteq 1 .. RunRecord
      BY <1>1 DEF BundleInv, MarkerInv, Publishing, Ordered, Shape
    <2> QED
      BY <2>1, SizeAssumption DEF Files, RunRecord, ReplayRecord
  <1>2. CASE p = "reader"
    <2>1. pc["reader"] = "link" \/ pc["reader"] = "finalize"
      BY <1>2
    <2>2. own[p] \in Directories /\ left[p] = {ReplayRecord}
      BY <1>2, <2>1 DEF BundleInv, MarkerInv, Publishing, Shape
    <2> QED
      BY <2>2, FileNumbers
  <1> QED
    BY <1>1, <1>2 DEF Processes

LEMMA LinkHolds ==
  ASSUME BundleInv, ~stopped, NEW p \in Processes, Link(p) PROVE Grows /\ Holds'
  <1>0. Shape /\ Memory /\ pc[p] = "link"
    BY DEF BundleInv, MarkerInv, Link, At
  <1>1. own[p] \in Directories /\ left[p] \subseteq Files
    BY <1>0, PublisherPlace
  <1>2. CASE Gives(p)
    BY <1>2, GivingUpHolds
  <1>3. CASE ~Gives(p)
    <2>1. PICK n \in Upcoming(left[p]) :
            /\ Takes(p, "finalize")
            /\ UNCHANGED <<got[p], opened[p], left[p], own[p], unseen[p], bound>>
            /\ UNCHANGED <<named, source, selected, replays, changed, counters>>
            /\ file[own[p]][n] = Absent /\ file'[own[p]][n] = Payload(p)
            /\ \A d \in Directories, m \in Files :
                  (d # own[p] \/ m # n) =>
                     file'[d][m] = file[d][m] /\ (m \in settled[d] => m \in settled'[d])
            /\ linked'[p] = linked[p] \cup {n}
      BY <1>0, <1>1, <1>3, LinkTakes
    <2>2. Grows
      BY <2>1 DEF Grows, counters
    <2>3. Held(p)'
      BY <1>0, <1>1, <2>1, AwayKeepsHeld
    <2>4. ASSUME p = "reader" PROVE Replaying' /\ Evaluated'
      <3> DEFINE b == got["reader"][RunRecord]
      <3>1. n = ReplayRecord /\ n \in Files
        BY <1>0, <1>1, <2>1, <2>4 DEF BundleInv, MarkerInv, Publishing, Upcoming
      <3>2. /\ bound # Absent /\ own["reader"] \in Directories /\ bound = b
            /\ \A m \in Bundle(b) : got["reader"][m] = b
            /\ linked["reader"] \subseteq {ReplayRecord}
        BY <1>0, <2>4 DEF BundleInv, Holds, Replaying, Evaluated
      <3>3. pc'["reader"] = "finalize" /\ UNCHANGED <<got["reader"], own["reader"], bound, source>>
        BY <2>1, <2>4 DEF Takes
      <3>4. Replaying'
        BY <3>2, <3>3 DEF Replaying, Calls
      <3>5. file'[own["reader"]][ReplayRecord] = b
        BY <2>1, <2>4, <3>1, <3>2 DEF Payload
      <3>6. Bundle(b)' = Bundle(b)
        BY <2>1, <3>3, BundleIsFixed
      <3>7. linked'["reader"] = {ReplayRecord}
        BY <2>1, <2>4, <3>1, <3>2
      <3>8. Evaluated'
        BY <3>2, <3>3, <3>5, <3>6, <3>7 DEF Evaluated, Calls
      <3> QED
        BY <3>4, <3>8
    <2> QED
      BY <2>1, <2>2, <2>3, <2>4, MovedHolds DEF Takes
  <1> QED
    BY <1>2, <1>3

\* A step of a replay that leaves what it evaluated alone.
LEMMA ReplayGoesOn ==
  ASSUME BundleInv, ~stopped, Grows, NEW l, Takes("reader", l), l \notin Calls,
         UNCHANGED <<got["reader"], own["reader"], linked["reader"], bound, source>>,
         l \in {"link", "finalize", "verify"} => bound # Absent, l # "start"
  PROVE  Replaying' /\ Evaluated'
  <1>1. pc'["reader"] = l
    BY DEF Takes
  <1>2. Replaying'
    BY <1>1 DEF BundleInv, Holds, Replaying
  <1> QED
    BY <1>1, <1>2, EvaluatedStays

LEMMA FinalizeHolds ==
  ASSUME BundleInv, ~stopped, NEW p \in Processes, Finalize(p) PROVE Grows /\ Holds'
  <1>0. Shape /\ Memory /\ pc[p] = "finalize"
    BY DEF BundleInv, MarkerInv, Finalize, At
  <1>1. own[p] \in Directories /\ left[p] \subseteq Files
    BY <1>0, PublisherPlace
  <1>2. CASE Gives(p)
    BY <1>2, GivingUpHolds
  <1>3. CASE ~Gives(p)
    <2>1. PICK n \in Upcoming(left[p]) :
            /\ Mind(p)
            /\ UNCHANGED <<named, file, source, selected, replays, changed, counters>>
            /\ Takes(p, IF left[p] = {n} THEN "verify" ELSE "link")
            /\ \A d \in Directories : settled[d] \subseteq settled'[d]
      BY <1>0, <1>1, <1>3, FinalizeTakes
    <2> DEFINE l == IF left[p] = {n} THEN "verify" ELSE "link"
    <2>2. Grows
      BY <2>1 DEF Grows, counters
    <2>3. l \in {"verify", "link"} /\ Takes(p, l)
      BY <2>1
    <2> HIDE DEF l
    <2>4. Held(p)'
      BY <1>0, <1>1, <2>1, <2>3, AwayKeepsHeld DEF Mind
    <2>5. ASSUME p = "reader" PROVE Replaying' /\ Evaluated'
      <3>1. bound # Absent
        BY <1>0, <2>5 DEF BundleInv, Holds, Replaying
      <3> QED
        BY <2>1, <2>2, <2>3, <2>5, <3>1, ReplayGoesOn DEF Mind, Calls
    <2> QED
      BY <2>1, <2>2, <2>4, <2>5, MovedHolds DEF Takes
  <1> QED
    BY <1>2, <1>3

LEMMA VerifyHolds ==
  ASSUME BundleInv, ~stopped, NEW p \in Processes, Verify(p) PROVE Grows /\ Holds'
  <1>0. Shape /\ Memory /\ pc[p] = "verify"
    BY DEF BundleInv, MarkerInv, Verify, At
  <1>1. CASE Gives(p)
    BY <1>1, GivingUpHolds
  <1>2. CASE ~Gives(p)
    <2>1. /\ Takes(p, "record") /\ Same /\ Mind(p) /\ UNCHANGED source
          /\ left'[p] = {RecordOf(p)}
      BY <1>0, <1>2, VerifyTakes
    <2>2. Grows
      BY <2>1 DEF Same, Grows
    <2>3. own[p] \in Directories /\ (p = "reader" => bound # Absent) /\ verdict[p] = "running"
          /\ (opened[p] # Unopened => opened[p][1] # Absent)
      BY <1>0 DEF BundleInv, Holds, Held, Placed, Gathered, Replaying
    <2>4. /\ pc'[p] = "record" /\ verdict'[p] = "running"
          /\ RecordOf(p)' = RecordOf(p) /\ Place(p)' = own[p]
      BY <2>1, <2>3 DEF Takes, Mind, RecordOf, Place, ReadsInput
    <2>5. Held(p)'
      BY <2>1, <2>3, <2>4 DEF Mind, Held, Placed, Gathered, Verified, Reading
    <2>6. p = "reader" => Replaying' /\ Evaluated'
      BY <2>1, <2>2, ReplayGoesOn DEF Mind, Calls
    <2> QED
      BY <2>1, <2>2, <2>5, <2>6, MovedHolds DEF Takes
  <1> QED
    BY <1>1, <1>2

-----------------------------------------------------------------------------
(* Reading                                                                 *)

LEMMA OpenHolds ==
  ASSUME BundleInv, ~stopped, NEW p \in Processes, Open(p) PROVE Grows /\ Holds'
  <1>0. Shape /\ Memory
    BY DEF BundleInv, MarkerInv
  <1>1. CASE Gives(p)
    BY <1>1, GivingUpHolds
  <1>2. CASE ~Gives(p)
    <2>1. /\ pc[p] \in Reading \ {"root"} /\ file[Place(p)][Min(left[p])] # Absent
          /\ Takes(p, pc[p]) /\ Same
          /\ UNCHANGED <<got[p], left[p], own[p], linked[p], unseen[p], bound, source>>
          /\ opened'[p] = Look(p, Min(left[p]))
      BY <1>0, <1>2, OpenTakes
    <2>2. Grows
      BY <2>1 DEF Same, Grows
    <2>3. opened'[p][1] # Absent
      BY <2>1 DEF Look
    <2>4. /\ RecordOf(p)' = RecordOf(p) /\ Place(p)' = Place(p) /\ Path(p)' = Path(p)
          /\ Declared(p, got[p][RecordOf(p)])' = Declared(p, got[p][RecordOf(p)])
          /\ Known(p)' = Known(p)
      BY <2>1 DEF Same, RecordOf, Place, Path, ReadsInput, Output, Declared, Bundle, Known
    <2>5. Placed(p) /\ Gathered(p) /\ Verified(p) /\ pc'[p] = pc[p] /\ verdict'[p] = verdict[p]
      BY <2>1 DEF BundleInv, Holds, Held, Takes
    <2>6. Placed(p)'
      BY <2>1, <2>4, <2>5 DEF Placed
    <2>7. Gathered(p)'
      BY <2>1, <2>3, <2>4, <2>5 DEF Gathered
    <2>8. \A n : OnDisk(p, n)' <=> OnDisk(p, n)
      BY <2>1, <2>4 DEF Same, OnDisk
    <2>9. Verified(p)'
      BY <2>1, <2>4, <2>5, <2>8 DEF Verified, Same
    <2>10. p = "reader" => Replaying' /\ Evaluated'
      <3>1. pc[p] \notin Calls \cup {"link", "finalize", "verify", "start"}
        BY <2>1 DEF Reading, Calls
      <3> QED
        BY <2>1, <2>2, <3>1, ReplayGoesOn
    <2> QED
      BY <2>1, <2>2, <2>6, <2>7, <2>9, <2>10, MovedHolds DEF Takes, Held
  <1> QED
    BY <1>1, <1>2

LEMMA VerifyRootHolds ==
  ASSUME BundleInv, ~stopped, NEW p \in Processes, VerifyRoot(p) PROVE Grows /\ Holds'
  <1>0. Shape /\ Memory
    BY DEF BundleInv, MarkerInv
  <1>1. CASE Gives(p)
    BY <1>1, GivingUpHolds
  <1>2. CASE ~Gives(p)
    <2>1. /\ pc[p] = "root" /\ SameRoot(p) /\ Same
          /\ UNCHANGED <<got[p], opened[p], left[p], own[p], linked[p], bound, source>>
          /\ unseen'[p] = unseen[p] \ {Root}
          /\ \A q \in Processes \ {p} : Idle(q)
          /\ \/ pc'[p] = "end" /\ verdict'[p] = "done"
             \/ /\ pc'[p] \in {"execute", "absent"} /\ verdict'[p] = verdict[p]
                /\ ReadsInput(p) /\ (pc'[p] = "execute" => own[p] # Nowhere)
             \/ pc'[p] = "end" /\ verdict'[p] = "refused"
      BY <1>0, <1>2, VerifyRootTakes
    <2>2. Grows
      BY <2>1 DEF Same, Grows
    <2>3. /\ RecordOf(p)' = RecordOf(p) /\ Place(p)' = Place(p) /\ Path(p)' = Path(p)
          /\ Declared(p, got[p][RecordOf(p)])' = Declared(p, got[p][RecordOf(p)])
          /\ Known(p)' = Known(p)
      BY <2>1 DEF Same, RecordOf, Place, Path, ReadsInput, Output, Declared, Bundle, Known
    <2>4. Placed(p) /\ Gathered(p) /\ Verified(p) /\ Replaying /\ Evaluated
      BY DEF BundleInv, Holds, Held
    <2>5. CASE pc'[p] = "end" /\ verdict'[p] \in {"done", "refused"}
      <3>1. Placed(p)'
        BY <2>1, <2>3, <2>4, <2>5 DEF Placed, Reading
      <3>2. Gathered(p)'
        BY <2>1, <2>3, <2>4, <2>5 DEF Gathered
      <3>3. \A n \in Known(p) : OnDisk(p, n) => OnDisk(p, n)'
        <4>1. \A n \in Known(p) : n # Root
          BY KnownFiles, SizeAssumption DEF Known, Files, ReplayRecord, Root
        <4> QED
          BY <2>1, <2>3, <4>1 DEF Same, OnDisk
      <3>4. named'[Path(p)] = Place(p)
        BY <2>1 DEF Same, SameRoot
      <3>5. Verified(p)'
        BY <2>1, <2>3, <2>4, <2>5, <3>3, <3>4 DEF Verified
      <3>6. ASSUME p = "reader" PROVE Replaying' /\ Evaluated'
        <4>1. pc'["reader"] = "end" /\ UNCHANGED <<bound, source, own["reader"], linked["reader"],
                                                   got["reader"]>>
          BY <2>1, <2>5, <3>6
        <4>2. Replaying'
          BY <2>4, <4>1 DEF Replaying, Calls
        <4> QED
          BY <2>2, <4>1, <4>2, EvaluatedStays DEF Calls
      <3> QED
        BY <2>1, <2>2, <3>1, <3>2, <3>5, <3>6, MovedHolds DEF Held
    <2>6. ASSUME NEW l \in {"execute", "absent"}, pc'[p] = l, verdict'[p] = verdict[p],
                 ReadsInput(p), l = "execute" => own[p] # Nowhere
          PROVE  Holds'
      <3>1. p = "reader" /\ bound = Absent /\ source \in Directories
        BY <2>1, <2>4, <2>6 DEF ReadsInput, Placed, Place, Reading
      <3>2. Takes(p, l)
        BY <2>1, <2>6 DEF Takes
      <3>3. l = "execute" => own'[p] \in Directories
        BY <1>0, <2>1, <2>6 DEF Shape
      <3>4. Held(p)'
        BY <2>1, <3>2, <3>3, AwayKeepsHeld DEF Calls
      <3>5. Replaying'
        BY <2>1, <2>6, <3>1 DEF Replaying, Calls
      <3>6. Evaluated'
        <4> DEFINE b == got["reader"][RunRecord]
        <4>1. RecordOf(p) = RunRecord /\ Declared(p, b) = Bundle(b)
          BY <2>6, <3>1, FileNumbers DEF RecordOf, Declared
        <4>2. b # Absent /\ \A m \in Bundle(b) : got["reader"][m] = b
          BY <2>1, <2>4, <3>1, <4>1 DEF Gathered
        <4>3. linked["reader"] = {} /\ linked'["reader"] = {}
          BY <2>1, <2>4, <3>1 DEF Evaluated
        <4>4. Bundle(b)' = Bundle(b) /\ b' = b
          BY <2>1, <3>1, BundleIsFixed DEF Same
        <4> QED
          BY <2>1, <3>1, <4>2, <4>3, <4>4 DEF Evaluated
      <3> QED
        BY <2>1, <2>2, <3>1, <3>4, <3>5, <3>6, MovedHolds
    <2> QED
      BY <2>1, <2>2, <2>5, <2>6
  <1> QED
    BY <1>1, <1>2

LEMMA UponPass ==
  ASSUME NEW p, NEW n, NEW b
  PROVE  /\ pc[p] = "record" /\ Declared(p, b) # {} => Upon(p, n, b) = <<"members", Declared(p, b)>>
         /\ pc[p] = "record" /\ Declared(p, b) = {} => Upon(p, n, b) = <<"again", {n}>>
         /\ pc[p] = "members" /\ left[p] \ {n} = {} =>
              Upon(p, n, b) = <<"again", Declared(p, got[p][RecordOf(p)]) \cup {RecordOf(p)}>>
         /\ pc[p] = "members" /\ left[p] \ {n} # {} =>
              Upon(p, n, b) = <<"members", left[p] \ {n}>>
         /\ pc[p] = "again" /\ left[p] \ {n} = {} => Upon(p, n, b) = <<"root", {}>>
         /\ pc[p] = "again" /\ left[p] \ {n} # {} => Upon(p, n, b) = <<"again", left[p] \ {n}>>
  BY DEF Upon

LEMMA ReadHolds ==
  ASSUME BundleInv, ~stopped, NEW p \in Processes, Read(p) PROVE Grows /\ Holds'
  <1>0. /\ Shape /\ Memory /\ pc[p] \in Reading \ {"root"} /\ opened[p] # Unopened
        /\ Placed(p) /\ Gathered(p) /\ Verified(p)
    BY DEF BundleInv, MarkerInv, Holds, Held, Read
  <1> DEFINE n == Min(left[p])  b == opened[p][1]  r == RecordOf(p)
  <1>1. /\ n \in left[p] /\ n \in Files /\ n \in Known(p) /\ left[p] \subseteq Files
        /\ pc[p] = "members" => n \in Declared(p, got[p][r])
    BY <1>0, LeastOfPass
  <1> HIDE DEF n
  <1>2. CASE Gives(p)
    BY <1>2, GivingUpHolds
  <1>3. CASE ~Gives(p)
    <2>1. /\ Look(p, n) = opened[p] /\ Matches(p, n, b)
          /\ Takes(p, Upon(p, n, b)[1]) /\ Same
          /\ UNCHANGED <<own[p], linked[p], bound, source>>
          /\ got'[p][n] = b /\ \A m \in Files \ {n} : got'[p][m] = got[p][m]
          /\ opened'[p] = Unopened /\ left'[p] = Upon(p, n, b)[2]
          /\ unseen'[p] = IF pc[p] = "again" THEN unseen[p] \ {n} ELSE unseen[p]
      BY <1>0, <1>1, <1>3, ReadTakes DEF n
    <2>2. Grows
      BY <2>1 DEF Same, Grows
    <2>3. /\ r' = r /\ Place(p)' = Place(p) /\ Path(p)' = Path(p) /\ r \in Files
          /\ \A c : Declared(p, c)' = Declared(p, c) /\ Declared(p, c) \subseteq Files \ {r}
      <3>1. r' = r /\ Place(p)' = Place(p) /\ Path(p)' = Path(p) /\ r \in Files
        BY <2>1, KnownFiles DEF RecordOf, Place, Path, ReadsInput, Output
      <3>2. \A c : Declared(p, c)' = Declared(p, c)
        BY <2>1, <3>1 DEF Same, Declared, Bundle
      <3>3. \A c : Declared(p, c) \subseteq Files \ {r}
        BY FileNumbers, SizeAssumption DEF Declared, Bundle, RecordOf
      <3> QED
        BY <3>1, <3>2, <3>3
    <2>4. b # Absent /\ file[Place(p)][n] = b /\ verdict'[p] = "running" /\ verdict[p] = "running"
      BY <1>0, <2>1 DEF Gathered, Look, Placed, Takes, Reading
    <2> HIDE DEF r, b
    <2>5. ASSUME pc[p] = "record" PROVE Held(p)'
      <3>1. n = r /\ got'[p][r] = b
        BY <1>0, <1>1, <2>1, <2>5 DEF Gathered, r
      <3>2. CASE Declared(p, b) # {}
        <4>1. pc'[p] = "members" /\ left'[p] = Declared(p, b)
          BY <2>1, <2>5, <3>2, UponPass DEF Takes
        <4> QED
          BY <1>0, <2>1, <2>3, <2>4, <3>1, <3>2, <4>1
             DEF Held, Placed, Gathered, Verified, Reading, r
      <3>3. CASE Declared(p, b) = {}
        <4>1. pc'[p] = "again" /\ left'[p] = {r}
          BY <2>1, <2>5, <3>1, <3>3, UponPass DEF Takes
        <4>2. Known(p)' = {r}
          BY <2>3, <3>1, <3>3 DEF Known, r
        <4> QED
          BY <1>0, <2>1, <2>3, <2>4, <3>1, <3>3, <4>1, <4>2
             DEF Held, Placed, Gathered, Verified, Reading, r
      <3> QED
        BY <3>2, <3>3
    <2>6. ASSUME pc[p] = "members" PROVE Held(p)'
      <3> DEFINE D == Declared(p, got[p][r])
      <3>1. n \in D /\ b = got[p][r] /\ got'[p][r] = got[p][r] /\ D \subseteq Files
        BY <1>1, <2>1, <2>3, <2>6 DEF Matches, r
      <3>2. \A m \in D \ (left[p] \ {n}) : got'[p][m] = b
        BY <1>0, <2>1, <2>6, <3>1 DEF Gathered, r
      <3>3. Declared(p, got[p][r])' = D /\ Known(p)' = D \cup {r} /\ left[p] \subseteq D
        BY <1>0, <2>3, <2>6, <3>1 DEF Known, Gathered, r
      <3>4. CASE left[p] \ {n} = {}
        <4>1. pc'[p] = "again" /\ left'[p] = D \cup {r}
          BY <2>1, <2>6, <3>4, UponPass DEF Takes, r
        <4> QED
          BY <1>0, <2>1, <2>3, <2>4, <2>6, <3>1, <3>2, <3>3, <3>4, <4>1
             DEF Held, Placed, Gathered, Verified, Reading, r
      <3>5. CASE left[p] \ {n} # {}
        <4>1. pc'[p] = "members" /\ left'[p] = left[p] \ {n}
          BY <2>1, <2>6, <3>5, UponPass DEF Takes
        <4> QED
          BY <1>0, <2>1, <2>3, <2>4, <2>6, <3>1, <3>2, <3>3, <3>5, <4>1
             DEF Held, Placed, Gathered, Verified, Reading, r
      <3> QED
        BY <3>4, <3>5
    <2>7. ASSUME pc[p] = "again" PROVE Held(p)'
      <3> DEFINE D == Declared(p, got[p][r])
      <3>1. \A m \in Files : got'[p][m] = got[p][m]
        BY <1>1, <2>1, <2>7 DEF Matches
      <3>2. D \subseteq Files /\ got'[p][r] = got[p][r] /\ Declared(p, got[p][r])' = D
        BY <2>3, <3>1
      <3>3. Known(p)' = D \cup {r} /\ Known(p) = D \cup {r}
        BY <2>3, <3>2 DEF Known, r
      <3>4. \A m \in Known(p) \ (left[p] \ {n}) : OnDisk(p, m)'
        <4> SUFFICES ASSUME NEW m \in Known(p) \ (left[p] \ {n}) PROVE OnDisk(p, m)'
          OBVIOUS
        <4>1. CASE m = n
          BY <1>1, <2>1, <2>3, <2>4, <4>1 DEF OnDisk, Same
        <4>2. CASE m # n
          <5>1. OnDisk(p, m) /\ m \in Files
            BY <1>0, <2>3, <2>7, <3>2, <3>3, <4>2 DEF Verified
          <5>2. m \in unseen[p] => m \in unseen'[p]
            BY <2>1, <4>2
          <5> QED
            BY <2>1, <2>3, <3>1, <5>1, <5>2 DEF OnDisk, Same
        <4> QED
          BY <4>1, <4>2
      <3>5. got[p][r] # Absent /\ \A m \in D : got'[p][m] = got[p][r]
        BY <1>0, <2>7, <3>1, <3>2 DEF Gathered, r
      <3>6. left[p] \subseteq D \cup {r}
        BY <1>0, <2>7 DEF Gathered, r
      <3>7. CASE left[p] \ {n} = {}
        <4>1. pc'[p] = "root" /\ left'[p] = {}
          BY <2>1, <2>7, <3>7, UponPass DEF Takes
        <4> QED
          BY <1>0, <2>1, <2>3, <2>4, <2>7, <3>2, <3>3, <3>4, <3>5, <3>7, <4>1
             DEF Held, Placed, Gathered, Verified, Reading, r
      <3>8. CASE left[p] \ {n} # {}
        <4>1. pc'[p] = "again" /\ left'[p] = left[p] \ {n}
          BY <2>1, <2>7, <3>8, UponPass DEF Takes
        <4> QED
          BY <1>0, <2>1, <2>3, <2>4, <2>7, <3>2, <3>3, <3>4, <3>5, <3>6, <3>8, <4>1
             DEF Held, Placed, Gathered, Verified, Reading, r
      <3> QED
        BY <3>7, <3>8
    <2>8. Held(p)'
      BY <1>0, <2>5, <2>6, <2>7 DEF Reading
    <2>9. ASSUME p = "reader" PROVE Replaying' /\ Evaluated'
      <3>1. pc'["reader"] \in Reading
        BY <1>0, <2>1, <2>9 DEF Takes, Upon, Reading
      <3>2. Replaying'
        BY <2>1, <2>9, <3>1 DEF BundleInv, Holds, Replaying, Reading, Calls
      <3>3. bound # Absent => n = ReplayRecord
        BY <1>1, <2>9 DEF Known, Declared, RecordOf, ReadsInput
      <3>4. \/ \A m \in Files \ {ReplayRecord} : got'["reader"][m] = got["reader"][m]
            \/ bound = Absent
        BY <2>1, <2>9, <3>3
      <3> QED
        BY <2>1, <2>2, <2>9, <3>1, <3>2, <3>4, EvaluatedStays DEF Calls, Reading
    <2> QED
      BY <2>1, <2>2, <2>8, <2>9, MovedHolds DEF Takes
  <1> QED
    BY <1>2, <1>3

-----------------------------------------------------------------------------
(* Somebody else, and power loss                                           *)

LEMMA RivalsHold ==
  ASSUME BundleInv, ~stopped,
         \/ \E d \in Directories, n \in Files, b \in {Absent, Theirs, Junk} : RivalFile(d, n, b)
         \/ \E path \in Paths, d \in Directories \cup {Nowhere} : RivalRoot(path, d)
  PROVE  Holds'
  <1>0. Shape /\ Memory /\ Holds
    BY DEF BundleInv, MarkerInv
  <1>1. UNCHANGED <<pc, source, own, got, opened, left, bound, verdict, selected, replays, linked>>
        /\ changed \subseteq changed'
    BY DEF RivalFile, RivalRoot, commands
  <1>2. \A q \in Processes :
          /\ RecordOf(q)' = RecordOf(q) /\ Place(q)' = Place(q) /\ Path(q)' = Path(q)
          /\ Declared(q, got[q][RecordOf(q)])' = Declared(q, got[q][RecordOf(q)])
          /\ Known(q)' = Known(q)
    BY <1>1 DEF RecordOf, Place, Path, ReadsInput, Output, Declared, Bundle, Known
  <1>3. Replaying'
    BY <1>0, <1>1 DEF Holds, Replaying
  <1>4. \A q \in Processes : Placed(q)' /\ Gathered(q)'
    BY <1>0, <1>1, <1>2 DEF Holds, Held, Placed, Gathered
  <1>5. /\ \A q \in Processes, m \in Files :
             (Place(q) \in Directories /\ OnDisk(q, m)) => OnDisk(q, m)'
        /\ \A q \in Processes : (named[Path(q)] = Place(q) \/ Root \in unseen[q])
                                => (named'[Path(q)] = Place(q) \/ Root \in unseen'[q])
        /\ \A e \in Directories, m \in Files : file'[e][m] = file[e][m] \/ <<e, m>> \in changed'
    <2>1. ASSUME NEW d \in Directories, NEW n \in Files, NEW b, RivalFile(d, n, b)
          PROVE  <1>5!1 /\ <1>5!2 /\ <1>5!3
      <3>1. /\ \A e \in Directories, m \in Files : (e # d \/ m # n) => file'[e][m] = file[e][m]
            /\ changed' = changed \cup {<<d, n>>} /\ UNCHANGED named
        BY <1>0, <2>1 DEF RivalFile, Show, Shape
      <3>2. unseen' = [q \in Processes |-> IF Place(q) = d THEN unseen[q] \cup {n} ELSE unseen[q]]
        BY <2>1 DEF RivalFile
      <3>3. \A q \in Processes : unseen'[q] = IF Place(q) = d THEN unseen[q] \cup {n} ELSE unseen[q]
        BY <3>2
      <3> QED
        BY <1>1, <1>2, <3>1, <3>3 DEF OnDisk
    <2>2. ASSUME NEW path \in Paths, NEW d, RivalRoot(path, d)
          PROVE  <1>5!1 /\ <1>5!2 /\ <1>5!3
      <3>1. UNCHANGED file /\ \A x \in Paths : x # path => named'[x] = named[x]
        BY <1>0, <2>2 DEF RivalRoot, contents, Shape
      <3>2. unseen' = [q \in Processes |->
                          IF Path(q) = path THEN unseen[q] \cup {Root} ELSE unseen[q]]
        BY <2>2 DEF RivalRoot
      <3>3. \A q \in Processes : /\ unseen'[q] = IF Path(q) = path THEN unseen[q] \cup {Root} ELSE unseen[q]
                                 /\ Path(q) \in Paths
        BY <3>2 DEF Path, Output, Paths
      <3> QED
        BY <1>1, <1>2, <3>1, <3>3 DEF OnDisk
    <2> QED
      BY <2>1, <2>2
  <1>6. \A q \in Processes : Known(q) \subseteq Files
    BY KnownFiles DEF Known
  <1>7. \A q \in Processes : Verified(q)'
    <2> SUFFICES ASSUME NEW q \in Processes PROVE Verified(q)'
      OBVIOUS
    <2>1. pc[q] \in Reading \/ verdict[q] = "done" => Place(q) \in Directories
      BY <1>0 DEF Holds, Held, Placed
    <2> QED
      BY <1>0, <1>1, <1>2, <1>5, <1>6, <2>1 DEF Holds, Held, Verified, Reading
  <1>8. Evaluated'
    <2>1. Bundle(got["reader"][RunRecord])' = Bundle(got["reader"][RunRecord])
      BY <1>1 DEF Bundle
    <2>2. \A n \in linked["reader"] : n \in Files /\ own["reader"] \in Directories
      BY <1>0, FileNumbers DEF Holds, Evaluated, Replaying
    <2> QED
      BY <1>0, <1>1, <1>5, <2>1, <2>2 DEF Holds, Evaluated
  <1> QED
    BY <1>3, <1>4, <1>7, <1>8 DEF Holds, Held

\* Every step of a process, while the machine runs.
LEMMA ProcessesHold ==
  ASSUME BundleInv, Next, \/ RunStart \/ RepairController \/ ReaderStart \/ ReplayController
                          \/ \E p \in Processes : Step(p)
  PROVE  ~stopped /\ Grows /\ Holds'
  <1>1. ~stopped
    BY DEF RunStart, RepairController, ReaderStart, ReplayController, Step, DestinationAbsent,
           MakeDirectory, Bind, Unpublished, Link, Finalize, Verify, Open, Read, VerifyRoot,
           CallFails, At
  <1>2. CASE RunStart
    BY <1>1, <1>2, ApproachHolds DEF Processes
  <1>3. ASSUME NEW p \in Processes, Step(p) PROVE Grows /\ Holds'
    BY <1>1, <1>3, ApproachHolds, BindHolds, LinkHolds, FinalizeHolds, VerifyHolds, OpenHolds,
       ReadHolds, VerifyRootHolds DEF Step
  <1> QED
    BY <1>1, <1>2, <1>3, ReaderStartHolds, ControllersHold

-----------------------------------------------------------------------------
(* Nobody knows bytes of the run before it publishes                       *)

LEMMA QuietLearnsNothing ==
  ASSUME BundleInv, ~stopped, pc["run"] \in Before, NEW p \in Processes, Quiet(p)
  PROVE  /\ \A n \in Files : got'["reader"][n] # Ours
         /\ opened'["reader"][1] # Ours /\ bound' # Ours
  <1>0. /\ Shape /\ Memory
        /\ \A d \in Directories, n \in Files : file[d][n] # Ours
        /\ \A n \in Files : got["reader"][n] # Ours
        /\ opened["reader"][1] # Ours /\ bound # Ours /\ Unopened[1] # Ours
    BY DEF BundleInv, MarkerInv, UnseenYet, Unopened, Junk, Ours
  <1>1. CASE Idle("reader")
    BY <1>0, <1>1 DEF Idle
  <1>2. CASE Gives(p)
    BY <1>0, <1>1, <1>2 DEF Gives, Processes
  <1>3. CASE p = "reader" /\ UNCHANGED <<got["reader"], opened["reader"], bound>>
    BY <1>0, <1>3
  <1>4. CASE p = "reader" /\ Open(p)
    <2>1. Min(left[p]) \in Files /\ Place(p) \in Directories
      BY <1>4, LeastOfPass, HeldIsPlaced DEF Open, BundleInv, Holds, Held, Reading
    <2>2. \/ Gives(p)
          \/ /\ UNCHANGED <<got[p], bound>>
             /\ opened'[p] = Look(p, Min(left[p]))
      BY <1>0, <1>4, OpenTakes
    <2> QED
      BY <1>0, <1>2, <1>4, <2>1, <2>2 DEF Look
  <1>5. CASE p = "reader" /\ Read(p)
    <2>1. Min(left[p]) \in Files
      BY <1>5, LeastOfPass DEF Read, BundleInv, Holds, Held
    <2>2. \/ Gives(p)
          \/ /\ bound' = bound /\ opened'[p] = Unopened
             /\ got'[p][Min(left[p])] = opened[p][1]
             /\ \A m \in Files \ {Min(left[p])} : got'[p][m] = got[p][m]
      BY <1>0, <1>5, <2>1, ReadTakes
    <2> QED
      BY <1>0, <1>2, <1>5, <2>2
  <1>6. CASE p = "reader" /\ ~Open(p) /\ ~Read(p)
    <2>1. Gives(p) \/ UNCHANGED <<got["reader"], opened["reader"], bound>>
      BY <1>0, <1>6, ApproachEffect, MakeDirectoryEffect, BindEffect, VerifyTakes, VerifyRootTakes
         DEF Quiet, Mind
    <2> QED
      BY <1>2, <1>3, <1>6, <2>1
  <1>7. CASE p = "run"
    <2>1. ~Read(p) /\ ~Open(p) /\ ~Verify(p) /\ ~VerifyRoot(p)
      BY <1>7 DEF Read, Open, Verify, VerifyRoot, At, Before, Reading
    <2>2. Gives(p) \/ \E l : Takes(p, l)
      BY <1>0, <2>1, ApproachEffect, MakeDirectoryEffect, BindEffect DEF Quiet
    <2> QED
      BY <1>1, <1>2, <1>7, <2>2 DEF Takes, Processes
  <1> QED
    BY <1>4, <1>5, <1>6, <1>7 DEF Processes

LEMMA UnseenYetInductive ==
  ASSUME BundleInv, Next PROVE UnseenYet'
  <1>0. Shape /\ Memory
    BY DEF BundleInv, MarkerInv
  <1> SUFFICES ASSUME pc'["run"] \in Before
               PROVE  /\ \A d \in Directories, n \in Files : file'[d][n] # Ours
                      /\ \A n \in Files : got'["reader"][n] # Ours
                      /\ opened'["reader"][1] # Ours /\ bound' # Ours
    BY DEF UnseenYet
  <1> DEFINE unknown == /\ \A d \in Directories, n \in Files : file[d][n] # Ours
                        /\ \A n \in Files : got["reader"][n] # Ours
                        /\ opened["reader"][1] # Ours /\ bound # Ours
  <1>1. pc["run"] \in Before => unknown
    BY DEF BundleInv, UnseenYet
  <1>2. CASE \E p \in Processes : Quiet(p)
    <2>1. PICK p \in Processes : Quiet(p)
      BY <1>2
    <2>2. Aside(p) /\ Calm
      BY <1>0, <2>1, QuietIsAside, AsideIsCalm
    <2>3. ~stopped
      BY <2>1 DEF Quiet, DestinationAbsent, MakeDirectory, Bind, Unpublished, Verify, Open, Read,
                  VerifyRoot, CallFails, At
    <2> QED
      BY <1>1, <2>1, <2>2, <2>3, QuietLearnsNothing DEF Calm
  <1>3. CASE RunStart \/ ReaderStart
    <2>1. Calm
      BY <1>0, <1>3, OthersAreCalm
    <2>2. UNCHANGED <<got, opened, bound>>
      BY <1>3 DEF RunStart, ReaderStart, progress
    <2> QED
      BY <1>1, <2>1, <2>2 DEF Calm
  <1>4. CASE RepairController
    BY <1>0, <1>4, ControllerEffect DEF Takes, Before
  <1>5. CASE ReplayController
    <2>1. Calm
      BY <1>0, <1>5, OthersAreCalm
    <2>2. UNCHANGED <<got, opened>> /\ bound' = got["reader"][RunRecord]
      BY <1>0, <1>5, ControllerEffect
    <2> QED
      BY <1>1, <2>1, <2>2, FileNumbers DEF Calm
  <1>6. ASSUME NEW p \in Processes, Link(p) \/ Finalize(p)
        PROVE  unknown'
    <2>1. pc[p] \in {"link", "finalize"} /\ own[p] \in Directories /\ left[p] \subseteq Files
      <3>1. pc[p] \in {"link", "finalize"}
        BY <1>6 DEF Link, Finalize, At
      <3> QED
        BY <3>1, PublisherPlace
    <2>2. CASE p = "run"
      BY <1>0, <1>6, <2>1, <2>2, LinkTakes, FinalizeTakes DEF Gives, Takes, Before
    <2>3. CASE p = "reader"
      <3>1. pc["run"] \in Before
        BY <1>0, <1>6, <2>1, <2>3, LinkTakes, FinalizeTakes DEF Gives, Takes, Idle, Processes
      <3>2. UNCHANGED <<got["reader"], bound>> /\ opened'["reader"] \in {Unopened, opened["reader"]}
        BY <1>0, <1>6, <2>1, <2>3, LinkTakes, FinalizeTakes DEF Gives, Mind
      <3>3. \/ UNCHANGED file
            \/ \E n \in Upcoming(left[p]) :
                  /\ file'[own[p]][n] = bound
                  /\ \A d \in Directories, m \in Files :
                        (d # own[p] \/ m # n) => file'[d][m] = file[d][m]
        <4>1. CASE Link(p)
          <5>1. Payload(p) = bound
            BY <2>3 DEF Payload
          <5> QED
            BY <1>0, <2>1, <4>1, <5>1, LinkTakes DEF Gives
        <4>2. CASE Finalize(p)
          BY <1>0, <2>1, <4>2, FinalizeTakes DEF Gives
        <4> QED
          BY <1>6, <4>1, <4>2
      <3>4. \A d \in Directories, n \in Files : file'[d][n] # Ours
        BY <1>1, <3>1, <3>3
      <3>5. opened'["reader"][1] # Ours
        <4>1. Unopened[1] # Ours
          BY DEF Unopened, Junk, Ours
        <4> QED
          BY <1>1, <3>1, <3>2, <4>1
      <3> QED
        BY <1>1, <3>1, <3>2, <3>4, <3>5
    <2> QED
      BY <2>2, <2>3 DEF Processes
  <1>7. ASSUME NEW d \in Directories, NEW n \in Files, NEW b \in {Absent, Theirs, Junk},
               RivalFile(d, n, b)
        PROVE  unknown'
    <2>1. UNCHANGED <<pc, got, opened, bound>> /\ file'[d][n] # Ours
          /\ \A e \in Directories, m \in Files : (e # d \/ m # n) => file'[e][m] = file[e][m]
      BY <1>0, <1>7 DEF RivalFile, Show, Shape, commands, Absent, Theirs, Junk, Ours
    <2> QED
      BY <1>1, <2>1
  <1>8. ASSUME NEW path, NEW d, RivalRoot(path, d) PROVE unknown'
    BY <1>1, <1>8 DEF RivalRoot, commands, contents
  <1>9. CASE PowerLoss
    BY <1>9 DEF PowerLoss, Before, Processes
  <1> QED
    BY <1>2, <1>3, <1>4, <1>5, <1>6, <1>7, <1>8, <1>9 DEF Next, Step, Quiet

-----------------------------------------------------------------------------
LEMMA MemoryInductive ==
  ASSUME Shape, Memory, Next PROVE Memory'
  <1> USE DEF given, progress, contents, commands, disk, ghosts, counters
  <1>1. ASSUME NEW p \in Processes, NEW cause, Fail(p, cause), UNCHANGED rival,
               faults' \in {faults, faults + 1}
        PROVE  Memory'
    <2>1. rival' \in Nat /\ faults' \in Nat
      BY <1>1 DEF Memory
    <2>2. /\ verdict' = [verdict EXCEPT ![p] = Classify(p, cause)]
          /\ opened' = [q \in Processes |-> IF q \in {p} THEN Unopened ELSE opened[q]]
          /\ UNCHANGED <<settled, got, linked, unseen>>
      BY <1>1 DEF Fail, End, Forget
    <2> QED
      BY <2>1, <2>2 DEF Memory
  <1>2. CASE RunStart \/ ReaderStart
    <2>1. CASE RunStart
      BY <2>1 DEF RunStart, Goto, End, Memory
    <2>2. CASE ReaderStart
      BY <2>2 DEF ReaderStart, Goto, End, Memory
    <2> QED
      BY <1>2, <2>1, <2>2
  <1>3. CASE RepairController \/ ReplayController
    BY <1>3 DEF RepairController, ReplayController, Goto, Memory
  <1>4. ASSUME NEW p \in Processes, DestinationAbsent(p) \/ Unpublished(p) PROVE Memory'
    BY <1>4 DEF DestinationAbsent, Unpublished, Goto, End, Memory
  <1>5. ASSUME NEW p \in Processes, MakeDirectory(p) \/ Bind(p) \/ Verify(p) PROVE Memory'
    <2>1. \/ \E cause : Fail(p, cause)
          \/ \E l : Goto(p, l) /\ UNCHANGED <<settled, got, opened, linked, unseen>>
      BY <1>5 DEF MakeDirectory, Bind, Verify
    <2>2. UNCHANGED <<rival, faults>>
      BY <1>5 DEF MakeDirectory, Bind, Verify
    <2> QED
      BY <1>1, <2>1, <2>2 DEF Goto, Memory
  <1>6. ASSUME NEW p \in Processes, Link(p) PROVE Memory'
    <2>1. \/ Fail(p, "exists")
          \/ /\ \E S : settled' = [settled EXCEPT ![own[p]] = S]
             /\ \E S : linked' = [linked EXCEPT ![p] = S]
             /\ UNCHANGED <<verdict, got, opened, unseen>>
      BY <1>6 DEF Link, Goto
    <2>2. UNCHANGED <<rival, faults>>
      BY <1>6 DEF Link
    <2> QED
      BY <1>1, <2>1, <2>2 DEF Memory
  <1>7. ASSUME NEW p \in Processes, Finalize(p) PROVE Memory'
    <2>1. \/ Fail(p, "inadmissible")
          \/ /\ \E S : settled' = [settled EXCEPT ![own[p]] = S]
             /\ UNCHANGED <<verdict, got, opened, linked, unseen>>
      BY <1>7 DEF Finalize, Goto
    <2>2. UNCHANGED <<rival, faults>>
      BY <1>7 DEF Finalize
    <2> QED
      BY <1>1, <2>1, <2>2 DEF Memory
  <1>8. ASSUME NEW p \in Processes, Open(p) PROVE Memory'
    <2>1. \/ Fail(p, "missing")
          \/ /\ \E o : opened' = [opened EXCEPT ![p] = o]
             /\ UNCHANGED <<settled, verdict, got, linked, unseen>>
      BY <1>8 DEF Open
    <2>2. UNCHANGED <<rival, faults>>
      BY <1>8 DEF Open
    <2> QED
      BY <1>1, <2>1, <2>2 DEF Memory
  <1>9. ASSUME NEW p \in Processes, Read(p) PROVE Memory'
    <2>1. \/ Fail(p, "inadmissible")
          \/ /\ \E n, b : got' = [got EXCEPT ![p][n] = b]
             /\ opened' = [opened EXCEPT ![p] = Unopened]
             /\ \E S : unseen' = [unseen EXCEPT ![p] = S]
             /\ UNCHANGED <<settled, verdict, linked>>
      BY <1>9 DEF Read, Goto
    <2>2. UNCHANGED <<rival, faults>>
      BY <1>9 DEF Read
    <2>3. CASE Fail(p, "inadmissible")
      BY <1>1, <2>2, <2>3
    <2>4. CASE ~Fail(p, "inadmissible")
      <3>1. PICK n, b : got' = [got EXCEPT ![p][n] = b]
        BY <2>1, <2>4
      <3>2. /\ got' = [q \in Processes |-> got'[q]]
            /\ \A q \in Processes : got'[q] = [m \in Files |-> got'[q][m]]
        BY <3>1 DEF Memory
      <3> QED
        BY <2>1, <2>2, <2>4, <3>2 DEF Memory
    <2> QED
      BY <2>3, <2>4
  <1>10. ASSUME NEW p \in Processes, VerifyRoot(p) PROVE Memory'
    <2>1. \/ \E cause : Fail(p, cause)
          \/ /\ UNCHANGED verdict \/ \E how : verdict' = [verdict EXCEPT ![p] = how]
             /\ \E S : unseen' = [unseen EXCEPT ![p] = S]
             /\ UNCHANGED <<settled, got, opened, linked>>
      BY <1>10 DEF VerifyRoot, Goto, End
    <2>2. UNCHANGED <<rival, faults>>
      BY <1>10 DEF VerifyRoot
    <2>3. CASE \E cause : Fail(p, cause)
      BY <1>1, <2>2, <2>3
    <2>4. CASE ~\E cause : Fail(p, cause)
      <3>1. verdict' = [q \in Processes |-> verdict'[q]]
        BY <2>1, <2>4 DEF Memory
      <3> QED
        BY <2>1, <2>2, <2>4, <3>1 DEF Memory
    <2> QED
      BY <2>3, <2>4
  <1>11. ASSUME NEW p \in Processes, CallFails(p) PROVE Memory'
    BY <1>1, <1>11 DEF CallFails
  <1>12. ASSUME NEW d \in Directories, NEW n \in Files, NEW b, RivalFile(d, n, b) PROVE Memory'
    <2>1. /\ settled' = [settled EXCEPT ![d] = @ \cup {n}] /\ UNCHANGED <<got, opened, verdict, linked>>
          /\ unseen' = [p \in Processes |-> IF Place(p) = d THEN unseen[p] \cup {n} ELSE unseen[p]]
          /\ rival' = rival + 1 /\ UNCHANGED faults
      BY <1>12 DEF RivalFile, Meddle
    <2>2. settled' = [e \in Directories |-> settled'[e]] /\ unseen' = [p \in Processes |-> unseen'[p]]
      BY <2>1 DEF Memory
    <2>3. rival' \in Nat /\ faults' \in Nat
      BY <2>1 DEF Memory
    <2> QED
      BY <2>1, <2>2, <2>3 DEF Memory
  <1>13. ASSUME NEW path, NEW d, RivalRoot(path, d) PROVE Memory'
    BY <1>13 DEF RivalRoot, Meddle, Memory
  <1>14. CASE PowerLoss
    BY <1>14 DEF PowerLoss, Forget, Nothing, Memory
  <1> QED
    BY <1>2, <1>3, <1>4, <1>5, <1>6, <1>7, <1>8, <1>9, <1>10, <1>11, <1>12, <1>13, <1>14
       DEF Next, Step

LEMMA BundleInvInductive == BundleInv /\ [Next]_vars => BundleInv'
  <1> SUFFICES ASSUME BundleInv, Next \/ UNCHANGED vars PROVE BundleInv'
    OBVIOUS
  <1>1. CASE Next
    <2>1. MarkerInv' /\ Memory' /\ UnseenYet'
      BY <1>1, MarkerInvInductive, MemoryInductive, UnseenYetInductive DEF BundleInv, MarkerInv
    <2>2. CASE \/ RunStart \/ RepairController \/ ReaderStart \/ ReplayController
               \/ \E p \in Processes : Step(p)
      BY <1>1, <2>1, <2>2, ProcessesHold DEF BundleInv, Grows
    <2>3. CASE \/ \E d \in Directories, n \in Files, b \in {Absent, Theirs, Junk} : RivalFile(d, n, b)
               \/ \E path \in Paths, d \in Directories \cup {Nowhere} : RivalRoot(path, d)
      <3>1. ~stopped /\ stopped' = stopped
        BY <2>3 DEF RivalFile, RivalRoot, Meddle
      <3> QED
        BY <2>1, <2>3, <3>1, RivalsHold DEF BundleInv
    <2>4. CASE PowerLoss
      BY <2>1, <2>4 DEF PowerLoss, BundleInv, Gone
    <2> QED
      BY <1>1, <2>2, <2>3, <2>4 DEF Next
  <1>2. CASE UNCHANGED vars
    <2>1. MarkerInv'
      BY <1>2, MarkerInvInductive DEF BundleInv
    <2>2. /\ UNCHANGED <<named, file, settled, source, own, got, opened, left, bound, verdict, selected>>
          /\ UNCHANGED <<replays, linked, changed, unseen, rival, faults, stopped, pc>>
      BY <1>2 DEF vars, disk, commands, ghosts, counters
    <2>3. Memory' /\ UnseenYet'
      BY <2>2 DEF BundleInv, Memory, UnseenYet
    <2>4. CASE stopped
      BY <2>1, <2>2, <2>3, <2>4 DEF BundleInv, Gone
    <2>5. CASE ~stopped
      <3>1. \A q \in Processes : Idle(q)
        BY <2>2 DEF Idle
      <3>2. Grows
        BY <2>2 DEF Grows
      <3>3. Holds'
        BY <2>5, <3>1, <3>2, IdleKeepsHeld, IdleReaderReplays DEF Holds, Processes
      <3> QED
        BY <2>1, <2>2, <2>3, <2>5, <3>3 DEF BundleInv
    <2> QED
      BY <2>4, <2>5
  <1> QED
    BY <1>1, <1>2

\* What a reader admits, and a replay evaluates, is one bundle and never a mixture of two, and the
\* record of the replay binds that bundle, for any number of members, whoever interferes, whatever
\* fails and whenever the power is lost (load_record and _read_record of repair/_files.py).
THEOREM ReadersAdmitOneBundle == Spec => []OneBundle
  <1>1. ASSUME BundleInv PROVE OneBundle
    <2> DEFINE b == got["reader"][RunRecord]
    <2>1. CASE stopped
      <3>1. \A n \in Files : got["reader"][n] = Absent
        BY <1>1, <2>1 DEF BundleInv, Gone, Nothing, Processes
      <3>2. bound = Absent /\ \A m \in Bundle(b) : m \in Files /\ RunRecord \in Files
        BY <1>1, <2>1, KnownFiles, FileNumbers DEF BundleInv, Gone, Processes
      <3> QED
        BY <3>1, <3>2 DEF OneBundle
    <2>2. CASE ~stopped
      <3>1. Evaluated /\ Gathered("reader")
        BY <1>1, <2>2 DEF BundleInv, Holds, Held, Processes
      <3>2. CASE bound # Absent
        BY <3>1, <3>2 DEF Evaluated, OneBundle
      <3>3. CASE bound = Absent
        <4>1. RecordOf("reader") = RunRecord /\ Declared("reader", b) = Bundle(b)
          BY <3>3, FileNumbers DEF RecordOf, ReadsInput, Declared
        <4> QED
          BY <3>1, <3>3, <4>1 DEF Gathered, OneBundle
      <3> QED
        BY <3>2, <3>3
    <2> QED
      BY <2>1, <2>2
  <1> QED
    BY <1>1, BundleInvInit, BundleInvInductive, PTL DEF Spec

\* A command that reports success has verified every path it names: what is different now was
\* changed by somebody after that (_verify_public_root and the last pass of _read_record).
THEOREM ReportedFilesAreOnDisk == Spec => []SuccessIsOnDisk
  <1>1. BundleInv => SuccessIsOnDisk
    BY DEF BundleInv, Holds, Held, Verified, OnDisk, Known, SuccessIsOnDisk
  <1> QED
    BY <1>1, BundleInvInit, BundleInvInductive, PTL DEF Spec

-----------------------------------------------------------------------------
(* A run and a reader by themselves                                        *)

Undisturbed == rival = 0 /\ faults = 0 /\ ~stopped
AsSettled == <<Ours, TRUE>>
Whole(n) == file["run"][n] = Ours /\ n \in settled["run"]

\* Names lead where they were made to lead, and what the record declares has one name only.
Lone ==
    /\ named["run"] \in {Nowhere, "run"} /\ named["replay"] \in {Nowhere, "replay"}
    /\ own["run"] \in {Nowhere, "run"} /\ own["reader"] \in {Nowhere, "replay"}
    /\ source \in {Nowhere, "run"} /\ (source = "run" => named["run"] = "run")
    /\ \A n \in Files : file["run"][n] \in {Absent, Ours}
    /\ pc["run"] \in Publishes => \A m \in Bundle(Ours) \ left["run"] : Whole(m)
    /\ file["run"][RunRecord] = Ours => \A m \in Bundle(Ours) : Whole(m)

\* A reader that met the record when it was settled meets nothing else that is not.
Unhindered ==
    /\ bound = Absent /\ pc["reader"] \in {"start", "end"} \cup Reading
    /\ pc["reader"] \in {"start", "record"} => got["reader"][RunRecord] = Absent
    /\ pc["reader"] = "start" => opened["reader"] = Unopened
    /\ (pc["reader"] = "record" /\ ~early) => opened["reader"] \in {Unopened, AsSettled}
    /\ (got["reader"][RunRecord] # Absent /\ ~early) =>
          /\ got["reader"][RunRecord] = Ours /\ Whole(RunRecord)
          /\ opened["reader"] \in {Unopened, AsSettled}
          /\ verdict["reader"] \in {"running", "done"}

ReadableInv ==
    /\ BundleInv
    /\ Undisturbed => Lone
    /\ (Undisturbed /\ ~replays) => Unhindered

LEMMA PairsAgree == ASSUME NEW a, NEW b, NEW c, b = c PROVE <<a, b>> = <<a, c>>
  OBVIOUS

LEMMA LookSettled ==
  ASSUME Place("reader") = "run", NEW n, Whole(n) PROVE Look("reader", n) = AsSettled
  <1> DEFINE in == n \in settled["run"]
  <1>1. in = TRUE /\ file["run"][n] = Ours
    BY DEF Whole
  <1>2. Look("reader", n) = <<file["run"][n], in>>
    BY DEF Look
  <1> HIDE DEF in
  <1>3. <<Ours, in>> = <<Ours, TRUE>>
    BY <1>1, PairsAgree
  <1> QED
    BY <1>1, <1>2, <1>3 DEF AsSettled

LEMMA LookedSettled ==
  ASSUME Place("reader") = "run", NEW n, Look("reader", n) = AsSettled PROVE Whole(n)
  <1> DEFINE in == n \in settled["run"]
  <1>1. <<file["run"][n], in>> = <<Ours, TRUE>>
    BY DEF Look, AsSettled
  <1> HIDE DEF in
  <1>2. file["run"][n] = Ours /\ in = TRUE
    BY <1>1
  <1>3. n \in settled["run"]
    BY <1>2 DEF in
  <1> QED
    BY <1>2, <1>3 DEF Whole

LEMMA ReadableInvInit == Init => ReadableInv
  <1> SUFFICES ASSUME Init PROVE ReadableInv
    OBVIOUS
  <1>1. BundleInv
    BY BundleInvInit
  <1>2. \A n \in Files : file["run"][n] = Absent
    <2>1. \E b \in {Absent, Theirs} :
            file = [d \in Directories |-> [n \in Files |-> IF d = "foreign" THEN b ELSE Absent]]
      BY DEF Init
    <2> QED
      BY <2>1 DEF Directories
  <1>3. Lone
    <2>1. /\ named["run"] = Nowhere /\ named["replay"] = Nowhere /\ source = Nowhere
          /\ own["run"] = Nowhere /\ own["reader"] = Nowhere /\ pc["run"] = "start"
      BY DEF Init, Paths, Processes
    <2>2. file["run"][RunRecord] # Ours
      BY <1>2, FileNumbers DEF Absent, Ours
    <2> QED
      BY <1>2, <2>1, <2>2 DEF Lone, Publishes, Nowhere
  <1>4. Unhindered
    <2>1. /\ bound = Absent /\ pc["reader"] = "start" /\ opened["reader"] = Unopened
          /\ got["reader"][RunRecord] = Absent
      BY FileNumbers DEF Init, Processes, Nothing
    <2> QED
      BY <2>1 DEF Unhindered
  <1> QED
    BY <1>1, <1>3, <1>4 DEF ReadableInv

\* Whoever is not disturbed now was not before.
LEMMA DisturbanceRemains ==
  ASSUME Memory, Next, Undisturbed'
  PROVE  /\ Undisturbed /\ UNCHANGED replays
         /\ \/ RunStart \/ RepairController \/ ReaderStart \/ ReplayController
            \/ \E p \in Processes : Step(p) /\ ~CallFails(p)
  <1>1. rival \in Nat /\ faults \in Nat /\ rival' = 0 /\ faults' = 0 /\ ~stopped'
    BY DEF Memory, Undisturbed
  <1>2. ASSUME NEW d, NEW n, NEW b, RivalFile(d, n, b) PROVE FALSE
    BY <1>1, <1>2 DEF RivalFile, Meddle
  <1>3. ASSUME NEW d, NEW path, RivalRoot(path, d) PROVE FALSE
    BY <1>1, <1>3 DEF RivalRoot, Meddle
  <1>4. ASSUME NEW p, CallFails(p) PROVE FALSE
    BY <1>1, <1>4 DEF CallFails
  <1>5. ~PowerLoss
    BY <1>1 DEF PowerLoss
  <1>6. \/ RunStart \/ RepairController \/ ReaderStart \/ ReplayController
        \/ \E p \in Processes : Step(p) /\ ~CallFails(p)
    BY <1>2, <1>3, <1>4, <1>5 DEF Next
  <1>7. UNCHANGED <<counters, replays>>
    BY <1>6 DEF Step, RunStart, RepairController, ReaderStart, ReplayController, DestinationAbsent,
                MakeDirectory, Bind, Unpublished, Link, Finalize, Verify, Open, Read, VerifyRoot,
                given
  <1> QED
    BY <1>1, <1>6, <1>7 DEF Undisturbed, counters

\* That a reader met a record early is not forgotten.
LEMMA EarlyRemains ==
  ASSUME \/ RunStart \/ RepairController \/ ReaderStart \/ ReplayController
         \/ \E p \in Processes : Step(p) /\ ~CallFails(p),
         ~early'
  PROVE  ~early
  <1>1. \/ early' = early
        \/ \E p \in Processes : early' = (early \/ (p = "reader" /\ Min(left[p]) = RunRecord
                                                    /\ Min(left[p]) \notin settled[Place(p)]))
    BY DEF Step, RunStart, RepairController, ReaderStart, ReplayController, DestinationAbsent,
           MakeDirectory, Bind, Unpublished, Link, Finalize, Verify, Open, Read, VerifyRoot,
           progress, ghosts, Fail
  <1> QED
    BY <1>1

\* What leaves the files, and the order of publication, alone.
LEMMA LoneStays ==
  ASSUME Lone, UNCHANGED <<file, selected>>,
         \A n \in Files : Whole(n) => n \in settled'["run"],
         pc'["run"] \in Publishes => pc["run"] \in Publishes /\ left'["run"] \subseteq left["run"],
         \A m \in left["run"] \ left'["run"] : pc'["run"] \in Publishes => Whole(m)',
         named'["run"] \in {Nowhere, "run"}, named'["replay"] \in {Nowhere, "replay"},
         own'["run"] \in {Nowhere, "run"}, own'["reader"] \in {Nowhere, "replay"},
         source' \in {Nowhere, "run"}, source' = "run" => named'["run"] = "run"
  PROVE  Lone'
  <1>1. Bundle(Ours)' = Bundle(Ours) /\ Bundle(Ours) \subseteq Files
    BY BundleMembers, FileNumbers DEF Bundle
  <1>2. \A m \in Files : Whole(m) => Whole(m)'
    BY DEF Whole
  <1>3. pc'["run"] \in Publishes => \A m \in Bundle(Ours) \ left'["run"] : Whole(m)'
    BY <1>1, <1>2 DEF Lone
  <1>4. \A n \in Files : file'["run"][n] \in {Absent, Ours}
    BY DEF Lone
  <1>5. file'["run"][RunRecord] = Ours => \A m \in Bundle(Ours) : Whole(m)'
    BY <1>1, <1>2 DEF Lone
  <1> QED
    BY <1>1, <1>3, <1>4, <1>5 DEF Lone

LEMMA CalmKeepsLone ==
  ASSUME Lone, Calm, UNCHANGED settled,
         named'["run"] \in {Nowhere, "run"}, named'["replay"] \in {Nowhere, "replay"},
         own'["run"] \in {Nowhere, "run"}, own'["reader"] \in {Nowhere, "replay"},
         source' \in {Nowhere, "run"}, source' = "run" => named'["run"] = "run"
  PROVE  Lone'
  BY LoneStays DEF Calm, Whole

LEMMA QuietKeepsLone ==
  ASSUME BundleInv, ~stopped, Lone, NEW p \in Processes, Quiet(p) PROVE Lone'
  <1>0. Shape /\ Memory /\ Calm
    BY QuietIsAside, AsideIsCalm DEF BundleInv, MarkerInv
  <1>1. /\ named["run"] \in {Nowhere, "run"} /\ named["replay"] \in {Nowhere, "replay"}
        /\ own["run"] \in {Nowhere, "run"} /\ own["reader"] \in {Nowhere, "replay"}
        /\ source \in {Nowhere, "run"} /\ (source = "run" => named["run"] = "run")
        /\ Output("run") = "run" /\ Output("reader") = "replay"
    BY DEF Lone, Output
  <1>2. CASE UNCHANGED <<named, own, source, settled>>
    BY <1>0, <1>1, <1>2, CalmKeepsLone
  <1>3. CASE Gives(p)
    BY <1>2, <1>3 DEF Gives
  <1>4. CASE MakeDirectory(p)
    <2>1. CASE ~Gives(p)
      <3>1. /\ named[Output(p)] = Nowhere /\ named' = [named EXCEPT ![Output(p)] = Output(p)]
            /\ UNCHANGED <<settled, source>>
        BY <1>0, <1>4, <2>1, MakeDirectoryEffect
      <3>2. own'["run"] = own["run"] /\ own'["reader"] = own["reader"]
        BY <1>0, <1>4, <2>1, MakeDirectoryEffect DEF Mind, Takes, Idle, Processes
      <3>3. \A x \in Paths : named'[x] = IF x = Output(p) THEN Output(p) ELSE named[x]
        BY <1>0, <3>1 DEF Shape
      <3>4. /\ named'["run"] \in {Nowhere, "run"} /\ named'["replay"] \in {Nowhere, "replay"}
            /\ (named["run"] = "run" => named'["run"] = "run")
        BY <1>1, <3>3 DEF Paths, Output
      <3> QED
        BY <1>0, <1>1, <3>1, <3>2, <3>4, CalmKeepsLone
    <2> QED
      BY <1>3, <2>1
  <1>5. CASE Bind(p)
    <2>1. CASE ~Gives(p)
      <3>1. UNCHANGED <<named, settled, source>> /\ own'[p] = named[Output(p)]
        BY <1>0, <1>5, <2>1, BindEffect DEF Same
      <3>2. \A q \in Processes \ {p} : own'[q] = own[q]
        BY <1>0, <1>5, <2>1, BindEffect DEF Takes, Idle
      <3>3. own'["run"] \in {Nowhere, "run"} /\ own'["reader"] \in {Nowhere, "replay"}
        BY <1>1, <3>1, <3>2 DEF Processes
      <3> QED
        BY <1>0, <1>1, <3>1, <3>3, CalmKeepsLone
    <2> QED
      BY <1>3, <2>1
  <1>6. CASE ~MakeDirectory(p) /\ ~Bind(p)
    <2>1. UNCHANGED <<named, own, source, settled>>
      BY <1>6 DEF Quiet, DestinationAbsent, Unpublished, Verify, Open, Read, VerifyRoot, CallFails,
                  Fail, disk, progress, contents
    <2> QED
      BY <1>2, <2>1
  <1> QED
    BY <1>4, <1>5, <1>6

LEMMA LinkKeepsLone ==
  ASSUME BundleInv, ~stopped, Lone, NEW p \in Processes, Link(p) PROVE Lone'
  <1>0. Shape /\ Memory /\ pc[p] = "link"
    BY DEF BundleInv, MarkerInv, Link, At
  <1>1. own[p] \in Directories /\ left[p] \subseteq Files
    BY <1>0, PublisherPlace
  <1>2. CASE Gives(p)
    <2>1. UNCHANGED <<named, own, source, file, settled, selected>>
          /\ (pc'["run"] \in Publishes => UNCHANGED <<pc["run"], left["run"]>>)
      BY <1>2 DEF Gives, Idle, Publishes, Processes
    <2> QED
      BY <2>1, LoneStays DEF Lone, Whole
  <1>3. CASE ~Gives(p)
    <2>1. PICK n \in Upcoming(left[p]) :
            /\ Takes(p, "finalize") /\ UNCHANGED <<left[p], own[p]>>
            /\ UNCHANGED <<named, source, selected>>
            /\ file[own[p]][n] = Absent /\ file'[own[p]][n] = Payload(p)
            /\ \A d \in Directories, m \in Files :
                  (d # own[p] \/ m # n) =>
                     file'[d][m] = file[d][m] /\ (m \in settled[d] => m \in settled'[d])
      BY <1>0, <1>1, <1>3, LinkTakes
    <2>2. own'["run"] = own["run"] /\ own'["reader"] = own["reader"] /\ "run" \in Directories
      BY <2>1 DEF Takes, Idle, Processes, Directories
    <2>3. Bundle(Ours)' = Bundle(Ours) /\ Bundle(Ours) \subseteq Files /\ RunRecord \in Files
      BY <2>1, BundleMembers, FileNumbers DEF Bundle
    <2>4. CASE p = "run"
      <3>1. own["run"] = "run" /\ Payload(p) = Ours
        BY <1>1, <2>4 DEF Lone, Payload, Directories, Nowhere
      <3>2. \A m \in Files : Whole(m) => Whole(m)'
        BY <2>1, <2>2, <2>4, <3>1 DEF Whole, Absent, Ours
      <3>3. \A m \in Bundle(Ours) \ left["run"] : Whole(m)'
        BY <1>0, <2>3, <2>4, <3>2 DEF Lone, Publishes
      <3>4. file'["run"][RunRecord] = Ours => \A m \in Bundle(Ours) : Whole(m)'
        <4>1. CASE file["run"][RunRecord] = Ours
          BY <2>3, <3>2, <4>1 DEF Lone
        <4>2. CASE file["run"][RunRecord] # Ours
          <5>1. n = RunRecord \/ file'["run"][RunRecord] # Ours
            BY <2>1, <2>2, <2>3, <2>4, <3>1, <4>2
          <5>2. n = RunRecord => Bundle(Ours) \cap left["run"] = {}
            <6> SUFFICES ASSUME n = RunRecord, NEW m \in Bundle(Ours), m \in left["run"] PROVE FALSE
              OBVIOUS
            <6>1. RunRecord <= m /\ m \in 1 .. Members
              BY <2>1, <2>4, BundleMembers DEF Upcoming
            <6> QED
              BY <6>1, SizeAssumption DEF RunRecord
          <5> QED
            BY <3>3, <5>1, <5>2
        <4> QED
          BY <4>1, <4>2
      <3>5. \A m \in Files : file'["run"][m] \in {Absent, Ours}
        BY <2>1, <2>2, <2>4, <3>1 DEF Lone
      <3> QED
        BY <2>1, <2>2, <2>3, <2>4, <3>3, <3>4, <3>5 DEF Lone, Takes
    <2>5. CASE p = "reader"
      <3>1. own["reader"] = "replay"
        BY <1>1, <2>5 DEF Lone, Directories, Nowhere
      <3>2. \A m \in Files : file'["run"][m] = file["run"][m] /\ (m \in settled["run"] => m \in settled'["run"])
        BY <2>1, <2>2, <2>5, <3>1
      <3>3. UNCHANGED <<pc["run"], left["run"]>>
        BY <2>1, <2>5 DEF Takes, Idle, Processes
      <3>4. \A m \in Files : Whole(m) => Whole(m)'
        BY <3>2 DEF Whole
      <3> QED
        BY <2>1, <2>2, <2>3, <3>2, <3>3, <3>4 DEF Lone
    <2> QED
      BY <2>4, <2>5 DEF Processes
  <1> QED
    BY <1>2, <1>3

LEMMA FinalizeKeepsLone ==
  ASSUME BundleInv, ~stopped, Lone, NEW p \in Processes, Finalize(p) PROVE Lone'
  <1>0. Shape /\ Memory /\ pc[p] = "finalize"
    BY DEF BundleInv, MarkerInv, Finalize, At
  <1>1. own[p] \in Directories /\ "run" \in Directories
    BY <1>0, PublisherPlace DEF Directories
  <1>2. CASE Gives(p)
    <2>1. UNCHANGED <<named, own, source, file, settled, selected>>
          /\ (pc'["run"] \in Publishes => UNCHANGED <<pc["run"], left["run"]>>)
      BY <1>2 DEF Gives, Idle, Publishes, Processes
    <2> QED
      BY <2>1, LoneStays DEF Lone, Whole
  <1>3. CASE ~Gives(p)
    <2>1. PICK n \in Upcoming(left[p]) :
            /\ Mind(p) /\ UNCHANGED <<named, file, source, selected>>
            /\ file[own[p]][n] = Payload(p)
            /\ Takes(p, IF left[p] = {n} THEN "verify" ELSE "link")
            /\ left'[p] = left[p] \ {n} /\ n \in settled'[own[p]]
            /\ \A d \in Directories : settled[d] \subseteq settled'[d]
      BY <1>0, <1>1, <1>3, FinalizeTakes
    <2>2. own'["run"] = own["run"] /\ own'["reader"] = own["reader"]
      BY <2>1 DEF Mind, Takes, Idle, Processes
    <2>3. \A m \in Files : Whole(m) => m \in settled'["run"]
      BY <1>1, <2>1 DEF Whole
    <2>4. CASE p = "run"
      <3>1. own["run"] = "run" /\ Payload(p) = Ours
        BY <1>1, <2>4 DEF Lone, Payload, Directories, Nowhere
      <3>2. Whole(n)'
        BY <2>1, <2>4, <3>1 DEF Whole
      <3>3. pc["run"] \in Publishes /\ left'["run"] \subseteq left["run"]
            /\ \A m \in left["run"] \ left'["run"] : m = n
        BY <1>0, <2>1, <2>4 DEF Publishes
      <3> QED
        BY <2>1, <2>2, <2>3, <3>2, <3>3, LoneStays DEF Lone
    <2>5. CASE p = "reader"
      <3>1. UNCHANGED <<pc["run"], left["run"]>>
        BY <2>1, <2>5 DEF Takes, Idle, Processes
      <3> QED
        BY <2>1, <2>2, <2>3, <3>1, LoneStays DEF Lone
    <2> QED
      BY <2>4, <2>5 DEF Processes
  <1> QED
    BY <1>2, <1>3

LEMMA LoneInductive ==
  ASSUME ReadableInv, Next, Undisturbed' PROVE Lone'
  <1>0. /\ BundleInv /\ Shape /\ Memory /\ Lone /\ ~stopped
        /\ \/ RunStart \/ RepairController \/ ReaderStart \/ ReplayController
           \/ \E p \in Processes : Step(p) /\ ~CallFails(p)
    BY DisturbanceRemains DEF ReadableInv, BundleInv, MarkerInv, Undisturbed
  <1>1. CASE RunStart \/ ReplayController
    <2>1. Calm /\ UNCHANGED <<settled, named, own, source>>
      BY <1>0, <1>1, OthersAreCalm DEF RunStart, ReplayController, disk, progress
    <2> QED
      BY <1>0, <2>1, CalmKeepsLone DEF Lone
  <1>2. CASE ReaderStart
    <2>1. Calm /\ UNCHANGED <<settled, named, own>>
      BY <1>0, <1>2, OthersAreCalm DEF ReaderStart, disk
    <2>2. source' = source \/ source' = named["run"]
      BY <1>2 DEF ReaderStart
    <2> QED
      BY <1>0, <2>1, <2>2, CalmKeepsLone DEF Lone
  <1>3. CASE RepairController
    <2>1. /\ Takes("run", "link") /\ Mind("run") /\ pc["run"] = "execute"
          /\ UNCHANGED <<named, file, settled, source>>
          /\ left'["run"] = (1 .. RunRecord) \ (IF selected' THEN {} ELSE {Members})
      BY <1>0, <1>3, ControllerEffect
    <2>2. own'["run"] = own["run"] /\ own'["reader"] = own["reader"]
      BY <2>1 DEF Mind, Takes, Idle, Processes
    <2>3. Bundle(Ours)' \subseteq left'["run"]
      BY <2>1, SizeAssumption DEF Bundle, Ours, RunRecord
    <2>4. file["run"][RunRecord] # Ours
      BY <1>0, <2>1, FileNumbers DEF BundleInv, UnseenYet, Before, Directories
    <2> QED
      BY <1>0, <2>1, <2>2, <2>3, <2>4 DEF Lone
  <1>4. ASSUME NEW p \in Processes, Step(p) PROVE Lone'
    BY <1>0, <1>4, QuietKeepsLone, LinkKeepsLone, FinalizeKeepsLone DEF Step, Quiet
  <1> QED
    BY <1>0, <1>1, <1>2, <1>3, <1>4

\* The place and the record of a reader that nobody disturbs.
LEMMA UnhinderedPlace ==
  ASSUME BundleInv, ~stopped, Lone, Unhindered
  PROVE  /\ ReadsInput("reader") /\ RecordOf("reader") = RunRecord
         /\ \A b : Declared("reader", b) = Bundle(b)
         /\ pc["reader"] \in Reading => Place("reader") = "run" /\ SameRoot("reader")
  <1>1. ReadsInput("reader") /\ RecordOf("reader") = RunRecord
    BY DEF Unhindered, ReadsInput, RecordOf
  <1>2. \A b : Declared("reader", b) = Bundle(b)
    BY <1>1, FileNumbers DEF Declared
  <1>3. pc["reader"] \in Reading => Place("reader") = source /\ Place("reader") \in Directories
    BY <1>1, HeldIsPlaced DEF Place, Processes
  <1>4. pc["reader"] \in Reading => Place("reader") = "run" /\ named["run"] = "run"
    BY <1>3 DEF Lone, Directories, Nowhere
  <1> QED
    BY <1>1, <1>2, <1>4 DEF SameRoot, Path

\* Once it has the record, what it looks at next is settled.
LEMMA NextIsSettled ==
  ASSUME BundleInv, ~stopped, Lone, Unhindered, ~early, got["reader"][RunRecord] # Absent,
         pc["reader"] \in Reading \ {"root"}
  PROVE  LET n == Min(left["reader"]) IN
         /\ pc["reader"] \in {"members", "again"}
         /\ file["run"][n] # Absent /\ Look("reader", n) = AsSettled
         /\ Matches("reader", n, Ours)
  <1> DEFINE n == Min(left["reader"])
  <1>1. pc["reader"] \in {"members", "again"} /\ got["reader"][RunRecord] = Ours /\ Whole(RunRecord)
    BY DEF Unhindered, Reading
  <1>2. Gathered("reader")
    BY DEF BundleInv, Holds, Held, Processes
  <1>3. n \in Known("reader")
    BY <1>2, LeastOfPass DEF Processes
  <1>4. n \in Bundle(Ours) \cup {RunRecord}
    BY <1>1, <1>3, UnhinderedPlace DEF Known
  <1>5. Whole(n)
    BY <1>1, <1>4 DEF Lone, Whole
  <1>6. Look("reader", n) = AsSettled /\ file["run"][n] # Absent
    BY <1>5, LookSettled, UnhinderedPlace, <1>1 DEF Whole, Absent, Ours
  <1>7. Matches("reader", n, Ours)
    <2> HIDE DEF n
    <2>1. CASE pc["reader"] = "members"
      BY <1>1, <2>1, UnhinderedPlace DEF Matches
    <2>2. CASE pc["reader"] = "again"
      <3>1. got["reader"][n] = Ours
        BY <1>1, <1>2, <1>4, <2>2, UnhinderedPlace DEF Gathered
      <3> QED
        BY <2>2, <3>1 DEF Matches
    <2> QED
      BY <1>1, <2>1, <2>2
  <1> QED
    BY <1>1, <1>6, <1>7

LEMMA WholeStays ==
  ASSUME Grows, NEW n \in Files, Whole(n) PROVE Whole(n)'
  BY DEF Grows, Whole, Directories, Absent, Ours

LEMMA IdleStaysUnhindered ==
  ASSUME Unhindered, Idle("reader"), Grows, ~early' => ~early PROVE Unhindered'
  BY WholeStays, FileNumbers DEF Unhindered, Idle

LEMMA OpenUnhindered ==
  ASSUME BundleInv, ~stopped, Lone, Unhindered, Open("reader"), Grows, ~early' => ~early
  PROVE  Unhindered'
  <1> DEFINE n == Min(left["reader"])  g == got["reader"][RunRecord]
  <1>0. Shape /\ Memory /\ Gathered("reader") /\ "reader" \in Processes
    BY DEF BundleInv, MarkerInv, Holds, Held, Processes
  <1>1. pc["reader"] \in Reading \ {"root"}
    BY <1>0, OpenTakes
  <1>2. Place("reader") = "run" /\ n \in Files
    BY <1>0, <1>1, UnhinderedPlace, LeastOfPass
  <1>3. CASE Gives("reader") /\ file["run"][n] = Absent
    <2>1. g = Absent \/ early
      BY <1>1, <1>3, NextIsSettled
    <2>2. pc'["reader"] = "end" /\ UNCHANGED <<got, bound, early>>
      BY <1>3 DEF Gives
    <2> QED
      BY <2>1, <2>2 DEF Unhindered, Reading
  <1>4. CASE ~(Gives("reader") /\ file["run"][n] = Absent)
    <2>1. /\ Takes("reader", pc["reader"]) /\ UNCHANGED <<got["reader"], bound>>
          /\ opened'["reader"] = Look("reader", n) /\ file["run"][n] # Absent
          /\ early' = (early \/ ("reader" = "reader" /\ n = RunRecord /\ n \notin settled["run"]))
      BY <1>0, <1>2, <1>4, OpenTakes
    <2>2. pc'["reader"] = pc["reader"] /\ verdict'["reader"] = verdict["reader"]
      BY <2>1 DEF Takes
    <2>3. ASSUME pc["reader"] = "record", ~early' PROVE opened'["reader"] = AsSettled
      <3>1. n = RunRecord
        <4>1. left["reader"] = {RunRecord}
          BY <1>0, <2>3, UnhinderedPlace DEF Gathered
        <4> QED
          BY <1>0, <1>1, <4>1, LeastOfPass
      <3>2. n \in settled["run"]
        BY <2>1, <2>3, <3>1
      <3>3. Whole(n)
        BY <1>2, <2>1, <3>2 DEF Lone, Whole
      <3> QED
        BY <1>2, <2>1, <3>3, LookSettled
    <2>4. ASSUME g # Absent, ~early' PROVE opened'["reader"] = AsSettled /\ Whole(RunRecord)'
      BY <1>1, <2>1, <2>4, NextIsSettled, WholeStays, FileNumbers DEF Unhindered
    <2> QED
      BY <1>1, <2>1, <2>2, <2>3, <2>4 DEF Unhindered, Reading
  <1> QED
    BY <1>3, <1>4

LEMMA ReadUnhindered ==
  ASSUME BundleInv, ~stopped, Lone, Unhindered, Read("reader"), Grows, ~early' => ~early
  PROVE  Unhindered'
  <1> DEFINE n == Min(left["reader"])  g == got["reader"][RunRecord]  b == opened["reader"][1]
  <1>0. Shape /\ Memory /\ Gathered("reader") /\ "reader" \in Processes
        /\ pc["reader"] \in Reading \ {"root"} /\ opened["reader"] # Unopened
    BY DEF BundleInv, MarkerInv, Holds, Held, Processes, Read
  <1>1. Place("reader") = "run" /\ n \in Files /\ n \in left["reader"]
    BY <1>0, UnhinderedPlace, LeastOfPass
  <1>2. ASSUME g # Absent, ~early
        PROVE  /\ pc["reader"] \in {"members", "again"} /\ g = Ours
               /\ Look("reader", n) = opened["reader"] /\ b = Ours /\ Matches("reader", n, b)
    <2>1. opened["reader"] = AsSettled /\ g = Ours
      BY <1>0, <1>2 DEF Unhindered
    <2>2. b = Ours
      BY <2>1 DEF AsSettled
    <2> QED
      BY <1>0, <1>2, <2>1, <2>2, NextIsSettled
  <1>3. CASE Gives("reader") /\ (Look("reader", n) # opened["reader"] \/ ~Matches("reader", n, b))
    <2>1. g = Absent \/ early
      BY <1>2, <1>3
    <2>2. pc'["reader"] = "end" /\ UNCHANGED <<got, bound, early>>
      BY <1>3 DEF Gives
    <2> QED
      BY <2>1, <2>2 DEF Unhindered, Reading
  <1>4. CASE ~(Gives("reader") /\ (Look("reader", n) # opened["reader"] \/ ~Matches("reader", n, b)))
    <2> HIDE DEF n, b
    <2>1. /\ Look("reader", n) = opened["reader"] /\ Matches("reader", n, b)
          /\ Takes("reader", Upon("reader", n, b)[1])
          /\ UNCHANGED <<bound, early>> /\ opened'["reader"] = Unopened
          /\ got'["reader"][n] = b
          /\ \A m \in Files \ {n} : got'["reader"][m] = got["reader"][m]
      BY <1>0, <1>1, <1>4, ReadTakes DEF n, b
    <2>2. pc'["reader"] \in {"members", "again", "root"}
      BY <1>0, <2>1, UponPass DEF Takes, Reading
    <2>3. verdict'["reader"] = "running"
      BY <1>0, <2>1 DEF Takes, BundleInv, Holds, Held, Placed, Reading
    <2>4. ASSUME got'["reader"][RunRecord] # Absent, ~early
          PROVE  got'["reader"][RunRecord] = Ours /\ Whole(RunRecord)
      <3>1. CASE pc["reader"] = "record"
        <4>1. left["reader"] = {RunRecord} /\ n = RunRecord
          BY <1>0, <1>1, <3>1, UnhinderedPlace DEF Gathered, n
        <4>2. opened["reader"] = AsSettled
          BY <1>0, <2>4, <3>1 DEF Unhindered
        <4>3. b = Ours
          BY <4>2 DEF AsSettled, b
        <4> QED
          BY <1>1, <2>1, <4>1, <4>2, <4>3, LookedSettled
      <3>2. CASE pc["reader"] # "record"
        <4>1. got'["reader"][RunRecord] = g
          <5>1. CASE n # RunRecord
            BY <2>1, <5>1, FileNumbers
          <5>2. CASE n = RunRecord /\ pc["reader"] = "again"
            BY <2>1, <5>2 DEF Matches
          <5>3. CASE n = RunRecord /\ pc["reader"] = "members"
            <6>1. n \in 1 .. Members
              BY <1>0, <1>1, <5>3, UnhinderedPlace, KnownFiles DEF Gathered
            <6> QED
              BY <5>3, <6>1, FileNumbers
          <5> QED
            BY <1>0, <3>2, <5>1, <5>2, <5>3 DEF Reading
        <4> QED
          BY <2>4, <4>1 DEF Unhindered
      <3> QED
        BY <3>1, <3>2
    <2>5. ~early' => (Whole(RunRecord) => Whole(RunRecord)')
      BY WholeStays, FileNumbers
    <2> QED
      BY <2>1, <2>2, <2>3, <2>4, <2>5 DEF Unhindered, Reading
  <1> QED
    BY <1>3, <1>4

LEMMA UnhinderedInductive ==
  ASSUME ReadableInv, Next, Undisturbed', ~replays PROVE Unhindered'
  <1>0. /\ BundleInv /\ Shape /\ Memory /\ Lone /\ Unhindered /\ ~stopped /\ "reader" \in Processes
        /\ \/ RunStart \/ RepairController \/ ReaderStart \/ ReplayController
           \/ \E p \in Processes : Step(p) /\ ~CallFails(p)
    BY DisturbanceRemains DEF ReadableInv, BundleInv, MarkerInv, Undisturbed, Processes
  <1>1. Grows /\ (~early' => ~early)
    BY <1>0, ProcessesHold, EarlyRemains
  <1>2. CASE RunStart \/ RepairController \/ (Step("run") /\ ~CallFails("run"))
    <2>1. Idle("reader")
      <3>1. CASE Link("run") \/ Finalize("run")
        <4>1. "run" \in Processes /\ pc["run"] \in {"link", "finalize"}
          BY <3>1 DEF Link, Finalize, At, Processes
        <4>2. own["run"] \in Directories /\ left["run"] \subseteq Files
          BY <1>0, <4>1, PublisherPlace
        <4> QED
          BY <1>0, <3>1, <4>1, <4>2, LinkTakes, FinalizeTakes DEF Gives, Takes, Processes
      <3>2. CASE Read("run")
        <4>1. "run" \in Processes /\ Min(left["run"]) \in Files
          BY <1>0, <3>2, LeastOfPass DEF Read, BundleInv, Holds, Held, Processes
        <4> QED
          BY <1>0, <3>2, <4>1, ReadTakes DEF Gives, Takes, Processes
      <3>3. CASE ~(Link("run") \/ Finalize("run") \/ Read("run"))
        <4>1. "run" \in Processes
          BY DEF Processes
        <4> QED
          BY <1>0, <1>2, <3>3, <4>1, ApproachEffect, ControllerEffect, MakeDirectoryEffect,
             BindEffect, VerifyTakes, OpenTakes, VerifyRootTakes DEF Step, Gives, Takes, Processes
      <3> QED
        BY <3>1, <3>2, <3>3
    <2> QED
      BY <1>0, <1>1, <2>1, IdleStaysUnhindered
  <1>3. CASE ReaderStart
    <2>1. pc["reader"] = "start" /\ got["reader"][RunRecord] = Absent /\ opened["reader"] = Unopened
      BY <1>0, <1>3 DEF ReaderStart, At, Unhindered
    <2>2. UNCHANGED <<got, opened, bound>> /\ pc'["reader"] \in {"record", "end"}
      BY <1>0, <1>3, GotoEffect, EndEffect DEF ReaderStart
    <2> QED
      BY <1>0, <2>1, <2>2 DEF Unhindered, Reading
  <1>4. CASE ReplayController \/ (Step("reader") /\ ~CallFails("reader"))
    <2>1. Open("reader") \/ Read("reader") \/ VerifyRoot("reader")
      BY <1>0, <1>4
         DEF ReplayController, Step, DestinationAbsent, MakeDirectory, Bind, Unpublished, Link,
             Finalize, Verify, At, Unhindered, Reading
    <2>2. CASE VerifyRoot("reader")
      <3>1. SameRoot("reader") /\ pc["reader"] = "root"
        BY <1>0, <2>2, VerifyRootTakes, UnhinderedPlace DEF Reading
      <3>2. /\ UNCHANGED <<got["reader"], opened["reader"], bound>>
            /\ pc'["reader"] = "end" /\ verdict'["reader"] = "done"
        BY <1>0, <2>2, <3>1, VerifyRootTakes
      <3> QED
        BY <1>0, <1>1, <3>1, <3>2, WholeStays, FileNumbers DEF Unhindered, Reading
    <2> QED
      BY <1>0, <1>1, <2>1, <2>2, OpenUnhindered, ReadUnhindered
  <1> QED
    BY <1>0, <1>2, <1>3, <1>4 DEF Processes

\* A reader that meets the record of a run once its private name is gone reads the bundle, while the
\* run is still at work and for any number of members: only somebody else or a failing call can
\* prevent it (the order of _publish, and read_bytes of repair/_files.py).
THEOREM MarkedBundlesAreRead == Spec => []MarkedBundleIsReadable
  <1>1. ASSUME ReadableInv, [Next]_vars PROVE ReadableInv'
    <2>1. BundleInv'
      BY <1>1, BundleInvInductive DEF ReadableInv
    <2>2. CASE Next
      <3>1. Memory
        BY <1>1 DEF ReadableInv, BundleInv
      <3>2. (Undisturbed /\ ~replays)' => ~replays
        BY <2>2, <3>1, DisturbanceRemains
      <3> QED
        BY <1>1, <2>1, <2>2, <3>2, LoneInductive, UnhinderedInductive DEF ReadableInv
    <2>3. CASE UNCHANGED vars
      <3>1. /\ UNCHANGED <<named, file, settled, source, own, got, opened, left, bound, verdict, selected>>
            /\ UNCHANGED <<replays, early, rival, faults, stopped, pc>>
        BY <2>3 DEF vars, disk, commands, ghosts, counters
      <3>2. Undisturbed' => Lone'
        BY <1>1, <3>1, LoneStays DEF ReadableInv, Undisturbed, Lone, Whole
      <3>3. (Undisturbed /\ ~replays)' => Unhindered'
        BY <1>1, <3>1 DEF ReadableInv, Undisturbed, Unhindered, Whole
      <3> QED
        BY <2>1, <3>2, <3>3 DEF ReadableInv
    <2> QED
      BY <1>1, <2>2, <2>3
  <1>2. ASSUME ReadableInv PROVE MarkedBundleIsReadable
    <2>1. CASE stopped
      <3>1. got["reader"][RunRecord] = Absent
        BY <1>2, <2>1, FileNumbers DEF ReadableInv, BundleInv, Gone, Nothing, Processes
      <3> QED
        BY <3>1 DEF MarkedBundleIsReadable
    <2>2. CASE ~stopped
      BY <1>2, <2>2 DEF ReadableInv, Undisturbed, Unhindered, MarkedBundleIsReadable
    <2> QED
      BY <2>1, <2>2
  <1> QED
    BY <1>1, <1>2, ReadableInvInit, PTL DEF Spec

=============================================================================
