----------------------- MODULE RuntimeReviewRunProofs -----------------------
(***************************************************************************)
(* Theorems about a run of a runtime review, for every size of its grid,   *)
(* any number of acts of other processes and of failing calls: what the    *)
(* record of a completed run binds is what the programs wrote from the     *)
(* admitted inputs, what the decision rests on, and every retained file.   *)
(***************************************************************************)
EXTENDS ReviewRunRecord, TLAPS

Working == {"start", "own", "recheck", "reserve", "launch", "retain", "judge", "load", "admit",
            "compare"}
Judged == {"decide", "replay", "finalcheck", "build", "precheck", "stage", "link", "settle", "verify"}
Launchers == {"worker", "collector"} \cup Roles

\* The types.
TypeInv ==
    /\ pc \in Steps /\ slot \in Slots
    /\ input \in [Inputs -> {"admitted", "other", "missing"}]
    /\ disk \in [Slots -> Contents] /\ wrote \in [Slots -> Contents]
    /\ admitted \in [Slots -> Contents] /\ decision \in [Slots -> Contents]
    /\ observation \in [Slots -> Outcomes \cup {"absent"}] /\ outcome \in Outcomes
    /\ observed \in Contents
    /\ paper \in [Papers -> {"absent", "exact", "altered"}]
    /\ exit \in {"running", "completed", "refused", "failed"}
    /\ ran \in [Slots -> [inputs : SUBSET Inputs, identity : Contents]]
    /\ meddled \in [programs : BOOLEAN, restored : BOOLEAN, files : BOOLEAN]

\* Slots are admitted one after the other, all of them before the referee, and each only once.
OrderInv ==
    /\ exit = "running" <=> pc # "end"
    /\ pc = "compare" => slot = 2
    /\ pc \in Working =>
          /\ decision = Nothing
          /\ \A s \in Slots : IF s < slot \/ (s = slot /\ pc = "compare")
                              THEN admitted[s] \in Admissible ELSE admitted[s] = "absent"
    /\ (pc \notin Working /\ pc # "end") \/ exit = "completed" =>
          \A s \in Slots : admitted[s] \in Admissible
    /\ pc \in Judged \/ exit = "completed" =>
          \A s \in Slots : decision[s] \notin {"absent", "broken"}

\* A file that was replaced and not put back stays replaced: what was read of it before and after
\* differs from what its process wrote, or agrees with it.
TracedInv ==
    ~meddled.restored => \A s \in Slots :
        /\ disk[s] # wrote[s] => disk[s] \in {"forged", "broken", "absent"}
        /\ admitted[s] # "absent" =>
              \/ admitted[s] = wrote[s]
              \/ admitted[s] = "forged" /\ disk[s] # wrote[s]
        /\ decision[s] # "absent" =>
              /\ decision[s] \in {wrote[s], "forged"}
              /\ disk[s] = wrote[s] => decision[s] = wrote[s]
              /\ admitted[s] # wrote[s] => decision[s] # wrote[s]

\* Admitted programs bind what they read.
BoundInv ==
    /\ ~meddled.programs => AsAdmitted(Launchers)
    /\ ~meddled.files => \A s \in Slots : disk[s] = wrote[s] /\ admitted[s] \in {"absent", wrote[s]}
    /\ ~meddled.programs /\ ~meddled.files => \A s \in Slots :
          /\ wrote[s] # "forged"
          /\ wrote[s] = "sound" =>
                /\ "manifest" \in ran[s].inputs
                /\ s \notin Preflights => /\ ran[s].identity = admitted[Identity(s)]
                                          /\ admitted[Identity(s)] # "absent"

\* What the last verification saw is what is there: nothing happens after it.
CompletedInv ==
    exit = "completed" =>
        /\ \A s \in Slots : observation[s] = "zero" /\ disk[s] = admitted[s]
        /\ \A p \in {"copy", "generated", "receipt"} : paper[p] = "exact"

IInv == TypeInv /\ OrderInv /\ TracedInv /\ BoundInv /\ CompletedInv

-----------------------------------------------------------------------------
(* The slots                                                               *)

\* The two preflights come first, and there is a cell after them.
LEMMA SlotsAreNumbered ==
    /\ RoleCells \in Nat \ {0} /\ Last \in Nat /\ Last >= 4
    /\ \A s \in Slots : s \in Nat /\ s >= 1 /\ s <= Last
    /\ 1 \in Slots /\ 2 \in Slots /\ 3 \in Slots
    /\ \A s \in Slots : s # 2 /\ s # Last => s + 1 \in Slots
    /\ \A s \in Slots : Identity(s) \in Preflights /\ Role(s) \in Roles
  <1>1. RoleCells \in Nat \ {0}
    <2>1. \A m, n \in Nat \ {0} : m * n \in Nat \ {0}
      OBVIOUS
    <2> QED BY <2>1, GridAssumption DEF RoleCells
  <1>2. Last \in Nat /\ Last >= 4
    BY <1>1 DEF Last
  <1> QED BY <1>1, <1>2 DEF Slots, Identity, Role, Preflights, Roles

\* The initial states.
LEMMA InitHolds == Init => IInv
  <1> SUFFICES ASSUME Init PROVE IInv
    OBVIOUS
  <1> USE DEF Init
  <1>1. \A s \in Slots : /\ disk[s] = "absent" /\ observation[s] = "absent"
                         /\ admitted[s] = "absent" /\ decision[s] = "absent"
                         /\ wrote[s] = "absent" /\ ran[s] = NotRun
    BY DEF Nothing
  <1>2. TypeInv
    BY SlotsAreNumbered DEF TypeInv, Steps, Nothing, NotRun, Contents, Outcomes, Inputs, Papers
  <1>3. OrderInv
    BY <1>1, SlotsAreNumbered DEF OrderInv, Working, Judged
  <1>4. TracedInv
    BY <1>1 DEF TracedInv
  <1>5. BoundInv
    BY <1>1 DEF BoundInv, AsAdmitted, Launchers, Inputs, Roles
  <1> QED BY <1>2, <1>3, <1>4, <1>5 DEF IInv, CompletedInv

-----------------------------------------------------------------------------
(* Steps that change neither evidence nor inputs                           *)

\* Where such a step may lead: it stays on its side of the referee, or ends the run; it completes
\* the run only from the last verification, when every reference was found as retained.
CalmGoto ==
    \/ pc' = "end" /\ exit' \in {"refused", "failed"}
    \/ /\ pc' = "end" /\ exit' = "completed" /\ pc = "verify"
       /\ \A s \in Slots : observation'[s] = "zero" /\ disk[s] = admitted[s]
       /\ \A p \in {"copy", "generated", "receipt"} : paper'[p] = "exact"
    \/ pc \in Working /\ pc' \in Working /\ (pc' = "compare" <=> pc = "compare") /\ exit' = exit
    \/ /\ pc \notin Working /\ pc' \in Steps \ (Working \cup {"end"}) /\ exit' = exit
       /\ pc' \in Judged => pc \in Judged

Calm ==
    /\ UNCHANGED <<slot, input, disk, wrote, admitted, decision, ran, meddled>>
    /\ pc # "end" /\ CalmGoto
    /\ outcome' = outcome /\ observed' \in Contents
    /\ paper' \in [Papers -> {"absent", "exact", "altered"}]
    /\ observation' \in [Slots -> Outcomes \cup {"absent"}]

CalmActions ==
    \/ StartRecheck \/ OwnRoot \/ RecheckBeforeProcess \/ Reserve \/ Retain \/ RequireSuccess \/ Load
    \/ Generate \/ Reload \/ Decide \/ ReplayReceipt \/ FinalRecheck \/ Build \/ Precheck \/ Stage
    \/ Link \/ Settle \/ Verify \/ CallFails \/ RivalPaper \/ RivalRoot

LEMMA CalmActionsAreCalm ==
    ASSUME TypeInv, OrderInv, CalmActions PROVE Calm
  <1> USE DEF Calm, CalmGoto, Working, Judged, Steps
  <1>0. /\ paper \in [Papers -> {"absent", "exact", "altered"}]
        /\ observation \in [Slots -> Outcomes \cup {"absent"}]
        /\ observed \in Contents /\ disk \in [Slots -> Contents] /\ slot \in Slots
        /\ outcome \in Outcomes
    BY DEF TypeInv
  <1>c. ASSUME NEW l, NEW ok, NEW next, Check(l, ok, next)
        PROVE  /\ pc = l /\ UNCHANGED <<memory, input, root, retained, ghosts>>
               /\ (pc' = next /\ exit' = exit) \/ (pc' = "end" /\ exit' = "refused")
    BY <1>c DEF Check, Goto, Refuse, End
  <1>1. CASE StartRecheck
    BY <1>0, <1>1 DEF StartRecheck, Goto, Refuse, Escapes, End, memory, retained, ghosts
  <1>2. CASE OwnRoot
    BY <1>0, <1>2 DEF OwnRoot, Goto, Refuse, End, memory, ghosts, Papers
  <1>3. CASE RecheckBeforeProcess
    BY <1>0, <1>3, <1>c DEF RecheckBeforeProcess, memory, retained, ghosts
  <1>4. CASE Reserve
    BY <1>0, <1>4, <1>c DEF Reserve, memory, retained, ghosts
  <1>5. CASE Retain
    BY <1>0, <1>5 DEF Retain, Goto, Refuse, End, memory, ghosts
  <1>6. CASE RequireSuccess
    BY <1>0, <1>6, <1>c DEF RequireSuccess, memory, retained, ghosts
  <1>7. CASE Load
    BY <1>0, <1>7 DEF Load, Goto, Refuse, End, retained, ghosts
  <1>8. CASE Generate
    BY <1>0, <1>8 DEF Generate, Goto, Refuse, End, memory, ghosts, Papers
  <1>9. CASE Reload
    BY <1>0, <1>9 DEF Reload, Goto, Refuse, End, memory, retained, ghosts
  <1>10. CASE Decide
    BY <1>0, <1>10 DEF Decide, Goto, Refuse, End, memory, ghosts, Papers
  <1>11. CASE ReplayReceipt
    BY <1>0, <1>11, <1>c DEF ReplayReceipt, memory, retained, ghosts
  <1>12. CASE FinalRecheck
    BY <1>0, <1>12, <1>c DEF FinalRecheck, memory, retained, ghosts
  <1>13. CASE Build
    BY <1>0, <1>13 DEF Build, Goto, Refuse, Escapes, End, memory, retained, ghosts
  <1>14. CASE Precheck
    BY <1>0, <1>14 DEF Precheck, Verified, Goto, Refuse, Escapes, End, memory, retained, ghosts
  <1>15. CASE Stage
    BY <1>0, <1>15, <1>c DEF Stage, memory, retained, ghosts
  <1>16. CASE Link
    BY <1>0, <1>16 DEF Link, Goto, Refuse, End, memory, ghosts, Papers
  <1>17. CASE Settle
    BY <1>0, <1>17, <1>c DEF Settle, memory, retained, ghosts
  <1>18. CASE Verify
    <2>1. /\ pc = "verify" /\ UNCHANGED <<memory, input, root, retained, ghosts>>
      BY <1>18 DEF Verify
    <2>2. \/ pc' = "end" /\ exit' \in {"refused", "failed"}
          \/ /\ pc' = "end" /\ exit' = "completed" /\ References
             /\ paper["receipt"] = "exact"
      BY <1>18 DEF Verify, Verified, Refuse, Escapes, End
    <2> QED BY <1>0, <2>1, <2>2 DEF References, memory, retained, ghosts
  <1>19. CASE CallFails
    BY <1>0, <1>19 DEF CallFails, Refuse, End, memory, retained
  <1>20. CASE RivalPaper
    <2>1. exit = "running" /\ UNCHANGED <<pc, memory, observation, exit, ran, wrote, input, disk, meddled>>
      BY <1>20 DEF RivalPaper, Meddle
    <2>2. paper' \in [Papers -> {"absent", "exact", "altered"}]
      BY <1>0, <1>20 DEF RivalPaper
    <2>3. pc # "end" /\ pc \in Steps
      BY <2>1 DEF OrderInv, TypeInv
    <2> QED BY <1>0, <2>1, <2>2, <2>3 DEF memory
  <1>21. CASE RivalRoot
    <2>1. exit = "running" /\ UNCHANGED <<pc, memory, observation, exit, ran, wrote, input, disk, paper, meddled>>
      BY <1>21 DEF RivalRoot, Meddle
    <2>2. pc # "end" /\ pc \in Steps
      BY <2>1 DEF OrderInv, TypeInv
    <2> QED BY <1>0, <2>1, <2>2 DEF memory
  <1> QED BY <1>1, <1>2, <1>3, <1>4, <1>5, <1>6, <1>7, <1>8, <1>9, <1>10, <1>11, <1>12, <1>13, <1>14,
             <1>15, <1>16, <1>17, <1>18, <1>19, <1>20, <1>21 DEF CalmActions

\* They keep the invariant.
LEMMA CalmKeepsInv == IInv /\ Calm => IInv'
  <1> SUFFICES ASSUME IInv, Calm PROVE IInv'
    OBVIOUS
  <1>0. UNCHANGED <<slot, input, disk, wrote, admitted, decision, ran, meddled>> /\ CalmGoto /\ pc # "end"
    BY DEF Calm
  <1>1. TypeInv'
    BY <1>0 DEF IInv, TypeInv, Calm, CalmGoto, Steps, Working
  <1>2. OrderInv'
    BY <1>0 DEF IInv, OrderInv, CalmGoto, Working, Judged, Steps
  <1>3. TracedInv'
    BY <1>0 DEF IInv, TracedInv
  <1>4. BoundInv'
    BY <1>0 DEF IInv, BoundInv, AsAdmitted
  <1>5. CompletedInv'
    <2>1. exit = "running"
      BY <1>0 DEF IInv, OrderInv
    <2> QED BY <1>0, <2>1 DEF CalmGoto, CompletedInv
  <1> QED BY <1>1, <1>2, <1>3, <1>4, <1>5 DEF IInv

-----------------------------------------------------------------------------
(* The steps that change evidence or inputs                                *)

\* A process runs in its slot: nothing of the slot is bound or decided on yet.
LEMMA LaunchKeepsInv == IInv /\ Launch => IInv'
  <1> SUFFICES ASSUME IInv, Launch PROVE IInv'
    OBVIOUS
  <1>0. PICK how \in Outcomes : \E bytes \in Written(slot, how) :
          /\ outcome' = how
          /\ disk' = [disk EXCEPT ![slot] = bytes]
          /\ wrote' = [wrote EXCEPT ![slot] = bytes]
    BY DEF Launch
  <1>1. PICK bytes \in Written(slot, how) :
          /\ outcome' = how
          /\ disk' = [disk EXCEPT ![slot] = bytes]
          /\ wrote' = [wrote EXCEPT ![slot] = bytes]
    BY <1>0
  <1>2. /\ pc = "launch" /\ pc' = "retain" /\ exit' = exit
        /\ ran' = [ran EXCEPT ![slot] =
                     [inputs |-> {i \in Inputs : input[i] = "admitted"},
                      identity |-> IF slot \in Preflights THEN "absent" ELSE disk[Identity(slot)]]]
        /\ UNCHANGED <<slot, observed, admitted, decision, input, paper, observation, meddled>>
    BY DEF Launch, Goto
  <1>3. /\ TypeInv /\ OrderInv /\ TracedInv /\ BoundInv /\ CompletedInv
    BY DEF IInv
  <1>4. /\ slot \in Slots /\ disk \in [Slots -> Contents] /\ wrote \in [Slots -> Contents]
        /\ ran \in [Slots -> [inputs : SUBSET Inputs, identity : Contents]]
    BY <1>3 DEF TypeInv
  <1>5. bytes \in Contents
    <2>1. Written(slot, how) \subseteq Contents
      BY DEF Written, Contents, Outcomes
    <2> QED BY <1>1, <2>1
  <1>6. admitted[slot] = "absent" /\ decision = Nothing /\ exit = "running"
    BY <1>2, <1>3, <1>4, SlotsAreNumbered DEF OrderInv, Working
  <1>7. \A s \in Slots : decision[s] = "absent"
    BY <1>6 DEF Nothing
  <1>8. \A s \in Slots : IF s = slot THEN disk'[s] = bytes /\ wrote'[s] = bytes
                         ELSE disk'[s] = disk[s] /\ wrote'[s] = wrote[s] /\ ran'[s] = ran[s]
    BY <1>1, <1>2, <1>4
  <1>9. TypeInv'
    <2>1. [inputs |-> {i \in Inputs : input[i] = "admitted"},
           identity |-> IF slot \in Preflights THEN "absent" ELSE disk[Identity(slot)]]
             \in [inputs : SUBSET Inputs, identity : Contents]
      <3>1. Identity(slot) \in Slots
        BY <1>4, SlotsAreNumbered DEF Preflights
      <3> QED BY <3>1, <1>4 DEF Contents
    <2>2. ran' \in [Slots -> [inputs : SUBSET Inputs, identity : Contents]]
      BY <2>1, <1>2, <1>4
    <2>3. disk' \in [Slots -> Contents] /\ wrote' \in [Slots -> Contents]
      BY <1>1, <1>4, <1>5
    <2> QED BY <1>1, <1>2, <1>3, <2>2, <2>3 DEF TypeInv, Steps
  <1>10. OrderInv'
    BY <1>2, <1>3, <1>6 DEF OrderInv, Working, Judged
  <1>11. TracedInv'
    BY <1>2, <1>3, <1>6, <1>7, <1>8 DEF TracedInv
  <1>12. BoundInv'
    <2>1. ~meddled.programs => AsAdmitted(Launchers)'
      BY <1>2, <1>3 DEF BoundInv, AsAdmitted
    <2>2. ~meddled.files => \A s \in Slots : disk'[s] = wrote'[s] /\ admitted[s] \in {"absent", wrote'[s]}
      BY <1>3, <1>6, <1>8 DEF BoundInv
    <2>3. ASSUME ~meddled.programs, ~meddled.files, NEW s \in Slots
          PROVE  /\ wrote'[s] # "forged"
                 /\ wrote'[s] = "sound" =>
                       /\ "manifest" \in ran'[s].inputs
                       /\ s \notin Preflights => /\ ran'[s].identity = admitted[Identity(s)]
                                                 /\ admitted[Identity(s)] # "absent"
      <3>1. CASE s # slot
        BY <3>1, <2>3, <1>3, <1>8 DEF BoundInv
      <3>2. CASE s = slot
        <4>1. AsAdmitted(Programs(slot))
          BY <2>3, <1>3, <1>4, SlotsAreNumbered DEF BoundInv, AsAdmitted, Launchers, Programs, Roles
        <4>2. bytes # "forged"
          BY <4>1, <1>1 DEF Written, Outcomes
        <4>3. bytes = "sound" => /\ input["manifest"] = "admitted"
                                 /\ slot \in Preflights \/ disk[Identity(slot)] = admitted[Identity(slot)]
          BY <4>1, <1>1 DEF Written, Outcomes
        <4>4. ran'[slot] = [inputs |-> {i \in Inputs : input[i] = "admitted"},
                            identity |-> IF slot \in Preflights THEN "absent" ELSE disk[Identity(slot)]]
          BY <1>2, <1>4
        <4>5. slot \notin Preflights => admitted[Identity(slot)] # "absent"
          <5>1. Identity(slot) \in Slots /\ (slot \notin Preflights => Identity(slot) < slot)
            BY <1>4, SlotsAreNumbered DEF Preflights
          <5> QED BY <5>1, <1>2, <1>3 DEF OrderInv, Working, Admissible
        <4> QED BY <3>2, <4>2, <4>3, <4>4, <4>5, <1>8 DEF Inputs
      <3> QED BY <3>1, <3>2
    <2> QED BY <1>2, <2>1, <2>2, <2>3 DEF BoundInv
  <1>13. CompletedInv'
    BY <1>2, <1>6 DEF CompletedInv
  <1> QED BY <1>9, <1>10, <1>11, <1>12, <1>13 DEF IInv

\* A slot is admitted: what is bound is what its path shows.
LEMMA AdmitKeepsInv == IInv /\ Admit => IInv'
  <1> SUFFICES ASSUME IInv, Admit PROVE IInv'
    OBVIOUS
  <1>1. /\ pc = "admit"
        /\ UNCHANGED <<outcome, observed, decision, input, disk, paper, observation, ran, wrote, meddled>>
    BY DEF Admit, retained, ghosts
  <1>2. TypeInv /\ OrderInv /\ TracedInv /\ BoundInv /\ CompletedInv
    BY DEF IInv
  <1>3. slot \in Slots /\ admitted \in [Slots -> Contents] /\ disk \in [Slots -> Contents]
    BY <1>2 DEF TypeInv
  <1>4. admitted[slot] = "absent" /\ decision = Nothing /\ exit = "running"
    BY <1>1, <1>2, <1>3, SlotsAreNumbered DEF OrderInv, Working
  <1>5. \A s \in Slots : decision[s] = "absent"
    BY <1>4 DEF Nothing
  <1>6. CASE ~Binds(disk[slot])
    <2>1. Calm
      BY <1>1, <1>2, <1>6 DEF Admit, Refuse, End, Calm, CalmGoto, TypeInv
    <2> QED BY <2>1, CalmKeepsInv
  <1>7. CASE Binds(disk[slot])
    <2>1. /\ admitted' = [admitted EXCEPT ![slot] = disk[slot]]
          /\ slot' = IF slot \in {2, Last} THEN slot ELSE slot + 1
          /\ pc' = (CASE slot = 2 -> "compare" [] slot = Last -> "generate" [] OTHER -> "recheck")
          /\ exit' = exit
      BY <1>7 DEF Admit, Goto
    <2>2. disk[slot] \in Admissible
      BY <1>7 DEF Binds
    <2>3. \A s \in Slots : admitted'[s] = IF s = slot THEN disk[slot] ELSE admitted[s]
      BY <2>1, <1>3
    <2>4. TypeInv'
      <3>1. pc' \in Steps
        BY <2>1 DEF Steps
      <3>2. slot' \in Slots
        BY <2>1, <1>3, SlotsAreNumbered
      <3>3. admitted' \in [Slots -> Contents]
        BY <2>1, <1>3
      <3> QED BY <1>1, <1>2, <2>1, <3>1, <3>2, <3>3 DEF TypeInv
    <2>5. OrderInv'
      <3>1. CASE slot = 2
        <4>1. pc' = "compare" /\ slot' = 2
          BY <2>1, <3>1, SlotsAreNumbered
        <4>2. \A s \in Slots : IF s < 2 \/ s = 2 THEN admitted'[s] \in Admissible ELSE admitted'[s] = "absent"
          BY <3>1, <1>1, <1>2, <1>3, <2>2, <2>3, SlotsAreNumbered DEF OrderInv, Working
        <4>3. exit' = exit
          BY <2>1
        <4> QED BY <4>1, <4>2, <4>3, <1>1, <1>4 DEF OrderInv, Working, Judged
      <3>2. CASE slot # 2 /\ slot = Last
        <4>1. pc' = "generate"
          BY <2>1, <3>2
        <4>2. \A s \in Slots : admitted'[s] \in Admissible
          BY <3>2, <1>1, <1>2, <1>3, <2>2, <2>3, SlotsAreNumbered DEF OrderInv, Working
        <4> QED BY <4>1, <4>2, <2>1, <1>4 DEF OrderInv, Working, Judged
      <3>3. CASE slot # 2 /\ slot # Last
        <4>1. pc' = "recheck" /\ slot' = slot + 1
          BY <2>1, <3>3
        <4>2. \A s \in Slots : IF s < slot' THEN admitted'[s] \in Admissible ELSE admitted'[s] = "absent"
          <5>1. \A s \in Slots : s < slot + 1 <=> s < slot \/ s = slot
            BY <1>3, SlotsAreNumbered
          <5>2. \A s \in Slots : IF s < slot THEN admitted[s] \in Admissible ELSE admitted[s] = "absent"
            BY <1>1, <1>2 DEF OrderInv, Working
          <5> QED BY <4>1, <5>1, <5>2, <2>2, <2>3
        <4> QED BY <4>1, <4>2, <2>1, <1>1, <1>4 DEF OrderInv, Working, Judged
      <3> QED BY <3>1, <3>2, <3>3
    <2>6. TracedInv'
      BY <1>1, <1>2, <1>3, <1>5, <2>2, <2>3 DEF TracedInv, Admissible
    <2>7. BoundInv'
      <3>1. ~meddled.programs => AsAdmitted(Launchers)'
        BY <1>1, <1>2 DEF BoundInv, AsAdmitted
      <3>2. ~meddled.files => \A s \in Slots : disk[s] = wrote[s] /\ admitted'[s] \in {"absent", wrote[s]}
        BY <1>2, <1>3, <2>3 DEF BoundInv
      <3>3. ASSUME NEW s \in Slots, admitted[Identity(s)] # "absent" PROVE admitted'[Identity(s)] = admitted[Identity(s)]
        BY <3>3, <1>4, <2>3, SlotsAreNumbered DEF Preflights
      <3> QED BY <1>1, <1>2, <3>1, <3>2, <3>3 DEF BoundInv
    <2>8. CompletedInv'
      BY <1>4, <2>1 DEF CompletedInv
    <2> QED BY <2>4, <2>5, <2>6, <2>7, <2>8 DEF IInv
  <1> QED BY <1>6, <1>7

\* The two profiles are compared after the preflights.
LEMMA CompareKeepsInv == IInv /\ CompareProfiles => IInv'
  <1> SUFFICES ASSUME IInv, CompareProfiles PROVE IInv'
    OBVIOUS
  <1>1. /\ pc = "compare"
        /\ UNCHANGED <<outcome, observed, admitted, decision, input, disk, paper, observation, ran, wrote, meddled>>
    BY DEF CompareProfiles, retained, ghosts
  <1>2. TypeInv /\ OrderInv /\ TracedInv /\ BoundInv /\ CompletedInv
    BY DEF IInv
  <1>3. slot = 2 /\ decision = Nothing /\ exit = "running"
    BY <1>1, <1>2 DEF OrderInv, Working
  <1>4. CASE ~compatible
    <2>1. Calm
      BY <1>1, <1>2, <1>4 DEF CompareProfiles, Refuse, End, Calm, CalmGoto, TypeInv
    <2> QED BY <2>1, CalmKeepsInv
  <1>5. CASE compatible
    <2>1. pc' = "recheck" /\ slot' = 3 /\ exit' = exit
      BY <1>5 DEF CompareProfiles, Goto
    <2>2. TypeInv'
      BY <1>1, <1>2, <2>1, SlotsAreNumbered DEF TypeInv, Steps
    <2>3. OrderInv'
      <3>1. \A s \in Slots : IF s < 3 THEN admitted[s] \in Admissible ELSE admitted[s] = "absent"
        <4>1. \A s \in Slots : s < 3 <=> s < 2 \/ s = 2
          BY SlotsAreNumbered
        <4> QED BY <4>1, <1>1, <1>2, <1>3 DEF OrderInv, Working
      <3> QED BY <3>1, <1>1, <1>3, <2>1 DEF OrderInv, Working, Judged
    <2>4. TracedInv'
      BY <1>1, <1>2 DEF TracedInv
    <2>5. BoundInv'
      BY <1>1, <1>2 DEF BoundInv, AsAdmitted
    <2>6. CompletedInv'
      BY <1>3, <2>1 DEF CompletedInv
    <2> QED BY <2>2, <2>3, <2>4, <2>5, <2>6 DEF IInv
  <1> QED BY <1>4, <1>5

\* The referee decides on what the paths show.
LEMMA ReviewKeepsInv == IInv /\ Review => IInv'
  <1> SUFFICES ASSUME IInv, Review PROVE IInv'
    OBVIOUS
  <1>1. /\ pc = "review"
        /\ UNCHANGED <<slot, outcome, observed, admitted, input, disk, paper, observation, ran, wrote, meddled>>
    BY DEF Review, retained, ghosts
  <1>2. TypeInv /\ OrderInv /\ TracedInv /\ BoundInv /\ CompletedInv
    BY DEF IInv
  <1>3. exit = "running" /\ \A s \in Slots : admitted[s] \in Admissible
    BY <1>1, <1>2 DEF OrderInv, Working
  <1>4. CASE pc' = "end"
    <2>1. Calm
      BY <1>1, <1>2, <1>4 DEF Review, Goto, Refuse, End, Calm, CalmGoto, TypeInv
    <2> QED BY <2>1, CalmKeepsInv
  <1>5. CASE pc' # "end"
    <2>1. /\ \A s \in Slots : disk[s] \notin {"absent", "broken"}
          /\ decision' = disk /\ pc' = "decide" /\ exit' = exit
      BY <1>5 DEF Review, Goto, Refuse, End
    <2>2. TypeInv'
      BY <1>1, <1>2, <2>1 DEF TypeInv, Steps
    <2>3. OrderInv'
      BY <1>1, <1>3, <2>1 DEF OrderInv, Working, Judged
    <2>4. TracedInv'
      BY <1>1, <1>2, <1>3, <2>1 DEF TracedInv, Admissible
    <2>5. BoundInv'
      BY <1>1, <1>2 DEF BoundInv, AsAdmitted
    <2>6. CompletedInv'
      BY <1>3, <2>1 DEF CompletedInv
    <2> QED BY <2>2, <2>3, <2>4, <2>5, <2>6 DEF IInv
  <1> QED BY <1>4, <1>5

\* Another process touches an input.
LEMMA RivalInputKeepsInv == IInv /\ RivalInput => IInv'
  <1> SUFFICES ASSUME IInv, RivalInput PROVE IInv'
    OBVIOUS
  <1>1. PICK i \in Inputs, v \in {"admitted", "other", "missing"} :
          /\ input' = [input EXCEPT ![i] = v]
          /\ meddled' = [meddled EXCEPT !.programs = @ \/ i \in {"worker", "collector"} \cup Roles]
    BY DEF RivalInput
  <1>2. /\ exit = "running" /\ UNCHANGED <<pc, exit, observation, ran, wrote, disk, paper>>
        /\ UNCHANGED <<slot, outcome, observed, admitted, decision>>
    BY DEF RivalInput, Meddle, memory
  <1>3. TypeInv /\ OrderInv /\ TracedInv /\ BoundInv /\ CompletedInv
    BY DEF IInv
  <1>4. /\ input \in [Inputs -> {"admitted", "other", "missing"}]
        /\ meddled \in [programs : BOOLEAN, restored : BOOLEAN, files : BOOLEAN]
    BY <1>3 DEF TypeInv
  <1>5. /\ meddled'.restored = meddled.restored /\ meddled'.files = meddled.files
        /\ meddled'.programs = (meddled.programs \/ i \in Launchers)
        /\ meddled' \in [programs : BOOLEAN, restored : BOOLEAN, files : BOOLEAN]
    BY <1>1, <1>4 DEF Launchers
  <1>6. TypeInv'
    BY <1>1, <1>2, <1>3, <1>4, <1>5 DEF TypeInv
  <1>7. OrderInv'
    BY <1>2, <1>3 DEF OrderInv
  <1>8. TracedInv'
    BY <1>2, <1>3, <1>5 DEF TracedInv
  <1>9. BoundInv'
    <2>1. ~meddled'.programs => ~meddled.programs /\ AsAdmitted(Launchers)'
      BY <1>1, <1>3, <1>4, <1>5 DEF BoundInv, AsAdmitted, Launchers, Inputs, Roles
    <2> QED BY <2>1, <1>2, <1>3, <1>5 DEF BoundInv
  <1>10. CompletedInv'
    BY <1>2 DEF CompletedInv
  <1> QED BY <1>6, <1>7, <1>8, <1>9, <1>10 DEF IInv

\* Another process touches a file: what it puts back is what the slot's process wrote.
LEMMA RivalFileKeepsInv == IInv /\ RivalFile => IInv'
  <1> SUFFICES ASSUME IInv, RivalFile PROVE IInv'
    OBVIOUS
  <1>0. PICK s \in Slots : \E bytes \in {"forged", "broken", "absent", wrote[s]} :
          /\ disk' = [disk EXCEPT ![s] = bytes]
          /\ meddled' = [meddled EXCEPT !.files = TRUE, !.restored = @ \/ bytes = wrote[s]]
    BY DEF RivalFile
  <1>1. PICK bytes \in {"forged", "broken", "absent", wrote[s]} :
          /\ disk' = [disk EXCEPT ![s] = bytes]
          /\ meddled' = [meddled EXCEPT !.files = TRUE, !.restored = @ \/ bytes = wrote[s]]
    BY <1>0
  <1>2. /\ exit = "running" /\ UNCHANGED <<pc, exit, observation, ran, wrote, input, paper>>
        /\ UNCHANGED <<slot, outcome, observed, admitted, decision>>
    BY DEF RivalFile, Meddle, memory
  <1>3. TypeInv /\ OrderInv /\ TracedInv /\ BoundInv /\ CompletedInv
    BY DEF IInv
  <1>4. /\ disk \in [Slots -> Contents] /\ wrote \in [Slots -> Contents]
        /\ meddled \in [programs : BOOLEAN, restored : BOOLEAN, files : BOOLEAN]
    BY <1>3 DEF TypeInv
  <1>5. /\ meddled'.files = TRUE /\ meddled'.programs = meddled.programs
        /\ meddled'.restored = (meddled.restored \/ bytes = wrote[s])
        /\ meddled' \in [programs : BOOLEAN, restored : BOOLEAN, files : BOOLEAN]
    BY <1>1, <1>4
  <1>6. \A t \in Slots : disk'[t] = IF t = s THEN bytes ELSE disk[t]
    BY <1>1, <1>4
  <1>7. TypeInv'
    <2>1. disk' \in [Slots -> Contents]
      BY <1>1, <1>4 DEF Contents
    <2> QED BY <2>1, <1>2, <1>3, <1>5 DEF TypeInv
  <1>8. OrderInv'
    BY <1>2, <1>3 DEF OrderInv
  <1>9. TracedInv'
    <2>1. ~meddled'.restored => ~meddled.restored /\ bytes # wrote[s]
      BY <1>5
    <2>2. ~meddled'.restored => \A t \in Slots :
            /\ disk'[t] = disk[t] \/ (t = s /\ disk'[t] = bytes /\ bytes # wrote[t])
      BY <2>1, <1>6
    <2> QED BY <2>1, <2>2, <1>2, <1>3 DEF TracedInv
  <1>10. BoundInv'
    BY <1>2, <1>3, <1>5 DEF BoundInv, AsAdmitted
  <1>11. CompletedInv'
    BY <1>2 DEF CompletedInv
  <1> QED BY <1>7, <1>8, <1>9, <1>10, <1>11 DEF IInv

-----------------------------------------------------------------------------
(* What holds of every run                                                 *)

LEMMA Invariance == Spec => []IInv
  <1>1. IInv /\ [Next]_vars => IInv'
    <2> SUFFICES ASSUME IInv, [Next]_vars PROVE IInv'
      OBVIOUS
    <2>1. CASE UNCHANGED vars
      <3>1. UNCHANGED <<pc, slot, outcome, observed, admitted, decision, input, disk, paper, observation,
                        exit, ran, wrote, meddled>>
        BY <2>1 DEF vars, memory, retained, ghosts
      <3> QED BY <3>1 DEF IInv, TypeInv, OrderInv, TracedInv, BoundInv, CompletedInv, AsAdmitted
    <2>2. CASE CalmActions
      BY <2>2, CalmActionsAreCalm, CalmKeepsInv DEF IInv
    <2>3. CASE Next /\ ~CalmActions
      <3>1. \/ Launch \/ Admit \/ CompareProfiles \/ Review \/ RivalInput \/ RivalFile \/ UNCHANGED vars
        BY <2>3 DEF Next, Run, Environment, Done, CalmActions
      <3> QED BY <3>1, <2>1, LaunchKeepsInv, AdmitKeepsInv, CompareKeepsInv, ReviewKeepsInv,
                 RivalInputKeepsInv, RivalFileKeepsInv
    <2> QED BY <2>1, <2>2, <2>3
  <1> QED BY InitHolds, <1>1, PTL DEF Spec

\* The decision of a completed run was made on the very evidence its record binds: for every grid and
\* any number of replacements none of which is undone (DecisionRestsOnRecord).
THEOREM DecisionsRestOnRecords == Spec => []DecisionRestsOnRecord
  <1>1. IInv => DecisionRestsOnRecord
    <2> SUFFICES ASSUME IInv, exit = "completed", ~meddled.restored PROVE decision = admitted
      BY DEF DecisionRestsOnRecord
    <2>1. decision \in [Slots -> Contents] /\ admitted \in [Slots -> Contents]
      BY DEF IInv, TypeInv
    <2>2. ASSUME NEW s \in Slots PROVE decision[s] = admitted[s]
      <3>1. disk[s] = admitted[s] /\ admitted[s] # "absent" /\ decision[s] # "absent"
        BY DEF IInv, CompletedInv, OrderInv, Admissible
      <3> QED BY <3>1 DEF IInv, TracedInv
    <2> QED BY <2>1, <2>2
  <1> QED BY <1>1, Invariance, PTL

\* A completed run of honest programs was measured on the admitted manifest and under the profile
\* identities it records, however inputs were swapped and put back (BoundToAdmittedInputs).
THEOREM RunsAreBoundToInputs == Spec => []BoundToAdmittedInputs
  <1>1. IInv => BoundToAdmittedInputs
    <2> SUFFICES ASSUME IInv, exit = "completed", ~meddled.programs, ~meddled.files, NEW s \in Slots
                 PROVE  /\ "manifest" \in ran[s].inputs
                        /\ s \notin Preflights => ran[s].identity = admitted[Identity(s)]
      BY DEF BoundToAdmittedInputs
    <2>1. admitted[s] \in {"sound", "forged"} /\ admitted[s] = wrote[s]
      BY DEF IInv, BoundInv, OrderInv, Admissible
    <2> QED BY <2>1 DEF IInv, BoundInv
  <1> QED BY <1>1, Invariance, PTL

-----------------------------------------------------------------------------
(* The record as a document                                                *)

\* What the last verification saw, with the launchers and resources it saw.
Retained ==
    /\ AsAdmitted({"worker", "collector"} \cup Roles)
    /\ \A s \in Slots : observation[s] = "zero" /\ disk[s] # "absent"
    /\ \A p \in {"copy", "generated", "receipt"} : paper[p] = "exact"

\* The entries of the retained tree, kind by kind.
LEMMA TreeEntries ==
    ASSUME Retained
    PROVE  /\ Tree[<<0, "copy">>] = <<"exact", RunConfig>>
           /\ Tree[<<0, "generated">>] = <<"exact", GeneratedConfiguration>>
           /\ Tree[<<0, "receipt">>] = <<"exact", GeneratedConfiguration>>
           /\ \A s \in Slots :
                 /\ Tree[<<s, "command">>] = <<"zero", Command(s)>>
                 /\ \A name \in {"stdout", "stderr", "exit_code"} : Tree[<<s, name>>] = <<"zero">>
           /\ \A s \in Preflights : Tree[<<s, "identity">>] = <<disk[s], ProfileIdentity(Role(s))>>
           /\ \A s \in Cells :
                 /\ Tree[<<s, "CHECKSUMS.sha256">>] = <<disk[s], [n \in Payloads |-> Payload(s, n)]>>
                 /\ Tree[<<s, "another">>] = <<"absent">>
                 /\ \A name \in Payloads : Tree[<<s, name>>] = Payload(s, name)
  <1>1. \A s, name : <<s, name>> \in Members => Tree[<<s, name>>] = Entry(s, name)
    BY DEF Tree
  <1>2. \A s \in Slots : observation[s] = "zero"
    BY DEF Retained
  <1>3. \A name \in {"copy", "generated", "receipt"} : <<0, name>> \in Members /\ paper[name] = "exact"
    BY DEF Members, Retained
  <1>4. /\ Tree[<<0, "copy">>] = <<"exact", RunConfig>>
        /\ Tree[<<0, "generated">>] = <<"exact", GeneratedConfiguration>>
        /\ Tree[<<0, "receipt">>] = <<"exact", GeneratedConfiguration>>
    <2>1. Entry(0, "copy") = <<paper["copy"], RunConfig>>
      BY DEF Entry, Payloads
    <2>2. Entry(0, "generated") = <<paper["generated"], GeneratedConfiguration>>
      BY DEF Entry, Payloads
    <2>3. Entry(0, "receipt") = <<paper["receipt"], GeneratedConfiguration>>
      BY DEF Entry, Payloads
    <2> QED BY <1>1, <1>3, <2>1, <2>2, <2>3
  <1>5. ASSUME NEW s \in Slots
        PROVE  /\ Tree[<<s, "command">>] = <<"zero", Command(s)>>
               /\ \A name \in {"stdout", "stderr", "exit_code"} : Tree[<<s, name>>] = <<"zero">>
    <2>1. \A name \in ProcessFiles : <<s, name>> \in Members
      BY DEF Members
    <2>2. Entry(s, "command") = <<observation[s], Command(s)>>
      BY DEF Entry, Payloads
    <2>3. \A name \in {"stdout", "stderr", "exit_code"} : Entry(s, name) = <<observation[s]>>
      BY DEF Entry, Payloads
    <2> QED BY <1>1, <1>2, <2>1, <2>2, <2>3 DEF ProcessFiles
  <1>6. ASSUME NEW s \in Preflights PROVE Tree[<<s, "identity">>] = <<disk[s], ProfileIdentity(Role(s))>>
    <2>1. <<s, "identity">> \in Members
      BY DEF Members
    <2>2. Entry(s, "identity") = <<disk[s], ProfileIdentity(Role(s))>>
      BY DEF Entry, Payloads
    <2> QED BY <1>1, <2>1, <2>2
  <1>7. ASSUME NEW s \in Cells
        PROVE  /\ Tree[<<s, "CHECKSUMS.sha256">>] = <<disk[s], [n \in Payloads |-> Payload(s, n)]>>
               /\ Tree[<<s, "another">>] = <<"absent">>
               /\ \A name \in Payloads : Tree[<<s, name>>] = Payload(s, name)
    <2>1. \A name \in CellMembers \cup {"another"} : <<s, name>> \in Members
      BY DEF Members
    <2>2. Entry(s, "CHECKSUMS.sha256") = <<disk[s], [n \in Payloads |-> Payload(s, n)]>>
      BY DEF Entry, Payloads
    <2>3. Entry(s, "another") = <<"absent">>
      BY DEF Entry, Payloads
    <2>4. \A name \in Payloads : Entry(s, name) = Payload(s, name)
      BY DEF Entry, Payloads
    <2> QED BY <1>1, <2>1, <2>2, <2>3, <2>4 DEF CellMembers
  <1> QED BY <1>4, <1>5, <1>6, <1>7

\* Their states, and what they say.
LEMMA EntryParts ==
    ASSUME Retained
    PROVE  /\ \A name \in {"copy", "generated", "receipt"} : Tree[<<0, name>>][1] = "exact"
           /\ Tree[<<0, "copy">>][2] = RunConfig
           /\ Tree[<<0, "generated">>][2] = GeneratedConfiguration
           /\ Tree[<<0, "receipt">>][2] = GeneratedConfiguration
           /\ \A s \in Slots, name \in ProcessFiles : Tree[<<s, name>>][1] = "zero"
           /\ \A s \in Preflights : /\ Tree[<<s, "identity">>][1] = disk[s]
                                    /\ Tree[<<s, "identity">>][2] = ProfileIdentity(Role(s))
           /\ \A s \in Cells :
                 /\ Tree[<<s, "CHECKSUMS.sha256">>][1] = disk[s]
                 /\ Tree[<<s, "CHECKSUMS.sha256">>][2] = [n \in Payloads |-> Payload(s, n)]
                 /\ Tree[<<s, "another">>][1] = "absent"
                 /\ \A name \in Payloads : Tree[<<s, name>>][1] = disk[s]
                 /\ Tree[<<s, "result.json">>][2][1] = Result(s)
  <1>1. /\ \A name \in {"copy", "generated", "receipt"} : Tree[<<0, name>>][1] = "exact"
        /\ Tree[<<0, "copy">>][2] = RunConfig
        /\ Tree[<<0, "generated">>][2] = GeneratedConfiguration
        /\ Tree[<<0, "receipt">>][2] = GeneratedConfiguration
    <2>1. /\ Tree[<<0, "copy">>] = <<"exact", RunConfig>>
          /\ Tree[<<0, "generated">>] = <<"exact", GeneratedConfiguration>>
          /\ Tree[<<0, "receipt">>] = <<"exact", GeneratedConfiguration>>
      BY TreeEntries
    <2> QED BY <2>1
  <1>2. ASSUME NEW s \in Slots, NEW name \in ProcessFiles PROVE Tree[<<s, name>>][1] = "zero"
    <2>1. Tree[<<s, name>>] = <<"zero", Command(s)>> \/ Tree[<<s, name>>] = <<"zero">>
      BY TreeEntries DEF ProcessFiles
    <2> QED BY <2>1
  <1>3. ASSUME NEW s \in Preflights
        PROVE  /\ Tree[<<s, "identity">>][1] = disk[s]
               /\ Tree[<<s, "identity">>][2] = ProfileIdentity(Role(s))
    <2>1. Tree[<<s, "identity">>] = <<disk[s], ProfileIdentity(Role(s))>>
      BY TreeEntries
    <2> QED BY <2>1
  <1>4. ASSUME NEW s \in Cells
        PROVE  /\ Tree[<<s, "CHECKSUMS.sha256">>][1] = disk[s]
               /\ Tree[<<s, "CHECKSUMS.sha256">>][2] = [n \in Payloads |-> Payload(s, n)]
               /\ Tree[<<s, "another">>][1] = "absent"
               /\ \A name \in Payloads : Tree[<<s, name>>][1] = disk[s]
               /\ Tree[<<s, "result.json">>][2][1] = Result(s)
    <2>1. Tree[<<s, "CHECKSUMS.sha256">>] = <<disk[s], [n \in Payloads |-> Payload(s, n)]>>
      BY TreeEntries
    <2>2. Tree[<<s, "another">>] = <<"absent">>
      BY TreeEntries
    <2>3. ASSUME NEW name \in Payloads PROVE Tree[<<s, name>>][1] = disk[s]
      <3>1. Tree[<<s, name>>] = Payload(s, name)
        BY TreeEntries
      <3>2. Payload(s, name)[1] = disk[s]
        BY DEF Payload
      <3> QED BY <3>1, <3>2
    <2>4. Tree[<<s, "result.json">>] = <<disk[s], <<Result(s)>>>>
      BY TreeEntries DEF Payload, Payloads
    <2>5. Tree[<<s, "result.json">>][2] = <<Result(s)>>
      BY <2>4
    <2>6. Tree[<<s, "result.json">>][2][1] = Result(s)
      BY <2>5
    <2>7. Tree[<<s, "CHECKSUMS.sha256">>][2] = [n \in Payloads |-> Payload(s, n)]
      BY <2>1
    <2>8. Tree[<<s, "CHECKSUMS.sha256">>][1] = disk[s] /\ Tree[<<s, "another">>][1] = "absent"
      BY <2>1, <2>2
    <2> QED BY <2>3, <2>6, <2>7, <2>8
  <1> QED BY <1>1, <1>2, <1>3, <1>4

\* Every entry is at least its state.
LEMMA EntriesHaveStates ==
    ASSUME Retained, NEW m \in Members PROVE 1 \in DOMAIN Tree[m]
  <1>1. CASE m \in {0} \X {"copy", "generated", "receipt"}
    <2>1. PICK name \in {"copy", "generated", "receipt"} : m = <<0, name>>
      BY <1>1
    <2>2. Tree[m] = <<"exact", RunConfig>> \/ Tree[m] = <<"exact", GeneratedConfiguration>>
      BY <2>1, TreeEntries
    <2> QED BY <2>2
  <1>2. CASE m \in Slots \X ProcessFiles
    <2>1. PICK s \in Slots, name \in ProcessFiles : m = <<s, name>>
      BY <1>2
    <2>2. Tree[m] = <<"zero", Command(s)>> \/ Tree[m] = <<"zero">>
      BY <2>1, TreeEntries DEF ProcessFiles
    <2> QED BY <2>2
  <1>3. CASE m \in Preflights \X {"identity"}
    <2>1. PICK s \in Preflights : m = <<s, "identity">>
      BY <1>3
    <2>2. Tree[m] = <<disk[s], ProfileIdentity(Role(s))>>
      BY <2>1, TreeEntries
    <2> QED BY <2>2
  <1>4. CASE m \in Cells \X (CellMembers \cup {"another"})
    <2>1. PICK s \in Cells, name \in CellMembers \cup {"another"} : m = <<s, name>>
      BY <1>4
    <2>2. CASE name = "another"
      <3>1. Tree[m] = <<"absent">>
        BY <2>1, <2>2, TreeEntries
      <3> QED BY <3>1
    <2>3. CASE name = "CHECKSUMS.sha256"
      <3>1. Tree[m] = <<disk[s], [n \in Payloads |-> Payload(s, n)]>>
        BY <2>1, <2>3, TreeEntries
      <3> QED BY <3>1
    <2>4. CASE name \in Payloads
      <3>1. Tree[m] = Payload(s, name)
        BY <2>1, <2>4, TreeEntries
      <3>2. 1 \in DOMAIN Payload(s, name)
        BY DEF Payload
      <3> QED BY <3>1, <3>2
    <2> QED BY <2>1, <2>2, <2>3, <2>4 DEF CellMembers
  <1> QED BY <1>1, <1>2, <1>3, <1>4 DEF Members

\* What was retained of a process replays.
LEMMA ProcessOutputReplays ==
    ASSUME Retained, NEW s \in Slots
    PROVE  ProcessReplays(RetainedProcessOutput(Tree, s), Tree, s)
  <1> DEFINE p == RetainedProcessOutput(Tree, s)
  <1>1. \A name \in ProcessFiles : /\ p.files[name] = RetainedFile(Tree, s, name)
                                   /\ Tree[<<s, name>>][1] # "absent"
    BY EntryParts DEF RetainedProcessOutput
  <1>2. \A name \in ProcessFiles : Rehashed(Tree, p.files[name], s, name)
    <2>1. ASSUME NEW name \in ProcessFiles PROVE Rehashed(Tree, RetainedFile(Tree, s, name), s, name)
      BY EntryParts DEF Rehashed, RetainedFile
    <2> QED BY <1>1, <2>1
  <1>3. p.exit = "zero" /\ Tree[<<s, "exit_code">>] = <<p.exit>>
    BY TreeEntries DEF RetainedProcessOutput, Retained
  <1>4. /\ p.executable.lexical = RunConfig[Role(s)] /\ p.executable.resolved = Role(s)
        /\ p.executable.sha256 = "admitted"
    BY DEF RetainedProcessOutput, InterpreterIdentity
  <1>5. Tree[<<0, "copy">>][2] = RunConfig /\ input[Role(s)] = "admitted"
    BY EntryParts, SlotsAreNumbered DEF Retained, AsAdmitted
  <1> QED BY <1>2, <1>3, <1>4, <1>5 DEF ProcessReplays

\* The record replays on the tree it was made from.
LEMMA RecordReplays ==
    ASSUME Retained PROVE Replays(CompletedRunRecord(Tree), Tree)
  <1> DEFINE r == CompletedRunRecord(Tree)
  <1>1. /\ r.input = RetainedFile(Tree, 0, "copy") /\ r.generated = RetainedFile(Tree, 0, "generated")
        /\ r.receipt = RetainedFile(Tree, 0, "receipt")
        /\ r.worker = "admitted" /\ r.collector = "admitted"
        /\ \A s \in Preflights : r.preflights[s] = AdmittedProfilePreflight(Tree, s)
        /\ \A s \in Cells : r.attempts[s] = AdmittedEvidenceAttempt(Tree, s)
    BY DEF CompletedRunRecord
  <1>2. ASSUME NEW s \in Preflights PROVE PreflightReplays(AdmittedProfilePreflight(Tree, s), Tree, s)
    <2>1. s \in Slots
      BY SlotsAreNumbered DEF Preflights
    <2>2. disk[s] # "absent"
      BY <2>1 DEF Retained
    <2>3. Rehashed(Tree, RetainedFile(Tree, s, "identity"), s, "identity")
      BY <2>2, EntryParts DEF Rehashed, RetainedFile
    <2>4. ProfileIdentity(Role(s)) = Tree[<<s, "identity">>][2]
      BY EntryParts
    <2> QED BY <2>1, <2>3, <2>4, ProcessOutputReplays DEF PreflightReplays, AdmittedProfilePreflight
  <1>3. ASSUME NEW s \in Cells PROVE AttemptReplays(AdmittedEvidenceAttempt(Tree, s), Tree, s)
    <2> DEFINE a == AdmittedEvidenceAttempt(Tree, s)
    <2>1. s \in Slots /\ disk[s] # "absent"
      BY DEF Retained, Cells
    <2>2. /\ a.role = Role(s) /\ a.step = StepDt(s) /\ a.repeat = RepeatId(s) /\ a.cell = s
          /\ a.profile = ProfileIdentity(Role(s)) /\ a.process = RetainedProcessOutput(Tree, s)
          /\ a.result = Tree[<<s, "result.json">>] /\ a.checksums = Tree[<<s, "CHECKSUMS.sha256">>]
      BY DEF AdmittedEvidenceAttempt
    <2>3. Tree[<<s, "result.json">>][2][1] = Result(s)
      BY EntryParts
    <2>4. Tree[<<s, "CHECKSUMS.sha256">>][2] = [n \in Payloads |-> Payload(s, n)]
      BY EntryParts
    <2>5. Listing(Tree, s) = CellMembers
      <3>1. ASSUME NEW name \in CellMembers PROVE Tree[<<s, name>>][1] # "absent"
        <4>1. Tree[<<s, name>>][1] = disk[s]
          BY EntryParts DEF CellMembers
        <4> QED BY <2>1, <4>1
      <3>2. Tree[<<s, "another">>][1] = "absent" /\ "another" \notin CellMembers
        BY EntryParts DEF CellMembers, Payloads
      <3> QED BY <3>1, <3>2 DEF Listing
    <2>6. CellReplays(Tree, s, a.result)
      <3>1. \A name \in Payloads : Tree[<<s, name>>] = Payload(s, name)
        BY TreeEntries
      <3>2. "result.json" \in Payloads
        BY DEF Payloads
      <3> QED BY <2>2, <2>4, <2>5, <3>1, <3>2 DEF CellReplays
    <2>7. Tree[<<s, "result.json">>][2][1] =
            [role |-> a.role, step |-> a.step, repeat |-> a.repeat, profile |-> a.profile]
      BY <2>2, <2>3 DEF Result
    <2> HIDE DEF a
    <2> QED BY <2>1, <2>2, <2>6, <2>7, ProcessOutputReplays DEF AttemptReplays, a
  <1>4. /\ Rehashed(Tree, r.input, 0, "copy") /\ Rehashed(Tree, r.generated, 0, "generated")
        /\ Rehashed(Tree, r.receipt, 0, "receipt")
        /\ Tree[<<0, "receipt">>][2] = Tree[<<0, "generated">>][2]
    BY <1>1, EntryParts DEF Rehashed, RetainedFile
  <1>5. ExternalResource("worker", r.worker) /\ ExternalResource("collector", r.collector)
    BY <1>1 DEF ExternalResource, Retained, AsAdmitted
  <1> QED BY <1>1, <1>2, <1>3, <1>4, <1>5 DEF Replays

\* Whatever entry of the tree is changed, the record no longer replays.
LEMMA ChangesAreNoticed ==
    ASSUME Retained, NEW m \in Members, NEW state \in {"absent", "altered"}, state # Tree[m][1]
    PROVE  ~Replays(CompletedRunRecord(Tree), Changed(Tree, m, state))
  <1> DEFINE r == CompletedRunRecord(Tree)
             U == Changed(Tree, m, state)
  <1>1. /\ U[m] = [Tree[m] EXCEPT ![1] = state]
        /\ \A n \in Members \ {m} : U[n] = Tree[n]
    BY DEF Changed, Tree
  <1>2. U[m][1] = state
    BY <1>1, EntriesHaveStates
  <1>3. U[m] # Tree[m]
    BY <1>2
  <1>4. /\ r.input.sha256 = Tree[<<0, "copy">>] /\ r.generated.sha256 = Tree[<<0, "generated">>]
        /\ r.receipt.sha256 = Tree[<<0, "receipt">>]
        /\ \A s \in Preflights : r.preflights[s] = AdmittedProfilePreflight(Tree, s)
        /\ \A s \in Cells : r.attempts[s] = AdmittedEvidenceAttempt(Tree, s)
    BY DEF CompletedRunRecord, RetainedFile
  <1> HIDE DEF r, U
  <1> SUFFICES ASSUME Replays(r, U) PROVE FALSE
    BY DEF r, U
  <1>5. /\ Rehashed(U, r.input, 0, "copy") /\ Rehashed(U, r.generated, 0, "generated")
        /\ Rehashed(U, r.receipt, 0, "receipt")
        /\ \A s \in Preflights : PreflightReplays(r.preflights[s], U, s)
        /\ \A s \in Cells : AttemptReplays(r.attempts[s], U, s)
    BY DEF Replays
  <1>6. CASE m \in {0} \X {"copy", "generated", "receipt"}
    <2>1. PICK name \in {"copy", "generated", "receipt"} : m = <<0, name>>
      BY <1>6
    <2> QED BY <2>1, <1>3, <1>4, <1>5 DEF Rehashed
  <1>7. ASSUME NEW s \in Slots, NEW name \in ProcessFiles, m = <<s, name>>,
               NEW p, p = RetainedProcessOutput(Tree, s), ProcessReplays(p, U, s)
        PROVE  FALSE
    <2>1. Rehashed(U, p.files[name], s, name)
      BY <1>7 DEF ProcessReplays
    <2>2. p.files[name].sha256 = Tree[m]
      BY <1>7 DEF RetainedProcessOutput, RetainedFile
    <2> QED BY <2>1, <2>2, <1>3, <1>7 DEF Rehashed
  <1>8. CASE m \in Slots \X ProcessFiles
    <2>1. PICK s \in Slots, name \in ProcessFiles : m = <<s, name>>
      BY <1>8
    <2>2. ProcessReplays(RetainedProcessOutput(Tree, s), U, s)
      <3>1. CASE s \in Preflights
        <4>1. AdmittedProfilePreflight(Tree, s).process = RetainedProcessOutput(Tree, s)
          BY DEF AdmittedProfilePreflight
        <4> QED BY <3>1, <4>1, <1>4, <1>5 DEF PreflightReplays
      <3>2. CASE s \in Cells
        <4>1. AdmittedEvidenceAttempt(Tree, s).process = RetainedProcessOutput(Tree, s)
          BY DEF AdmittedEvidenceAttempt
        <4> QED BY <3>2, <4>1, <1>4, <1>5 DEF AttemptReplays
      <3> QED BY <3>1, <3>2 DEF Cells
    <2> QED BY <1>7, <2>1, <2>2
  <1>9. CASE m \in Preflights \X {"identity"}
    <2>1. PICK s \in Preflights : m = <<s, "identity">>
      BY <1>9
    <2>2. AdmittedProfilePreflight(Tree, s).identity.sha256 = Tree[m]
      BY <2>1 DEF AdmittedProfilePreflight, RetainedFile
    <2>3. Rehashed(U, AdmittedProfilePreflight(Tree, s).identity, s, "identity")
      BY <1>4, <1>5 DEF PreflightReplays
    <2> QED BY <2>1, <2>2, <2>3, <1>3 DEF Rehashed
  <1>10. CASE m \in Cells \X (CellMembers \cup {"another"})
    <2>1. PICK s \in Cells, name \in CellMembers \cup {"another"} : m = <<s, name>>
      BY <1>10
    <2>2. AttemptReplays(AdmittedEvidenceAttempt(Tree, s), U, s)
      BY <1>4, <1>5
    <2>3. /\ U[<<s, "CHECKSUMS.sha256">>] = Tree[<<s, "CHECKSUMS.sha256">>]
          /\ Listing(U, s) = CellMembers
          /\ \A n \in Payloads : U[<<s, n>>] = U[<<s, "CHECKSUMS.sha256">>][2][n]
      <3>1. AdmittedEvidenceAttempt(Tree, s).checksums = Tree[<<s, "CHECKSUMS.sha256">>]
        BY DEF AdmittedEvidenceAttempt
      <3> QED BY <2>2, <3>1 DEF AttemptReplays, CellReplays
    <2>4. CASE name = "CHECKSUMS.sha256"
      BY <2>1, <2>3, <2>4, <1>3
    <2>5. CASE name \in Payloads
      <3>1. Tree[<<s, "CHECKSUMS.sha256">>][2] = [n \in Payloads |-> Payload(s, n)]
        BY EntryParts
      <3>2. Tree[m] = Payload(s, name)
        BY <2>1, <2>5, TreeEntries
      <3>3. U[m] = Payload(s, name)
        BY <2>1, <2>3, <2>5, <3>1
      <3> QED BY <3>2, <3>3, <1>3
    <2>6. CASE name = "another"
      <3>1. Tree[m][1] = "absent"
        BY <2>1, <2>6, EntryParts
      <3>2. U[<<s, "another">>][1] # "absent"
        BY <3>1, <1>2, <2>1, <2>6
      <3>3. "another" \in Listing(U, s)
        BY <3>2 DEF Listing
      <3> QED BY <2>3, <3>3 DEF CellMembers, Payloads
    <2> QED BY <2>1, <2>4, <2>5, <2>6 DEF CellMembers
  <1> QED BY <1>6, <1>8, <1>9, <1>10 DEF Members

\* Two attempts cannot change places in the record.
LEMMA AttemptsAreTold ==
    ASSUME NEW s \in Cells, NEW t \in Cells, s # t
    PROVE  ~Replays([CompletedRunRecord(Tree) EXCEPT !.attempts = Exchanged(@, s, t)], Tree)
  <1> DEFINE r == CompletedRunRecord(Tree)
             x == [r EXCEPT !.attempts = Exchanged(@, s, t)]
  <1>1. r.attempts = [u \in Cells |-> AdmittedEvidenceAttempt(Tree, u)]
    BY DEF CompletedRunRecord
  <1>2. x.attempts = Exchanged(r.attempts, s, t)
    BY DEF CompletedRunRecord
  <1>3. x.attempts[s] = AdmittedEvidenceAttempt(Tree, t)
    BY <1>1, <1>2 DEF Exchanged
  <1>4. AdmittedEvidenceAttempt(Tree, t).cell = t
    BY DEF AdmittedEvidenceAttempt
  <1>5. ~AttemptReplays(x.attempts[s], Tree, s)
    BY <1>3, <1>4 DEF AttemptReplays
  <1> HIDE DEF x
  <1>6. ~Replays(x, Tree)
    BY <1>5 DEF Replays
  <1> QED BY <1>6 DEF x

\* Nor can the two preflights.
LEMMA PreflightsAreTold ==
    ~Replays([CompletedRunRecord(Tree) EXCEPT !.preflights = Exchanged(@, 1, 2)], Tree)
  <1> DEFINE r == CompletedRunRecord(Tree)
             x == [r EXCEPT !.preflights = Exchanged(@, 1, 2)]
  <1>1. r.preflights = [u \in Preflights |-> AdmittedProfilePreflight(Tree, u)]
    BY DEF CompletedRunRecord
  <1>2. x.preflights = Exchanged(r.preflights, 1, 2)
    BY DEF CompletedRunRecord
  <1>3. x.preflights[1] = AdmittedProfilePreflight(Tree, 2)
    BY <1>1, <1>2 DEF Exchanged, Preflights
  <1>4. AdmittedProfilePreflight(Tree, 2).role = Role(2)
    BY DEF AdmittedProfilePreflight
  <1>5. Role(1) # Role(2)
    BY DEF Role
  <1>6. ~PreflightReplays(x.preflights[1], Tree, 1)
    BY <1>3, <1>4, <1>5 DEF PreflightReplays
  <1> HIDE DEF x
  <1>7. ~Replays(x, Tree)
    BY <1>6 DEF Replays, Preflights
  <1> QED BY <1>7 DEF x

\* A run that completes retained all it binds.
LEMMA CompletedIsRetained ==
    ASSUME IInv, exit = "completed", AsAdmitted({"worker", "collector"} \cup Roles) PROVE Retained
  BY DEF IInv, CompletedInv, OrderInv, Retained, Admissible

\* The record of a completed run replays, and no retained file and no order of its attempts can be
\* changed without the replay noticing it, for every size of the grid (RecordBindsEveryFile).
THEOREM RecordsBindEveryFile == Spec => []RecordBindsEveryFile
  <1>1. IInv => RecordBindsEveryFile
    BY CompletedIsRetained, RecordReplays, ChangesAreNoticed, AttemptsAreTold, PreflightsAreTold
       DEF RecordBindsEveryFile
  <1> QED BY <1>1, Invariance, PTL
=============================================================================
