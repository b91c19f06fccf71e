-------------------------- MODULE OutputDirectory --------------------------
(***************************************************************************)
(* How an invocation obtains the directory it publishes into: a retained   *)
(* run directory under ~/.metrifid/runs (allocate_run_directory of         *)
(* result/_runs.py) or an explicit --output                                *)
(* (prepare_paired_output_directory of _atomic_output.py), one step per    *)
(* system call, for invocations that run side by side.                     *)
(*                                                                         *)
(* A directory is a number, its entries are named relative to it, and every *)
(* step of an invocation goes through a descriptor (a number) it holds.    *)
(* Another process may replace, remove or link away any entry, MaxActs     *)
(* times; MaxDirs bounds the directories ever made.                        *)
(***************************************************************************)
EXTENDS Naturals

CONSTANTS
    Invocations,
    Explicit,    \* the invocations that may have been given --output
    RunNames,    \* the random names secrets.token_hex may return
    MaxAttempts, \* MAX_RUN_ALLOCATION_ATTEMPTS (100)
    MaxActs, MaxDirs,
    OtherKind,   \* an entry that is a symbolic link or a file
    Absent       \* no entry

ASSUME InvocationsAssumption == Explicit \subseteq Invocations
ASSUME DirectoryBoundsAssumption ==
    MaxAttempts \in Nat \ {0} /\ MaxActs \in Nat /\ MaxDirs \in Nat \ {0}

Home == 0
Dirs == 0 .. MaxDirs
Ancestors == {"tool", "runs"}
Names == Ancestors \cup {"out"} \cup RunNames
Somebody == "somebody"

\* A run is named by hexadecimal digits, its ancestors are not; a link or nothing is no directory.
ASSUME RunNamesAssumption == RunNames \cap (Ancestors \cup {"out"}) = {}
ASSUME EntriesAssumption == OtherKind \notin Dirs /\ Absent \notin Dirs

VARIABLES
    given,    \* the invocations that were given --output
    tree,     \* directory entries
    fresh,    \* the next directory to be made
    maker,    \* who made each directory
    stage, at, \* control point and the descriptor held, per invocation
    target,   \* name being admitted below it
    creating, \* may the next observation still create it (first pass)
    seen,     \* directory observed under that name
    tries,    \* run names tried
    acts,     \* acts of other processes so far
    raced     \* did one happen between the creation of a run and its observation

disk == <<tree, fresh, maker>>
own == <<stage, at, target, creating, seen, tries>>
directoryVars == <<given, disk, own, acts, raced>>

IsDir(entry) == entry \in Dirs
Ends == {"bound", "refused"}
IsRun(p) == target[p] \in RunNames

\* An output directory given by the user may already be there, or somebody's link may be.
DirectoryInit ==
    /\ given \in SUBSET Explicit
    /\ \E out \in {1, OtherKind, Absent} :
          /\ tree = [e \in Dirs \X Names |-> IF e = <<Home, "out">> THEN out ELSE Absent]
          /\ fresh = IF out = 1 THEN 2 ELSE 1
    /\ maker = [d \in Dirs |-> Somebody]
    /\ stage = [p \in Invocations |-> "stat"]
    /\ at = [p \in Invocations |-> Home]
    /\ target = [p \in Invocations |-> IF p \in given THEN "out" ELSE "tool"]
    /\ creating = [p \in Invocations |-> TRUE]
    /\ seen = [p \in Invocations |-> Absent]
    /\ tries = [p \in Invocations |-> 0]
    /\ acts = 0
    /\ raced = [p \in Invocations |-> FALSE]

Entry(p) == tree[<<at[p], target[p]>>]
Goto(p, l) == stage' = [stage EXCEPT ![p] = l]
Refuse(p) == Goto(p, "refused") /\ UNCHANGED <<at, target, creating, seen, tries>>

\* os.stat(name, dir_fd, follow_symlinks=False): absent names are created once.
Stat(p) ==
    /\ stage[p] = "stat"
    /\ IF Entry(p) = Absent /\ creating[p]
       THEN Goto(p, "mkdir") /\ UNCHANGED <<at, target, creating, seen, tries>>
       ELSE IF IsDir(Entry(p))
       THEN /\ Goto(p, "open")
            /\ seen' = [seen EXCEPT ![p] = Entry(p)]
            /\ UNCHANGED <<at, target, creating, tries>>
       ELSE Refuse(p)
    /\ UNCHANGED <<disk, acts, raced>>

\* A shared ancestor that another process made first is observed again; a taken run name is
\* never reused, another one is drawn; an explicit output that appeared meanwhile is refused.
UncountedMutant(p) ==
    /\ stage[p] = "mkdir" /\ Entry(p) # Absent
    /\ Goto(p, IF target[p] \in Ancestors THEN "stat" ELSE "mkdir")
    /\ creating' = [creating EXCEPT ![p] = FALSE]
    /\ target' \in {[target EXCEPT ![p] = n] :
                       n \in IF target[p] \in Ancestors THEN {target[p]} ELSE RunNames}
    /\ UNCHANGED <<disk, at, seen, tries, acts, raced>>
Taken(p) ==
    /\ stage[p] = "mkdir" /\ Entry(p) # Absent
    /\ IF target[p] \in Ancestors
       THEN /\ Goto(p, "stat")
            /\ creating' = [creating EXCEPT ![p] = FALSE]
            /\ UNCHANGED <<at, target, seen, tries>>
       ELSE IF IsRun(p) /\ tries[p] + 1 < MaxAttempts
       THEN /\ tries' = [tries EXCEPT ![p] = @ + 1]
            /\ \E n \in RunNames : target' = [target EXCEPT ![p] = n]
            /\ UNCHANGED <<stage, at, creating, seen>>
       ELSE /\ Goto(p, "refused")
            /\ tries' = [tries EXCEPT ![p] = IF IsRun(p) THEN @ + 1 ELSE @]
            /\ UNCHANGED <<at, target, creating, seen>>
    /\ UNCHANGED <<disk, acts, raced>>

Mkdir(p) ==
    /\ stage[p] = "mkdir" /\ Entry(p) = Absent
    /\ fresh <= MaxDirs
    /\ tree' = [tree EXCEPT ![<<at[p], target[p]>>] = fresh]
    /\ maker' = [maker EXCEPT ![fresh] = p]
    /\ fresh' = fresh + 1
    /\ Goto(p, "observe")
    /\ UNCHANGED <<at, target, creating, seen, tries, acts, raced>>

\* The child just made is observed by name: mkdir returns no descriptor.
ObserveChild(p) ==
    /\ stage[p] = "observe"
    /\ IF Entry(p) = Absent THEN Refuse(p)
       ELSE /\ Goto(p, "open")
            /\ seen' = [seen EXCEPT ![p] = Entry(p)]
            /\ UNCHANGED <<at, target, creating, tries>>
    /\ UNCHANGED <<disk, acts, raced>>

\* O_DIRECTORY | O_NOFOLLOW, then fstat: the object opened must be the one observed.
SameObjectMutant(p) == IsDir(Entry(p))
SameObject(p) == IsDir(Entry(p)) /\ Entry(p) = seen[p]

Open(p) ==
    /\ stage[p] = "open"
    /\ IF ~SameObject(p) THEN Refuse(p)
       ELSE /\ at' = [at EXCEPT ![p] = Entry(p)]
            /\ creating' = [creating EXCEPT ![p] = TRUE]
            /\ CASE target[p] = "tool" ->
                      Goto(p, "stat") /\ target' = [target EXCEPT ![p] = "runs"]
                 [] target[p] = "runs" ->
                      /\ Goto(p, "mkdir")
                      /\ \E n \in RunNames : target' = [target EXCEPT ![p] = n]
                 [] target[p] = "out" -> Goto(p, "empty") /\ UNCHANGED target
                 [] IsRun(p) -> Goto(p, "bound") /\ UNCHANGED target
            /\ UNCHANGED <<seen, tries>>
    /\ UNCHANGED <<disk, acts, raced>>

RequireEmpty(p) ==
    /\ stage[p] = "empty"
    /\ IF \A n \in Names : tree[<<at[p], n>>] = Absent
       THEN Goto(p, "verify") /\ UNCHANGED <<at, target, creating, seen, tries>>
       ELSE Refuse(p)
    /\ UNCHANGED <<disk, acts, raced>>

\* verify_paired_output_path_unchanged, by the public path.
VerifyPath(p) ==
    /\ stage[p] = "verify"
    /\ IF tree[<<Home, "out">>] = at[p]
       THEN Goto(p, "bound") /\ UNCHANGED <<at, target, creating, seen, tries>>
       ELSE Refuse(p)
    /\ UNCHANGED <<disk, acts, raced>>

Invocation(p) == /\ Stat(p) \/ Taken(p) \/ Mkdir(p) \/ ObserveChild(p) \/ Open(p)
                    \/ RequireEmpty(p) \/ VerifyPath(p)
                 /\ UNCHANGED given

\* Another process: a directory of its own, a link, or nothing, in place of any entry.
Rival ==
    /\ acts < MaxActs
    /\ acts' = acts + 1
    /\ \E d \in 0 .. fresh - 1, n \in Names :
          \/ /\ \E entry \in {OtherKind, Absent} : tree' = [tree EXCEPT ![<<d, n>>] = entry]
             /\ UNCHANGED <<fresh, maker>>
          \/ /\ fresh <= MaxDirs
             /\ tree' = [tree EXCEPT ![<<d, n>>] = fresh]
             /\ fresh' = fresh + 1 /\ UNCHANGED maker
    /\ raced' = [p \in Invocations |-> raced[p] \/ (stage[p] = "observe" /\ IsRun(p))]
    /\ UNCHANGED <<given, own>>

Settled == (\A p \in Invocations : stage[p] \in Ends) /\ UNCHANGED directoryVars
DirectoryNext == (\E p \in Invocations : Invocation(p)) \/ Rival \/ Settled
DirectorySpec == DirectoryInit /\ [][DirectoryNext]_directoryVars
FairDirectorySpec == DirectorySpec /\ \A p \in Invocations : WF_directoryVars(Invocation(p))

-----------------------------------------------------------------------------
(* Properties                                                              *)

\* The run directory that is returned is one this invocation made itself, unless somebody got
\* between its creation and its first observation (the limit create_owned_paired_output names).
\* So two invocations never share one, whatever names they draw.
RunIsOwn ==
    \A p \in Invocations \ given :
        stage[p] = "bound" /\ ~raced[p] => maker[at[p]] = p

\* Every invocation is served or refused.
EveryoneServed == <>(\A p \in Invocations : stage[p] \in Ends)
=============================================================================
