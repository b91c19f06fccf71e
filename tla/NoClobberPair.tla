--------------------------- MODULE NoClobberPair ---------------------------
(***************************************************************************)
(* What a paired publication promises to its callers (the docstrings of    *)
(* publish_paired_results and commit_owned_pair): the two public names are *)
(* taken one after the other, only while they are free, and success is     *)
(* reported only by the holder of both.  Once somebody else has acted on   *)
(* the directory, or the machine has stopped, the names may be anybody's:  *)
(* then only what a publisher itself does is promised.                     *)
(***************************************************************************)
CONSTANTS Publishers, Nobody

VARIABLES
    holder,   \* whose file each public name names
    outcome,  \* what each publisher reported
    disturbed \* has anybody but the publishers acted

Artifacts == {"json", "markdown"}

TypeOK ==
    /\ holder \in [Artifacts -> Publishers \cup {Nobody}]
    /\ outcome \in [Publishers -> {"working", "published", "failed"}]
    /\ disturbed \in BOOLEAN

\* An invocation may have been refused before it came to publish.
Init ==
    /\ holder = [a \in Artifacts |-> Nobody]
    /\ outcome \in [Publishers -> {"working", "failed"}]
    /\ disturbed = FALSE

TakeJson(p) ==
    /\ outcome[p] = "working" /\ holder["json"] = Nobody
    /\ holder' = [holder EXCEPT !["json"] = p]
    /\ UNCHANGED <<outcome, disturbed>>

TakeMarkdown(p) ==
    /\ outcome[p] = "working" /\ holder["markdown"] = Nobody
    /\ holder["json"] = p \/ disturbed
    /\ holder' = [holder EXCEPT !["markdown"] = p]
    /\ UNCHANGED <<outcome, disturbed>>

Publish(p) ==
    /\ outcome[p] = "working"
    /\ (\A a \in Artifacts : holder[a] = p) \/ disturbed
    /\ outcome' = [outcome EXCEPT ![p] = "published"]
    /\ UNCHANGED <<holder, disturbed>>

Fail(p) ==
    /\ outcome[p] = "working"
    /\ outcome' = [outcome EXCEPT ![p] = "failed"]
    /\ UNCHANGED <<holder, disturbed>>

\* Others take, free or exchange names; a power loss ends whoever is still working.
Disturb ==
    /\ disturbed' = TRUE
    /\ holder' \in [Artifacts -> Publishers \cup {Nobody}]
    /\ \/ UNCHANGED outcome
       \/ outcome' = [p \in Publishers |->
                         IF outcome[p] = "working" THEN "failed" ELSE outcome[p]]

Decide(p) == Publish(p) \/ Fail(p)
Next == (\E p \in Publishers : TakeJson(p) \/ TakeMarkdown(p) \/ Decide(p)) \/ Disturb
vars == <<holder, outcome, disturbed>>

\* A publisher that keeps working is not prevented from deciding for ever.
Spec == Init /\ [][Next]_vars /\ \A p \in Publishers : WF_vars(Decide(p))

-----------------------------------------------------------------------------
\* As long as nobody else acts, both names belong to one publisher or the second one is free, and
\* nobody but the holder of both reports success: at most one of several publishers can succeed.
HolderInv ==
    ~disturbed =>
        /\ holder["markdown"] # Nobody => holder["json"] = holder["markdown"]
        /\ \A p \in Publishers :
              outcome[p] = "published" => holder["json"] = p /\ holder["markdown"] = p
AtMostOne ==
    ~disturbed =>
        \A p, q \in Publishers : outcome[p] = "published" /\ outcome[q] = "published" => p = q
=============================================================================
