-------------------------- MODULE MCRepairEngine --------------------------
(* Small instances of RepairEngine for TLC.                               *)
EXTENDS RepairRecord

Complete(h, q) == [class |-> "COMPLETE", hold |-> h, qualified |-> q]
Rejected == [class |-> "HARD_REJECTION", hold |-> 0, qualified |-> FALSE]
Unknown == [class |-> "INCOMPLETE", hold |-> 0, qualified |-> FALSE]

Abs(n) == IF n < 0 THEN -n ELSE n
Capped(n) == IF n > MaxHold THEN MaxHold ELSE n
Distance(v, w) == Abs(v[1] - w[1]) + Abs(v[2] - w[2])

\* The same measurement at both timesteps, a function of the controller only.
Fixed(measure(_)) == [v \in Box |-> [nominal |-> {measure(v)}, finer |-> {measure(v)}]]

\* A valley whose bottom is reachable, one whose bottom is a rounding case (violation 0
\* but not qualified), and a ridge of rejections.
Valley == LET m(v) == Complete(Capped(2 * Distance(v, <<3, 2>>)), v = <<3, 2>>) IN Fixed(m)
Edge == LET m(v) == Complete(Capped(2 * Distance(v, <<3, 2>>)), FALSE) IN Fixed(m)
Ridge == LET m(v) == IF v[1] = 2 THEN Rejected ELSE Complete(Capped(2 * Distance(v, <<1, 4>>)), v = <<1, 4>>)
         IN  Fixed(m)

\* Four that never reach zero.  An ample search ends at the step floor of three: a bottom
\* inside the box, a slope as small as the tolerance (the search stops beside the bottom) and
\* a wall of rejections (the search stops at it); a bottom further away is reached in the last sweep.
Plateau == LET m(v) == Complete(Capped(1 + 2 * Distance(v, <<1, 1>>)), FALSE) IN Fixed(m)
Shallow == LET m(v) == Complete(Capped(1 + Distance(v, <<1, 1>>)), FALSE) IN Fixed(m)
Walled == LET m(v) == IF v[1] = 2 THEN Rejected ELSE Complete(Capped(1 + 2 * Distance(v, <<3, 2>>)), FALSE)
          IN  Fixed(m)
Distant == LET m(v) == Complete(Capped(1 + 2 * Distance(v, <<4, 3>>)), FALSE) IN Fixed(m)
Deterministic == {Valley, Edge, Ridge, Plateau, Shallow, Walled, Distant}

\* Each evaluation measures anew: zero, nonzero, rejected or unknown at either timestep; off the
\* line of the originals it never reaches zero.
Noisy == [v \in Box |->
    IF v[2] = 2 THEN [nominal |-> {Complete(0, TRUE), Complete(2, FALSE), Rejected},
                      finer |-> {Complete(0, TRUE), Complete(4, FALSE), Unknown}]
    ELSE [nominal |-> {Complete(2, FALSE), Rejected}, finer |-> {Complete(4, FALSE), Unknown}]]
AllLandscapes == Deterministic \cup {Noisy}

\* Budgets that end at every limit, and an ample one: 13 attempts cover the first screen and
\* every trial of MaxSweeps sweeps of two coordinates, so that a search for an unreachable
\* zero halves its step down to the floor or ends with its last sweep.
SomeRequests == [max_attempts : {1, 4}, max_steps : {6, 7, 13, 20}, original : {<<1, 2>>, <<3, 2>>}]
                \cup {[max_attempts |-> 13, max_steps |-> 46, original |-> <<1, 2>>]}
=============================================================================
