--------------------------- MODULE GridRefinement ---------------------------
(***************************************************************************)
(* What a classification promises about grids nobody simulated.  One       *)
(* observation is classified from three grids (_scalar_witness and         *)
(* _orientation_witness of _native_upgrade.py); afterwards each profile is *)
(* refined further, without end, every step at most RHO_MAX times the one  *)
(* before it.  That every later refinement contracts so is the condition   *)
(* of the conditional tail envelope; that the three admitted grids do is   *)
(* what its gate checks.                                                   *)
(***************************************************************************)
EXTENDS TailEnvelope

CONSTANTS Triples,    \* the profiles given: kind -> set of three grid values
          Tolerances,
          Shifts      \* how far one refinement may move a value

ASSUME TriplesAssumption ==
    \A kind \in Kinds : \A p \in Triples[kind] : \A g \in 1 .. 3 : p[g] \in Positions(kind)
ASSUME TolerancesAssumption == Tolerances \subseteq Nat \ {0}
ASSUME ShiftsAssumption == Shifts \subseteq Int

Sides == {"baseline", "candidate"}

VARIABLES
    kind, tolerance,
    profile,   \* the three grid values of each side
    verdict,   \* "none", "NON_ASYMPTOTIC_REGIME" or the classification
    limit,     \* the value of the finest grid so far
    step       \* how far the last refinement moved it

grids == <<kind, tolerance, profile, verdict, limit, step>>

TypeOK ==
    /\ kind \in Kinds /\ tolerance \in Tolerances
    /\ profile \in [Sides -> Triples[kind]]
    /\ verdict \in {"none", "NON_ASYMPTOTIC_REGIME", WITHIN, OUTSIDE, UNRESOLVED}
    /\ limit \in [Sides -> Positions(kind)] /\ step \in [Sides -> Nat]

Given ==
    /\ kind \in Kinds /\ tolerance \in Tolerances
    /\ profile \in [Sides -> Triples[kind]]
    /\ verdict = "none"
    /\ limit = [s \in Sides |-> profile[s][3]]
    /\ step = [s \in Sides |-> Second(kind, profile[s])]

\* Both profiles pass the convergence gate on their own before the pair is classified.
Classify ==
    /\ verdict = "none"
    /\ verdict' = IF \A s \in Sides : Asymptotic(kind, profile[s])
                  THEN Classification(Enclosure(kind, profile["baseline"], profile["candidate"]),
                                      tolerance)
                  ELSE "NON_ASYMPTOTIC_REGIME"
    /\ UNCHANGED <<kind, tolerance, profile, limit, step>>

\* A finer grid than the last one moves the value by at most three quarters of the last move.
Refine(s) ==
    /\ verdict \in {WITHIN, OUTSIDE, UNRESOLVED}
    /\ \E shift \in Shifts :
          LET value == IF kind = "SCALAR" THEN limit[s] + shift ELSE (limit[s] + shift) % (2 * Pi)
          IN  /\ 4 * Apart(kind, value, limit[s]) <= 3 * step[s]
              /\ limit' = [limit EXCEPT ![s] = value]
              /\ step' = [step EXCEPT ![s] = Apart(kind, value, limit[s])]
    /\ UNCHANGED <<kind, tolerance, profile, verdict>>

Refinement == Classify \/ (\E s \in Sides : Refine(s))
RefinementSpec == Given /\ [][Refinement]_grids

-----------------------------------------------------------------------------
(* Properties                                                              *)

Distance == Apart(kind, limit["baseline"], limit["candidate"])

\* A WITHIN witness is never contradicted by a finer grid: however far both profiles are refined,
\* they stay within the declared tolerance of each other.
WithinSurvivesRefinement == verdict = WITHIN => Distance <= tolerance

\* An OUTSIDE witness is never contradicted either: no refinement brings the profiles within it.
OutsideSurvivesRefinement == verdict = OUTSIDE => Distance > tolerance
=============================================================================
