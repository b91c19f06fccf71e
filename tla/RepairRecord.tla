---------------------------- MODULE RepairRecord ----------------------------
(***************************************************************************)
(* The record of a repair or a replay, src/metrifid/repair/_codec.py: what *)
(* serialize_run and serialize_replay write of the engine's final state,   *)
(* and what admit_record demands of it.  Both serializers end by admitting *)
(* their own record, and a refusal there loses the result.                 *)
(*                                                                         *)
(* The documents keep their fields; numbers, vectors and digests are the   *)
(* values of RepairEngine, and CPU seconds its three levels.  What the     *)
(* engine's state leaves open (how the settling ended when the invocation  *)
(* was cut right after it, and how late the costs read the clock) is a     *)
(* set of records.                                                         *)
(***************************************************************************)
EXTENDS RepairEngine

None == NoPair

\* A measurement of _physics.py qualifies only if it is complete and violates no hold limit.
Sane(m) == m.qualified => m.class = "COMPLETE" /\ m.hold = 0
ASSUME MeasurementAssumption ==
    \A l \in Landscapes : \A v \in Box : \A m \in l[v].nominal \cup l[v].finer : Sane(m)

-----------------------------------------------------------------------------
(* What was settled                                                        *)

\* Backend.initialization with its failures: none, a gate, a warning to adjudicate, not finite.
Settlings == {"ADMITTED", "GATE", "WARNING", "NONFINITE_STATE"}
SettlingClass(s) == CASE s = "ADMITTED" -> "COMPLETE"
                      [] s = "GATE" -> "HARD_REJECTION"
                      [] OTHER -> "INCOMPLETE"

\* How the settling retained by _retain_backend may have ended, None without a backend.
Retained ==
    IF result.reason = "INITIAL_STATE_NOT_ADMISSIBLE"
    THEN IF result.status = "INCOMPLETE" THEN {"WARNING", "NONFINITE_STATE"} ELSE {"GATE"}
    ELSE IF budget.attempts > 0 THEN {"ADMITTED"}
    ELSE IF result.reason = "CPU_LIMIT" /\ budget.completed = SetupSteps
         THEN Settlings \cup {None}
         ELSE {None}

\* The setup measurement of _settle.
Initialization(s) ==
    IF s = None THEN None
    ELSE [class |-> SettlingClass(s), failures |-> {s} \ {"ADMITTED"}, completed |-> SetupSteps]

-----------------------------------------------------------------------------
(* The pairs of the result                                                 *)

\* What is written of a trajectory, of a pair and of the settling is never what is written of none.
Trajectories == [class : Classifications, hold : 0 .. MaxHold, qualified : BOOLEAN,
                 completed : Int, expected : Nat]
PairDocuments == [parameters : Box, class : Classifications, objective : 0 .. MaxHold,
                  complete : BOOLEAN, qualified : BOOLEAN, nominal : Trajectories,
                  finer : Trajectories, known : Nat, unknown : Nat]
SettlingDocuments == [class : Classifications, failures : SUBSET Settlings, completed : Nat]
ASSUME AbsenceAssumption ==
    None \notin Box /\ None \notin Settlings /\ None \notin SettlingDocuments /\ None \notin PairDocuments

\* A pair as it is written, with its own step receipts: only the last trajectory may be short.
Trajectory(m, completed, expected) ==
    [class |-> m.class, hold |-> m.hold, qualified |-> m.qualified,
     completed |-> completed, expected |-> expected]
PairDocument(p, known, unknown) ==
    LET nominal == IF p.nominal.class = "COMPLETE" THEN NominalSteps ELSE known
    IN  [parameters |-> p.parameters, class |-> p.class, objective |-> p.objective,
         complete |-> p.class # "INCOMPLETE", qualified |-> p.qualified,
         nominal |-> Trajectory(p.nominal, nominal, NominalSteps),
         finer |-> Trajectory(p.finer, known - nominal, FinerSteps),
         known |-> known, unknown |-> unknown]
LastPair == PairDocument(pair, budget.completed - before, budget.unknown)
CompletePair(p) == PairDocument(p, PairSteps, 0)

\* initial_screening is assigned before the evaluation: a cut one is retained as far as it got.
InitialScreening ==
    IF budget.attempts = 0 THEN None
    ELSE IF initial # NoPair /\ initial.class = "COMPLETE" THEN CompletePair(initial)
    ELSE LastPair
SelectedScreening == IF selected = NoPair THEN None ELSE CompletePair(selected)
Confirmation == IF role = "confirm" THEN LastPair ELSE None
ReplayMeasurement == IF role = "replay" THEN LastPair ELSE None

\* budget.costs: the clock is read again, after the check of _finish.
Costs(cpu) ==
    [attempts |-> budget.attempts,
     integration_steps |-> IF budget.unknown > 0 THEN None ELSE budget.completed,
     known |-> budget.completed, unknown |-> budget.unknown, cpu |-> cpu, limits |-> request]

-----------------------------------------------------------------------------
(* serialize_run, serialize_replay                                         *)

\* A nonfinite reset left by a failed settling is no member: it could not be encoded.
NonfiniteInitialReset(s) ==
    /\ result.status = "INCOMPLETE" /\ ~result.qualified /\ selected = NoPair
    /\ SettlingClass(s) = "INCOMPLETE" /\ s = "NONFINITE_STATE"

ResetMember(s) == IF NonfiniteInitialReset(s) THEN {} ELSE {"reset.json"}

RunMembers(s) ==
    (IF s = None THEN {} ELSE {"nominal.xml", "finer.xml"} \cup ResetMember(s))
    \cup (IF selected = NoPair THEN {} ELSE {"policy.json"})

RunRecord(s, cpu) ==
    [request |-> request, status |-> result.status, exit_code |-> result.exit_code,
     qualified |-> result.qualified, costs |-> Costs(cpu), original |-> request.original,
     selected |-> IF selected = NoPair THEN None ELSE selected.parameters,
     initialization |-> Initialization(s), initial |-> InitialScreening,
     selected_screening |-> SelectedScreening, confirmation |-> Confirmation,
     confirmation_complete |-> confirmation # NoPair /\ confirmation.class # "INCOMPLETE",
     members |-> RunMembers(s), reset |-> s]

ReplayRecord(cpu) ==
    [request |-> request, status |-> result.status, exit_code |-> result.exit_code,
     qualified |-> result.qualified, costs |-> Costs(cpu),
     selected |-> request.original, measurement |-> ReplayMeasurement]

Records == IF operation = "run" THEN {RunRecord(s, cpu) : s \in Retained, cpu \in clock .. 2}
           ELSE {ReplayRecord(cpu) : cpu \in clock .. 2}

-----------------------------------------------------------------------------
(* What both admissions demand                                             *)

Exits == IF operation = "run"
         THEN [REPAIRED |-> 0, ALREADY_QUALIFIED |-> 0, NO_QUALIFIED_POLICY_FOUND |-> 10,
               INCOMPLETE |-> 20, REFUSED |-> 64, ERROR |-> 70]
         ELSE [QUALIFIED |-> 0, NOT_QUALIFIED |-> 10, INCOMPLETE |-> 20, REFUSED |-> 64,
               ERROR |-> 70]

OutcomeAdmitted(r) ==
    /\ r.status \in DOMAIN Exits /\ Exits[r.status] = r.exit_code
    /\ r.qualified <=> r.exit_code = 0

\* The request of the record is admitted as if it were submitted.
RequestAdmitted(r) ==
    /\ r.request.max_attempts \in 2 .. 1000
    /\ r.request.max_steps >= MinimumStepBudget
    /\ r.request.original \in Box
VectorAdmitted(v) == v = None \/ v \in Box

CostsAdmitted(r) ==
    /\ r.costs.limits = r.request
    /\ r.costs.integration_steps = (IF r.costs.unknown > 0 THEN None ELSE r.costs.known)
    /\ operation = "replay" => r.costs.attempts = 0
    /\ r.costs.attempts <= r.request.max_attempts /\ r.costs.known <= r.request.max_steps

\* _measurement_consistency and _complete_case of one timestep.
MeasurementAdmitted(m) ==
    /\ m.completed \in 0 .. m.expected
    /\ m.class # "COMPLETE" => ~m.qualified
    /\ m.class = "COMPLETE" => m.completed = m.expected /\ (m.qualified => m.hold = 0)

Pending(d) == d.class = "INCOMPLETE" /\ ~d.complete /\ ~d.qualified

\* _pair: the stored verdict is derived again from the two measurements, unless it is pending.
PairAdmitted(d) ==
    d = None \/
    LET actual == Classified([FreshPair(d.parameters) EXCEPT
                    !.nominal = [class |-> d.nominal.class, hold |-> d.nominal.hold,
                                 qualified |-> d.nominal.qualified],
                    !.finer = [class |-> d.finer.class, hold |-> d.finer.hold,
                               qualified |-> d.finer.qualified]])
    IN  /\ VectorAdmitted(d.parameters)
        /\ MeasurementAdmitted(d.nominal) /\ MeasurementAdmitted(d.finer)
        /\ \/ Pending(d)
           \/ /\ d.class = actual.class /\ d.objective = actual.objective
              /\ d.qualified = actual.qualified /\ d.complete = (actual.class # "INCOMPLETE")
        /\ d.nominal.completed + d.finer.completed <= d.known
        /\ d.complete => /\ d.nominal.completed + d.finer.completed = d.known
                         /\ d.unknown = 0

QualifiedPair(d) ==
    d # None /\ d.class = "COMPLETE" /\ d.complete /\ d.objective = 0 /\ d.qualified /\ d.unknown = 0

\* A finite outcome stays below the ceiling that applied to it and knows all its work.
FiniteCost(costs, ceiling) == costs.unknown = 0 /\ costs.cpu < ceiling
SearchCeiling == 1
FullCap == 2

-----------------------------------------------------------------------------
(* _run                                                                    *)

InitializationAdmitted(m) ==
    m = None \/ /\ m.class = "COMPLETE" => m.failures = {}
                /\ m.class = "HARD_REJECTION" =>
                      m.failures \cap {"WARNING", "NONFINITE_STATE"} = {}

MembersAdmitted(r) ==
    /\ r.members # {} => r.initialization # None
    /\ "reset.json" \in r.members => r.reset # "NONFINITE_STATE"
    /\ r.selected # None <=> "policy.json" \in r.members

Bindings(r) ==
    /\ r.original = r.request.original
    /\ r.initial # None => r.initial.parameters = r.original
    /\ r.selected_screening # None => r.selected_screening.parameters = r.selected
    /\ r.confirmation # None => r.confirmation.parameters = r.selected
    /\ r.confirmation_complete <=> r.confirmation # None /\ r.confirmation.complete

Known(d) == IF d = None THEN 0 ELSE d.known
Unknowns(d) == IF d = None THEN 0 ELSE d.unknown
SameController(r) ==
    r.initial # None /\ r.selected_screening # None /\ r.selected = r.initial.parameters

\* The costs hold the work of every retained measurement, once per screened controller.
WitnessCosts(r) ==
    LET other == IF SameController(r) THEN None ELSE r.selected_screening
    IN  /\ r.costs.known >= (IF r.initialization = None THEN 0 ELSE r.initialization.completed)
                            + Known(r.initial) + Known(other) + Known(r.confirmation)
        /\ r.costs.unknown >= Unknowns(r.initial) + Unknowns(other) + Unknowns(r.confirmation)
        /\ r.costs.attempts >= (IF r.initial = None THEN 0 ELSE 1) + (IF other = None THEN 0 ELSE 1)
        /\ SameController(r) => r.selected_screening = r.initial

CeilingMutant(r) == SearchCeiling
Ceiling(r) == IF r.confirmation = None THEN SearchCeiling ELSE FullCap

FiniteNegative(r) ==
    r.status = "NO_QUALIFIED_POLICY_FOUND" =>
        /\ \/ r.initial # None /\ r.initial.complete
           \/ r.initialization # None /\ r.initialization.class = "HARD_REJECTION"
        /\ r.confirmation # None => r.confirmation.complete /\ ~r.confirmation.qualified
        /\ FiniteCost(r.costs, Ceiling(r))

AllMembers == {"nominal.xml", "finer.xml", "reset.json", "policy.json"}
SuccessfulRun(r) ==
    r.qualified =>
        /\ r.members = AllMembers
        /\ r.initialization # None /\ r.initialization.class = "COMPLETE"
        /\ r.initialization.completed = SetupSteps
        /\ r.initial # None /\ r.initial.class = "COMPLETE"
        /\ QualifiedPair(r.selected_screening) /\ QualifiedPair(r.confirmation)
        /\ r.selected = r.original <=> r.status = "ALREADY_QUALIFIED"
        /\ r.initial.objective = 0 <=> r.selected = r.original
        /\ r.reset = "ADMITTED"
        /\ FiniteCost(r.costs, FullCap)

RunAdmitted(r) ==
    /\ VectorAdmitted(r.original) /\ VectorAdmitted(r.selected)
    /\ InitializationAdmitted(r.initialization)
    /\ PairAdmitted(r.initial) /\ PairAdmitted(r.selected_screening) /\ PairAdmitted(r.confirmation)
    /\ MembersAdmitted(r) /\ Bindings(r) /\ WitnessCosts(r)
    /\ FiniteNegative(r) /\ SuccessfulRun(r)

\* _replay_inputs: what a replay demands of the run it opens (its bundle has all the members).
ReplayInputs(r) ==
    /\ r.members = AllMembers
    /\ r.original = r.request.original
    /\ r.selected \in Box
    /\ r.selected_screening.parameters = r.selected
    /\ r.confirmation # None => r.confirmation.parameters = r.selected
    /\ r.reset # "NONFINITE_STATE"

-----------------------------------------------------------------------------
(* _replay                                                                 *)

ReplayAdmitted(r) ==
    /\ VectorAdmitted(r.selected)
    /\ PairAdmitted(r.measurement)
    /\ r.measurement # None =>
          /\ r.measurement.parameters = r.selected
          /\ r.costs.known = SetupSteps + r.measurement.known
          /\ r.costs.unknown = r.measurement.unknown
    /\ r.status = "NOT_QUALIFIED" =>
          /\ r.measurement # None /\ r.measurement.complete /\ ~r.measurement.qualified
          /\ FiniteCost(r.costs, FullCap)
    /\ r.qualified => QualifiedPair(r.measurement) /\ FiniteCost(r.costs, FullCap)

Admitted(r) ==
    /\ OutcomeAdmitted(r) /\ RequestAdmitted(r) /\ CostsAdmitted(r)
    /\ IF operation = "run" THEN RunAdmitted(r) ELSE ReplayAdmitted(r)

-----------------------------------------------------------------------------
(* Properties                                                              *)

\* The results the workflow records: a refusal without any work is only returned.
Recorded ==
    /\ pc = "done"
    /\ result.status = "REFUSED" =>
          operation = "replay" /\ (budget.completed > 0 \/ budget.unknown > 0)

\* _finish checks the clock and budget.costs reads it again: a ceiling crossed in between.
CeilingCrossed(r) == result.exit_code \in {0, 10} /\ r.costs.cpu > clock

\* Physics that measures a controller anew may bring the poll back to its start, or confirm a
\* controller whose screening had no violation and yet did not qualify.
ScreeningContradicted ==
    /\ ~Reproducible /\ operation = "run" /\ selected # NoPair
    /\ \/ selected.parameters = initial.parameters /\ selected # initial
       \/ result.qualified /\ ~selected.qualified

\* However an invocation ends (a verdict, a limit or an exception at any call), its record is
\* admitted by the codec's own rules, and a recorded selection is one that replay admits.
RecordIsAdmitted ==
    Recorded /\ ~ScreeningContradicted =>
        \A r \in Records :
            CeilingCrossed(r) \/ /\ Admitted(r)
                                 /\ operation = "run" /\ r.selected # None => ReplayInputs(r)
=============================================================================
