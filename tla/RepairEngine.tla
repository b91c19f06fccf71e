---------------------------- MODULE RepairEngine ----------------------------
(***************************************************************************)
(* One invocation of the bounded controller repair, src/metrifid/repair:   *)
(* repair_controller and replay_controller with their _Budget, the         *)
(* settling of the physical reset, the paired evaluations, the cyclic      *)
(* coordinate poll, the confirmation and _finish.                          *)
(*                                                                         *)
(* Abstractions.  A normalized controller is a point of an integer lattice *)
(* whose unit is the minimum step 0.00125.  A measurement keeps what the   *)
(* engine reads of it: its classification, its worst normalized hold       *)
(* violation and its own qualification.  The process CPU clock is read     *)
(* only against two ceilings, so it is 0 below the search ceiling (75 %),  *)
(* 1 between the ceilings and 2 at the full cap, and advances at any time. *)
(***************************************************************************)
EXTENDS Integers

CONSTANTS
    Dimension,    \* number of coordinates of a controller (15 in the code)
    BoxMax,       \* the closed box [0, 1] in lattice units
    InitialStep,  \* initial polling step in lattice units (0.01)
    MaxSweeps,    \* number of sweeps (100)
    Tolerance,    \* improvement an accepted trial must exceed (1e-10)
    MaxHold,      \* bound on the hold violations that are enumerated
    SetupSteps,   \* integration calls of the nominal settling (200)
    NominalSteps, \* integration calls of a nominal episode (2000)
    FinerSteps,   \* integration calls of a finer episode (4000)
    Requests,     \* [max_attempts, max_steps, original]: submitted requests
    Landscapes,   \* what the physics may measure, per controller and timestep
    NoPair        \* the absent PairedMeasurement (None)

Axes == 1 .. Dimension
Box == [Axes -> 0 .. BoxMax]
Request == [max_attempts : Nat, max_steps : Nat, original : Box]

Classifications == {"COMPLETE", "HARD_REJECTION", "INCOMPLETE"}
Measurements == [class : Classifications, hold : 0 .. MaxHold, qualified : BOOLEAN]
NotMeasured == [class |-> "INCOMPLETE", hold |-> 0, qualified |-> FALSE]

PairSteps == NominalSteps + FinerSteps
MinimumStepBudget == SetupSteps + 2 * PairSteps

ASSUME ShapeAssumption ==
    /\ Dimension \in Nat \ {0} /\ BoxMax \in Nat /\ InitialStep \in Nat \ {0}
    /\ MaxSweeps \in Nat \ {0} /\ Tolerance \in Nat /\ MaxHold \in Nat
ASSUME StepsAssumption ==
    SetupSteps \in Nat /\ NominalSteps \in Nat /\ FinerSteps \in Nat
ASSUME InputAssumption ==
    /\ Requests \subseteq Request
    /\ Landscapes \subseteq [Box -> [nominal : SUBSET Measurements, finer : SUBSET Measurements]]

VARIABLES
    operation, \* "run" (repair_controller) or "replay" (replay_controller)
    request,   \* the submitted request; for a replay original is the retained selection
    landscape, \* the physics of this invocation
    pc,        \* control point
    clock,     \* process CPU: 0, 1 (search ceiling reached) or 2 (cap reached)
    budget,    \* the _Budget: search, attempts, completed, unknown
    episode,   \* integration calls of the trajectory being integrated
    role,      \* what the current pair is for
    pair,      \* the PairedMeasurement under evaluation
    before,    \* before_steps of _evaluate_pair
    charged,   \* sum of known_completed_steps over the retained pairs
    poll,      \* loop state of _search and _poll_coordinate
    initial,   \* result.initial_screening
    selected,  \* result.selected_screening
    confirmation, \* result.confirmation
    result     \* status, exit_code, reason, qualified

inputs == <<operation, request, landscape>>
work == <<episode, role, pair, before, charged>>
retained == <<initial, selected, confirmation>>
vars == <<inputs, pc, clock, budget, work, poll, retained, result>>

Evaluating == {"nominal", "finer", "judge"}
Locations == {"admit", "runtime", "settle", "screen", "confirm", "replay",
              "finish", "done"} \cup Evaluating
EpisodeSteps == IF pc = "nominal" THEN NominalSteps ELSE FinerSteps

Pairs == [parameters : Box, nominal : Measurements, finer : Measurements,
          class : Classifications, objective : 0 .. MaxHold, qualified : BOOLEAN]
FreshPair(v) == [parameters |-> v, nominal |-> NotMeasured, finer |-> NotMeasured,
                 class |-> "INCOMPLETE", objective |-> 0, qualified |-> FALSE]

ASSUME NoPairAssumption == NoPair \notin Pairs

Polls == [sweep : Nat, coordinate : Axes, sign : {-1, 1}, second : BOOLEAN, step : Nat,
          preferred : [Axes -> {-1, 1}], moved : BOOLEAN]

Statuses == {"REFUSED", "ERROR", "INCOMPLETE", "NO_QUALIFIED_POLICY_FOUND", "REPAIRED",
             "ALREADY_QUALIFIED", "QUALIFIED", "NOT_QUALIFIED"}
Reasons == {"INVALID_REQUEST", "UNSUPPORTED_RUNTIME", "RESET_MISMATCH", "EVALUATOR_EXCEPTION",
            "CPU_LIMIT", "UNKNOWN_INTEGRATION_WORK", "INTEGRATION_STEP_LIMIT_DURING_EVALUATION",
            "INITIAL_STATE_NOT_ADMISSIBLE", "ATTEMPT_LIMIT", "INTEGRATION_STEP_RESERVE",
            "CONFIRMATION_STEP_LIMIT", "REPLAY_STEP_LIMIT", "UNKNOWN_MEASUREMENT",
            "INITIAL_POLICY_NOT_SEARCHABLE", "STEP_FLOOR_REACHED", "SWEEP_LIMIT",
            "COMPLETE_PAIRED_EVALUATION", "DID_NOT_QUALIFY"}
Results == [status : Statuses, exit_code : {0, 10, 20, 64, 70}, reason : Reasons,
            qualified : BOOLEAN]

TypeOK ==
    /\ operation \in {"run", "replay"}
    /\ request \in Request
    /\ landscape \in Landscapes
    /\ pc \in Locations
    /\ clock \in 0 .. 2
    /\ budget \in [search : BOOLEAN, attempts : Nat, completed : Nat, unknown : Nat]
    /\ episode \in Nat
    /\ role \in {"screen", "confirm", "replay"}
    /\ pair \in Pairs
    /\ before \in Nat /\ charged \in Int
    /\ poll \in Polls
    /\ initial \in Pairs \cup {NoPair}
    /\ selected \in Pairs \cup {NoPair}
    /\ confirmation \in Pairs \cup {NoPair}
    /\ result \in Results

Init ==
    /\ operation \in {"run", "replay"}
    /\ request \in Requests
    /\ landscape \in Landscapes
    /\ pc = "admit"
    /\ clock = 0
    /\ budget = [search |-> operation = "run", attempts |-> 0, completed |-> 0, unknown |-> 0]
    /\ episode = 0 /\ before = 0 /\ charged = 0
    /\ role = "screen" /\ pair = FreshPair(request.original)
    /\ poll = [sweep |-> 0, coordinate |-> 1, sign |-> 1, second |-> FALSE,
               step |-> InitialStep, preferred |-> [i \in Axes |-> 1], moved |-> FALSE]
    /\ initial = NoPair /\ selected = NoPair /\ confirmation = NoPair
    /\ result = [status |-> "REFUSED", exit_code |-> 64, reason |-> "INVALID_REQUEST",
                 qualified |-> FALSE]

-----------------------------------------------------------------------------
(* How an invocation ends: every outcome is carried as data to _finish.    *)

Outcome(status, exit_code, reason, qualified) ==
    /\ result' = [status |-> status, exit_code |-> exit_code, reason |-> reason,
                  qualified |-> qualified]
    /\ pc' = "finish"
Interrupted(reason) == Outcome("INCOMPLETE", 20, reason, FALSE)
SearchEnded(reason) == Outcome("NO_QUALIFIED_POLICY_FOUND", 10, reason, FALSE)
EvaluatorException == Outcome("ERROR", 70, "EVALUATOR_EXCEPTION", FALSE)

\* The finally clause of _evaluate_pair: a pair left by any exit is charged its steps.
ChargePair ==
    charged' = IF pc \in Evaluating THEN charged + (budget.completed - before) ELSE charged

-----------------------------------------------------------------------------
(* _Budget                                                                 *)

CpuReached == clock >= (IF budget.search THEN 1 ELSE 2)
CheckRaises == CpuReached \/ budget.unknown > 0
CheckReason == IF CpuReached THEN "CPU_LIMIT" ELSE "UNKNOWN_INTEGRATION_WORK"
CheckPasses == ~CheckRaises

\* Every control point that goes on working starts with budget.check().
InterruptAtCheck ==
    /\ pc \in {"runtime", "settle", "screen", "confirm", "replay"} \cup Evaluating
    /\ CheckRaises
    /\ Interrupted(CheckReason)
    /\ ChargePair
    /\ UNCHANGED <<inputs, clock, budget, episode, role, pair, before, poll, retained>>

\* budget.step: the cap is compared before the native call, the call is counted after it.
StepCompletes(total) ==
    /\ CheckPasses
    /\ episode < total
    /\ IF budget.completed < request.max_steps
       THEN /\ budget' = [budget EXCEPT !.completed = @ + 1]
            /\ episode' = episode + 1
            /\ UNCHANGED <<pc, charged, result>>
       ELSE /\ Interrupted("INTEGRATION_STEP_LIMIT_DURING_EVALUATION")
            /\ ChargePair
            /\ UNCHANGED <<budget, episode>>
    /\ UNCHANGED <<inputs, clock, role, pair, before, poll, retained>>

\* The native call raises: how many steps it made is unknown.
StepRaises(total) ==
    /\ CheckPasses
    /\ episode < total
    /\ budget.completed < request.max_steps
    /\ budget' = [budget EXCEPT !.unknown = @ + 1]
    /\ EvaluatorException
    /\ ChargePair
    /\ UNCHANGED <<inputs, clock, episode, role, pair, before, poll, retained>>

BudgetStep(total) == StepCompletes(total) \/ StepRaises(total)

\* Native code outside budget.step (imports, model creation, restore, control) raises.
BackendRaises ==
    /\ pc \in {"runtime", "settle", "nominal", "finer"}
    /\ EvaluatorException
    /\ ChargePair
    /\ UNCHANGED <<inputs, clock, budget, episode, role, pair, before, poll, retained>>

Tick ==
    /\ pc # "done"
    /\ clock < 2
    /\ clock' = clock + 1
    /\ UNCHANGED <<inputs, pc, budget, work, poll, retained, result>>

-----------------------------------------------------------------------------
(* Admission, runtime, settling                                            *)

AdmissibleLimits ==
    /\ request.max_attempts \in 2 .. 1000
    /\ request.max_steps >= MinimumStepBudget

AdmitRequest ==
    /\ pc = "admit"
    /\ AdmissibleLimits
    /\ pc' = "runtime"
    /\ UNCHANGED <<inputs, clock, budget, work, poll, retained, result>>

\* A request may also be refused for what the model leaves out (family, task, bindings).
RefuseRequest ==
    /\ pc = "admit"
    /\ pc' = "done"
    /\ UNCHANGED <<inputs, clock, budget, work, poll, retained, result>>

RefuseRuntime ==
    /\ pc = "runtime"
    /\ Outcome("REFUSED", 64, "UNSUPPORTED_RUNTIME", FALSE)
    /\ UNCHANGED <<inputs, clock, budget, work, poll, retained>>

AdmitRuntime ==
    /\ pc = "runtime"
    /\ CheckPasses
    /\ pc' = "settle"
    /\ episode' = 0
    /\ UNCHANGED <<inputs, clock, budget, role, pair, before, charged, poll, retained, result>>

Settle == pc = "settle" /\ BudgetStep(SetupSteps)

\* Backend.__init__ returns and _initialization (run) or _replay_evaluate reads the reset.
SettleEnds ==
    /\ pc = "settle"
    /\ CheckPasses
    /\ episode = SetupSteps
    /\ \/ pc' = (IF operation = "run" THEN "screen" ELSE "replay") /\ UNCHANGED result
       \/ Interrupted("INITIAL_STATE_NOT_ADMISSIBLE")
       \/ operation = "run" /\ SearchEnded("INITIAL_STATE_NOT_ADMISSIBLE")
       \/ operation = "replay" /\ Outcome("REFUSED", 64, "RESET_MISMATCH", FALSE)
    /\ UNCHANGED <<inputs, clock, budget, work, poll, retained>>

-----------------------------------------------------------------------------
(* Paired evaluation                                                       *)

BeginPair(purpose, v) ==
    /\ role' = purpose
    /\ pair' = FreshPair(v)
    /\ before' = budget.completed
    /\ episode' = 0
    /\ pc' = "nominal"

EpisodeStep == pc \in {"nominal", "finer"} /\ BudgetStep(EpisodeSteps)

\* A complete episode integrates every step; a gate may end any other one early.
NominalEnds ==
    /\ pc = "nominal"
    /\ CheckPasses
    /\ \E m \in landscape[pair.parameters].nominal :
          /\ m.class = "COMPLETE" => episode = NominalSteps
          /\ pair' = [pair EXCEPT !.nominal = m]
          /\ pc' = IF m.class = "COMPLETE" THEN "finer" ELSE "judge"
    /\ episode' = 0
    /\ UNCHANGED <<inputs, clock, budget, role, before, charged, poll, retained, result>>

FinerEnds ==
    /\ pc = "finer"
    /\ CheckPasses
    /\ \E m \in landscape[pair.parameters].finer :
          /\ m.class = "COMPLETE" => episode = FinerSteps
          /\ pair' = [pair EXCEPT !.finer = m]
    /\ pc' = "judge"
    /\ episode' = 0
    /\ UNCHANGED <<inputs, clock, budget, role, before, charged, poll, retained, result>>

\* _classify_pair with _objective: the worst violation of both timesteps.
Worst(p) == IF p.nominal.hold >= p.finer.hold THEN p.nominal.hold ELSE p.finer.hold
ClassifiedMutant(p) ==
    IF p.nominal.class = "COMPLETE" /\ p.finer.class = "COMPLETE"
    THEN [p EXCEPT !.class = "COMPLETE", !.objective = Worst(p), !.qualified = Worst(p) = 0]
    ELSE [p EXCEPT !.class = "HARD_REJECTION"]
Classified(p) ==
    IF \/ p.nominal.class = "HARD_REJECTION"
       \/ p.nominal.class = "COMPLETE" /\ p.finer.class = "HARD_REJECTION"
    THEN [p EXCEPT !.class = "HARD_REJECTION"]
    ELSE IF p.nominal.class = "COMPLETE" /\ p.finer.class = "COMPLETE"
    THEN [p EXCEPT !.class = "COMPLETE", !.objective = Worst(p),
                   !.qualified = Worst(p) = 0 /\ p.nominal.qualified /\ p.finer.qualified]
    ELSE p

-----------------------------------------------------------------------------
(* _search, _poll_coordinate and _screen                                   *)

Trial ==
    IF selected = NoPair THEN request.original
    ELSE [selected.parameters EXCEPT ![poll.coordinate] = @ + poll.sign * poll.step]
InBox(v) == v \in Box

AttemptsLeft == budget.attempts < request.max_attempts

ScreenAtAttemptLimit ==
    /\ pc = "screen"
    /\ CheckPasses
    /\ ~AttemptsLeft
    /\ SearchEnded("ATTEMPT_LIMIT")
    /\ UNCHANGED <<inputs, clock, budget, work, poll, retained>>

ReserveMutant == budget.completed + PairSteps <= request.max_steps
ScreenReserve == budget.completed + 2 * PairSteps <= request.max_steps

ScreenWithoutReserve ==
    /\ pc = "screen"
    /\ CheckPasses
    /\ AttemptsLeft
    /\ InBox(Trial) /\ ~ScreenReserve
    /\ SearchEnded("INTEGRATION_STEP_RESERVE")
    /\ UNCHANGED <<inputs, clock, budget, work, poll, retained>>

ScreenBegins ==
    /\ pc = "screen"
    /\ CheckPasses
    /\ AttemptsLeft
    /\ InBox(Trial) /\ ScreenReserve
    /\ budget' = [budget EXCEPT !.attempts = @ + 1]
    /\ BeginPair("screen", Trial)
    /\ UNCHANGED <<inputs, clock, charged, poll, retained, result>>

\* The sweep is over: halve the step if nothing moved, stop at the floor or the last sweep.
SweepEnds(preferred, moved) ==
    LET step == IF moved THEN poll.step ELSE poll.step \div 2
    IN  IF step = 0 THEN SearchEnded("STEP_FLOOR_REACHED") /\ UNCHANGED poll
        ELSE IF poll.sweep + 1 >= MaxSweeps THEN SearchEnded("SWEEP_LIMIT") /\ UNCHANGED poll
        ELSE /\ poll' = [sweep |-> poll.sweep + 1, coordinate |-> 1, sign |-> preferred[1],
                         second |-> FALSE, step |-> step, preferred |-> preferred,
                         moved |-> FALSE]
             /\ pc' = "screen" /\ UNCHANGED result

NextCoordinate(preferred, moved) ==
    IF poll.coordinate = Dimension THEN SweepEnds(preferred, moved)
    ELSE /\ poll' = [poll EXCEPT !.coordinate = @ + 1, !.sign = preferred[poll.coordinate + 1],
                                 !.second = FALSE, !.preferred = preferred, !.moved = moved]
         /\ pc' = "screen" /\ UNCHANGED result

PollAccepted == NextCoordinate([poll.preferred EXCEPT ![poll.coordinate] = poll.sign], TRUE)

OneSignMutant == NextCoordinate(poll.preferred, poll.moved)
PollRejected ==
    IF poll.second THEN NextCoordinate(poll.preferred, poll.moved)
    ELSE /\ poll' = [poll EXCEPT !.sign = -poll.preferred[poll.coordinate], !.second = TRUE]
         /\ pc' = "screen" /\ UNCHANGED result

OutOfBoxMutant ==
    /\ pc = "screen"
    /\ CheckPasses /\ AttemptsLeft /\ ~InBox(Trial)
    /\ UNCHANGED vars
ScreenOutOfBox ==
    /\ pc = "screen"
    /\ CheckPasses
    /\ AttemptsLeft
    /\ ~InBox(Trial)
    /\ budget' = [budget EXCEPT !.attempts = @ + 1]
    /\ PollRejected
    /\ UNCHANGED <<inputs, clock, work, retained>>

\* A zero starts the confirmation, under the full CPU cap.
ZeroFoundMutant == pc' = "confirm" /\ UNCHANGED <<budget, poll, result>>
ZeroFound ==
    /\ pc' = "confirm"
    /\ budget' = [budget EXCEPT !.search = FALSE]
    /\ UNCHANGED <<poll, result>>

\* The first screen is the supplied controller: it is selected unless it is hard-rejected.
JudgeFirst ==
    /\ pc = "judge" /\ role = "screen" /\ selected = NoPair
    /\ CheckPasses
    /\ LET p == Classified(pair)
       IN  /\ pair' = p /\ initial' = p
           /\ selected' = IF p.class = "COMPLETE" THEN p ELSE selected
           /\ \/ /\ p.class = "INCOMPLETE"
                 /\ Interrupted("UNKNOWN_MEASUREMENT") /\ UNCHANGED <<budget, poll>>
              \/ /\ p.class = "HARD_REJECTION"
                 /\ SearchEnded("INITIAL_POLICY_NOT_SEARCHABLE") /\ UNCHANGED <<budget, poll>>
              \/ /\ p.class = "COMPLETE" /\ p.objective = 0
                 /\ ZeroFound
              \/ /\ p.class = "COMPLETE" /\ p.objective > 0
                 /\ pc' = "screen" /\ UNCHANGED <<budget, poll, result>>
    /\ ChargePair
    /\ UNCHANGED <<inputs, clock, episode, role, before, confirmation>>

Accepts(p) ==
    /\ p.class = "COMPLETE"
    /\ p.objective = 0 \/ p.objective < selected.objective - Tolerance

\* A polled trial replaces the selection if it is zero or improves by more than Tolerance.
JudgeTrial ==
    /\ pc = "judge" /\ role = "screen" /\ selected # NoPair
    /\ CheckPasses
    /\ LET p == Classified(pair)
       IN  /\ pair' = p
           /\ selected' = IF Accepts(p) THEN p ELSE selected
           /\ \/ /\ p.class = "INCOMPLETE"
                 /\ Interrupted("UNKNOWN_MEASUREMENT") /\ UNCHANGED <<budget, poll>>
              \/ /\ Accepts(p) /\ p.objective = 0
                 /\ ZeroFound
              \/ /\ Accepts(p) /\ p.objective > 0
                 /\ PollAccepted /\ UNCHANGED budget
              \/ /\ p.class # "INCOMPLETE" /\ ~Accepts(p)
                 /\ PollRejected /\ UNCHANGED budget
    /\ ChargePair
    /\ UNCHANGED <<inputs, clock, episode, role, before, initial, confirmation>>

-----------------------------------------------------------------------------
(* _confirm, the evaluation of a replay, _finish                           *)

FinalPair(purpose, v, limit) ==
    /\ CheckPasses
    /\ IF budget.completed + PairSteps <= request.max_steps
       THEN BeginPair(purpose, v) /\ UNCHANGED result
       ELSE Interrupted(limit) /\ UNCHANGED <<episode, role, pair, before>>
    /\ UNCHANGED <<inputs, clock, budget, charged, poll, retained>>

ConfirmBegins ==
    /\ pc = "confirm"
    /\ FinalPair("confirm", selected.parameters, "CONFIRMATION_STEP_LIMIT")

ReplayBegins ==
    /\ pc = "replay"
    /\ FinalPair("replay", request.original, "REPLAY_STEP_LIMIT")

QualifiedStatus ==
    IF role = "replay" THEN "QUALIFIED"
    ELSE IF selected.parameters = request.original THEN "ALREADY_QUALIFIED" ELSE "REPAIRED"
NotQualifiedStatus == IF role = "replay" THEN "NOT_QUALIFIED" ELSE "NO_QUALIFIED_POLICY_FOUND"

JudgeFinal ==
    /\ pc = "judge" /\ role \in {"confirm", "replay"}
    /\ CheckPasses
    /\ LET p == Classified(pair)
       IN  /\ pair' = p
           /\ confirmation' = IF role = "confirm" THEN p ELSE confirmation
           /\ IF p.class = "INCOMPLETE" THEN Interrupted("UNKNOWN_MEASUREMENT")
              ELSE IF p.qualified
              THEN Outcome(QualifiedStatus, 0, "COMPLETE_PAIRED_EVALUATION", TRUE)
              ELSE Outcome(NotQualifiedStatus, 10, "DID_NOT_QUALIFY", FALSE)
    /\ ChargePair
    /\ UNCHANGED <<inputs, clock, budget, episode, role, before, poll, initial, selected>>

\* Mutant: only a qualified outcome is checked once more.
FinishMutant ==
    /\ pc = "finish"
    /\ pc' = "done"
    /\ result' = IF result.exit_code = 0 /\ CheckRaises
                 THEN [status |-> "INCOMPLETE", exit_code |-> 20, reason |-> CheckReason,
                       qualified |-> FALSE]
                 ELSE result
    /\ UNCHANGED <<inputs, clock, budget, work, poll, retained>>
\* A finite outcome is reported only if the budget still admits it.
Finish ==
    /\ pc = "finish"
    /\ pc' = "done"
    /\ result' = IF result.exit_code \in {0, 10} /\ CheckRaises
                 THEN [status |-> "INCOMPLETE", exit_code |-> 20, reason |-> CheckReason,
                       qualified |-> FALSE]
                 ELSE result
    /\ UNCHANGED <<inputs, clock, budget, work, poll, retained>>

Screening == ScreenAtAttemptLimit \/ ScreenWithoutReserve \/ ScreenBegins \/ ScreenOutOfBox
Evaluation == EpisodeStep \/ NominalEnds \/ FinerEnds \/ JudgeFirst \/ JudgeTrial \/ JudgeFinal
Setup == AdmitRequest \/ RefuseRequest \/ RefuseRuntime \/ AdmitRuntime \/ Settle \/ SettleEnds

Engine == \/ Setup \/ Screening \/ Evaluation
          \/ ConfirmBegins \/ ReplayBegins
          \/ InterruptAtCheck \/ BackendRaises \/ Finish
Done == pc = "done" /\ UNCHANGED vars
Next == Engine \/ Tick \/ Done

Spec == Init /\ [][Next]_vars
FairSpec == Spec /\ WF_vars(Engine)

-----------------------------------------------------------------------------
(* Properties                                                              *)

Ended == pc \in {"finish", "done"}

\* Neither counter of _Budget passes the limit of the request, in whatever order the
\* settling, the screens, the confirmation and a replay spend them.
BudgetRespected ==
    budget.attempts <= request.max_attempts /\ budget.completed <= request.max_steps

\* The reserve of two pairs in _screen and the admitted minimum budget are enough: an admitted
\* invocation never runs out of integration steps inside an evaluation or before the pair that
\* would confirm or replay a controller, and unknown work is always reported as an exception.
ReserveCoversEveryEvaluation ==
    result.reason \notin {"INTEGRATION_STEP_LIMIT_DURING_EVALUATION", "CONFIRMATION_STEP_LIMIT",
                          "REPLAY_STEP_LIMIT", "UNKNOWN_INTEGRATION_WORK"}

\* A qualified result rests on a complete, qualified evaluation made after the search, of the
\* very controller that is selected (run) or retained (replay), with all its work known.
QualifiedMeansConfirmed ==
    Ended /\ result.qualified =>
        /\ result.exit_code = 0
        /\ budget.unknown = 0
        /\ pair.class = "COMPLETE" /\ pair.qualified
        /\ operation = "run" =>
              /\ confirmation = pair /\ ~budget.search
              /\ selected # NoPair /\ selected.objective = 0
              /\ pair.parameters = selected.parameters
        /\ operation = "replay" => pair.parameters = request.original

\* Exit 10 is a finite verdict: no evidence behind it is missing, unknown or partial.
FiniteVerdictIsComplete ==
    Ended /\ result.exit_code = 10 =>
        /\ budget.unknown = 0
        /\ role # "screen" \/ budget.attempts > 0 =>
              /\ pair.nominal.class # "INCOMPLETE"
              /\ pair.nominal.class = "COMPLETE" => pair.finer.class # "INCOMPLETE"

\* A finite verdict is reported in time, wherever the clock stood when it was reached: none once
\* the cap is reached, and once the search ceiling is, none but that of a confirmation or a replay.
VerdictInTime ==
    pc = "done" /\ result.exit_code \in {0, 10} =>
        clock = 0 \/ (clock = 1 /\ role \in {"confirm", "replay"})

\* Work is charged exactly once: whatever way a pair ends (verdict, interruption, exception),
\* the settling and the retained pairs account for every completed integration call.
WorkIsCharged ==
    /\ pc \in {"screen", "confirm", "replay"} => budget.completed = SetupSteps + charged
    /\ Ended => \/ budget.completed = SetupSteps + charged
                \/ budget.completed < SetupSteps /\ charged = 0

\* A poll only ever replaces the selected controller by one that measured strictly better.
SelectionDescends ==
    [][selected # NoPair /\ selected' # selected =>
          selected' # NoPair /\ selected'.objective < selected.objective]_vars

\* Each controller measures the same at every evaluation and at both timesteps.
Reproducible ==
    \A v \in Box : /\ landscape[v].nominal = landscape[v].finer
                   /\ \A m, n \in landscape[v].nominal : m = n

Measured(v) == CHOOSE m \in landscape[v].nominal : TRUE

\* With reproducible physics STEP_FLOOR_REACHED certifies a coordinate-wise minimum: no
\* neighbour of the selection one minimum step away is better by more than the tolerance.
FloorIsCoordinateMinimum ==
    Ended /\ result.reason = "STEP_FLOOR_REACHED" /\ Reproducible =>
        \A i \in Axes, d \in {-1, 1} :
            LET v == [selected.parameters EXCEPT ![i] = @ + d]
            IN  v \in Box => \/ Measured(v).class # "COMPLETE"
                             \/ Measured(v).hold > 0
                                /\ Measured(v).hold >= selected.objective - Tolerance

\* Every invocation ends: the attempt, step and sweep bounds leave no endless poll.
Terminates == <>(pc = "done")
=============================================================================
