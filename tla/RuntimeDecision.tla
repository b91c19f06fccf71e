--------------------------- MODULE RuntimeDecision ---------------------------
(***************************************************************************)
(* The decision of one runtime review: what the twelve admitted evidence   *)
(* cells say (the gate events and observations of _build_case in           *)
(* runtime_review/_evidence.py), the private evaluator (evaluate_case of   *)
(* _native_upgrade.py) and the full-horizon product decision               *)
(* (runtime_review/_decision.py, _witness.py, _status.py).                 *)
(*                                                                         *)
(* The evaluation is a function of the evidence.  The state is one body of *)
(* evidence and its decision; a step is the review of a campaign that      *)
(* differs from the last one in a single respect, so that the properties   *)
(* can say what such a difference may change.  Times, values and channels  *)
(* are integers (channel identifiers in their lexical order).  The         *)
(* evidence is admitted, so _validate_case cannot fail on it.              *)
(***************************************************************************)
EXTENDS TailEnvelope, FiniteSets, Sequences

CONSTANTS HORIZON, MINIMUM_PREFIX,
          ObservationTimes,
          Scalars, Orientations, Contacts,     \* channel identifiers
          Tolerance,        \* of each channel, and of the event times of each contact
          NotFinite,        \* a value that is a NaN or an infinity
          ZeroNorm,         \* a quaternion that cannot be normalized
          Campaigns,        \* nominal campaigns: [values, events] per role
          Deviations,       \* by kind: the value of a deviating channel, and in which repeats
          Moves,            \* event times a deviating contact may have
          MaxDeviations

Channels == Scalars \cup Orientations
KindOf(c) == IF c \in Orientations THEN "ORIENTATION" ELSE "SCALAR"

ASSUME ClockAssumption ==
    /\ HORIZON \in Nat /\ MINIMUM_PREFIX \in 1 .. HORIZON
    /\ ObservationTimes \subseteq 0 .. HORIZON /\ {0, HORIZON} \subseteq ObservationTimes
ASSUME ChannelAssumption ==
    /\ Channels # {} /\ Channels \cup Contacts \subseteq Nat
    /\ Scalars \cap Orientations = {} /\ Channels \cap Contacts = {}
    /\ Tolerance \in [Channels \cup Contacts -> Nat \ {0}]

Roles == {"baseline", "candidate"}
Grids == 1 .. 3
Repeats == {0, 1}
Cells == Roles \X Grids \X Repeats
Never == HORIZON + 1

\* A scaled value, or what it may be instead.
Values == Int \cup {NotFinite, ZeroNorm}

\* Admitted contact events are within the horizon.
ASSUME CampaignAssumption ==
    \A n \in Campaigns : \A r \in Roles :
        /\ \A k \in Kinds : \A g \in Grids : n.values[r][k][g] \in Values
        /\ n.events[r] \in [Contacts -> Seq(0 .. HORIZON)]
ASSUME DeviationAssumption ==
    /\ \A k \in Kinds : \A d \in Deviations[k] : d[1] \in Values
    /\ Moves \subseteq Seq(0 .. HORIZON)

VARIABLES
    evidence,   \* what the twelve cells hold
    decision,   \* the decision on it
    deviated    \* how often a campaign deviated so far

vars == <<evidence, decision, deviated>>

(* trace: the value of each channel at each time; failed: the first sample whose cumulative        *)
(* diagnostics fail; readings: the first from which they read otherwise without failing (solver    *)
(* iterations, residual); events: alternating onset and release times of each contact; forces: its *)
(* segments, persistence and impulse; compiled: the identity of the compiled model.                *)
Evidence(values, events) ==
    [trace |-> [x \in Cells |-> [c \in Channels |-> [t \in ObservationTimes |->
                   values[x[1]][KindOf(c)][x[2]]]]],
     failed |-> [x \in Cells |-> Never],
     readings |-> [x \in Cells |-> Never],
     events |-> [x \in Cells |-> events[x[1]]],
     forces |-> [x \in Cells |-> [c \in Contacts |-> "sound"]],
     compiled |-> [x \in Cells |-> "sound"]]

-----------------------------------------------------------------------------
(* Gate events (_build_case, _nonfinite_events, _convergence_events)       *)

Earliest(T) == CHOOSE t \in T : \A u \in T : t <= u
Previous(t) == IF t = 0 THEN 0 ELSE CHOOSE p \in ObservationTimes : p < t
                                        /\ \A q \in ObservationTimes : q < t => q <= p
Times(seq) == {seq[i] : i \in DOMAIN seq}

\* _first_contact_difference: a contact that differs in anything differs at all its event times,
\* or at the start if it has none.
EventTimes(e, x, y, c) ==
    LET T == Times(e.events[x][c]) \cup Times(e.events[y][c]) IN IF T = {} THEN {0} ELSE T
ContactDifferences(e, x, y) ==
    UNION {EventTimes(e, x, y, c) : c \in {k \in Contacts : \/ e.events[x][k] # e.events[y][k]
                                                             \/ e.forces[x][k] # e.forces[y][k]}}
ContactDifference(e, x, y) ==
    IF ContactDifferences(e, x, y) = {} THEN 0 ELSE Earliest(ContactDifferences(e, x, y))

\* The diagnostics of two cells differ from the first sample that differs in anything.
DiagnosticDifferences(e, x, y) ==
    {Least(e[f][x], e[f][y]) : f \in {g \in {"failed", "readings"} : e[g][x] # e[g][y]}}

\* _first_repeat_difference: the first content mismatch of the two repeats.
RepeatDifferences(e, x, y) ==
    {t \in ObservationTimes : \E c \in Channels : e.trace[x][c][t] # e.trace[y][c][t]}
    \cup ContactDifferences(e, x, y)
    \cup DiagnosticDifferences(e, x, y)
    \cup (IF e.compiled[x] # e.compiled[y] THEN {0} ELSE {})

Gate(t, status) == [time |-> t, status |-> status]
Pairs == {<<<<r, g, 0>>, <<r, g, 1>>>> : r \in Roles, g \in Grids}
RepeatGatesMutant(e) ==
    {Gate(Earliest(T), "REPEATABILITY_FAILED") :
        T \in {RepeatDifferences(e, p[1], p[2]) : p \in {q \in Pairs : q[1][1] = "baseline"}} \ {{}}}
RepeatGates(e) ==
    {Gate(Earliest(T), "REPEATABILITY_FAILED") :
        T \in {RepeatDifferences(e, p[1], p[2]) : p \in Pairs} \ {{}}}

\* _diagnostic_gate_events: a failure seen in a sample happened since the sample before it.
DiagnosticGates(e) ==
    {Gate(Previous(e.failed[x]), "SOLVER_NOT_CONVERGED") : x \in {y \in Cells : e.failed[y] # Never}}

Topology(e, x) == [c \in Contacts |-> Len(e.events[x][c])]
Compared == {<<<<r, 1, 0>>, <<r, g, 0>>>> : r \in Roles, g \in {2, 3}}
            \cup {<<<<"baseline", g, 0>>, <<"candidate", g, 0>>>> : g \in Grids}
TopologyGates(e) ==
    {Gate(ContactDifference(e, p[1], p[2]), "CONTACT_EVENT_TOPOLOGY_CHANGED") :
        p \in {q \in Compared : Topology(e, q[1]) # Topology(e, q[2])}}

Observation(kind, channel, time, tolerance, a, b) ==
    [kind |-> kind, channel |-> channel, time |-> time, tolerance |-> tolerance, a |-> a, b |-> b]

RawObservations(e) ==
    {Observation(KindOf(c), c, t, Tolerance[c],
                 [g \in Grids |-> e.trace[<<"baseline", g, 0>>][c][t]],
                 [g \in Grids |-> e.trace[<<"candidate", g, 0>>][c][t]]) :
        c \in Channels, t \in ObservationTimes}

\* Event times are witnesses themselves when all cells of repeat 0 share one topology; a contact's
\* events follow it in channel order.
SharedTopology(e) == \A r \in Roles, g \in Grids : Topology(e, <<r, g, 0>>) = Topology(e, <<"baseline", 1, 0>>)
ContactObservation(e, c, i) ==
    LET a == [g \in Grids |-> e.events[<<"baseline", g, 0>>][c][i]]
        b == [g \in Grids |-> e.events[<<"candidate", g, 0>>][c][i]]
    IN  Observation("SCALAR", c + i, Earliest({a[g] : g \in Grids} \cup {b[g] : g \in Grids}),
                    Tolerance[c], a, b)
ContactObservations(e) ==
    IF SharedTopology(e)
    THEN UNION {{ContactObservation(e, c, i) : i \in 1 .. Topology(e, <<"baseline", 1, 0>>)[c]} : c \in Contacts}
    ELSE {}

Observations(e) == RawObservations(e) \cup ContactObservations(e)

Finite(o) == \A g \in Grids : o.a[g] # NotFinite /\ o.b[g] # NotFinite
Degenerate(o) == \E g \in Grids : ZeroNorm \in {o.a[g], o.b[g]}
Convergent(o) == Asymptotic(o.kind, o.a) /\ Asymptotic(o.kind, o.b)

NonfiniteGates(O) == {Gate(o.time, "SOLVER_NOT_CONVERGED") : o \in {p \in O : ~Finite(p)}}
ConvergenceGates(O) ==
    {Gate(o.time, "NON_ASYMPTOTIC_REGIME") : o \in {p \in O : Finite(p) /\ ~Convergent(p)}}

Gates(e, O) == RepeatGates(e) \cup DiagnosticGates(e) \cup TopologyGates(e)
               \cup NonfiniteGates(O) \cup ConvergenceGates(O)

GATE_ORDER == <<"REFUSED", "REPEATABILITY_FAILED", "SOLVER_NOT_CONVERGED",
                "CONTACT_EVENT_TOPOLOGY_CHANGED", "NON_ASYMPTOTIC_REGIME">>
Rank(status) == CHOOSE i \in DOMAIN GATE_ORDER : GATE_ORDER[i] = status
FirstGate(G) ==
    CHOOSE g \in G : \A h \in G : \/ g.time < h.time
                                  \/ g.time = h.time /\ Rank(g.status) <= Rank(h.status)

-----------------------------------------------------------------------------
(* The private evaluator (evaluate_case)                                   *)

Witness(o) ==
    LET i == Enclosure(o.kind, o.a, o.b)
    IN  [channel |-> o.channel, time |-> o.time, tolerance |-> o.tolerance, upper |-> UpperAbs(i),
         classification |-> Classification(i, o.tolerance)]

NoGate == [time |-> Never, status |-> "none"]
Result(status, prefix, gate, rows) ==
    [status |-> status, prefix |-> prefix, gate |-> gate, rows |-> rows]
Refused == Result("REFUSED", 0, Gate(0, "REFUSED"), {})

DecisionStatus(rows) ==
    IF \E w \in rows : w.classification = OUTSIDE THEN OUTSIDE
    ELSE IF \E w \in rows : w.classification = UNRESOLVED THEN UNRESOLVED ELSE WITHIN

AdmittedRowsMutant(O, gate) == {Witness(o) : o \in {p \in O : p.time <= gate.time /\ Finite(p)}}
AdmittedRows(O, gate) == {Witness(o) : o \in {p \in O : p.time < gate.time}}

\* A finite quaternion of norm zero raises in the convergence gate: the case is refused.
EvaluateCase(e) ==
    LET O == Observations(e)
        G == Gates(e, O)
        gate == IF G = {} THEN NoGate ELSE FirstGate(G)
        rows == AdmittedRows(O, gate)
    IN  IF \E o \in O : Finite(o) /\ Degenerate(o) THEN Refused
        ELSE IF gate.time = 0 THEN Result(gate.status, 0, gate, {})
        ELSE IF gate.time < MINIMUM_PREFIX THEN Result("PREFIX_TOO_SHORT", gate.time, gate, {})
        ELSE IF rows = {} THEN Refused
        ELSE Result(DecisionStatus(rows), Least(gate.time, HORIZON), gate, rows)

-----------------------------------------------------------------------------
(* The product decision (evaluate_runtime_case)                            *)

Reasons == {"REPEATABILITY_FAILED", "SOLVER_NOT_CONVERGED", "CONTACT_EVENT_TOPOLOGY_CHANGED",
            "NON_ASYMPTOTIC_REGIME", "PREFIX_TOO_SHORT"}
INSUFFICIENT == "INSUFFICIENT_EVIDENCE"
ExitCode == [s \in {WITHIN, INSUFFICIENT, UNRESOLVED, OUTSIDE} |->
                CASE s = WITHIN -> 0 [] s = INSUFFICIENT -> 20
                  [] s = UNRESOLVED -> 30 [] s = OUTSIDE -> 40]

Reason(gate) == IF gate.status \in Reasons THEN gate.status ELSE "PREFIX_TOO_SHORT"

Incomplete(r) == r.prefix # HORIZON \/ r.gate # NoGate
MapProductStatusMutant(r) ==
    IF \E w \in r.rows : w.classification = OUTSIDE THEN <<OUTSIDE, "none">>
    ELSE IF r.status = "PREFIX_TOO_SHORT" THEN <<INSUFFICIENT, "PREFIX_TOO_SHORT">>
    ELSE IF r.prefix # HORIZON
    THEN <<INSUFFICIENT, Reason(r.gate)>>
    ELSE <<DecisionStatus(r.rows), "none">>
MapProductStatus(r) ==
    IF \E w \in r.rows : w.classification = OUTSIDE THEN <<OUTSIDE, "none">>
    ELSE IF r.status = "PREFIX_TOO_SHORT" THEN <<INSUFFICIENT, "PREFIX_TOO_SHORT">>
    ELSE IF Incomplete(r)
    THEN <<INSUFFICIENT, Reason(r.gate)>>
    ELSE <<DecisionStatus(r.rows), "none">>

NoWitness == [channel |-> 0, time |-> Never]
Before(v, w) == v.time < w.time \/ (v.time = w.time /\ v.channel <= w.channel)
FirstDecisive(status, rows) ==
    LET proving == {w \in rows : w.classification = status}
    IN  IF status \in {OUTSIDE, UNRESOLVED} /\ proving # {}
        THEN CHOOSE w \in proving : \A v \in proving : Before(w, v) ELSE NoWitness

\* Greatest upper bound to tolerance, ties to the earliest.
Exceeds(v, w) == v.upper * w.tolerance > w.upper * v.tolerance
Worst(rows) ==
    IF rows = {} THEN NoWitness
    ELSE CHOOSE w \in rows : \A v \in rows : Exceeds(w, v) \/ (~Exceeds(v, w) /\ Before(w, v))

ProductDecision(r, mapped) ==
    [status |-> mapped[1], reason |-> mapped[2], exit |-> ExitCode[mapped[1]],
     prefix |-> r.prefix, gate |-> r.gate, decisive |-> FirstDecisive(mapped[1], r.rows),
     worst |-> Worst(r.rows)]
Decide(e) ==
    LET r == EvaluateCase(e) IN ProductDecision(r, MapProductStatus(r))

-----------------------------------------------------------------------------
(* Campaigns                                                               *)

Init ==
    /\ \E n \in Campaigns : evidence = Evidence(n.values, n.events)
    /\ decision = Decide(evidence)
    /\ deviated = 0

Review(e) ==
    /\ deviated < MaxDeviations
    /\ deviated' = deviated + 1
    /\ evidence' = e
    /\ decision' = Decide(evidence')

\* A channel takes another value at one time: in both repeats of a grid, or in one of them.
Measure ==
    \E r \in Roles, g \in Grids, c \in Channels, t \in ObservationTimes :
        \E d \in Deviations[KindOf(c)] :
            Review([evidence EXCEPT !.trace = [x \in Cells |->
                       IF x[1] = r /\ x[2] = g /\ x[3] \in d[2]
                       THEN [@[x] EXCEPT ![c][t] = d[1]] ELSE @[x]]])

\* The diagnostics of a cell fail from a sample on, or only read otherwise.
DiagnosticsDiffer ==
    \E f \in {"failed", "readings"}, x \in Cells, t \in ObservationTimes :
        evidence[f][x] = Never /\ Review([evidence EXCEPT ![f][x] = t])

\* Both repeats of a grid see a contact at other times, in one profile or in both.
ContactMoves ==
    \E R \in (SUBSET Roles) \ {{}}, g \in Grids, c \in Contacts, m \in Moves :
        Review([evidence EXCEPT !.events = [x \in Cells |->
                   IF x[1] \in R /\ x[2] = g THEN [@[x] EXCEPT ![c] = m] ELSE @[x]]])

\* One cell is of another compiled model, or its contact is otherwise than in its events.
CellDiffers ==
    \E x \in Cells :
        \E e \in {[evidence EXCEPT !.compiled[x] = "other"]}
                 \cup {[evidence EXCEPT !.forces[x][c] = "other"] : c \in Contacts} : Review(e)

Next == Measure \/ DiagnosticsDiffer \/ ContactMoves \/ CellDiffers
Spec == Init /\ [][Next]_vars

-----------------------------------------------------------------------------
(* Properties                                                              *)

\* What two repeats of a run hold in common up to a time, and that no diagnostics failed by then.
CleanUpTo(t) ==
    /\ \A x \in Cells : evidence.failed[x] > t
    /\ \A p \in Pairs :
          /\ evidence.compiled[p[1]] = evidence.compiled[p[2]]
          /\ \A c \in Channels, s \in ObservationTimes :
                s <= t => evidence.trace[p[1]][c][s] = evidence.trace[p[2]][c][s]

WithinTolerance(o) ==
    /\ Finite(o) /\ ~Degenerate(o) /\ Convergent(o)
    /\ UpperAbs(Enclosure(o.kind, o.a, o.b)) <= o.tolerance

\* Exit 0 vouches for the whole evidence: every repeat agrees, no diagnostics ever failed, all
\* cells saw the same contacts, and every channel at every time, and every contact time, is within
\* tolerance - whatever gates, prefixes and precedence made of it.
GreenMeansComplete ==
    decision.exit = 0 =>
        /\ CleanUpTo(HORIZON)
        /\ \A f \in {"readings", "events", "forces"} : \A x \in Cells :
              evidence[f][x] = evidence[f][<<x[1], x[2], 0>>]
        /\ SharedTopology(evidence)
        /\ \A o \in Observations(evidence) : WithinTolerance(o)

\* A rejection is proved by a witness from the part of the horizon in which nothing was wrong.
RejectionIsWitnessed ==
    decision.exit = 40 =>
        /\ CleanUpTo(decision.decisive.time)
        /\ \E o \in Observations(evidence) :
              /\ o.channel = decision.decisive.channel /\ o.time = decision.decisive.time
              /\ Finite(o) /\ Convergent(o)
              /\ LowerAbs(Enclosure(o.kind, o.a, o.b)) > o.tolerance

\* Which side is called the baseline does not matter to the status or to its reason.
Swapped == [f \in DOMAIN evidence |-> [x \in Cells |->
               evidence[f][<<IF x[1] = "baseline" THEN "candidate" ELSE "baseline", x[2], x[3]>>]]]
SwapIsNeutral ==
    LET d == Decide(Swapped)
    IN  d.status = decision.status /\ d.reason = decision.reason
=============================================================================
