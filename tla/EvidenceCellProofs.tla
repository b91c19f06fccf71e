-------------------------- MODULE EvidenceCellProofs --------------------------
(* One evidence cell, for every fixture, horizon, step size and history of       *)
(* contacts. Two programs, one contract: what the worker parses the referee       *)
(* admits, and what the worker writes of its channels is the layout the referee    *)
(* derives. And what an admitted cell is worth: one generation of files, the       *)
(* environment of its sentinel, contacts as they happened. And a cell that nothing   *)
(* disturbed is admitted.                                                         *)
EXTENDS EvidenceCell, FiniteSetTheorems, TLAPS

--------------------------------------------------------------------------------
(* Fixtures *)

LEMMA ElementOfSeq ==
  ASSUME NEW S, NEW c \in Seq(S), NEW s \in Elements(c)
  PROVE  s \in S
<1>1. PICK i \in DOMAIN c : s = c[i]
  BY DEF Elements
<1>2. QED
  BY <1>1

(* The commands of all segments have one width, in both formulations.            *)
LEMMA OneWidth ==
  ASSUME NEW c, c \in Seq([start : Int, end : Int, width : Nat, bounded : BOOLEAN]), c # <<>>,
         \A s, t \in Elements(c) : s.width = t.width
  PROVE  Cardinality({s.width : s \in Elements(c)}) = 1
<1>1. c[1] \in Elements(c)
  BY DEF Elements
<1>2. {s.width : s \in Elements(c)} = {c[1].width}
  BY <1>1
<1>3. QED
  BY <1>2, FS_Singleton

(* Two different geoms are a set of two.                                         *)
LEMMA TwoGeoms ==
  ASSUME NEW p, p.geom_a # p.geom_b
  PROVE  Cardinality(Geoms(p)) = 2
<1>1. IsFiniteSet({p.geom_a}) /\ Cardinality({p.geom_a}) = 1
  BY FS_Singleton
<1>2. Geoms(p) = {p.geom_a} \union {p.geom_b}
  BY DEF Geoms
<1>3. p.geom_b \notin {p.geom_a}
  OBVIOUS
<1>4. Cardinality({p.geom_a} \union {p.geom_b}) = Cardinality({p.geom_a}) + 1
  BY <1>1, <1>3, FS_AddElement
<1>5. QED
  BY <1>1, <1>2, <1>4

(* Control segments on the worker's grid are on the referee's.                   *)
LEMMA GridsAgree ==
  ASSUME NEW f, IsFixture(f), ControlGrid(f)
  PROVE  ValidateManifestControlGrid(f)
<1> DEFINE c == f.controls
<1>1. c # <<>> /\ c \in Seq([start : Int, end : Int, width : Nat, bounded : BOOLEAN])
  BY DEF ControlGrid, IsFixture
<1>2. Len(c) > 0 /\ Len(c) \in Nat /\ DOMAIN c = 1..Len(c)
  BY <1>1
<1>3. Cardinality({s.width : s \in Elements(c)}) = 1
  BY <1>1, OneWidth DEF ControlGrid
<1>4. ASSUME NEW i \in 1..Len(c)
      PROVE  /\ i > 1 => c[i-1].end = c[i].start
             /\ Divides(c[i].start, f.control_dt) /\ Divides(c[i].end, f.control_dt)
             /\ \A step \in Elements(f.step_dts) : Divides(c[i].start, step) /\ Divides(c[i].end, step)
  <2>1. c[i] \in Elements(c)
    BY <1>2 DEF Elements
  <2>2. c[i].start \in {s.start : s \in Elements(c)} /\ c[i].end \in {s.end : s \in Elements(c)}
    BY <2>1
  <2>3. i > 1 => c[i-1].end = c[i].start
    BY <1>2 DEF ControlGrid
  <2>4. QED
    BY <2>2, <2>3 DEF ControlGrid
<1>5. \A step \in Elements(f.step_dts) : Divides(f.control_dt, step) /\ Divides(f.horizon, step)
  BY DEF ControlGrid
<1>6. c[1].start = 0 /\ c[Len(c)].end = f.horizon /\ Divides(f.horizon, f.control_dt)
  BY DEF ControlGrid
<1>7. QED
  BY <1>2, <1>3, <1>4, <1>5, <1>6 DEF ValidateManifestControlGrid

(* A channel the worker parses has the components and the scale of its kind.     *)
LEMMA ChannelsAgree ==
  ASSUME NEW c, ParseChannel(c)
  PROVE  ValidateManifestChannel(c)
<1>1. CASE c.kind = "BODY_QUATERNION"
  BY <1>1 DEF ParseChannel, ValidateManifestChannel
<1>2. CASE c.kind \in {"JOINT_POSITION", "JOINT_VELOCITY"}
  BY <1>2 DEF ParseChannel, ValidateManifestChannel
<1>3. CASE c.kind = "BODY_POSITION"
  BY <1>3 DEF ParseChannel, ValidateManifestChannel
<1>4. CASE c.kind = "SENSOR"
  BY <1>4 DEF ParseChannel, ValidateManifestChannel
<1>5. QED
  BY <1>1, <1>2, <1>3, <1>4 DEF ParseChannel, ChannelKinds

(* No channel has an ID that is derived from a contact pair, in both formulations. *)
LEMMA IdsAgree ==
  ASSUME NEW f, ChannelUniqueness(f)
  PROVE  ProjectedIdsDiffer(f)
BY DEF ChannelUniqueness, ProjectedIdsDiffer

(* The referee "mirrors the worker's frozen selected-fixture and physical campaign *)
(* contract": it refuses no fixture that a worker parsed.                         *)
THEOREM ParsedIsAdmitted ==
  ASSUME NEW f, IsFixture(f), ParseFixture(f)
  PROVE  ValidateFixtureContract(f)
<1>1. ValidateManifestControlGrid(f)
  BY GridsAgree DEF ParseFixture
<1>2. \A c \in Elements(f.channels) : ValidateManifestChannel(c)
  BY ChannelsAgree DEF ParseFixture
<1>3. \A p \in Elements(f.contact_pairs) : ValidateManifestContactPair(p)
  BY TwoGeoms DEF ParseFixture, ParseContactPair, ValidateManifestContactPair
<1>4. ProjectedIdsDiffer(f)
  BY IdsAgree DEF ParseFixture
<1>5. \A s \in Elements(f.controls) : ValidateManifestControl(s)
  <2>1. TAKE s \in Elements(f.controls)
  <2>2. s \in [start : Int, end : Int, width : Nat, bounded : BOOLEAN]
    BY ElementOfSeq DEF IsFixture
  <2>3. ParseControl(s)
    BY DEF ParseFixture
  <2>4. QED
    BY <2>2, <2>3 DEF ParseControl, ValidateManifestControl
<1>6. /\ f.campaign_role \in Roles /\ f.confined_path
      /\ (f.campaign_role = "MIGRATION_SUBJECT") = (f.baseline_fixture_id = f.fixture_id)
      /\ f.initial_qpos.width > 0 /\ f.initial_qpos.bounded
      /\ f.initial_qvel.width > 0 /\ f.initial_qvel.bounded
  BY DEF ParseFixture, Roles
<1>7. f.control_dt = ControlDt /\ f.horizon = Horizon /\ f.frozen_tolerances /\ f.step_dts = StepDts
  BY DEF ParseFixture, FixedPhysicalContract
<1>8. QED
  BY <1>1, <1>2, <1>3, <1>4, <1>5, <1>6, <1>7 DEF ValidateFixtureContract

(* The channels of a trace are the layout that the referee derives from the       *)
(* manifest, whatever the fixture.                                              *)
THEOREM TraceHasTheLayout ==
  ASSUME NEW f, ParseFixture(f)
  PROVE  Descriptors(f) = ManifestLayout(f)
<1>1. ASSUME NEW c \in Elements(f.channels)
      PROVE  [BaseDescriptor(c) EXCEPT !.scale = IF Quaternion(c) THEN "null" ELSE c.scale] = BaseDescriptor(c)
  <2>1. Quaternion(c) => c.scale = "null"
    BY DEF ParseFixture, ParseChannel, Quaternion
  <2>2. QED
    BY <2>1 DEF BaseDescriptor
<1>2. {[BaseDescriptor(c) EXCEPT !.scale = IF Quaternion(c) THEN "null" ELSE c.scale] : c \in Elements(f.channels)}
        = {BaseDescriptor(c) : c \in Elements(f.channels)}
  BY <1>1, Zenon
<1> DEFINE P == Elements(f.contact_pairs)
           written == {ContactDescriptor(p, suffix) : p \in P, suffix \in Suffixes}
           derived == UNION {{ContactDescriptor(p, "occupancy"), ContactDescriptor(p, "normal_force"),
                              ContactDescriptor(p, "normal_impulse")} : p \in P}
<1>3. ASSUME NEW d PROVE d \in written <=> d \in derived
  <2>1. d \in written <=> \E p \in P, suffix \in Suffixes : d = ContactDescriptor(p, suffix)
    OBVIOUS
  <2>2. d \in derived <=> \E p \in P : \/ d = ContactDescriptor(p, "occupancy")
                                      \/ d = ContactDescriptor(p, "normal_force")
                                      \/ d = ContactDescriptor(p, "normal_impulse")
    OBVIOUS
  <2>3. QED
    BY <2>1, <2>2 DEF Suffixes
<1> HIDE DEF written, derived
<1>4. written = derived
  BY <1>3
<1>5. Descriptors(f) = {BaseDescriptor(c) : c \in Elements(f.channels)} \union written
  BY DEF Descriptors, written
<1>6. ManifestLayout(f) = {BaseDescriptor(c) : c \in Elements(f.channels)} \union derived
  BY <1>2 DEF ManifestLayout, derived
<1>7. QED
  BY <1>4, <1>5, <1>6

(* Every one of them passes the checks the referee makes of a descriptor alone.   *)
THEOREM DescriptorsAreAdmitted ==
  ASSUME NEW f, ParseFixture(f), NEW d \in Descriptors(f)
  PROVE  AdmitChannelDescriptor(d)
<1>1. ASSUME NEW c \in Elements(f.channels)
      PROVE  AdmitChannelDescriptor(BaseDescriptor(c))
  <2>1. ParseChannel(c)
    BY DEF ParseFixture
  <2>2. CASE Quaternion(c)
    BY <2>1, <2>2 DEF ParseChannel, Quaternion, BaseDescriptor, AdmitChannelDescriptor
  <2>3. CASE ~Quaternion(c)
    BY <2>1, <2>3 DEF ParseChannel, Quaternion, BaseDescriptor, AdmitChannelDescriptor, ChannelKinds
  <2>4. QED
    BY <2>2, <2>3
<1>2. ASSUME NEW p \in Elements(f.contact_pairs), NEW suffix \in Suffixes
      PROVE  AdmitChannelDescriptor(ContactDescriptor(p, suffix))
  <2>1. p.force_scale = "positive" /\ p.impulse_scale = "positive"
    BY DEF ParseFixture, ParseContactPair
  <2>2. CASE suffix = "occupancy"
    BY <2>2 DEF ContactDescriptor, AdmitChannelDescriptor
  <2>3. CASE suffix = "normal_force"
    BY <2>1, <2>3 DEF ContactDescriptor, AdmitChannelDescriptor, ChannelKinds
  <2>4. CASE suffix = "normal_impulse"
    BY <2>1, <2>4 DEF ContactDescriptor, AdmitChannelDescriptor, ChannelKinds
  <2>5. QED
    BY <2>2, <2>3, <2>4 DEF Suffixes
<1>3. QED
  BY <1>1, <1>2 DEF Descriptors

--------------------------------------------------------------------------------
(* The durations of segments, added up *)

Lengths == [onset : Nat, release : Nat, persistence : Nat]

Sums(s, n, f) == f = [i \in 0..n |-> IF i = 0 THEN 0 ELSE f[i-1] + s[i].persistence]

LEMMA LeastElement ==
  ASSUME NEW S \in SUBSET Nat, S # {}
  PROVE  \E x \in S : \A y \in S : x <= y
<1>1. PICK x \in S : \A y \in S : ~(<<y, x>> \in OpToRel(<, Nat))
  BY WFMin, NatLessThanWellFounded
<1>2. \A y \in S : ~(y < x)
  BY <1>1 DEF OpToRel
<1>3. QED
  BY <1>2

LEMMA SumsExist ==
  ASSUME NEW s \in Seq(Lengths), NEW n \in Nat, n <= Len(s)
  PROVE  \E f : Sums(s, n, f)
<1> DEFINE Lacking == {k \in 0 .. Len(s) : ~ \E f : Sums(s, k, f)}
<1>1. SUFFICES ASSUME Lacking # {} PROVE FALSE
  OBVIOUS
<1>2. PICK k \in Lacking : \A m \in Lacking : k <= m
  <2>1. Lacking \in SUBSET Nat
    OBVIOUS
  <2> HIDE DEF Lacking
  <2>2. QED
    BY <1>1, <2>1, LeastElement
<1>3. k \in Nat /\ k <= Len(s) /\ Len(s) \in Nat
  OBVIOUS
<1>4. k # 0
  <2>1. Sums(s, 0, [i \in 0..0 |-> 0])
    BY DEF Sums
  <2>2. QED
    BY <1>2, <2>1
<1>5. PICK f : Sums(s, k - 1, f)
  BY <1>2, <1>3, <1>4
<1> DEFINE g == [i \in 0 .. k |-> IF i = k THEN f[k - 1] + s[k].persistence ELSE f[i]]
<1>6. \A i \in 0 .. k : g[i] = IF i = 0 THEN 0 ELSE g[i - 1] + s[i].persistence
  BY <1>3, <1>4, <1>5 DEF Sums
<1>7. Sums(s, k, g)
  BY <1>6 DEF Sums
<1>8. QED
  BY <1>7, <1>2

LEMMA SumsAgree ==
  ASSUME NEW s \in Seq(Lengths), NEW t \in Seq(Lengths), NEW n \in Nat, n <= Len(s), n <= Len(t),
         \A i \in 1..n : s[i] = t[i], NEW a \in n..Len(s), NEW b \in n..Len(t),
         NEW f, NEW g, Sums(s, a, f), Sums(t, b, g)
  PROVE  \A i \in 0..n : f[i] = g[i] /\ f[i] \in Nat
<1> DEFINE Differing == {k \in 0..n : ~(f[k] = g[k] /\ f[k] \in Nat)}
<1>1. SUFFICES ASSUME Differing # {} PROVE FALSE
  OBVIOUS
<1>2. PICK k \in Differing : \A m \in Differing : k <= m
  <2>1. Differing \in SUBSET Nat
    OBVIOUS
  <2> HIDE DEF Differing
  <2>2. QED
    BY <1>1, <2>1, LeastElement
<1>3. f[0] = 0 /\ g[0] = 0
  BY DEF Sums
<1>4. k # 0 /\ k \in 1..n
  BY <1>3
<1>5. f[k - 1] = g[k - 1] /\ f[k - 1] \in Nat
  BY <1>2, <1>4
<1>6. f[k] = f[k - 1] + s[k].persistence /\ g[k] = g[k - 1] + t[k].persistence
  BY <1>4 DEF Sums
<1>7. s[k].persistence \in Nat /\ s[k] = t[k]
  <2>1. s[k] \in Lengths /\ s[k] = t[k]
    BY <1>4
  <2>2. QED
    BY <2>1 DEF Lengths
<1> HIDE DEF Differing
<1>8. f[k] = g[k] /\ f[k] \in Nat
  BY <1>5, <1>6, <1>7
<1>9. QED
  BY <1>2, <1>8 DEF Differing

LEMMA TotalIsASum ==
  ASSUME NEW s \in Seq(Lengths)
  PROVE  \E f : Sums(s, Len(s), f) /\ TotalPersistence(s) = f[Len(s)]
<1>1. TotalPersistence(s) = (CHOOSE f : Sums(s, Len(s), f))[Len(s)]
  BY DEF TotalPersistence, Sums
<1>2. \E f : Sums(s, Len(s), f)
  BY SumsExist
<1>3. Sums(s, Len(s), CHOOSE f : Sums(s, Len(s), f))
  BY <1>2, Zenon
<1>4. QED
  BY <1>1, <1>3

LEMMA TotalOfNone == TotalPersistence(<<>>) = 0
<1>1. <<>> \in Seq(Lengths) /\ Len(<<>>) = 0
  OBVIOUS
<1>2. PICK f : Sums(<<>>, 0, f) /\ TotalPersistence(<<>>) = f[0]
  BY <1>1, TotalIsASum
<1>3. QED
  BY <1>2 DEF Sums

LEMMA TotalOfOneMore ==
  ASSUME NEW s \in Seq(Lengths), NEW e \in Lengths
  PROVE  /\ s \o <<e>> \in Seq(Lengths)
         /\ TotalPersistence(s) \in Nat
         /\ TotalPersistence(s \o <<e>>) = TotalPersistence(s) + e.persistence
<1> DEFINE t == s \o <<e>>
<1>1. /\ t \in Seq(Lengths) /\ Len(t) = Len(s) + 1 /\ Len(s) \in Nat /\ t[Len(s) + 1] = e
      /\ \A i \in 1..Len(s) : t[i] = s[i]
  OBVIOUS
<1> HIDE DEF t
<1>2. PICK f : Sums(s, Len(s), f) /\ TotalPersistence(s) = f[Len(s)]
  BY TotalIsASum
<1>3. PICK g : Sums(t, Len(t), g) /\ TotalPersistence(t) = g[Len(t)]
  BY <1>1, TotalIsASum
<1>4. \A i \in 0..Len(s) : f[i] = g[i] /\ f[i] \in Nat
  BY <1>1, <1>2, <1>3, SumsAgree
<1>5. g[Len(s) + 1] = g[Len(s)] + e.persistence
  BY <1>1, <1>3 DEF Sums
<1>6. QED
  BY <1>1, <1>2, <1>3, <1>4, <1>5 DEF t

--------------------------------------------------------------------------------
(* What a simulation knows of its contacts *)

Now(h, step) == step * (Len(h) - 1)
Steps(h, kind) == {i \in 2..Len(h) : h[i] \in kind}
Occupied == {touch \in Touching : touch.occupied}
Forced == {touch \in Touching : touch.force = 1}

(* The contact state c against everything that touched until now: whoever was in   *)
(* contact is in a segment or in the open episode, and the durations add up, but    *)
(* for a contact at time zero, which no step counts.                              *)
Traced(c, h, step) ==
  /\ h \in Seq(Touching) /\ h # <<>> /\ c.segments \in Seq(Lengths)
  /\ c.occupied = h[Len(h)].occupied
  /\ c.occupied => c.onset = <<c.onset[1]>> /\ c.onset[1] \in 0..Now(h, step)
  /\ ~c.occupied => c.onset = <<>>
  /\ \A i \in DOMAIN c.segments : c.segments[i].release <= Now(h, step)
  /\ \A i \in 1..Len(h) :
       h[i].occupied <=> \/ Within(c.segments, step * (i - 1))
                         \/ c.occupied /\ c.onset[1] <= step * (i - 1)
  /\ c.persistence_steps = Cardinality(Steps(h, Occupied))
  /\ c.impulse = step * Cardinality(Steps(h, Forced))
  /\ TotalPersistence(c.segments) + (IF c.occupied THEN Now(h, step) + step - c.onset[1] ELSE 0)
       = step * (c.persistence_steps + (IF h[1].occupied THEN 1 ELSE 0))

LEMMA TouchIs ==
  ASSUME NEW touch \in Touching
  PROVE  touch.occupied \in BOOLEAN /\ touch.force \in {0, 1} /\ (touch.force = 1 => touch.occupied)
<1>1. CASE touch = [occupied |-> FALSE, force |-> 0]
  BY <1>1
<1>2. CASE touch = [occupied |-> TRUE, force |-> 0]
  BY <1>2
<1>3. CASE touch = [occupied |-> TRUE, force |-> 1]
  BY <1>3
<1>4. QED
  BY <1>1, <1>2, <1>3 DEF Touching

LEMMA OneStepLater ==
  ASSUME NEW step \in Nat \ {0}, NEW n \in Nat \ {0}
  PROVE  /\ step * (n - 1) \in Nat /\ step * n = step * (n - 1) + step /\ step * (n - 1) < step * n
         /\ \A i \in 1..n : step * (i - 1) \in Nat /\ step * (i - 1) <= step * (n - 1)
OBVIOUS

LEMMA CountedOnce ==
  ASSUME NEW h \in Seq(Touching), h # <<>>, NEW touch \in Touching, NEW Seen
  PROVE  /\ Cardinality(Steps(h, Seen)) \in Nat
         /\ touch \in Seen => Cardinality(Steps(Append(h, touch), Seen)) = Cardinality(Steps(h, Seen)) + 1
         /\ touch \notin Seen => Cardinality(Steps(Append(h, touch), Seen)) = Cardinality(Steps(h, Seen))
<1> DEFINE g == Append(h, touch)
           n == Len(h)
<1>1. n \in Nat \ {0} /\ Len(g) = n + 1 /\ g[n + 1] = touch /\ \A i \in 1..n : g[i] = h[i]
  OBVIOUS
<1> HIDE DEF g, n
<1>2. IsFiniteSet(2..n) /\ Steps(h, Seen) \subseteq 2..n
  BY <1>1, FS_Interval DEF Steps, n
<1>3. IsFiniteSet(Steps(h, Seen)) /\ Cardinality(Steps(h, Seen)) \in Nat
  BY <1>2, FS_Subset, FS_CardinalityType
<1>4. n + 1 \notin Steps(h, Seen)
  BY <1>1, <1>2
<1>5. touch \in Seen => Steps(g, Seen) = Steps(h, Seen) \union {n + 1}
  BY <1>1 DEF Steps, n
<1>6. touch \notin Seen => Steps(g, Seen) = Steps(h, Seen)
  BY <1>1 DEF Steps, n
<1>7. QED
  BY <1>3, <1>4, <1>5, <1>6, FS_AddElement DEF g

LEMMA TraceBegins ==
  ASSUME NEW touch \in Touching, NEW step \in Nat \ {0}
  PROVE  Traced(NewContactState(touch), <<touch>>, step)
<1> DEFINE c == NewContactState(touch)
           h == <<touch>>
<1>1. /\ h \in Seq(Touching) /\ h # <<>> /\ Len(h) = 1 /\ h[1] = touch
      /\ Now(h, step) = 0 /\ touch.occupied \in BOOLEAN
  <2>1. h \in Seq(Touching) /\ h # <<>> /\ Len(h) = 1 /\ h[1] = touch
    OBVIOUS
  <2>2. touch.occupied \in BOOLEAN
    BY TouchIs
  <2>3. step * (1 - 1) = 0
    OBVIOUS
  <2> HIDE DEF h
  <2>4. QED
    BY <2>1, <2>2, <2>3 DEF Now
<1>2. /\ c.segments = <<>> /\ c.occupied = touch.occupied /\ c.persistence_steps = 0 /\ c.impulse = 0
      /\ touch.occupied => c.onset = <<0>>
      /\ ~touch.occupied => c.onset = <<>>
  BY DEF NewContactState
<1>3. c.segments \in Seq(Lengths) /\ TotalPersistence(c.segments) = 0
  BY <1>2, TotalOfNone
<1>4. Steps(h, Occupied) = {} /\ Steps(h, Forced) = {}
  BY <1>1 DEF Steps
<1>5. Cardinality(Steps(h, Occupied)) = 0 /\ step * Cardinality(Steps(h, Forced)) = 0
  BY <1>4, FS_EmptySet
<1>6. step * 1 = step /\ step * 0 = 0
  OBVIOUS
<1> HIDE DEF c, h
<1>7. ~Within(c.segments, 0)
  BY <1>2 DEF Within, Elements
<1>8. \A i \in 1..Len(h) : h[i].occupied <=> \/ Within(c.segments, step * (i - 1))
                                             \/ c.occupied /\ c.onset[1] <= step * (i - 1)
  BY <1>1, <1>2, <1>7, <1>6
<1>9. Traced(c, h, step)
  BY <1>1, <1>2, <1>3, <1>5, <1>6, <1>8 DEF Traced
<1>10. QED
  BY <1>9 DEF c, h

(* One step of the simulation, whose time is the history's.                       *)
LEMMA TraceAdvances ==
  ASSUME NEW c, NEW h, NEW step \in Nat \ {0}, NEW touch \in Touching, Traced(c, h, step)
  PROVE  Traced(AdvanceContactState(c, touch, Now(h, step) + step, step), Append(h, touch), step)
<1> DEFINE n == Len(h)
           g == Append(h, touch)
           time == Now(h, step)
           later == Now(h, step) + step
           a == AdvanceContactState(c, touch, later, step)
           away == ~c.occupied /\ ~touch.occupied
           goesOn == c.occupied /\ touch.occupied
           begins == ~c.occupied /\ touch.occupied
           ends == c.occupied /\ ~touch.occupied
           last == [onset |-> c.onset[1], release |-> later, persistence |-> later - c.onset[1]]
<1>1. /\ n \in Nat \ {0} /\ g \in Seq(Touching) /\ g # <<>> /\ Len(g) = n + 1 /\ g[n + 1] = touch
      /\ \A i \in 1..n : g[i] = h[i] /\ h[i] \in Touching
  <2>1. h \in Seq(Touching) /\ h # <<>>
    BY DEF Traced
  <2>2. QED
    BY <2>1
<1>2. touch.occupied \in BOOLEAN /\ c.occupied \in BOOLEAN /\ c.segments \in Seq(Lengths)
  BY <1>1, TouchIs DEF Traced
<1>3. /\ time \in Nat /\ later \in Nat /\ time < later /\ Now(g, step) = later
      /\ \A i \in 1..n : step * (i - 1) \in Nat /\ step * (i - 1) <= time
      /\ step * ((n + 1) - 1) = later
  <2>1. time = step * (n - 1)
    BY DEF Now
  <2>2. Now(g, step) = step * n
    BY <1>1 DEF Now
  <2>3. later = step * n
    BY <1>1, <2>1, OneStepLater
  <2> HIDE DEF time, later, n
  <2>4. QED
    BY <1>1, <2>1, <2>2, <2>3, OneStepLater
<1>4. /\ a.occupied = touch.occupied
      /\ a.persistence_steps = c.persistence_steps + (IF touch.occupied THEN 1 ELSE 0)
      /\ a.impulse = c.impulse + touch.force * step
      /\ begins => a.onset = <<later>>
      /\ ends => a.onset = <<>> /\ a.segments = c.segments \o <<last>>
      /\ away \/ goesOn => a.onset = c.onset
      /\ ~ends => a.segments = c.segments
  <2>1. c.segments \o <<>> = c.segments
    BY <1>2
  <2>2. QED
    BY <1>2, <2>1 DEF AdvanceContactState
<1>5. /\ c.occupied => c.onset = <<c.onset[1]>> /\ c.onset[1] \in 0..time
      /\ ~c.occupied => c.onset = <<>>
      /\ c.occupied = h[n].occupied
      /\ \A i \in DOMAIN c.segments : c.segments[i].release <= time
      /\ \A i \in 1..n : h[i].occupied <=> \/ Within(c.segments, step * (i - 1))
                                           \/ c.occupied /\ c.onset[1] <= step * (i - 1)
  <2>1. c.occupied => c.onset = <<c.onset[1]>> /\ c.onset[1] \in 0..time
    BY DEF Traced
  <2>2. ~c.occupied => c.onset = <<>>
    BY DEF Traced
  <2>3. c.occupied = h[n].occupied
    BY DEF Traced
  <2>4. \A i \in DOMAIN c.segments : c.segments[i].release <= time
    BY DEF Traced
  <2>5. \A i \in 1..n : h[i].occupied <=> \/ Within(c.segments, step * (i - 1))
                                          \/ c.occupied /\ c.onset[1] <= step * (i - 1)
    BY DEF Traced
  <2>6. QED
    BY <2>1, <2>2, <2>3, <2>4, <2>5
<1> HIDE DEF n, g, time, later, a
<1>6. /\ touch.occupied => a.onset = <<a.onset[1]>> /\ a.onset[1] \in 0..later
      /\ ~touch.occupied => a.onset = <<>>
  <2>1. CASE begins
    BY <2>1, <1>3, <1>4
  <2>2. CASE goesOn
    BY <2>2, <1>3, <1>4, <1>5
  <2>3. CASE ~touch.occupied
    BY <2>3, <1>2, <1>4, <1>5
  <2>4. QED
    BY <2>1, <2>2, <2>3, <1>2
<1>7. ends => last \in Lengths
  BY <1>3, <1>5 DEF Lengths
<1>8. /\ a.segments \in Seq(Lengths)
      /\ \A i \in DOMAIN a.segments : a.segments[i].release <= later
      /\ \A t \in Nat : Within(a.segments, t) <=>
                          Within(c.segments, t) \/ (ends /\ c.onset[1] <= t /\ t < later)
  <2>1. CASE ~ends
    <3>1. a.segments = c.segments
      BY <2>1, <1>4
    <3>2. \A i \in DOMAIN c.segments : c.segments[i].release <= later
      <4>1. \A i \in DOMAIN c.segments : c.segments[i] \in Lengths
        BY <1>2
      <4>2. \A i \in DOMAIN c.segments : c.segments[i].release \in Nat
        BY <4>1 DEF Lengths
      <4>3. QED
        BY <4>2, <1>3, <1>5
    <3>3. \A t \in Nat : Within(a.segments, t) <=>
                            Within(c.segments, t) \/ (ends /\ c.onset[1] <= t /\ t < later)
      BY <2>1, <3>1
    <3>4. QED
      BY <1>2, <3>1, <3>2, <3>3
  <2>2. CASE ends
    <3> DEFINE s == c.segments
               k == Len(s)
    <3>1. a.segments = s \o <<last>>
      BY <2>2, <1>4
    <3>2. last \in Lengths /\ last.onset = c.onset[1] /\ last.release = later
      BY <2>2, <1>7
    <3> HIDE DEF last
    <3>3. /\ k \in Nat /\ s \o <<last>> \in Seq(Lengths) /\ DOMAIN (s \o <<last>>) = 1..(k + 1)
          /\ DOMAIN s = 1..k /\ (s \o <<last>>)[k + 1] = last
          /\ \A i \in 1..k : (s \o <<last>>)[i] = s[i] /\ s[i] \in Lengths
      BY <1>2, <3>2
    <3>4. \A i \in 1..k : s[i].release \in Nat /\ s[i].release <= later
      <4>1. \A i \in 1..k : s[i].release \in Nat
        BY <3>3 DEF Lengths
      <4>2. \A i \in 1..k : s[i].release <= time
        BY <3>3, <1>5
      <4> HIDE DEF s, k
      <4>3. QED
        BY <4>1, <4>2, <1>3
    <3>5. Elements(s \o <<last>>) = Elements(s) \union {last}
      <4> HIDE DEF s, k
      <4>1. 1..(k + 1) = 1..k \union {k + 1}
        BY <3>3
      <4>2. QED
        BY <4>1, <3>3 DEF Elements
    <3>6. \A i \in DOMAIN a.segments : a.segments[i].release <= later
      <4> HIDE DEF s, k
      <4>1. \A i \in 1..(k + 1) : (s \o <<last>>)[i].release <= later
        BY <3>2, <3>3, <3>4, <1>3
      <4>2. QED
        BY <4>1, <3>1, <3>3
    <3>7. a.segments \in Seq(Lengths)
      BY <3>1, <3>3
    <3>8. \A t \in Nat : Within(a.segments, t) <=>
                            Within(c.segments, t) \/ (ends /\ c.onset[1] <= t /\ t < later)
      <4>1. Elements(a.segments) = Elements(c.segments) \union {last}
        BY <3>1, <3>5
      <4> HIDE DEF s, k
      <4>2. QED
        BY <2>2, <3>2, <4>1 DEF Within
    <3>9. QED
      BY <3>6, <3>7, <3>8
  <2>3. QED
    BY <2>1, <2>2
<1>9. \A i \in 1..Len(g) : g[i].occupied <=> \/ Within(a.segments, step * (i - 1))
                                             \/ touch.occupied /\ a.onset[1] <= step * (i - 1)
  <2>1. ASSUME NEW i \in 1..n
        PROVE  h[i].occupied <=> \/ Within(a.segments, step * (i - 1))
                                 \/ touch.occupied /\ a.onset[1] <= step * (i - 1)
    <3>1. CASE begins
      BY <3>1, <1>3, <1>4, <1>5, <1>8
    <3>2. CASE ends
      <4>1. step * (i - 1) \in Nat /\ step * (i - 1) < later
        BY <1>3
      <4>2. /\ Within(a.segments, step * (i - 1)) <=>
                Within(c.segments, step * (i - 1)) \/ c.onset[1] <= step * (i - 1)
            /\ h[i].occupied <=> Within(c.segments, step * (i - 1)) \/ c.onset[1] <= step * (i - 1)
        BY <3>2, <4>1, <1>5, <1>8
      <4>3. QED
        BY <3>2, <4>2
    <3>3. CASE away \/ goesOn
      BY <3>3, <1>3, <1>4, <1>5, <1>8
    <3>4. QED
      BY <3>1, <3>2, <3>3, <1>2
  <2>2. touch.occupied <=> Within(a.segments, later) \/ (touch.occupied /\ a.onset[1] <= later)
    <3>1. ~Within(a.segments, later)
      <4>1. \A s \in Elements(a.segments) : s.release \in Nat /\ s.release <= later
        <5>1. \A i \in DOMAIN a.segments : a.segments[i] \in Lengths
          BY <1>8
        <5>2. \A i \in DOMAIN a.segments : a.segments[i].release \in Nat
          BY <5>1 DEF Lengths
        <5>3. QED
          BY <5>2, <1>8 DEF Elements
      <4>2. QED
        BY <4>1, <1>3 DEF Within
    <3>2. QED
      BY <3>1, <1>2, <1>3, <1>6
  <2>3. TAKE i \in 1..Len(g)
  <2>4. CASE i \in 1..n
    BY <2>1, <2>4, <1>1
  <2>5. CASE i = n + 1
    <3> DEFINE at == step * (i - 1)
    <3>1. g[i] = touch /\ at = later
      BY <2>5, <1>1, <1>3
    <3> HIDE DEF at
    <3>2. g[i].occupied <=> Within(a.segments, at) \/ (touch.occupied /\ a.onset[1] <= at)
      BY <2>2, <3>1
    <3>3. QED
      BY <3>2 DEF at
  <2>6. QED
    BY <2>4, <2>5, <1>1

<1>10. /\ a.persistence_steps = Cardinality(Steps(g, Occupied)) /\ c.persistence_steps \in Nat
       /\ a.impulse = step * Cardinality(Steps(g, Forced))
  <2>1. h \in Seq(Touching) /\ h # <<>>
    BY DEF Traced
  <2>2. /\ Cardinality(Steps(g, Occupied)) = Cardinality(Steps(h, Occupied)) + (IF touch.occupied THEN 1 ELSE 0)
        /\ Cardinality(Steps(h, Occupied)) \in Nat
    <3>1. touch \in Occupied <=> touch.occupied
      BY DEF Occupied
    <3>2. QED
      BY <2>1, <3>1, CountedOnce DEF g
  <2>3. /\ Cardinality(Steps(g, Forced)) = Cardinality(Steps(h, Forced)) + touch.force
        /\ Cardinality(Steps(h, Forced)) \in Nat
    <3>1. touch.force \in {0, 1} /\ (touch \in Forced <=> touch.force = 1)
      BY TouchIs DEF Forced
    <3>2. CASE touch.force = 1
      BY <2>1, <3>1, <3>2, CountedOnce DEF g
    <3>3. CASE touch.force = 0
      BY <2>1, <3>1, <3>3, CountedOnce DEF g
    <3>4. QED
      BY <3>1, <3>2, <3>3
  <2>4. /\ c.persistence_steps = Cardinality(Steps(h, Occupied))
        /\ c.impulse = step * Cardinality(Steps(h, Forced))
    BY DEF Traced
  <2>5. step * (Cardinality(Steps(h, Forced)) + touch.force) = step * Cardinality(Steps(h, Forced)) + touch.force * step
    <3>1. touch.force \in {0, 1}
      BY TouchIs
    <3>2. QED
      BY <3>1, <2>3
  <2>6. QED
    BY <1>2, <1>4, <2>2, <2>3, <2>4, <2>5
<1>11. TotalPersistence(a.segments) + (IF touch.occupied THEN later + step - a.onset[1] ELSE 0)
         = step * (a.persistence_steps + (IF g[1].occupied THEN 1 ELSE 0))
  <2> DEFINE first == IF h[1].occupied THEN 1 ELSE 0
             total == TotalPersistence(c.segments)
             steps == c.persistence_steps
  <2>1. total + (IF c.occupied THEN time + step - c.onset[1] ELSE 0) = step * (steps + first)
    BY DEF Traced, time
  <2>2. /\ first \in {0, 1} /\ (IF g[1].occupied THEN 1 ELSE 0) = first
        /\ c.occupied => c.onset[1] \in 0..time
    BY <1>1, <1>5
  <2>3. total \in Nat /\ (ends => TotalPersistence(a.segments) = total + (later - c.onset[1]))
    <3>1. PICK e \in Lengths : e = [onset |-> 0, release |-> 0, persistence |-> 0]
      BY DEF Lengths
    <3>2. total \in Nat
      BY <1>2, TotalOfOneMore
    <3>3. ends => TotalPersistence(c.segments \o <<last>>) = total + last.persistence
      BY <1>2, <1>7, TotalOfOneMore
    <3>4. QED
      BY <1>4, <3>2, <3>3
  <2>4. step * ((steps + 1) + first) = step * (steps + first) + step
    BY <2>2, <1>10
  <2> DEFINE sum == TotalPersistence(a.segments)
             opened == IF g[1].occupied THEN 1 ELSE 0
  <2> HIDE DEF first, total, steps, sum, opened
  <2>5. a.persistence_steps + opened = IF touch.occupied THEN (steps + 1) + first ELSE steps + first
    BY <2>2, <1>2, <1>4, <1>10 DEF steps, opened
  <2>6. later = time + step /\ (~ends => sum = total) /\ (ends => sum = total + (later - c.onset[1]))
    BY <2>3, <1>4 DEF later, time, sum, total
  <2>7. sum + (IF touch.occupied THEN later + step - a.onset[1] ELSE 0) = step * (a.persistence_steps + opened)
    <3>1. CASE begins
      BY <2>1, <2>3, <2>4, <2>5, <2>6, <3>1, <1>3, <1>4
    <3>2. CASE ends
      BY <2>1, <2>2, <2>3, <2>5, <2>6, <3>2, <1>3
    <3>3. CASE away
      BY <2>1, <2>3, <2>5, <2>6, <3>3
    <3>4. CASE goesOn
      BY <2>1, <2>2, <2>3, <2>4, <2>5, <2>6, <3>4, <1>3, <1>4
    <3>5. QED
      BY <3>1, <3>2, <3>3, <3>4, <1>2
  <2>8. QED
    BY <2>7 DEF sum, opened
<1>12. Traced(a, g, step)
  <2>1. a.occupied = g[Len(g)].occupied
    BY <1>1, <1>4
  <2>2. QED
    BY <2>1, <1>1, <1>3, <1>4, <1>6, <1>8, <1>9, <1>10, <1>11 DEF Traced
<1>13. QED
  BY <1>12 DEF a, g, later

(* The contacts c are what happened: at every step, and added up.                 *)
Happened(c, h, step) ==
  /\ \A i \in DOMAIN h : h[i].occupied = Within(c.segments, step * (i - 1))
  /\ c.persistence_steps = Cardinality({i \in DOMAIN h : h[i].occupied})
  /\ c.impulse = step * Cardinality({i \in DOMAIN h : h[i].force = 1})

(* No episode is open, and the durations of the segments are the steps counted.    *)
LEMMA TraceEnds ==
  ASSUME NEW c, NEW h, NEW step \in Nat \ {0}, Traced(c, h, step), EveryEpisodeEnds(c),
         TotalPersistence(c.segments) = step * c.persistence_steps
  PROVE  Happened(c, h, step)
<1>1. h \in Seq(Touching) /\ h # <<>> /\ c.occupied = h[Len(h)].occupied
  BY DEF Traced
<1>2. /\ DOMAIN h = 1..Len(h) /\ Len(h) \in Nat \ {0} /\ \A i \in 1..Len(h) : h[i] \in Touching
  BY <1>1
<1>3. ~c.occupied
  <2>1. c.onset = <<>>
    BY DEF EveryEpisodeEnds
  <2>2. c.occupied => c.onset = <<c.onset[1]>>
    BY DEF Traced
  <2>3. QED
    BY <2>1, <2>2
<1>4. ~h[1].occupied /\ h[1].force # 1
  <2> DEFINE first == IF h[1].occupied THEN 1 ELSE 0
             steps == c.persistence_steps
             total == TotalPersistence(c.segments)
  <2>1. total + 0 = step * (steps + first)
    BY <1>3 DEF Traced
  <2>2. steps \in Nat /\ first \in {0, 1}
    <3>1. steps = Cardinality(Steps(h, Occupied))
      BY DEF Traced
    <3>2. QED
      BY <1>1, <1>2, <3>1, CountedOnce
  <2>3. total = step * steps /\ step * (steps + 1) = step * steps + step
    BY <2>2
  <2> HIDE DEF steps, total
  <2>4. total \in Nat
    BY <2>2, <2>3
  <2>5. first = 0
    BY <2>1, <2>2, <2>3, <2>4
  <2>6. h[1].occupied \in BOOLEAN /\ (h[1].force = 1 => h[1].occupied)
    BY <1>2, TouchIs
  <2>7. QED
    BY <2>5, <2>6
<1>5. \A i \in DOMAIN h : h[i].occupied = Within(c.segments, step * (i - 1))
  <2>1. ASSUME NEW i \in 1..Len(h) PROVE h[i].occupied <=> Within(c.segments, step * (i - 1))
    BY <1>3 DEF Traced
  <2>2. \A i \in 1..Len(h) : h[i].occupied \in BOOLEAN
    BY <1>2, TouchIs
  <2>3. \A i \in 1..Len(h) : Within(c.segments, step * (i - 1)) \in BOOLEAN
    BY DEF Within
  <2>4. QED
    BY <1>2, <2>1, <2>2, <2>3
<1>6. Steps(h, Occupied) = {i \in DOMAIN h : h[i].occupied}
  BY <1>2, <1>4 DEF Steps, Occupied
<1>7. Steps(h, Forced) = {i \in DOMAIN h : h[i].force = 1}
  BY <1>2, <1>4 DEF Steps, Forced
<1>8. QED
  BY <1>5, <1>6, <1>7 DEF Traced, Happened

--------------------------------------------------------------------------------
(* The inductive invariant *)

(* The bytes a completed worker writes as its result.                             *)
OwnResult ==
  CompletedResult(route, own.manifest, OwnFixture, dt, own.runtime, own.xml,
                  TraceIdentity(OwnFixture, OwnArrays, OwnContacts), OwnContacts,
                  Diagnostics(own.gates, own.samples))

Forged(contents) == contents \in {Absent, Partial} \/ contents.status # "COMPLETED"

BoundFacts == RuntimeFacts \union {"build"}

Loaded == LoadManifest(own.manifest, FixtureId) /\ dt \in Elements(OwnFixture.step_dts)
Bound ==
  /\ own.runtime = RuntimeIdentity(route, Role(route), own.runtime.external, own.measured)
  /\ RuntimeAdmitted(route, Role(route), own.runtime.external, own.measured)
  /\ route = 2 /\ own.runtime.external = config.identity =>
       Agree(BoundFacts, gathered.facts, config.identity.facts)
Simulated == Loaded /\ Bound /\ own.time = Now(history, dt) /\ Traced(own.contact, history, dt)
Complete == Simulated /\ own.time = OwnFixture.horizon /\ EveryEpisodeEnds(own.contact)

(* What kind of records the files and the configuration are.                      *)
FormInv ==
  /\ route \in Routes
  /\ members = [name \in Members |-> members[name]]
  /\ {"route", "role", "identity", "dt"} \subseteq DOMAIN config
  /\ config.route = route /\ config.role = Role(route) /\ config.dt = dt

(* How far the worker is, and what it has in its memory by then.                  *)
WorkerInv ==
  /\ pc \in {"fixture", "compile", "runtime", "initial", "simulate", "result", "checksums"} => Loaded
  /\ pc \in {"initial", "simulate", "result", "checksums"} => Bound
  /\ pc \in {"simulate", "result", "checksums"} => Simulated
  /\ pc \in {"result", "checksums"} => Complete

(* A completed result is the one that this worker wrote.                          *)
ResultInv ==
  \/ Forged(members["result.json"])
  \/ /\ pc \in {"checksums", "refusing", "read", "profile", "trace", "judged"}
     /\ members["result.json"] = OwnResult /\ Complete

(* What the referee has read, and what it has found by now.                       *)
SeenInv ==
  /\ Admitted => pc = "judged"
  /\ pc \in {"profile", "trace"} \/ Admitted =>
       Complete /\ Result = OwnResult /\ AdmitBytes(config, seen)
  /\ pc = "trace" \/ Admitted =>
       /\ AdmitContacts(Result.contacts, config.dt)
       /\ route = 2 => AdmitRuntimeV2(config, Result.runtime, config.identity)
  /\ Admitted => seen["trace.npz"] = OwnArrays

(* The facts of an identity are those the collector gathered; or it is another's,  *)
(* and the environment is the usual one and will remain so.                       *)
Fits(document) ==
  \/ Agree(BoundFacts, gathered.facts, document.facts)
  \/ document.facts.mujoco = "odd" /\ trouble # "none" /\ live.mujoco = "usual"

Collecting == {"collect", "sentinel", "smoke"}
ProfileInv ==
  /\ DOMAIN live = Facts /\ (trouble = "none" => live.mujoco = "usual")
  /\ pc \notin {"collect", "stopped"} =>
       DOMAIN gathered = {"facts", "sentinel", "from"} /\ DOMAIN gathered.facts = IdentityFacts
  /\ route = 2 /\ pc \notin Collecting \union {"stopped"} =>
       /\ {"facts", "sealed", "schema", "profile_role", "sentinel"} \subseteq DOMAIN gathered.from
       /\ DOMAIN gathered.from.facts = IdentityFacts
       /\ Agree(BoundFacts, gathered.facts, gathered.from.facts)
       /\ identity = NoIdentity \/ Fits(identity)
  /\ route = 2 /\ pc \notin Collecting \union {"stopped", "identity", "preflight"} => Fits(config.identity)
  /\ pc \in Collecting \union {"identity"} => identity = NoIdentity

IInv == FormInv /\ WorkerInv /\ ResultInv /\ SeenInv /\ ProfileInv

LEMMA Initially == Init => IInv
<1> SUFFICES ASSUME Init PROVE IInv
  OBVIOUS
<1>1. /\ pc = "collect" /\ verdict = "none" /\ identity = NoIdentity
      /\ config = Declared(manifest) /\ members = [name \in Members |-> Absent]
      /\ route \in Routes /\ trouble = "none" /\ live = [fact \in Facts |-> "usual"]
  BY DEF Init
<1>2. FormInv
  BY <1>1 DEF FormInv, Declared
<1>3. WorkerInv
  BY <1>1 DEF WorkerInv
<1>4. ResultInv
  BY <1>1 DEF ResultInv, Forged, Members, Checksummed
<1>5. SeenInv
  BY <1>1 DEF SeenInv, Admitted
<1>6. ProfileInv
  BY <1>1 DEF ProfileInv, Collecting, Facts
<1>7. QED
  BY <1>2, <1>3, <1>4, <1>5, <1>6 DEF IInv

--------------------------------------------------------------------------------
(* What steps have in common *)

(* What a worker has in memory outlives every step that leaves it alone.           *)
LEMMA OwnKept ==
  ASSUME UNCHANGED <<route, dt, config, gathered, own, history>>
  PROVE  /\ Loaded' <=> Loaded
         /\ Bound' <=> Bound
         /\ Simulated' <=> Simulated
         /\ Complete' <=> Complete
         /\ OwnResult' = OwnResult /\ OwnArrays' = OwnArrays
<1>1. Loaded' <=> Loaded
  BY DEF Loaded, OwnFixture
<1>2. Bound' <=> Bound
  BY DEF Bound
<1>3. Simulated' <=> Simulated
  BY <1>1, <1>2 DEF Simulated
<1>4. Complete' <=> Complete
  BY <1>3 DEF Complete, OwnFixture
<1>5. OwnArrays' = OwnArrays
  BY DEF OwnArrays, OwnFixture
<1>6. OwnResult' = OwnResult
  BY <1>5 DEF OwnResult, OwnFixture, OwnContacts, OwnPair
<1>7. QED
  BY <1>1, <1>3, <1>2, <1>4, <1>5, <1>6

(* Before a worker is started there is nothing to be admitted.                    *)
Before == {"collect", "sentinel", "smoke", "identity", "preflight", "stopped"}
LEMMA BeforeKeeps ==
  ASSUME IInv, pc \in Before, pc' \in Before \union {"load"}, UNCHANGED <<members, verdict>>
  PROVE  WorkerInv' /\ ResultInv' /\ SeenInv'
<1>1. Forged(members["result.json"]) /\ ~Admitted
  BY DEF IInv, ResultInv, SeenInv, Before
<1>2. Forged(members["result.json"])' /\ ~Admitted'
  BY <1>1 DEF Forged, Admitted
<1>3. WorkerInv'
  BY DEF WorkerInv, Before
<1>4. QED
  BY <1>2, <1>3 DEF ResultInv, SeenInv, Before

(* From then on the environment, the identity and the configuration only change    *)
(* by interference.                                                             *)
Bothered == UNCHANGED trouble \/ SpendAll
LEMMA LateKeeps ==
  ASSUME IInv, pc \notin Before, pc' \notin Before, Bothered,
         UNCHANGED <<route, dt, live, config, gathered, identity>>
  PROVE  ProfileInv' /\ (members' = [name \in Members |-> members'[name]] => FormInv')
<1>2. Fits(config.identity) => Fits(config.identity)'
  BY DEF Fits, Bothered, SpendAll, IInv, ProfileInv
<1>3. Fits(identity) => Fits(identity)'
  BY DEF Fits, Bothered, SpendAll, IInv, ProfileInv
<1>4. ProfileInv'
  BY <1>2, <1>3 DEF IInv, ProfileInv, Before, Collecting, Bothered, SpendAll
<1>5. QED
  BY <1>4 DEF IInv, FormInv

(* A call that writes a member other than the result.                             *)
LEMMA MemberWritten ==
  ASSUME IInv, NEW name \in Members \ {"result.json"}, NEW contents, NEW next, WriteMember(name, contents, next)
  PROVE  /\ pc' \in {next, "refusing"} /\ Bothered
         /\ members' = [n \in Members |-> members'[n]] /\ members'["result.json"] = members["result.json"]
BY DEF WriteMember, IInv, FormInv, Bothered, SpendAll, Members, Checksummed

--------------------------------------------------------------------------------
(* The worker *)

Working == {"load", "fixture", "compile", "runtime", "initial", "simulate"}

(* Until its result is written, only its memory is at stake.                      *)
LEMMA WorkKeeps ==
  ASSUME IInv, Works, Bothered, pc \in Working, pc' \in (Working \ {"load"}) \union {"result", "refusing"},
         members' = [name \in Members |-> members'[name]], members'["result.json"] = members["result.json"]
  PROVE  FormInv' /\ ResultInv' /\ SeenInv' /\ ProfileInv'
<1>1. FormInv' /\ ProfileInv'
  BY LateKeeps DEF Works, inputs, Working, Before
<1>2. Forged(members["result.json"]) /\ ~Admitted
  BY DEF IInv, ResultInv, SeenInv, Working
<1>3. Forged(members["result.json"])' /\ ~Admitted'
  BY <1>2 DEF Forged, Admitted, Works
<1>4. ResultInv' /\ SeenInv'
  BY <1>3 DEF ResultInv, SeenInv, Working
<1>5. QED
  BY <1>1, <1>4

LEMMA RefusalKeeps ==
  ASSUME IInv, Works, WorkerRefuses, Bothered, pc \in Working
  PROVE  IInv'
<1>1. pc' = "refusing" /\ members' = members
  BY DEF WorkerRefuses
<1>2. members' = [name \in Members |-> members'[name]]
  BY <1>1 DEF IInv, FormInv
<1>3. FormInv' /\ ResultInv' /\ SeenInv' /\ ProfileInv'
  BY <1>1, <1>2, WorkKeeps
<1>4. WorkerInv'
  BY <1>1 DEF WorkerInv
<1>5. QED
  BY <1>3, <1>4 DEF IInv

LEMMA LoadKeeps == ASSUME IInv, WorkerLoadManifest PROVE IInv'
<1>1. CASE LoadManifest(manifest, FixtureId) /\ dt \in Elements(Fixture(manifest, FixtureId).step_dts)
  <2>1. /\ pc = "load" /\ Works /\ own' = [manifest |-> manifest]
        /\ WriteMember("input_manifest.json", manifest, "fixture")
    BY <1>1 DEF WorkerLoadManifest
  <2>2. /\ pc' \in {"fixture", "refusing"} /\ Bothered
        /\ members' = [n \in Members |-> members'[n]] /\ members'["result.json"] = members["result.json"]
    BY <2>1, MemberWritten DEF Members, Checksummed
  <2>3. FormInv' /\ ResultInv' /\ SeenInv' /\ ProfileInv'
    BY <2>1, <2>2, WorkKeeps DEF Working
  <2>4. Loaded'
    BY <1>1, <2>1 DEF Loaded, OwnFixture, Works
  <2>5. WorkerInv'
    BY <2>2, <2>4 DEF WorkerInv
  <2>6. QED
    BY <2>3, <2>5 DEF IInv
<1>2. CASE ~(LoadManifest(manifest, FixtureId) /\ dt \in Elements(Fixture(manifest, FixtureId).step_dts))
  BY <1>2, RefusalKeeps DEF WorkerLoadManifest, Working, Bothered
<1>3. QED
  BY <1>1, <1>2

LEMMA SourceKeeps == ASSUME IInv, ResolveFixtureSource PROVE IInv'
<1>1. CASE AdmitSelfContainedXml(xml)
  <2>1. /\ pc = "fixture" /\ Works /\ own' = [manifest |-> own.manifest, xml |-> xml]
        /\ WriteMember("fixture.xml", xml, "compile")
    BY <1>1 DEF ResolveFixtureSource
  <2>2. /\ pc' \in {"compile", "refusing"} /\ Bothered
        /\ members' = [n \in Members |-> members'[n]] /\ members'["result.json"] = members["result.json"]
    BY <2>1, MemberWritten DEF Members, Checksummed
  <2>3. FormInv' /\ ResultInv' /\ SeenInv' /\ ProfileInv'
    BY <2>1, <2>2, WorkKeeps DEF Working
  <2>4. Loaded'
    <3>1. Loaded
      BY <2>1 DEF IInv, WorkerInv
    <3>2. own'.manifest = own.manifest
      BY <2>1
    <3>3. QED
      BY <2>1, <3>1, <3>2 DEF Loaded, OwnFixture, Works
  <2>5. WorkerInv'
    BY <2>2, <2>4 DEF WorkerInv
  <2>6. QED
    BY <2>3, <2>5 DEF IInv
<1>2. CASE ~AdmitSelfContainedXml(xml)
  BY <1>2, RefusalKeeps DEF ResolveFixtureSource, Working, Bothered
<1>3. QED
  BY <1>1, <1>2

LEMMA CompileKeeps == ASSUME IInv, WorkerCompile PROVE IInv'
<1>1. CASE CompileModel(own.xml, OwnFixture)
  <2>1. /\ pc = "compile" /\ Works /\ UNCHANGED <<own, exit, history>>
        /\ WriteMember("model.mjb", CompiledMjb(own.xml, dt), "runtime")
    BY <1>1 DEF WorkerCompile
  <2>2. /\ pc' \in {"runtime", "refusing"} /\ Bothered
        /\ members' = [n \in Members |-> members'[n]] /\ members'["result.json"] = members["result.json"]
    BY <2>1, MemberWritten DEF Members, Checksummed
  <2>3. FormInv' /\ ResultInv' /\ SeenInv' /\ ProfileInv'
    BY <2>1, <2>2, WorkKeeps DEF Working
  <2>4. Loaded'
    BY <2>1, OwnKept DEF IInv, WorkerInv, Works
  <2>5. WorkerInv'
    BY <2>2, <2>4 DEF WorkerInv
  <2>6. QED
    BY <2>3, <2>5 DEF IInv
<1>2. CASE ~CompileModel(own.xml, OwnFixture)
  BY <1>2, RefusalKeeps DEF WorkerCompile, Working, Bothered
<1>3. QED
  BY <1>1, <1>2

(* On the role-based route there is an identity whose environment it is, or it is  *)
(* not the configured one.                                                       *)
LEMMA MeasureKeeps == ASSUME IInv, WorkerMeasure PROVE IInv'
<1>1. PICK linked \in IF route = 1 THEN {identity, NoIdentity} ELSE {identity} :
        IF RuntimeAdmitted(route, Role(route), linked, live)
        THEN /\ own' = [manifest |-> own.manifest, xml |-> own.xml, measured |-> live,
                        runtime |-> RuntimeIdentity(route, Role(route), linked, live)]
             /\ pc' = "initial" /\ UNCHANGED <<members, exit, history>>
        ELSE WorkerRefuses
  BY DEF WorkerMeasure
<1>2. pc = "runtime" /\ Works /\ UNCHANGED trouble
  BY DEF WorkerMeasure
<1>3. CASE RuntimeAdmitted(route, Role(route), linked, live)
  <2>1. /\ own'.manifest = own.manifest /\ own'.measured = live
        /\ own'.runtime = RuntimeIdentity(route, Role(route), linked, live)
        /\ pc' = "initial" /\ UNCHANGED <<members, exit, history>>
    BY <1>1, <1>3
  <2>2. members' = [n \in Members |-> members'[n]]
    BY <2>1 DEF IInv, FormInv
  <2>3. FormInv' /\ ResultInv' /\ SeenInv' /\ ProfileInv'
    BY <1>2, <2>1, <2>2, WorkKeeps DEF Working, Bothered
  <2>4. Loaded'
    <3>1. Loaded
      BY <1>2 DEF IInv, WorkerInv
    <3>2. QED
      BY <1>2, <2>1, <3>1 DEF Loaded, OwnFixture, Works
  <2>5. RuntimeIdentity(route, Role(route), linked, live).external = linked
    BY DEF RuntimeIdentity
  <2>6. route = 2 /\ linked = config.identity => Agree(BoundFacts, gathered.facts, config.identity.facts)
    <3> SUFFICES ASSUME route = 2, linked = config.identity
                 PROVE  Agree(BoundFacts, gathered.facts, config.identity.facts)
      OBVIOUS
    <3>1. Fits(config.identity)
      BY <1>2 DEF IInv, ProfileInv, Collecting
    <3>2. linked.facts.mujoco = live.mujoco
      BY <1>3 DEF RuntimeAdmitted, ExternalProfileIdentity, Agree
    <3>3. QED
      BY <3>1, <3>2 DEF Fits
  <2>7. Bound'
    <3>1. route' = route /\ config' = config /\ gathered' = gathered
      BY <1>2 DEF Works
    <3>2. own'.runtime.external = linked
      BY <2>1, <2>5
    <3>3. QED
      BY <1>3, <2>1, <2>6, <3>1, <3>2 DEF Bound
  <2>8. WorkerInv'
    BY <2>1, <2>4, <2>7 DEF WorkerInv
  <2>9. QED
    BY <2>3, <2>8 DEF IInv
<1>4. CASE ~RuntimeAdmitted(route, Role(route), linked, live)
  BY <1>1, <1>2, <1>4, RefusalKeeps DEF Working, Bothered
<1>5. QED
  BY <1>3, <1>4

LEMMA LoadedFixture ==
  ASSUME Loaded
  PROVE  dt \in Nat \ {0} /\ OwnFixture.fixture_id = FixtureId
<1>1. /\ \E f \in Elements(own.manifest.fixtures) : f.fixture_id = FixtureId
      /\ \A f \in Elements(own.manifest.fixtures) : ParseFixture(f)
  BY DEF Loaded, LoadManifest
<1>2. OwnFixture \in Elements(own.manifest.fixtures) /\ OwnFixture.fixture_id = FixtureId
  BY <1>1 DEF OwnFixture, Fixture
<1>3. OwnFixture.step_dts = StepDts
  BY <1>1, <1>2 DEF ParseFixture, FixedPhysicalContract
<1>4. dt \in Elements(StepDts) /\ StepDts \in Seq(Nat \ {0})
  BY <1>3, GridAssumption DEF Loaded
<1>5. QED
  BY <1>2, <1>4, ElementOfSeq

LEMMA InitialKeeps == ASSUME IInv, SimulateInitial PROVE IInv'
<1>1. pc = "initial" /\ Works
  BY DEF SimulateInitial
<1>2. PICK touch \in Touching, weather \in Weather :
        /\ Calmly(weather)
        /\ IF SemanticContactSample(weather) /\ SolverSample(weather) /\ ProjectObservationData(weather)
           THEN LET state == NewContactState(touch)
                    gates == InitialGates(weather)
                IN /\ own' = Simulation(state, gates, <<ObservedRow(state)>>, <<DiagnosticValues(gates, 0)>>, 0)
                   /\ history' = <<touch>> /\ pc' = "simulate" /\ UNCHANGED <<members, exit>>
           ELSE WorkerRefuses
  BY DEF SimulateInitial
<1>3. Bothered
  BY <1>2 DEF Calmly, Bothered
<1>4. CASE SemanticContactSample(weather) /\ SolverSample(weather) /\ ProjectObservationData(weather)
  <2>1. /\ own' = Simulation(NewContactState(touch), InitialGates(weather), <<ObservedRow(NewContactState(touch))>>,
                             <<DiagnosticValues(InitialGates(weather), 0)>>, 0)
        /\ history' = <<touch>> /\ pc' = "simulate" /\ members' = members
    BY <1>2, <1>4
  <2>2. /\ own'.manifest = own.manifest /\ own'.runtime = own.runtime /\ own'.measured = own.measured
        /\ own'.contact = NewContactState(touch) /\ own'.time = 0
    BY <2>1 DEF Simulation
  <2>3. members' = [n \in Members |-> members'[n]]
    BY <2>1 DEF IInv, FormInv
  <2>4. FormInv' /\ ResultInv' /\ SeenInv' /\ ProfileInv'
    BY <1>1, <1>3, <2>1, <2>3, WorkKeeps DEF Working
  <2>5. Loaded /\ Bound
    BY <1>1 DEF IInv, WorkerInv
  <2>6. UNCHANGED <<route, dt, config, gathered>>
    BY <1>1 DEF Works
  <2>7. Loaded' /\ Bound'
    BY <2>2, <2>5, <2>6 DEF Loaded, OwnFixture, Bound
  <2>8. dt \in Nat \ {0}
    BY <2>5, LoadedFixture
  <2>9. Traced(own.contact, history, dt)'
    BY <2>1, <2>2, <2>6, <2>8, TraceBegins
  <2>10. Now(<<touch>>, dt) = 0
    <3>1. Len(<<touch>>) = 1 /\ dt * (1 - 1) = 0
      BY <2>8
    <3>2. QED
      BY <3>1 DEF Now
  <2>11. own'.time = Now(history', dt')
    BY <2>1, <2>2, <2>6, <2>10
  <2>12. WorkerInv'
    BY <2>1, <2>7, <2>9, <2>11 DEF WorkerInv, Simulated
  <2>13. QED
    BY <2>4, <2>12 DEF IInv
<1>5. CASE ~(SemanticContactSample(weather) /\ SolverSample(weather) /\ ProjectObservationData(weather))
  BY <1>1, <1>2, <1>3, <1>5, RefusalKeeps DEF Working
<1>6. QED
  BY <1>4, <1>5

LEMMA StepKeeps == ASSUME IInv, SimulateStep PROVE IInv'
<1> DEFINE time == own.time + dt
           observed == OnGrid(time, OwnFixture.control_dt)
           Passable(weather) == /\ ControlAt(OwnFixture, own.time)
                                /\ SemanticContactSample(weather) /\ SolverSample(weather)
                                /\ observed => ProjectObservationData(weather)
<1>1. pc = "simulate" /\ Works
  BY DEF SimulateStep
<1>2. PICK touch \in Touching, weather \in Weather :
        /\ Calmly(weather)
        /\ IF Passable(weather)
           THEN LET state == AdvanceContactState(own.contact, touch, time, dt)
                    gates == AdvanceGates(own.gates, weather)
                IN /\ own' = Simulation(state, gates,
                        IF observed THEN Append(own.rows, ObservedRow(state)) ELSE own.rows,
                        IF observed THEN Append(own.samples, DiagnosticValues(gates, time)) ELSE own.samples,
                        time)
                   /\ history' = Append(history, touch) /\ UNCHANGED <<pc, members, exit>>
           ELSE WorkerRefuses
  BY DEF SimulateStep
<1>3. Bothered
  BY <1>2 DEF Calmly, Bothered
<1>4. CASE Passable(weather)
  <2>1. \E gates, rows, samples :
          own' = Simulation(AdvanceContactState(own.contact, touch, time, dt), gates, rows, samples, time)
    BY <1>2, <1>4
  <2>2. history' = Append(history, touch) /\ pc' = "simulate" /\ members' = members
    BY <1>1, <1>2, <1>4
  <2>3. /\ own'.manifest = own.manifest /\ own'.runtime = own.runtime /\ own'.measured = own.measured
        /\ own'.contact = AdvanceContactState(own.contact, touch, time, dt) /\ own'.time = time
    BY <2>1 DEF Simulation
  <2>4. members' = [n \in Members |-> members'[n]]
    BY <2>2 DEF IInv, FormInv
  <2>5. FormInv' /\ ResultInv' /\ SeenInv' /\ ProfileInv'
    BY <1>1, <1>3, <2>2, <2>4, WorkKeeps DEF Working
  <2>6. Loaded /\ Bound /\ own.time = Now(history, dt) /\ Traced(own.contact, history, dt)
    BY <1>1 DEF IInv, WorkerInv, Simulated
  <2>7. UNCHANGED <<route, dt, config, gathered>>
    BY <1>1 DEF Works
  <2>8. Loaded' /\ Bound'
    BY <2>3, <2>6, <2>7 DEF Loaded, OwnFixture, Bound
  <2>9. dt \in Nat \ {0}
    BY <2>6, LoadedFixture
  <2>10. Traced(own.contact, history, dt)'
    BY <2>2, <2>3, <2>6, <2>7, <2>9, TraceAdvances
  <2>11. Now(Append(history, touch), dt) = Now(history, dt) + dt
    <3>1. Len(history) \in Nat \ {0} /\ Len(Append(history, touch)) = Len(history) + 1
      <4>1. history \in Seq(Touching) /\ history # <<>>
        BY <2>6 DEF Traced
      <4>2. QED
        BY <4>1
    <3>2. dt * Len(history) = dt * (Len(history) - 1) + dt
      BY <2>9, <3>1, OneStepLater
    <3>3. QED
      BY <3>1, <3>2 DEF Now
  <2>12. own'.time = Now(history', dt')
    BY <2>2, <2>3, <2>6, <2>7, <2>11
  <2>13. WorkerInv'
    BY <2>2, <2>8, <2>10, <2>12 DEF WorkerInv, Simulated
  <2>14. QED
    BY <2>5, <2>13 DEF IInv
<1>5. CASE ~Passable(weather)
  <2>1. WorkerRefuses
    BY <1>2, <1>5
  <2>2. QED
    BY <1>1, <1>3, <2>1, RefusalKeeps DEF Working
<1>6. QED
  BY <1>4, <1>5

LEMMA FinishKeeps == ASSUME IInv, FinishSimulation PROVE IInv'
<1>1. pc = "simulate" /\ own.time = OwnFixture.horizon /\ Works
  BY DEF FinishSimulation
<1>2. CASE EveryEpisodeEnds(own.contact) /\ Len(own.samples) = ObservationCount(OwnFixture)
  <2>1. WriteMember("trace.npz", OwnArrays, "result") /\ UNCHANGED <<own, exit, history>>
    BY <1>2 DEF FinishSimulation
  <2>2. /\ pc' \in {"result", "refusing"} /\ Bothered
        /\ members' = [n \in Members |-> members'[n]] /\ members'["result.json"] = members["result.json"]
    BY <2>1, MemberWritten DEF Members, Checksummed
  <2>3. FormInv' /\ ResultInv' /\ SeenInv' /\ ProfileInv'
    BY <1>1, <2>2, WorkKeeps DEF Working
  <2>4. Loaded /\ Bound /\ Simulated /\ Complete
    BY <1>1, <1>2 DEF IInv, WorkerInv, Complete
  <2>5. Loaded' /\ Bound' /\ Simulated' /\ Complete'
    BY <1>1, <2>1, <2>4, OwnKept DEF Works
  <2>6. WorkerInv'
    BY <2>2, <2>5 DEF WorkerInv
  <2>7. QED
    BY <2>3, <2>6 DEF IInv
<1>3. CASE ~(EveryEpisodeEnds(own.contact) /\ Len(own.samples) = ObservationCount(OwnFixture))
  <2>1. WorkerRefuses /\ UNCHANGED trouble
    BY <1>3 DEF FinishSimulation
  <2>2. QED
    BY <1>1, <2>1, RefusalKeeps DEF Working, Bothered
<1>4. QED
  BY <1>2, <1>3

LEMMA WriteKeeps == ASSUME IInv, WriteResult PROVE IInv'
<1>1. /\ pc = "result" /\ Works /\ UNCHANGED <<own, exit, history>>
      /\ WriteMember("result.json", OwnResult, "checksums")
  BY DEF WriteResult, OwnResult
<1>2. /\ Bothered /\ members' = [n \in Members |-> members'[n]]
      /\ \/ pc' = "checksums" /\ members'["result.json"] = OwnResult
         \/ pc' = "refusing" /\ members'["result.json"] \in {members["result.json"], Partial}
  BY <1>1 DEF WriteMember, IInv, FormInv, Bothered, SpendAll, Members, Checksummed
<1>3. Forged(members["result.json"]) /\ ~Admitted /\ Loaded /\ Bound /\ Simulated /\ Complete
  BY <1>1 DEF IInv, ResultInv, SeenInv, WorkerInv, Complete, Simulated
<1>4. Loaded' /\ Bound' /\ Simulated' /\ Complete' /\ OwnResult' = OwnResult
  BY <1>1, <1>3, OwnKept DEF Works
<1>5. ~Admitted'
  BY <1>1, <1>3 DEF Admitted, Works
<1>6. ResultInv'
  <2>1. CASE pc' = "checksums" /\ members'["result.json"] = OwnResult
    BY <2>1, <1>4 DEF ResultInv
  <2>2. CASE members'["result.json"] \in {members["result.json"], Partial}
    BY <2>2, <1>3 DEF ResultInv, Forged
  <2>3. QED
    BY <1>2, <2>1, <2>2
<1>7. WorkerInv' /\ SeenInv'
  BY <1>2, <1>4, <1>5 DEF WorkerInv, SeenInv
<1>8. FormInv' /\ ProfileInv'
  BY <1>1, <1>2, LateKeeps DEF Works, inputs, Before
<1>9. QED
  BY <1>6, <1>7, <1>8 DEF IInv

LEMMA ChecksumsKeep == ASSUME IInv, WriteChecksums PROVE IInv'
<1>1. pc = "checksums" /\ Works /\ UNCHANGED <<own, history>>
  BY DEF WriteChecksums
<1>2. /\ pc' \in {"read", "refusing"} /\ Bothered
      /\ members' = [n \in Members |-> members'[n]] /\ members'["result.json"] = members["result.json"]
  <2>1. CASE WriteMember("CHECKSUMS.sha256", Checksums, "read")
    BY <2>1, MemberWritten DEF Members, Checksummed
  <2>2. CASE /\ SpendAll /\ pc' = "refusing"
             /\ members' = [members EXCEPT !["CHECKSUMS.sha256"] = Checksums]
    BY <2>2 DEF IInv, FormInv, Bothered, Members, Checksummed
  <2>3. QED
    BY <2>1, <2>2 DEF WriteChecksums
<1>3. ~Admitted /\ ~Admitted'
  BY <1>1 DEF IInv, SeenInv, Admitted, Works
<1>4. (Complete' <=> Complete) /\ OwnResult' = OwnResult
  BY <1>1, OwnKept DEF Works
<1>5. ResultInv'
  BY <1>1, <1>2, <1>4 DEF IInv, ResultInv, Forged
<1>6. WorkerInv' /\ SeenInv'
  BY <1>2, <1>3 DEF WorkerInv, SeenInv
<1>7. FormInv' /\ ProfileInv'
  BY <1>1, <1>2, LateKeeps DEF Works, inputs, Before
<1>8. QED
  BY <1>5, <1>6, <1>7 DEF IInv

LEMMA RefuseKeeps == ASSUME IInv, Refuse PROVE IInv'
<1> DEFINE result == IF members["result.json"] = Absent THEN RefusedResult(route, FixtureId, dt)
                     ELSE members["result.json"]
<1>1. pc = "refusing" /\ Works /\ UNCHANGED <<own, history, trouble>> /\ pc' = "read"
  BY DEF Refuse
<1>2. members' = [n \in Members |-> members'[n]] /\ members'["result.json"] = result
  BY DEF Refuse, IInv, FormInv, Members, Checksummed
<1>3. ~Admitted /\ ~Admitted'
  BY <1>1 DEF IInv, SeenInv, Admitted, Works
<1>4. (Complete' <=> Complete) /\ OwnResult' = OwnResult
  BY <1>1, OwnKept DEF Works
<1>5. ResultInv'
  <2>1. CASE members["result.json"] = Absent
    BY <2>1, <1>2 DEF ResultInv, Forged, RefusedResult
  <2>2. CASE members["result.json"] # Absent
    BY <2>2, <1>1, <1>2, <1>4 DEF IInv, ResultInv, Forged
  <2>3. QED
    BY <2>1, <2>2
<1>6. WorkerInv' /\ SeenInv'
  BY <1>1, <1>3 DEF WorkerInv, SeenInv
<1>7. FormInv' /\ ProfileInv'
  BY <1>1, <1>2, LateKeeps DEF Works, inputs, Before, Bothered
<1>8. QED
  BY <1>5, <1>6, <1>7 DEF IInv

--------------------------------------------------------------------------------
(* The referee *)

(* It only looks, and moves on or decides.                                        *)
LEMMA JudgeKeeps ==
  ASSUME IInv, Judges, pc \in {"read", "profile", "trace"}, pc' \in {"profile", "trace", "judged"}
  PROVE  /\ FormInv' /\ WorkerInv' /\ ResultInv' /\ ProfileInv' /\ ~Admitted
         /\ (Complete' <=> Complete) /\ OwnResult' = OwnResult /\ OwnArrays' = OwnArrays
<1>1. (Complete' <=> Complete) /\ OwnResult' = OwnResult /\ OwnArrays' = OwnArrays
  BY OwnKept DEF Judges
<1>2. members' = [n \in Members |-> members'[n]]
  BY DEF Judges, IInv, FormInv
<1>3. FormInv' /\ ProfileInv'
  BY <1>2, LateKeeps DEF Judges, inputs, Before, Bothered
<1>4. ~Admitted
  BY DEF IInv, SeenInv
<1>5. ResultInv'
  BY <1>1 DEF IInv, ResultInv, Forged, Judges
<1>6. WorkerInv'
  BY DEF WorkerInv
<1>7. QED
  BY <1>1, <1>3, <1>4, <1>5, <1>6

LEMMA ReadKeeps == ASSUME IInv, ReadCell PROVE IInv'
<1>1. pc = "read" /\ Judges
  BY DEF ReadCell
<1>2. CASE ReadVerifiedMembers(members) /\ AdmitBytes(config, members)
  <2>1. seen' = members /\ pc' = "profile" /\ UNCHANGED verdict
    BY <1>2 DEF ReadCell
  <2>2. members["result.json"] \notin {Absent, Partial} /\ members["result.json"].status = "COMPLETED"
    BY <1>2 DEF AdmitBytes, Parses
  <2>3. Complete /\ members["result.json"] = OwnResult
    BY <2>2 DEF IInv, ResultInv, Forged
  <2>4. /\ FormInv' /\ WorkerInv' /\ ResultInv' /\ ProfileInv' /\ ~Admitted
        /\ (Complete' <=> Complete) /\ OwnResult' = OwnResult
    BY <1>1, <2>1, JudgeKeeps
  <2>5. ~Admitted'
    BY <2>1, <2>4 DEF Admitted
  <2>6. config' = config
    BY <1>1 DEF Judges
  <2>7. SeenInv'
    BY <1>2, <2>1, <2>3, <2>4, <2>5, <2>6 DEF SeenInv, Result
  <2>8. QED
    BY <2>4, <2>7 DEF IInv
<1>3. CASE ~(ReadVerifiedMembers(members) /\ AdmitBytes(config, members))
  <2>1. verdict' = "refused" /\ pc' = "judged"
    BY <1>3 DEF ReadCell, Rejected
  <2>2. FormInv' /\ WorkerInv' /\ ResultInv' /\ ProfileInv'
    BY <1>1, <2>1, JudgeKeeps
  <2>3. SeenInv'
    BY <2>1 DEF SeenInv, Admitted
  <2>4. QED
    BY <2>2, <2>3 DEF IInv
<1>4. QED
  BY <1>2, <1>3

LEMMA ProfileKeeps == ASSUME IInv, ReadProfile PROVE IInv'
<1> DEFINE f == Fixture(seen["input_manifest.json"], FixtureId)
<1>1. pc = "profile" /\ Judges /\ UNCHANGED seen
  BY DEF ReadProfile
<1>2. CASE AdmitProfile(config, Result, identity) /\ AdmitTraceMetadata(config, Result.trace, Result.contacts, f)
  <2>1. pc' = "trace" /\ UNCHANGED verdict
    BY <1>2 DEF ReadProfile, Result
  <2>2. Complete /\ Result = OwnResult /\ AdmitBytes(config, seen)
    BY <1>1 DEF IInv, SeenInv
  <2>3. AdmitContacts(Result.contacts, config.dt)
    BY <1>2 DEF AdmitTraceMetadata
  <2>4. route = 2 => AdmitRuntimeV2(config, Result.runtime, config.identity)
    <3>1. config.route = route
      BY DEF IInv, FormInv
    <3>2. route = 2 => AdmitRuntimeV2(config, Result.runtime, identity)
      BY <1>2, <3>1 DEF AdmitProfile, AdmitRuntime
    <3>3. AdmitRuntimeV2(config, Result.runtime, identity) => identity = config.identity
      BY DEF AdmitRuntimeV2
    <3>4. QED
      BY <3>2, <3>3
  <2>5. /\ FormInv' /\ WorkerInv' /\ ResultInv' /\ ProfileInv' /\ ~Admitted
        /\ (Complete' <=> Complete) /\ OwnResult' = OwnResult
    BY <1>1, <2>1, JudgeKeeps
  <2>6. ~Admitted'
    BY <2>1, <2>5 DEF Admitted
  <2>7. config' = config /\ route' = route /\ Result' = Result
    BY <1>1 DEF Judges, Result
  <2>8. SeenInv'
    BY <1>1, <2>2, <2>3, <2>4, <2>5, <2>6, <2>7 DEF SeenInv
  <2>9. QED
    BY <2>5, <2>8 DEF IInv
<1>3. CASE ~(AdmitProfile(config, Result, identity) /\ AdmitTraceMetadata(config, Result.trace, Result.contacts, f))
  <2>1. verdict' = "refused" /\ pc' = "judged"
    BY <1>3 DEF ReadProfile, Rejected, Result
  <2>2. FormInv' /\ WorkerInv' /\ ResultInv' /\ ProfileInv'
    BY <1>1, <2>1, JudgeKeeps
  <2>3. SeenInv'
    BY <2>1 DEF SeenInv, Admitted
  <2>4. QED
    BY <2>2, <2>3 DEF IInv
<1>4. QED
  BY <1>2, <1>3

LEMMA TraceKeeps == ASSUME IInv, ReadTrace PROVE IInv'
<1>1. pc = "trace" /\ Judges /\ UNCHANGED seen
  BY DEF ReadTrace
<1>2. pc' = "judged" /\ (Admitted' => AdmitTraceArrays(Result.trace, Result.contacts, members["trace.npz"], seen))
  BY DEF ReadTrace, Rejected, Result, Admitted
<1>3. /\ FormInv' /\ WorkerInv' /\ ResultInv' /\ ProfileInv'
      /\ (Complete' <=> Complete) /\ OwnResult' = OwnResult /\ OwnArrays' = OwnArrays
  BY <1>1, <1>2, JudgeKeeps
<1>4. /\ Complete /\ Result = OwnResult /\ AdmitBytes(config, seen) /\ AdmitContacts(Result.contacts, config.dt)
      /\ route = 2 => AdmitRuntimeV2(config, Result.runtime, config.identity)
  BY <1>1 DEF IInv, SeenInv
<1>5. config' = config /\ route' = route /\ Result' = Result
  BY <1>1 DEF Judges, Result
<1>6. Admitted' => seen'["trace.npz"] = OwnArrays'
  <2> SUFFICES ASSUME Admitted' PROVE seen["trace.npz"] = OwnArrays
    BY <1>1, <1>3
  <2> DEFINE file == members["trace.npz"]
  <2>1. file = seen["trace.npz"]
    BY <1>2 DEF AdmitTraceArrays, LoadNpzArrays
  <2>2. <<file, Result.trace.channels, Result.contacts>> = Result.trace.canonical_sha
    BY <1>2 DEF AdmitTraceArrays, CanonicalTraceSha
  <2>3. Result.trace.canonical_sha = <<OwnArrays, Descriptors(OwnFixture), OwnContacts>>
    BY <1>4 DEF OwnResult, CompletedResult, TraceIdentity
  <2>4. QED
    BY <2>1, <2>2, <2>3
<1>7. SeenInv'
  BY <1>1, <1>2, <1>3, <1>4, <1>5, <1>6 DEF SeenInv
<1>8. QED
  BY <1>3, <1>7 DEF IInv

--------------------------------------------------------------------------------
(* The collector and the run *)

LEMMA CollectorKeeps ==
  ASSUME IInv, MeasureProfile \/ RunSentinel \/ CompileSmoke \/ WriteIdentity
  PROVE  /\ FormInv' /\ WorkerInv' /\ ResultInv' /\ SeenInv'
         /\ pc' # "collect" /\ UNCHANGED <<route, live>> /\ Bothered
         /\ pc' = "stopped" \/ UNCHANGED trouble \/ pc = "sentinel"
<1>1. Collects /\ pc \in {"collect", "sentinel", "smoke", "identity"}
  BY DEF MeasureProfile, RunSentinel, CompileSmoke, WriteIdentity
<1>2. pc' \in {"sentinel", "smoke", "identity", "preflight", "stopped"}
  BY DEF MeasureProfile, RunSentinel, CompileSmoke, WriteIdentity, CollectorRefuses
<1>3. WorkerInv' /\ ResultInv' /\ SeenInv'
  BY <1>1, <1>2, BeforeKeeps DEF Collects, Before
<1>4. FormInv'
  BY <1>1 DEF Collects, IInv, FormInv
<1>5. Bothered /\ (UNCHANGED trouble \/ pc = "sentinel")
  BY DEF MeasureProfile, RunSentinel, CompileSmoke, WriteIdentity, Bothered
<1>6. QED
  BY <1>1, <1>2, <1>3, <1>4, <1>5 DEF Collects

LEMMA StoppedKeeps ==
  ASSUME IInv, pc' = "stopped", UNCHANGED live, Bothered
  PROVE  ProfileInv'
BY DEF IInv, ProfileInv, Collecting, Bothered, SpendAll

(* What is gathered has a form of its own by the end of the step.                 *)
LEMMA MeasureProfileKeeps == ASSUME IInv, MeasureProfile PROVE IInv'
<1>1. /\ FormInv' /\ WorkerInv' /\ ResultInv' /\ SeenInv' /\ UNCHANGED <<route, live>> /\ Bothered
  BY CollectorKeeps
<1>2. UNCHANGED <<trouble, config>> /\ pc = "collect"
  BY DEF MeasureProfile, Collects
<1>3. CASE Measured(live)
  <2>1. /\ gathered' = [facts |-> Of(IdentityFacts, live), sentinel |-> NoIdentity, from |-> NoIdentity]
        /\ pc' \in {"sentinel", "smoke"} /\ UNCHANGED identity
    BY <1>3 DEF MeasureProfile
  <2>2. DOMAIN gathered' = {"facts", "sentinel", "from"} /\ DOMAIN gathered'.facts = IdentityFacts
    BY <2>1 DEF Of
  <2>3. ProfileInv'
    BY <1>1, <1>2, <2>1, <2>2 DEF IInv, ProfileInv, Collecting
  <2>4. QED
    BY <1>1, <2>3 DEF IInv
<1>4. CASE ~Measured(live)
  BY <1>1, <1>4, StoppedKeeps DEF MeasureProfile, CollectorRefuses, IInv
<1>5. QED
  BY <1>3, <1>4

LEMMA SentinelKeeps == ASSUME IInv, RunSentinel PROVE IInv'
<1>1. /\ FormInv' /\ WorkerInv' /\ ResultInv' /\ SeenInv' /\ UNCHANGED <<route, live>> /\ Bothered
  BY CollectorKeeps
<1>2. UNCHANGED config /\ pc = "sentinel"
  BY DEF RunSentinel, Collects
<1>3. CASE Compiles(manifest, xml, FixtureId)
  <2>1. PICK flaw : /\ gathered' = [gathered EXCEPT !.sentinel = SameProfileSentinel(xml, FixtureId, Role(route), flaw)]
                    /\ pc' = "smoke" /\ UNCHANGED identity
    BY <1>3 DEF RunSentinel
  <2>2. DOMAIN gathered = {"facts", "sentinel", "from"} /\ DOMAIN gathered.facts = IdentityFacts
    BY <1>2 DEF IInv, ProfileInv
  <2>3. DOMAIN gathered' = {"facts", "sentinel", "from"} /\ gathered'.facts = gathered.facts
    BY <2>1, <2>2
  <2>4. ProfileInv'
    BY <1>1, <1>2, <2>1, <2>2, <2>3 DEF IInv, ProfileInv, Collecting, Bothered, SpendAll
  <2>5. QED
    BY <1>1, <2>4 DEF IInv
<1>4. CASE ~Compiles(manifest, xml, FixtureId)
  BY <1>1, <1>4, StoppedKeeps DEF RunSentinel, CollectorRefuses, IInv
<1>5. QED
  BY <1>3, <1>4

LEMMA SmokeKeeps == ASSUME IInv, CompileSmoke PROVE IInv'
<1> DEFINE smoke == SmokeIdentity(xml, FixtureId, manifest)
           facts == [gathered.facts EXCEPT !.installation = live.installation]
           document == IF route = 1 THEN CollectIdentity(gathered.facts, smoke)
                       ELSE CollectIdentityV2(Role(route), facts, smoke, gathered.sentinel)
<1>1. /\ FormInv' /\ WorkerInv' /\ ResultInv' /\ SeenInv' /\ UNCHANGED <<route, live>> /\ Bothered
  BY CollectorKeeps
<1>2. UNCHANGED <<config, trouble>> /\ pc = "smoke"
  BY DEF CompileSmoke, Collects
<1>3. CASE Compiles(manifest, xml, FixtureId) /\ (route = 2 => live.installation # "bad")
  <2>1. gathered' = [gathered EXCEPT !.from = document] /\ pc' = "identity" /\ UNCHANGED identity
    BY <1>3 DEF CompileSmoke
  <2>2. DOMAIN gathered = {"facts", "sentinel", "from"} /\ DOMAIN gathered.facts = IdentityFacts
    BY <1>2 DEF IInv, ProfileInv
  <2>3. DOMAIN gathered' = {"facts", "sentinel", "from"} /\ gathered'.facts = gathered.facts /\ gathered'.from = document
    BY <2>1, <2>2
  <2>4. DOMAIN facts = IdentityFacts /\ Agree(BoundFacts, gathered.facts, facts)
    BY <2>2 DEF Agree, BoundFacts, RuntimeFacts, IdentityFacts
  <2>5. route = 2 => /\ {"facts", "sealed", "schema", "profile_role", "sentinel"} \subseteq DOMAIN document
                     /\ document.facts = facts
    BY DEF CollectIdentityV2
  <2>6. identity = NoIdentity
    BY <1>2 DEF IInv, ProfileInv, Collecting
  <2>7. route = 2 => Agree(BoundFacts, gathered'.facts, gathered'.from.facts) /\ DOMAIN gathered'.from.facts = IdentityFacts
    BY <2>3, <2>4, <2>5
  <2>8. ProfileInv'
    BY <1>1, <1>2, <2>1, <2>2, <2>3, <2>5, <2>6, <2>7 DEF IInv, ProfileInv, Collecting
  <2>9. QED
    BY <1>1, <2>8 DEF IInv
<1>4. CASE ~(Compiles(manifest, xml, FixtureId) /\ (route = 2 => live.installation # "bad"))
  BY <1>1, <1>4, StoppedKeeps DEF CompileSmoke, CollectorRefuses, IInv
<1>5. QED
  BY <1>3, <1>4

LEMMA IdentityKeeps == ASSUME IInv, WriteIdentity PROVE IInv'
<1>1. /\ FormInv' /\ WorkerInv' /\ ResultInv' /\ SeenInv' /\ UNCHANGED <<route, live>> /\ Bothered
  BY CollectorKeeps
<1>2. UNCHANGED <<config, trouble>> /\ pc = "identity"
  BY DEF WriteIdentity, Collects
<1>3. CASE pc' = "stopped"
  BY <1>1, <1>3, StoppedKeeps DEF IInv
<1>4. CASE pc' # "stopped"
  <2>1. identity' = gathered.from /\ UNCHANGED gathered /\ pc' = "preflight"
    BY <1>4 DEF WriteIdentity, CollectorRefuses
  <2>2. route = 2 => Fits(identity)'
    BY <1>1, <1>2, <2>1 DEF IInv, ProfileInv, Collecting, Fits
  <2>3. ProfileInv'
    BY <1>1, <1>2, <2>1, <2>2 DEF IInv, ProfileInv, Collecting
  <2>4. QED
    BY <1>1, <2>3 DEF IInv
<1>5. QED
  BY <1>3, <1>4

(* The identity the run is configured with is the one it found.                   *)
LEMMA PreflightKeeps == ASSUME IInv, Preflight PROVE IInv'
<1>1. /\ pc = "preflight" /\ pc' \in {"load", "stopped"}
      /\ UNCHANGED <<route, dt, identity, live, gathered, members, verdict, trouble>>
  BY DEF Preflight, inputs
<1>2. config' \in {config, [config EXCEPT !.identity = identity]}
  BY DEF Preflight
<1>3. WorkerInv' /\ ResultInv' /\ SeenInv'
  BY <1>1, BeforeKeeps DEF Before
<1>4. FormInv'
  BY <1>1, <1>2 DEF IInv, FormInv
<1>5. ASSUME pc' = "load", route = 2 PROVE Fits(config.identity)'
  <2>1. config' = [config EXCEPT !.identity = identity] /\ LoadNativeProfileIdentity(identity, route, Role(route))
    BY <1>5 DEF Preflight
  <2>2. config'.identity = identity
    BY <2>1 DEF IInv, FormInv
  <2>3. identity # NoIdentity
    BY <2>1 DEF LoadNativeProfileIdentity, ReadProfileIdentityDocument
  <2>4. Fits(identity)
    BY <1>1, <1>5, <2>3 DEF IInv, ProfileInv, Collecting
  <2>5. QED
    BY <1>1, <2>2, <2>4 DEF Fits
<1>6. ProfileInv'
  <2>1. Fits(identity)' <=> Fits(identity)
    BY <1>1 DEF Fits
  <2>2. QED
    BY <1>1, <1>5, <2>1 DEF IInv, ProfileInv, Collecting
<1>7. QED
  BY <1>3, <1>4, <1>6 DEF IInv

--------------------------------------------------------------------------------
(* Interference *)

(* It touches neither what a program remembers nor what it has decided.           *)
LEMMA OutsideKeeps ==
  ASSUME IInv, UNCHANGED <<pc, route, dt, config, gathered, own, seen, verdict, history>>,
         \/ members' = members
         \/ \E name : \E contents :
              /\ members' = [members EXCEPT ![name] = contents]
              /\ name = "result.json" => Forged(contents)
  PROVE  FormInv' /\ WorkerInv' /\ ResultInv' /\ SeenInv'
<1>1. /\ Loaded' <=> Loaded
      /\ Bound' <=> Bound
      /\ Simulated' <=> Simulated
      /\ Complete' <=> Complete
      /\ OwnResult' = OwnResult /\ OwnArrays' = OwnArrays
  BY OwnKept
<1>2. /\ members' = [n \in Members |-> members'[n]]
      /\ members'["result.json"] = members["result.json"] \/ Forged(members["result.json"])'
  BY DEF IInv, FormInv, Forged, Members, Checksummed
<1>3. FormInv'
  BY <1>2 DEF IInv, FormInv
<1>4. WorkerInv'
  BY <1>1 DEF IInv, WorkerInv
<1>5. ResultInv'
  BY <1>1, <1>2 DEF IInv, ResultInv, Forged
<1>6. SeenInv'
  BY <1>1 DEF IInv, SeenInv, Admitted, Result
<1>7. QED
  BY <1>3, <1>4, <1>5, <1>6

LEMMA RivalMemberKeeps == ASSUME IInv, RivalMember PROVE IInv'
<1>1. /\ UNCHANGED <<pc, route, dt, inputs, live, config, gathered, own, seen, verdict, history>> /\ SpendAll
      /\ pc \in {"fixture", "compile", "checksums", "read", "trace"}
  BY DEF RivalMember
<1>2. \E name : \E contents :
        /\ members' = [members EXCEPT ![name] = contents]
        /\ name = "result.json" => Forged(contents)
  BY OtherFilesAssumption DEF RivalMember, Forged
<1>3. FormInv' /\ WorkerInv' /\ ResultInv' /\ SeenInv'
  BY <1>1, <1>2, OutsideKeeps
<1>4. ProfileInv'
  BY <1>1, LateKeeps DEF Before, Bothered, inputs
<1>5. QED
  BY <1>3, <1>4 DEF IInv

(* Until it drifts, the environment is the usual one.                             *)
LEMMA DriftKeeps == ASSUME IInv, Drift PROVE IInv'
<1>1. /\ UNCHANGED <<pc, route, dt, inputs, config, gathered, own, members, seen, verdict, history>>
      /\ trouble = "none" /\ trouble' = "present" /\ live.mujoco = "usual" /\ DOMAIN live' = Facts
  BY DEF Drift, Disturbs, IInv, ProfileInv
<1>2. FormInv' /\ WorkerInv' /\ ResultInv' /\ SeenInv'
  BY <1>1, OutsideKeeps
<1>3. (Fits(config.identity) => Fits(config.identity)') /\ (Fits(identity) => Fits(identity)')
  BY <1>1 DEF Fits, inputs
<1>4. ProfileInv'
  BY <1>1, <1>3 DEF IInv, ProfileInv, inputs
<1>5. QED
  BY <1>2, <1>4 DEF IInv

(* What a rival makes of an identity has its facts, or a package that the usual    *)
(* environment has not.                                                          *)
LEMMA OtherIdentitiesFit ==
  ASSUME IInv, route = 2, pc \notin Collecting \union {"stopped"}, trouble = "none",
         trouble' = "present", UNCHANGED <<live, gathered>>,
         NEW other \in OtherIdentities(gathered.from)
  PROVE  other = NoIdentity \/ Agree(BoundFacts, gathered.facts, other.facts)' \/ other.facts.mujoco = "odd"
<1> DEFINE document == gathered.from
<1>1. /\ {"facts", "sealed", "schema", "profile_role", "sentinel"} \subseteq DOMAIN document
      /\ DOMAIN document.facts = IdentityFacts /\ Agree(BoundFacts, gathered.facts, document.facts)
  BY DEF IInv, ProfileInv
<1>2. /\ {"mujoco", "installation"} \subseteq IdentityFacts /\ BoundFacts \subseteq IdentityFacts
      /\ "installation" \notin BoundFacts
  BY DEF IdentityFacts, RuntimeFacts, BoundFacts
<1>3. CASE other = [document EXCEPT !.facts.mujoco = "odd"]
  BY <1>1, <1>2, <1>3
<1>4. CASE other = [document EXCEPT !.facts.installation = "odd"]
  BY <1>1, <1>2, <1>4 DEF Agree
<1>5. CASE other \in {document, [document EXCEPT !.sealed = FALSE], [document EXCEPT !.schema = 3 - route],
                      [document EXCEPT !.profile_role = "candidate"]}
  BY <1>1, <1>5 DEF Agree
<1>6. CASE other = [document EXCEPT !.sentinel = SameProfileSentinel(DeclaredXml, FixtureId, Role(route), "step")]
  BY <1>1, <1>6 DEF Agree
<1>7. QED
  BY <1>3, <1>4, <1>5, <1>6 DEF OtherIdentities

LEMMA RivalInputKeeps == ASSUME IInv, RivalInput PROVE IInv'
<1>1. /\ UNCHANGED <<pc, route, dt, live, config, gathered, own, members, seen, verdict, history>>
      /\ trouble = "none" /\ trouble' = "present" /\ live.mujoco = "usual"
  BY DEF RivalInput, Disturbs, IInv, ProfileInv
<1>2. FormInv' /\ WorkerInv' /\ ResultInv' /\ SeenInv'
  BY <1>1, OutsideKeeps
<1>3. Fits(config.identity) => Fits(config.identity)'
  BY <1>1 DEF Fits
<1>4. \/ UNCHANGED identity
      \/ pc \in {"preflight", "runtime", "profile"} /\ identity' \in OtherIdentities(gathered.from)
  BY DEF RivalInput
<1>5. CASE UNCHANGED identity
  <2>1. Fits(identity) => Fits(identity)'
    BY <1>1, <1>5 DEF Fits
  <2>2. ProfileInv'
    BY <1>1, <1>3, <1>5, <2>1 DEF IInv, ProfileInv
  <2>3. QED
    BY <1>2, <2>2 DEF IInv
<1>6. CASE pc \in {"preflight", "runtime", "profile"} /\ identity' \in OtherIdentities(gathered.from)
  <2>1. route = 2 => identity' = NoIdentity \/ Fits(identity)'
    BY <1>1, <1>6, OtherIdentitiesFit DEF Fits, Collecting, Agree
  <2>2. ProfileInv'
    BY <1>1, <1>3, <1>6, <2>1 DEF IInv, ProfileInv, Collecting
  <2>3. QED
    BY <1>2, <2>2 DEF IInv
<1>7. QED
  BY <1>4, <1>5, <1>6

LEMMA RestoreKeeps == ASSUME IInv, Restore PROVE IInv'
<1>1. /\ UNCHANGED <<pc, route, dt, config, gathered, own, members, seen, verdict, history>>
      /\ trouble' = "past" /\ live' = [fact \in Facts |-> "usual"]
      /\ identity' = (IF pc \in {"sentinel", "smoke"} THEN identity ELSE gathered.from)
      /\ pc \in {"sentinel", "smoke", "preflight", "load", "fixture", "runtime", "profile"}
  BY DEF Restore
<1>2. FormInv' /\ WorkerInv' /\ ResultInv' /\ SeenInv'
  BY <1>1, OutsideKeeps
<1>3. live'.mujoco = "usual" /\ DOMAIN live' = Facts
  BY <1>1 DEF Facts
<1>4. Fits(config.identity) => Fits(config.identity)'
  BY <1>1, <1>3 DEF Fits
<1>5. route = 2 /\ pc \notin Collecting \union {"stopped"} => Fits(identity)'
  BY <1>1 DEF Fits, IInv, ProfileInv, Collecting
<1>6. ProfileInv'
  BY <1>1, <1>3, <1>4, <1>5 DEF IInv, ProfileInv, Collecting
<1>7. QED
  BY <1>2, <1>6 DEF IInv

LEMMA StandingKeeps == ASSUME IInv, UNCHANGED vars PROVE IInv'
<1>1. FormInv' /\ WorkerInv' /\ ResultInv' /\ SeenInv'
  BY OutsideKeeps DEF vars
<1>2. (Fits(config.identity) <=> Fits(config.identity)') /\ (Fits(identity) <=> Fits(identity)')
  BY DEF Fits, vars, inputs
<1>3. ProfileInv'
  BY <1>2 DEF vars, inputs, IInv, ProfileInv
<1>4. QED
  BY <1>1, <1>3 DEF IInv

LEMMA CellIsInvariant == Spec => []IInv
<1>1. Init => IInv
  BY Initially
<1>2. IInv /\ [Next]_vars => IInv'
  BY MeasureProfileKeeps, SentinelKeeps, SmokeKeeps, IdentityKeeps, PreflightKeeps,
     LoadKeeps, SourceKeeps, CompileKeeps, MeasureKeeps, InitialKeeps, StepKeeps, FinishKeeps,
     WriteKeeps, ChecksumsKeep, RefuseKeeps, ReadKeeps, ProfileKeeps, TraceKeeps,
     DriftKeeps, RivalInputKeeps, RestoreKeeps, RivalMemberKeeps, StandingKeeps
  DEF Next, Finished
<1>3. QED
  BY <1>1, <1>2, PTL DEF Spec

--------------------------------------------------------------------------------
(* What an admitted cell is worth *)

LEMMA AdmittedResult ==
  ASSUME IInv, Admitted
  PROVE  /\ Complete /\ Result = OwnResult /\ dt \in Nat \ {0}
         /\ OwnFixture = config.fixture /\ own.manifest = seen["input_manifest.json"]
         /\ AdmitSubject(config, Result.subject, OwnFixture, seen)
<1>1. Complete /\ Result = OwnResult /\ AdmitBytes(config, seen)
  BY DEF IInv, SeenInv
<1>2. dt \in Nat \ {0} /\ OwnFixture.fixture_id = FixtureId
  BY <1>1, LoadedFixture DEF Complete, Simulated
<1>3. Result.fixture_id = OwnFixture.fixture_id /\ Result.manifest_raw = own.manifest
  BY <1>1 DEF OwnResult, CompletedResult
<1>4. Result.manifest_raw = seen["input_manifest.json"]
  BY <1>1 DEF AdmitBytes, ValidateResultRoot, Result
<1>5. Fixture(seen["input_manifest.json"], Result.fixture_id) = OwnFixture
  BY <1>2, <1>3, <1>4 DEF OwnFixture
<1>6. AdmitSubject(config, Result.subject, OwnFixture, seen)
  BY <1>1, <1>5 DEF AdmitBytes, Result
<1>7. QED
  BY <1>1, <1>2, <1>3, <1>4, <1>6 DEF AdmitSubject

(* However often manifest, fixture, identity and members are exchanged between two  *)
(* readings, the bytes of an admitted cell are of one worker's run, and it ran the  *)
(* declared fixture for the declared horizon: every binding the referee makes       *)
(* leads to a document that the same worker wrote.                                *)
THEOREM AdmittedCellsAreOneGeneration == Spec => []AdmittedIsOneGeneration
<1>1. IInv => AdmittedIsOneGeneration
  <2> SUFFICES ASSUME IInv, Admitted
               PROVE  /\ own.xml = config.xml /\ OwnFixture = config.fixture
                      /\ seen["input_manifest.json"] = own.manifest /\ seen["fixture.xml"] = own.xml
                      /\ seen["model.mjb"] = CompiledMjb(own.xml, dt) /\ seen["trace.npz"] = OwnArrays
                      /\ Result.diagnostics = Diagnostics(own.gates, own.samples)
                      /\ own.time = config.fixture.horizon
    BY DEF AdmittedIsOneGeneration
  <2>1. /\ Complete /\ Result = OwnResult /\ OwnFixture = config.fixture
        /\ own.manifest = seen["input_manifest.json"]
        /\ AdmitSubject(config, Result.subject, OwnFixture, seen)
    BY AdmittedResult
  <2>2. Result.subject = SubjectIdentity(OwnFixture, own.xml, CompiledMjb(own.xml, dt))
    BY <2>1 DEF OwnResult, CompletedResult
  <2>3. seen["fixture.xml"] = own.xml /\ seen["model.mjb"] = CompiledMjb(own.xml, dt)
    BY <2>1, <2>2 DEF AdmitSubject, SubjectIdentity
  <2>4. own.xml = config.xml
    <3>1. SourceIdentity(OwnFixture, own.xml) = SourceIdentity(config.fixture, config.xml)
      BY <2>1, <2>2 DEF AdmitSubject, ValidateSourceClosure, SubjectIdentity
    <3>2. QED
      BY <3>1 DEF SourceIdentity
  <2>5. Result.diagnostics = Diagnostics(own.gates, own.samples)
    BY <2>1 DEF OwnResult, CompletedResult
  <2>6. seen["trace.npz"] = OwnArrays
    BY DEF IInv, SeenInv
  <2>7. own.time = config.fixture.horizon
    BY <2>1 DEF Complete
  <2>8. QED
    BY <2>1, <2>3, <2>4, <2>5, <2>6, <2>7
<1>2. QED
  BY <1>1, CellIsInvariant, PTL

(* On the role-based route the environment an admitted cell was simulated in is the *)
(* one whose sentinel passed, fact by fact, though collector and worker measure it   *)
(* apart from each other and it may drift, or the identity be swapped, in between.   *)
THEOREM AdmittedProfilesAreTheSentinels == Spec => []ProfileIsTheAdmittedOne
<1>1. IInv => ProfileIsTheAdmittedOne
  <2> SUFFICES ASSUME IInv, Admitted, route = 2
               PROVE  /\ Agree(BoundFacts, gathered.facts, own.measured)
                      /\ Result.runtime.external = config.identity
                      /\ config.identity.sentinel.status = "PASS" /\ own.measured.callbacks = "usual"
    BY DEF ProfileIsTheAdmittedOne, BoundFacts
  <2>1. Result.runtime = own.runtime /\ Bound
    BY AdmittedResult DEF OwnResult, CompletedResult, Complete, Simulated
  <2>2. AdmitRuntimeV2(config, own.runtime, config.identity)
    BY <2>1 DEF IInv, SeenInv
  <2>3. /\ own.runtime.external = config.identity
        /\ Agree(RuntimeFacts, own.runtime.facts, config.identity.facts)
        /\ config.identity.sentinel.status = "PASS"
    BY <2>2 DEF AdmitRuntimeV2, BindRuntimeToProfileIdentityV2
  <2>4. Agree(BoundFacts, gathered.facts, config.identity.facts)
    BY <2>1, <2>3 DEF Bound
  <2>5. \A fact \in RuntimeFacts : own.measured[fact] = config.identity.facts[fact]
    <3>1. own.runtime.facts = Of(RuntimeFacts, own.measured)
      BY <2>1 DEF Bound, RuntimeIdentity
    <3>2. QED
      BY <3>1, <2>3 DEF Agree, Of
  <2>6. own.measured["build"] = config.identity.facts["build"] /\ own.measured.callbacks = "usual"
    <3>1. RuntimeAdmitted(route, Role(route), config.identity, own.measured)
      BY <2>1, <2>3 DEF Bound
    <3>2. config.identity # NoIdentity /\ CallbackAuthorityAbsent(own.measured)
      BY <3>1 DEF RuntimeAdmitted
    <3>3. ExternalProfileIdentity(route, Role(route), config.identity, own.measured)
      BY <3>1, <3>2 DEF RuntimeAdmitted
    <3>4. QED
      BY <3>2, <3>3 DEF ExternalProfileIdentity, Agree, CallbackAuthorityAbsent
  <2>7. Agree(BoundFacts, gathered.facts, own.measured)
    BY <2>4, <2>5, <2>6 DEF Agree, BoundFacts
  <2>8. QED
    BY <2>1, <2>3, <2>6, <2>7
<1>2. QED
  BY <1>1, CellIsInvariant, PTL

(* The contact segments, the persistence and the impulse of an admitted cell are    *)
(* those of every simulated step, not only of the observed ones: the worker's sums   *)
(* are of its steps, and the referee's equation of durations leaves no room for a    *)
(* contact at time zero that no step counted.                                     *)
THEOREM AdmittedContactsHappened == Spec => []ContactsAreWhatHappened
<1>1. IInv => ContactsAreWhatHappened
  <2> SUFFICES ASSUME IInv, Admitted
               PROVE  /\ \A i \in DOMAIN history : history[i].occupied = Within(Contact.segments, dt * (i - 1))
                      /\ Contact.persistence = dt * Cardinality({i \in DOMAIN history : history[i].occupied})
                      /\ Contact.aggregate_normal_impulse =
                           dt * Cardinality({i \in DOMAIN history : history[i].force = 1})
                      /\ Contact.channel_id = config.fixture.contact_pairs[1].channel_id
    BY DEF ContactsAreWhatHappened
  <2>1. Complete /\ Result = OwnResult /\ dt \in Nat \ {0} /\ OwnFixture = config.fixture
    BY AdmittedResult
  <2>2. Result.contacts = <<FinalizeContacts(OwnPair, own.contact, dt)>>
    BY <2>1 DEF OwnResult, CompletedResult, OwnContacts
  <2>3. Contact = FinalizeContacts(OwnPair, own.contact, dt) /\ Contact \in Elements(Result.contacts)
    BY <2>2 DEF Contact, Elements
  <2>4. /\ Contact.segments = own.contact.segments /\ Contact.persistence = dt * own.contact.persistence_steps
        /\ Contact.aggregate_normal_impulse = own.contact.impulse /\ Contact.channel_id = OwnPair.channel_id
    BY <2>3 DEF FinalizeContacts
  <2>5. AdmitContacts(Result.contacts, config.dt)
    BY DEF IInv, SeenInv
  <2>6. TotalPersistence(own.contact.segments) = dt * own.contact.persistence_steps
    BY <2>3, <2>4, <2>5 DEF AdmitContacts, AdmitContact
  <2>7. Traced(own.contact, history, dt) /\ EveryEpisodeEnds(own.contact)
    BY <2>1 DEF Complete, Simulated
  <2>8. Happened(own.contact, history, dt)
    BY <2>1, <2>6, <2>7, TraceEnds
  <2>9. QED
    BY <2>1, <2>4, <2>8 DEF OwnPair, Happened
<1>2. QED
  BY <1>1, CellIsInvariant, PTL

--------------------------------------------------------------------------------
(* The record of the contacts, event by event *)

(* Onset and release of every segment are two events; an open episode is one more.  *)
Paired(c, step) ==
  LET segments == c.segments
      events == c.events
      n == Len(segments)
  IN /\ events \in Seq({"ONSET", "RELEASE"} \X Nat)
     /\ Len(events) = 2 * n + (IF c.occupied THEN 1 ELSE 0)
     /\ \A i \in 1..n :
          /\ events[2*i - 1] = <<"ONSET", segments[i].onset>>
          /\ events[2*i] = <<"RELEASE", segments[i].release>>
          /\ segments[i].onset < segments[i].release
          /\ segments[i].persistence = segments[i].release - segments[i].onset
          /\ segments[i].onset % step = 0 /\ segments[i].release % step = 0
          /\ i > 1 => segments[i].onset > segments[i-1].release
     /\ c.occupied =>
          /\ events[2*n + 1] = <<"ONSET", c.onset[1]>>
          /\ c.onset[1] % step = 0
          /\ n > 0 => c.onset[1] > segments[n].release

LEMMA MultipleOf ==
  ASSUME NEW step \in Nat \ {0}, NEW k \in Nat
  PROVE  (step * k) % step = 0
OBVIOUS

LEMMA QuotientOf ==
  ASSUME NEW step \in Nat \ {0}, NEW a \in Nat, a % step = 0
  PROVE  \E k \in Nat : a = step * k
<1>1. a \div step \in Nat /\ a = step * (a \div step)
  OBVIOUS
<1>2. QED
  BY <1>1

LEMMA DifferenceOnGrid ==
  ASSUME NEW step \in Nat \ {0}, NEW a \in Nat, NEW b \in Nat, a <= b, a % step = 0, b % step = 0
  PROVE  (b - a) % step = 0
<1>1. PICK k \in Nat : a = step * k
  BY QuotientOf
<1>2. PICK m \in Nat : b = step * m
  BY QuotientOf
<1>3. k <= m
  BY <1>1, <1>2
<1>4. m - k \in Nat /\ b - a = step * (m - k)
  BY <1>1, <1>2, <1>3
<1>5. QED
  BY <1>4, MultipleOf

LEMMA ParityOf ==
  ASSUME NEW n \in Nat, NEW i \in 1..(2 * n)
  PROVE  \E k \in 1..n : \/ i = 2*k - 1 /\ i % 2 = 1
                         \/ i = 2*k /\ i % 2 = 0
<1>1. CASE i % 2 = 0
  <2>1. (i \div 2) \in 1..n /\ i = 2 * (i \div 2)
    BY <1>1
  <2>2. QED
    BY <1>1, <2>1
<1>2. CASE i % 2 = 1
  <2>1. ((i + 1) \div 2) \in 1..n /\ i = 2 * ((i + 1) \div 2) - 1
    BY <1>2
  <2>2. QED
    BY <1>2, <2>1
<1>3. QED
  BY <1>1, <1>2

LEMMA OneMore ==
  ASSUME NEW T, NEW s \in Seq(T), NEW e \in T
  PROVE  /\ s \o <<e>> \in Seq(T) /\ Len(s \o <<e>>) = Len(s) + 1
         /\ (s \o <<e>>)[Len(s) + 1] = e /\ \A i \in 1..Len(s) : (s \o <<e>>)[i] = s[i]
OBVIOUS

LEMMA TwiceIsWithin ==
  ASSUME NEW n \in Nat, NEW i \in 1..n
  PROVE  2*i - 1 \in 1..(2 * n) /\ 2*i \in 1..(2 * n)
OBVIOUS

LEMMA PairedBegins ==
  ASSUME NEW touch \in Touching, NEW step \in Nat \ {0}
  PROVE  Paired(NewContactState(touch), step)
<1> DEFINE c == NewContactState(touch)
<1>1. touch.occupied \in BOOLEAN
  BY TouchIs
<1>2. c.segments = <<>> /\ c.occupied = touch.occupied /\ Len(c.segments) = 0
  BY DEF NewContactState
<1>3. CASE touch.occupied
  <2>1. c.events = <<<<"ONSET", 0>>>> /\ c.onset = <<0>>
    BY <1>3 DEF NewContactState
  <2>2. /\ c.events \in Seq({"ONSET", "RELEASE"} \X Nat) /\ Len(c.events) = 1
        /\ c.events[1] = <<"ONSET", c.onset[1]>> /\ c.onset[1] = 0
    BY <2>1
  <2> HIDE DEF c
  <2>3. 2 * Len(c.segments) + 1 = 1 /\ 0 % step = 0 /\ \A i \in 1..Len(c.segments) : FALSE
    BY <1>2
  <2>4. Len(c.events) = 2 * Len(c.segments) + (IF c.occupied THEN 1 ELSE 0)
    BY <1>2, <1>3, <2>2
  <2>5. c.events[2 * Len(c.segments) + 1] = <<"ONSET", c.onset[1]>> /\ c.onset[1] % step = 0 /\ ~(Len(c.segments) > 0)
    BY <1>2, <2>2, <2>3
  <2>6. Paired(c, step)
    BY <1>2, <1>3, <2>2, <2>3, <2>4, <2>5 DEF Paired
  <2>7. QED
    BY <2>6 DEF c
<1>4. CASE ~touch.occupied
  <2>1. c.events = <<>> /\ c.events \in Seq({"ONSET", "RELEASE"} \X Nat) /\ Len(c.events) = 0
    BY <1>4 DEF NewContactState
  <2> HIDE DEF c
  <2>2. /\ Len(c.events) = 2 * Len(c.segments) + (IF c.occupied THEN 1 ELSE 0)
        /\ \A i \in 1..Len(c.segments) : FALSE
    BY <1>2, <1>4, <2>1
  <2>3. Paired(c, step)
    BY <1>2, <1>4, <2>1, <2>2 DEF Paired
  <2>4. QED
    BY <2>3 DEF c
<1>5. QED
  BY <1>1, <1>3, <1>4

LEMMA PairedAdvances ==
  ASSUME NEW c, NEW h, NEW step \in Nat \ {0}, NEW touch \in Touching, Traced(c, h, step), Paired(c, step)
  PROVE  Paired(AdvanceContactState(c, touch, Now(h, step) + step, step), step)
<1> DEFINE time == Now(h, step)
           later == Now(h, step) + step
           a == AdvanceContactState(c, touch, later, step)
           s == c.segments
           n == Len(s)
           Event == {"ONSET", "RELEASE"} \X Nat
           begins == ~c.occupied /\ touch.occupied
           ends == c.occupied /\ ~touch.occupied
           last == [onset |-> c.onset[1], release |-> later, persistence |-> later - c.onset[1]]
<1>1. touch.occupied \in BOOLEAN /\ c.occupied \in BOOLEAN /\ s \in Seq(Lengths) /\ n \in Nat
  <2>1. h \in Seq(Touching) /\ h # <<>> /\ c.occupied = h[Len(h)].occupied /\ s \in Seq(Lengths)
    BY DEF Traced
  <2>2. h[Len(h)] \in Touching
    BY <2>1
  <2>3. QED
    BY <2>1, <2>2, TouchIs
<1>2. /\ time \in Nat /\ later \in Nat /\ time < later /\ later % step = 0
      /\ c.occupied => c.onset[1] \in Nat /\ c.onset[1] <= time
      /\ \A i \in 1..n : s[i].release <= time
  <2>1. h \in Seq(Touching) /\ h # <<>> /\ time = step * (Len(h) - 1)
    BY DEF Traced, Now
  <2>2. Len(h) \in Nat \ {0}
    BY <2>1
  <2>3. time \in Nat /\ later = step * Len(h)
    BY <2>1, <2>2, OneStepLater
  <2>4. later % step = 0
    BY <2>2, <2>3, MultipleOf
  <2>5. c.occupied => c.onset[1] \in Nat /\ c.onset[1] <= time
    <3>1. c.occupied => c.onset[1] \in 0..time
      BY DEF Traced
    <3> HIDE DEF time
    <3>2. QED
      BY <3>1, <2>3
  <2>6. \A i \in 1..n : s[i].release <= time
    BY <1>1 DEF Traced
  <2> HIDE DEF time
  <2>7. time < time + step
    BY <2>3
  <2>8. QED
    BY <2>3, <2>4, <2>5, <2>6, <2>7 DEF time
<1>3. /\ c.events \in Seq(Event) /\ Len(c.events) = 2 * n + (IF c.occupied THEN 1 ELSE 0)
      /\ \A i \in 1..n :
           /\ c.events[2*i - 1] = <<"ONSET", s[i].onset>>
           /\ c.events[2*i] = <<"RELEASE", s[i].release>>
           /\ s[i].onset < s[i].release
           /\ s[i].persistence = s[i].release - s[i].onset
           /\ s[i].onset % step = 0 /\ s[i].release % step = 0
           /\ i > 1 => s[i].onset > s[i-1].release
      /\ c.occupied =>
           /\ c.events[2*n + 1] = <<"ONSET", c.onset[1]>>
           /\ c.onset[1] % step = 0
           /\ n > 0 => c.onset[1] > s[n].release
  BY DEF Paired
<1>4. c.segments \o <<>> = c.segments /\ c.events \o <<>> = c.events
  BY <1>1, <1>3
<1>5. CASE begins
  <2> DEFINE e == <<"ONSET", later>>
  <2>1. /\ a.occupied = TRUE /\ a.segments = s /\ a.onset = <<later>>
        /\ a.events = (c.events \o <<e>>) \o <<>>
    BY <1>1, <1>4, <1>5 DEF AdvanceContactState
  <2>2. a.onset[1] = later /\ e \in Event
    BY <2>1, <1>2
  <2> HIDE DEF later, e, time, s, n, a
  <2>3. /\ a.events = c.events \o <<e>> /\ a.events \in Seq(Event) /\ Len(a.events) = 2 * n + 1
        /\ a.events[2*n + 1] = e /\ \A i \in 1..(2 * n) : a.events[i] = c.events[i]
    <3>1. c.events \in Seq(Event) /\ Len(c.events) = 2 * n
      BY <1>1, <1>3, <1>5
    <3> HIDE DEF Event
    <3>2. /\ c.events \o <<e>> \in Seq(Event) /\ Len(c.events \o <<e>>) = 2 * n + 1
          /\ (c.events \o <<e>>)[2 * n + 1] = e /\ \A i \in 1..(2 * n) : (c.events \o <<e>>)[i] = c.events[i]
      BY <2>2, <3>1, OneMore
    <3>3. (c.events \o <<e>>) \o <<>> = c.events \o <<e>>
      BY <3>2
    <3>4. QED
      BY <2>1, <3>2, <3>3
  <2>4. \A i \in 1..n : a.events[2*i - 1] = c.events[2*i - 1] /\ a.events[2*i] = c.events[2*i]
    BY <1>1, <2>3, TwiceIsWithin
  <2>5. n > 0 => later > s[n].release
    <3>1. ASSUME n > 0 PROVE s[n].release \in Nat /\ s[n].release <= time
      <4>1. n \in 1..n /\ s[n] \in Lengths
        BY <1>1, <3>1 DEF n
      <4>2. QED
        BY <4>1, <1>2 DEF Lengths
    <3>2. QED
      BY <3>1, <1>2
  <2>6. /\ a.events \in Seq({"ONSET", "RELEASE"} \X Nat) /\ a.events[2*n + 1] = <<"ONSET", a.onset[1]>>
        /\ Len(a.events) = 2 * n + (IF a.occupied THEN 1 ELSE 0)
    BY <2>1, <2>2, <2>3 DEF e
  <2>7. Len(a.segments) = n /\ a.segments = s
    BY <2>1 DEF n
  <2>8. ASSUME NEW i \in 1..Len(a.segments)
        PROVE  /\ a.events[2*i - 1] = <<"ONSET", a.segments[i].onset>>
               /\ a.events[2*i] = <<"RELEASE", a.segments[i].release>>
               /\ a.segments[i].onset < a.segments[i].release
               /\ a.segments[i].persistence = a.segments[i].release - a.segments[i].onset
               /\ a.segments[i].onset % step = 0 /\ a.segments[i].release % step = 0
               /\ i > 1 => a.segments[i].onset > a.segments[i-1].release
    BY <1>3, <2>4, <2>7
  <2> DEFINE m == Len(a.segments)
  <2>9. /\ a.events[2*m + 1] = <<"ONSET", a.onset[1]>> /\ a.onset[1] % step = 0
        /\ m > 0 => a.onset[1] > a.segments[m].release
        /\ Len(a.events) = 2 * m + (IF a.occupied THEN 1 ELSE 0)
    BY <1>2, <2>2, <2>5, <2>6, <2>7
  <2>10. Paired(a, step)
    BY <2>6, <2>8, <2>9 DEF Paired
  <2>11. QED
    BY <2>10 DEF a, later
<1>6. CASE ends
  <2> DEFINE e == <<"RELEASE", later>>
  <2>1. /\ a.occupied = FALSE /\ a.segments = s \o <<last>>
        /\ a.events = (c.events \o <<>>) \o <<e>>
    BY <1>1, <1>4, <1>6 DEF AdvanceContactState
  <2>2. e \in Event /\ last \in Lengths
    BY <1>2, <1>6 DEF Lengths
  <2>3. last.onset = c.onset[1] /\ last.release = later /\ last.persistence = later - c.onset[1]
    OBVIOUS
  <2> HIDE DEF later, e, time, s, n, a, last
  <2>4. /\ a.events = c.events \o <<e>> /\ a.events \in Seq(Event) /\ Len(a.events) = 2 * n + 2
        /\ a.events[2*n + 2] = e /\ \A i \in 1..(2 * n + 1) : a.events[i] = c.events[i]
    <3>1. c.events \in Seq(Event) /\ Len(c.events) = 2 * n + 1 /\ (2 * n + 1) + 1 = 2 * n + 2
      BY <1>1, <1>3, <1>6
    <3> HIDE DEF Event
    <3>2. /\ c.events \o <<e>> \in Seq(Event) /\ Len(c.events \o <<e>>) = 2 * n + 2
          /\ (c.events \o <<e>>)[2 * n + 2] = e /\ \A i \in 1..(2 * n + 1) : (c.events \o <<e>>)[i] = c.events[i]
      BY <2>2, <3>1, OneMore
    <3>3. QED
      BY <2>1, <1>4, <3>2
  <2>5. /\ Len(a.segments) = n + 1 /\ a.segments[n + 1] = last /\ \A i \in 1..n : a.segments[i] = s[i]
    BY <1>1, <2>1, <2>2 DEF n
  <2>6. \A i \in 1..n : a.events[2*i - 1] = c.events[2*i - 1] /\ a.events[2*i] = c.events[2*i]
    <3>1. ASSUME NEW i \in 1..n
          PROVE  2*i - 1 \in 1..(2 * n + 1) /\ 2*i \in 1..(2 * n + 1)
      BY <1>1
    <3>2. QED
      BY <2>4, <3>1
  <2>7. /\ a.events[2*(n + 1) - 1] = <<"ONSET", last.onset>> /\ a.events[2*(n + 1)] = <<"RELEASE", last.release>>
    <3>1. 2*(n + 1) - 1 = 2*n + 1 /\ 2*(n + 1) = 2*n + 2 /\ 2*n + 1 \in 1..(2*n + 1)
      BY <1>1
    <3>2. a.events[2*n + 1] = c.events[2*n + 1]
      BY <2>4, <3>1
    <3>3. QED
      BY <3>1, <3>2, <1>3, <1>6, <2>3, <2>4 DEF e
  <2>8. ASSUME NEW i \in 1..(n + 1)
        PROVE  /\ a.events[2*i - 1] = <<"ONSET", a.segments[i].onset>>
               /\ a.events[2*i] = <<"RELEASE", a.segments[i].release>>
               /\ a.segments[i].onset < a.segments[i].release
               /\ a.segments[i].persistence = a.segments[i].release - a.segments[i].onset
               /\ a.segments[i].onset % step = 0 /\ a.segments[i].release % step = 0
               /\ i > 1 => a.segments[i].onset > a.segments[i-1].release
    <3>1. CASE i \in 1..n
      <4>1. a.segments[i] = s[i] /\ (i > 1 => a.segments[i-1] = s[i-1])
        BY <3>1, <2>5, <1>1
      <4>2. QED
        BY <3>1, <4>1, <1>3, <2>6
    <3>2. CASE i = n + 1
      <4>1. a.segments[i] = last /\ i - 1 = n /\ (i > 1 => a.segments[i-1] = s[n] /\ n > 0)
        BY <3>2, <2>5, <1>1
      <4>2. /\ last.onset < last.release /\ last.persistence = last.release - last.onset
            /\ last.onset % step = 0 /\ last.release % step = 0
            /\ i > 1 => last.onset > s[n].release
        BY <4>1, <2>3, <1>1, <1>2, <1>3, <1>6
      <4>3. QED
        BY <3>2, <4>1, <4>2, <2>7
    <3>3. QED
      BY <3>1, <3>2, <1>1
  <2>9. Len(a.events) = 2 * (n + 1) + (IF a.occupied THEN 1 ELSE 0)
    BY <2>1, <2>4, <1>1
  <2>10. Paired(a, step)
    BY <2>1, <2>4, <2>5, <2>8, <2>9 DEF Paired
  <2>11. QED
    BY <2>10 DEF a, later
<1>7. CASE ~begins /\ ~ends
  <2>1. a.occupied = c.occupied /\ a.segments = s /\ a.onset = c.onset /\ a.events = c.events
    BY <1>1, <1>4, <1>7 DEF AdvanceContactState
  <2> HIDE DEF a
  <2>2. Paired(a, step)
    BY <2>1, <1>3 DEF Paired
  <2>3. QED
    BY <2>2 DEF a, later
<1>8. QED
  BY <1>5, <1>6, <1>7

(* The contacts a worker writes at the end of its simulation are in every detail     *)
(* what the referee demands of contacts.                                         *)
LEMMA ContactIsAdmitted ==
  ASSUME NEW c, NEW h, NEW step \in Nat \ {0}, NEW pair, Traced(c, h, step), Paired(c, step),
         EveryEpisodeEnds(c), ~h[1].occupied, Now(h, step) = Horizon, ParseContactPair(pair),
         OrdinaryNotation(c.impulse)
  PROVE  AdmitContact(FinalizeContacts(pair, c, step), step) /\ Happened(c, h, step)
<1> DEFINE contact == FinalizeContacts(pair, c, step)
           s == c.segments
           events == c.events
           n == Len(s)
<1>1. /\ contact.geoms = Geoms(pair) /\ contact.events = events /\ contact.segments = s
      /\ contact.persistence = step * c.persistence_steps /\ contact.aggregate_normal_impulse = c.impulse
  BY DEF FinalizeContacts
<1>2. Cardinality(Geoms(pair)) = 2
  BY TwoGeoms DEF ParseContactPair
<1>3. c.occupied = FALSE
  <2>1. h \in Seq(Touching) /\ h # <<>> /\ c.occupied = h[Len(h)].occupied
    BY DEF Traced
  <2>2. h[Len(h)] \in Touching
    BY <2>1
  <2>3. c.occupied \in BOOLEAN
    BY <2>1, <2>2, TouchIs
  <2>4. ~c.occupied
    <3>1. c.onset = <<>>
      BY DEF EveryEpisodeEnds
    <3>2. c.occupied => c.onset = <<c.onset[1]>>
      BY DEF Traced
    <3>3. QED
      BY <3>1, <3>2
  <2>5. QED
    BY <2>3, <2>4
<1>4. s \in Seq(Lengths) /\ n \in Nat /\ DOMAIN s = 1..n /\ \A i \in 1..n : s[i] \in Lengths /\ s[i].release <= Horizon
  BY DEF Traced
<1>5. \A i \in 1..n : s[i].onset \in Nat /\ s[i].release \in Nat
  BY <1>4 DEF Lengths
<1>6. c.persistence_steps \in Nat /\ TotalPersistence(s) = step * c.persistence_steps
  <2>1. c.persistence_steps = Cardinality(Steps(h, Occupied)) /\ h \in Seq(Touching) /\ h # <<>>
    BY DEF Traced
  <2>2. \E touch : touch \in Touching
    BY DEF Touching
  <2>3. c.persistence_steps \in Nat
    BY <2>1, <2>2, CountedOnce
  <2>4. TotalPersistence(s) + 0 = step * (c.persistence_steps + 0)
    BY <1>3 DEF Traced
  <2>5. TotalPersistence(s) \in Nat
    <3>1. [onset |-> 0, release |-> 0, persistence |-> 0] \in Lengths
      BY DEF Lengths
    <3>2. QED
      BY <1>4, <3>1, TotalOfOneMore
  <2>6. QED
    BY <2>3, <2>4, <2>5
<1>7. /\ events \in Seq({"ONSET", "RELEASE"} \X Nat) /\ Len(events) = 2 * n
      /\ \A i \in 1..n :
           /\ events[2*i - 1] = <<"ONSET", s[i].onset>>
           /\ events[2*i] = <<"RELEASE", s[i].release>>
           /\ s[i].onset < s[i].release
           /\ s[i].persistence = s[i].release - s[i].onset
           /\ s[i].onset % step = 0 /\ s[i].release % step = 0
           /\ i > 1 => s[i].onset > s[i-1].release
  <2>1. /\ events \in Seq({"ONSET", "RELEASE"} \X Nat) /\ Len(events) = 2 * n + (IF c.occupied THEN 1 ELSE 0)
        /\ \A i \in 1..n :
             /\ events[2*i - 1] = <<"ONSET", s[i].onset>>
             /\ events[2*i] = <<"RELEASE", s[i].release>>
             /\ s[i].onset < s[i].release
             /\ s[i].persistence = s[i].release - s[i].onset
             /\ s[i].onset % step = 0 /\ s[i].release % step = 0
             /\ i > 1 => s[i].onset > s[i-1].release
    BY DEF Paired
  <2> HIDE DEF events, s, n
  <2>2. (IF c.occupied THEN 1 ELSE 0) = 0
    BY <1>3
  <2>3. Len(events) = 2 * n
    BY <2>1, <2>2, <1>4
  <2>4. QED
    BY <2>1, <2>3
<1> HIDE DEF contact, events, s, n
<1>8. Happened(c, h, step)
  BY <1>6, TraceEnds DEF s
<1>9. AdmitContactEvents(events, step)
  <2>1. DOMAIN events = 1..(2 * n)
    BY <1>7
  <2>2. ASSUME NEW i \in 1..(2 * n)
        PROVE  /\ events[i][1] = (IF i % 2 = 1 THEN "ONSET" ELSE "RELEASE")
               /\ events[i][2] <= Horizon /\ events[i][2] % step = 0
               /\ i > 1 => events[i][2] > events[i-1][2]
    <3>1. PICK k \in 1..n : \/ i = 2*k - 1 /\ i % 2 = 1
                            \/ i = 2*k /\ i % 2 = 0
      BY <1>4, ParityOf
    <3>2. s[k].onset \in Nat /\ s[k].release \in Nat /\ s[k].release <= Horizon /\ s[k].onset < s[k].release
      BY <1>4, <1>5, <1>7
    <3>3. CASE i = 2*k /\ i % 2 = 0
      <4>1. events[i] = <<"RELEASE", s[k].release>> /\ events[i-1] = <<"ONSET", s[k].onset>>
        BY <3>3, <1>7
      <4>2. s[k].release % step = 0
        BY <1>7
      <4>3. QED
        BY <3>2, <3>3, <4>1, <4>2
    <3>4. CASE i = 2*k - 1 /\ i % 2 = 1
      <4>1. events[i] = <<"ONSET", s[k].onset>> /\ s[k].onset % step = 0
        BY <3>4, <1>7
      <4>2. i > 1 => k - 1 \in 1..n /\ i - 1 = 2 * (k - 1) /\ k > 1
        BY <3>4, <1>4
      <4>3. i > 1 => events[i-1] = <<"RELEASE", s[k-1].release>> /\ s[k].onset > s[k-1].release
        BY <4>2, <1>7
      <4>4. s[k].onset <= Horizon
        BY <3>2, GridAssumption
      <4>5. QED
        BY <3>4, <4>1, <4>3, <4>4
    <3>5. QED
      BY <3>1, <3>3, <3>4
  <2>3. Len(events) % 2 = 0
    BY <1>4, <1>7
  <2>4. QED
    BY <2>1, <2>2, <2>3 DEF AdmitContactEvents, OnGrid
<1>10. AdmitContactSegments(s, step)
  <2>1. ASSUME NEW i \in 1..n
        PROVE  /\ s[i].onset < s[i].release /\ s[i].release <= Horizon /\ s[i].release - s[i].onset = s[i].persistence
               /\ s[i].onset % step = 0 /\ s[i].release % step = 0 /\ s[i].persistence % step = 0
               /\ i > 1 => s[i].onset > s[i-1].release
    <3>1. /\ s[i].onset < s[i].release /\ s[i].persistence = s[i].release - s[i].onset
          /\ s[i].onset % step = 0 /\ s[i].release % step = 0
          /\ i > 1 => s[i].onset > s[i-1].release
      BY <1>7
    <3>2. s[i].onset \in Nat /\ s[i].release \in Nat /\ s[i].onset <= s[i].release
      BY <1>5, <3>1
    <3>3. (s[i].release - s[i].onset) % step = 0
      BY <3>1, <3>2, DifferenceOnGrid
    <3>4. QED
      BY <3>1, <3>3, <1>4
  <2>2. QED
    BY <2>1, <1>4 DEF AdmitContactSegments, OnGrid
<1>11. (step * c.persistence_steps) % step = 0
  BY <1>6, MultipleOf
<1>12. \A i \in 1..n : events[2*i - 1][2] = s[i].onset /\ events[2*i][2] = s[i].release
  BY <1>7
<1>13. AdmitContact(contact, step)
  BY <1>1, <1>2, <1>4, <1>6, <1>7, <1>9, <1>10, <1>11, <1>12 DEF AdmitContact, OnGrid, n
<1>14. QED
  BY <1>8, <1>13 DEF contact

--------------------------------------------------------------------------------
(* The observations, on their own clock *)

CalmGates == InitialGates(Calm)
Rows == [occupancy : {0, 1}, normal_force : Nat, normal_impulse : Nat]

(* Of everything that touched, what was recorded at multiples of the control       *)
(* interval; in calm weather the gates are as they were at first.                  *)
Observed(rows, samples, c, h, step) ==
  LET n == Len(rows)
  IN /\ rows \in Seq(Rows) /\ n # 0
     /\ samples \in Seq({DiagnosticValues(CalmGates, time) : time \in Nat}) /\ Len(samples) = n
     /\ \A i \in 1..n : samples[i] = DiagnosticValues(CalmGates, ControlDt * (i - 1))
     /\ ControlDt * (n - 1) <= Now(h, step) /\ Now(h, step) < ControlDt * n
     /\ \A i \in 1..n : \E k \in 1..Len(h) :
          step * (k - 1) = ControlDt * (i - 1) /\ (rows[i].occupancy = 1 <=> h[k].occupied)
     /\ \A i \in 2..n : rows[i].normal_impulse >= rows[i-1].normal_impulse
     /\ rows[n].normal_impulse <= c.impulse
     /\ Now(h, step) = ControlDt * (n - 1) => rows[n].normal_impulse = c.impulse

LEMMA LessTimes ==
  ASSUME NEW d \in Nat \ {0}, NEW a \in Int, NEW b \in Int
  PROVE  (d * a < d * b <=> a < b) /\ (d * a <= d * b <=> a <= b) /\ (d * a = d * b <=> a = b)
OBVIOUS

LEMMA NextObservation ==
  ASSUME NEW C \in Nat \ {0}, NEW d \in Nat \ {0}, C % d = 0, NEW t \in Nat, t % d = 0,
         NEW n \in Nat \ {0}, C * (n - 1) <= t, t < C * n
  PROVE  t + d <= C * n /\ ((t + d) % C = 0 <=> t + d = C * n)
<1>1. PICK q \in Nat : C = d * q
  BY QuotientOf
<1>2. PICK k \in Nat : t = d * k
  BY QuotientOf
<1>3. C * n = d * (q * n) /\ q * n \in Nat
  BY <1>1
<1>4. k < q * n
  BY <1>2, <1>3, LessTimes
<1>5. t + d = d * (k + 1) /\ k + 1 <= q * n
  BY <1>2, <1>3, <1>4
<1>6. t + d <= C * n
  BY <1>3, <1>5, LessTimes
<1>7. ASSUME (t + d) % C = 0 PROVE t + d = C * n
  <2>1. PICK m \in Nat : t + d = C * m
    BY <1>7, QuotientOf
  <2>2. C * (n - 1) < C * m /\ C * m <= C * n
    BY <1>6, <2>1
  <2>3. n - 1 < m /\ m <= n
    BY <2>2, LessTimes
  <2>4. QED
    BY <2>1, <2>3
<1>8. (C * n) % C = 0
  BY MultipleOf
<1>9. QED
  BY <1>6, <1>7, <1>8

LEMMA ObservationBegins ==
  ASSUME NEW touch \in Touching, NEW step \in Nat \ {0}
  PROVE  Observed(<<ObservedRow(NewContactState(touch))>>, <<DiagnosticValues(CalmGates, 0)>>,
                  NewContactState(touch), <<touch>>, step)
<1> DEFINE c == NewContactState(touch)
           row == ObservedRow(c)
           sample == DiagnosticValues(CalmGates, 0)
           rows == <<row>>
           samples == <<sample>>
           h == <<touch>>
           n == Len(rows)
<1>1. touch.occupied \in BOOLEAN /\ touch.force \in {0, 1} /\ c.impulse = 0
  BY TouchIs DEF NewContactState
<1>2. row \in Rows /\ row.normal_impulse = 0 /\ (row.occupancy = 1 <=> touch.occupied)
  BY <1>1 DEF ObservedRow, Rows, NewContactState
<1>3. sample \in {DiagnosticValues(CalmGates, time) : time \in Nat}
  OBVIOUS
<1> HIDE DEF row, sample, c
<1>4. rows \in Seq(Rows) /\ n = 1 /\ rows[1] = row
  BY <1>2
<1>5. samples \in Seq({DiagnosticValues(CalmGates, time) : time \in Nat}) /\ Len(samples) = 1 /\ samples[1] = sample
  BY <1>3
<1>6. Len(h) = 1 /\ h[1] = touch
  OBVIOUS
<1> HIDE DEF rows, samples, h, n
<1>7. ControlDt * (1 - 1) = 0 /\ step * (1 - 1) = 0 /\ 0 < ControlDt * 1
  BY GridAssumption
<1>8. Now(h, step) = 0
  BY <1>6, <1>7 DEF Now
<1>9. \A i \in 1..n : i = 1 /\ samples[i] = DiagnosticValues(CalmGates, ControlDt * (i - 1))
  BY <1>4, <1>5, <1>7 DEF sample
<1>10. \A i \in 1..n : \E k \in 1..Len(h) :
         step * (k - 1) = ControlDt * (i - 1) /\ (rows[i].occupancy = 1 <=> h[k].occupied)
  BY <1>2, <1>4, <1>6, <1>7
<1>11. /\ ControlDt * (n - 1) <= Now(h, step) /\ Now(h, step) < ControlDt * n /\ n # 0
       /\ rows[n].normal_impulse = c.impulse /\ \A i \in 2..n : FALSE
       /\ rows[n].normal_impulse <= c.impulse
  BY <1>1, <1>2, <1>4, <1>7, <1>8
<1>12. Observed(rows, samples, c, h, step)
  BY <1>4, <1>5, <1>9, <1>10, <1>11 DEF Observed, n
<1>13. QED
  BY <1>12 DEF rows, samples, h, row, sample, c

LEMMA ObservationAdvances ==
  ASSUME NEW c, NEW h, NEW step \in Nat \ {0}, NEW touch \in Touching, Traced(c, h, step),
         NEW rows, NEW samples, Observed(rows, samples, c, h, step), ControlDt % step = 0,
         NEW time, time = Now(h, step) + step, NEW a, a = AdvanceContactState(c, touch, time, step)
  PROVE  Observed(IF OnGrid(time, ControlDt) THEN Append(rows, ObservedRow(a)) ELSE rows,
                  IF OnGrid(time, ControlDt) THEN Append(samples, DiagnosticValues(CalmGates, time)) ELSE samples,
                  a, Append(h, touch), step)
<1> DEFINE n == Len(rows)
           C == ControlDt
           g == Append(h, touch)
           now == Now(h, step)
           row == ObservedRow(a)
           sample == DiagnosticValues(CalmGates, time)
           Samples == {DiagnosticValues(CalmGates, t) : t \in Nat}
<1>1. /\ h \in Seq(Touching) /\ h # <<>> /\ Len(h) \in Nat \ {0} /\ g \in Seq(Touching)
      /\ Len(g) = Len(h) + 1 /\ g[Len(h) + 1] = touch /\ \A k \in 1..Len(h) : g[k] = h[k]
  <2>1. h \in Seq(Touching) /\ h # <<>>
    BY DEF Traced
  <2>2. QED
    BY <2>1
<1>2. /\ now = step * (Len(h) - 1) /\ now \in Nat /\ time = step * Len(h) /\ time \in Nat /\ now < time
      /\ Now(g, step) = time /\ now % step = 0
  <2>1. now = step * (Len(h) - 1)
    BY DEF Now
  <2>2. Now(g, step) = step * Len(h)
    BY <1>1 DEF Now
  <2>3. time = step * Len(h) /\ now \in Nat /\ now < time /\ time \in Nat
    BY <1>1, <2>1, OneStepLater
  <2>4. Len(h) - 1 \in Nat
    BY <1>1
  <2>5. now % step = 0
    BY <2>1, <2>4, MultipleOf
  <2>6. QED
    BY <2>1, <2>2, <2>3, <2>5
<1>3. /\ touch.occupied \in BOOLEAN /\ touch.force \in {0, 1}
      /\ c.impulse \in Nat /\ a.impulse \in Nat /\ c.impulse <= a.impulse
      /\ a.occupied = touch.occupied /\ a.force = touch.force
  <2>1. touch.occupied \in BOOLEAN /\ touch.force \in {0, 1}
    BY TouchIs
  <2>2. c.impulse = step * Cardinality(Steps(h, Forced))
    BY DEF Traced
  <2>3. Cardinality(Steps(h, Forced)) \in Nat
    BY <1>1, CountedOnce
  <2>4. c.impulse \in Nat
    BY <2>2, <2>3
  <2>5. a.impulse = c.impulse + touch.force * step /\ a.occupied = touch.occupied /\ a.force = touch.force
    BY DEF AdvanceContactState
  <2>6. QED
    BY <2>1, <2>4, <2>5
<1>4. /\ rows \in Seq(Rows) /\ n # 0 /\ samples \in Seq(Samples) /\ Len(samples) = n
      /\ \A i \in 1..n : samples[i] = DiagnosticValues(CalmGates, C * (i - 1))
      /\ C * (n - 1) <= now /\ now < C * n
      /\ \A i \in 1..n : \E k \in 1..Len(h) :
           step * (k - 1) = C * (i - 1) /\ (rows[i].occupancy = 1 <=> h[k].occupied)
      /\ \A i \in 2..n : rows[i].normal_impulse >= rows[i-1].normal_impulse
      /\ rows[n].normal_impulse <= c.impulse
  BY DEF Observed
<1>5. n \in Nat \ {0} /\ rows[n] \in Rows /\ rows[n].normal_impulse \in Nat
  <2>1. n \in Nat \ {0} /\ rows[n] \in Rows
    BY <1>4
  <2>2. QED
    BY <2>1 DEF Rows
<1> HIDE DEF now, g, n, Samples
<1>6. time <= C * n /\ (time % C = 0 <=> time = C * n)
  <2>1. C \in Nat \ {0} /\ time = now + step
    BY GridAssumption DEF now
  <2>2. C * (n - 1) <= now /\ now < C * n
    BY <1>4
  <2>3. C % step = 0 /\ now \in Nat /\ now % step = 0
    BY <1>2
  <2> HIDE DEF C
  <2>4. now + step <= C * n /\ ((now + step) % C = 0 <=> now + step = C * n)
    <3>1. n \in Nat \ {0}
      BY <1>5
    <3>2. step \in Nat \ {0}
      OBVIOUS
    <3>3. now + step <= C * n
      BY <3>1, <3>2, <2>1, <2>2, <2>3, NextObservation
    <3>4. (now + step) % C = 0 => now + step = C * n
      BY <3>1, <3>2, <2>1, <2>2, <2>3, NextObservation
    <3>5. now + step = C * n => (now + step) % C = 0
      BY <3>1, <3>2, <2>1, <2>2, <2>3, NextObservation
    <3>6. QED
      BY <3>3, <3>4, <3>5
  <2>5. QED
    BY <2>1, <2>4
<1>7. CASE ~OnGrid(time, C)
  <2>1. time < C * n /\ C * (n - 1) < time
    <3>1. C * (n - 1) \in Int /\ C * n \in Int
      BY <1>5, GridAssumption
    <3>2. QED
      BY <3>1, <1>7, <1>2, <1>4, <1>6 DEF OnGrid
  <2>2. ASSUME NEW i \in 1..n
        PROVE  \E k \in 1..Len(g) : step * (k - 1) = C * (i - 1) /\ (rows[i].occupancy = 1 <=> g[k].occupied)
    <3>1. PICK k \in 1..Len(h) : step * (k - 1) = C * (i - 1) /\ (rows[i].occupancy = 1 <=> h[k].occupied)
      BY <1>4
    <3>2. k \in 1..Len(g) /\ g[k] = h[k]
      BY <1>1
    <3>3. QED
      BY <3>1, <3>2
  <2>3. rows[n].normal_impulse <= a.impulse
    BY <1>3, <1>4, <1>5
  <2>4. C * (n - 1) <= Now(g, step) /\ Now(g, step) < C * n /\ Now(g, step) # C * (n - 1)
    <3>1. C * (n - 1) \in Int
      BY <1>5, GridAssumption
    <3>2. QED
      BY <3>1, <2>1, <1>2
  <2>5. Observed(rows, samples, a, g, step)
    BY <1>4, <2>2, <2>3, <2>4 DEF Observed, n, Samples
  <2>6. QED
    BY <2>5, <1>7 DEF g
<1>8. CASE OnGrid(time, C)
  <2> DEFINE more == Append(rows, row)
             later == Append(samples, sample)
  <2>1. row \in Rows /\ row.normal_impulse = a.impulse /\ (row.occupancy = 1 <=> touch.occupied)
    BY <1>3 DEF ObservedRow, Rows
  <2>2. sample \in Samples
    BY <1>2 DEF Samples
  <2>3. time = C * n
    BY <1>6, <1>8 DEF OnGrid
  <2> HIDE DEF row, sample
  <2>4. /\ more \in Seq(Rows) /\ Len(more) = n + 1 /\ more[n + 1] = row /\ \A i \in 1..n : more[i] = rows[i]
    BY <1>4, <2>1 DEF n
  <2>5. /\ later \in Seq(Samples) /\ Len(later) = n + 1 /\ later[n + 1] = sample /\ \A i \in 1..n : later[i] = samples[i]
    BY <1>4, <2>2
  <2> HIDE DEF more, later
  <2>6. \A i \in 1..(n + 1) : later[i] = DiagnosticValues(CalmGates, C * (i - 1))
    <3>1. TAKE i \in 1..(n + 1)
    <3>2. CASE i \in 1..n
      BY <3>2, <2>5, <1>4
    <3>3. CASE i = n + 1
      <4>1. C * (i - 1) = time
        BY <3>3, <2>3, <1>5
      <4>2. later[i] = sample
        BY <3>3, <2>5
      <4>3. QED
        BY <4>1, <4>2 DEF sample
    <3>4. QED
      BY <3>2, <3>3, <1>5
  <2>7. ASSUME NEW i \in 1..(n + 1)
        PROVE  \E k \in 1..Len(g) : step * (k - 1) = C * (i - 1) /\ (more[i].occupancy = 1 <=> g[k].occupied)
    <3>1. CASE i \in 1..n
      <4>1. PICK k \in 1..Len(h) : step * (k - 1) = C * (i - 1) /\ (rows[i].occupancy = 1 <=> h[k].occupied)
        BY <3>1, <1>4
      <4>2. k \in 1..Len(g) /\ g[k] = h[k] /\ more[i] = rows[i]
        BY <3>1, <1>1, <2>4
      <4>3. QED
        BY <4>1, <4>2
    <3>2. CASE i = n + 1
      <4> DEFINE k == Len(h) + 1
      <4>1. k \in 1..Len(g) /\ g[k] = touch /\ more[i] = row /\ k - 1 = Len(h) /\ i - 1 = n
        BY <3>2, <1>1, <1>5, <2>4
      <4>2. step * (k - 1) = C * (i - 1)
        BY <4>1, <1>2, <2>3
      <4> HIDE DEF k
      <4>3. QED
        BY <4>1, <4>2, <2>1
    <3>3. QED
      BY <3>1, <3>2, <1>5
  <2>8. ASSUME NEW i \in 2..(n + 1)
        PROVE  more[i].normal_impulse >= more[i-1].normal_impulse
    <3>1. CASE i \in 2..n
      <4>1. more[i] = rows[i] /\ more[i-1] = rows[i-1]
        BY <3>1, <2>4, <1>5
      <4>2. QED
        BY <3>1, <4>1, <1>4
    <3>2. CASE i = n + 1
      <4>1. more[i] = row /\ more[i-1] = rows[n]
        BY <3>2, <2>4, <1>5
      <4>2. rows[n].normal_impulse <= c.impulse
        BY <1>4
      <4>3. c.impulse \in Nat /\ a.impulse \in Nat /\ c.impulse <= a.impulse /\ rows[n].normal_impulse \in Nat
        BY <1>3, <1>5
      <4>4. rows[n].normal_impulse <= a.impulse
        BY <4>2, <4>3
      <4>5. QED
        BY <4>1, <4>3, <4>4, <2>1
    <3>3. QED
      BY <3>1, <3>2, <1>5
  <2>9. more[n + 1].normal_impulse = a.impulse /\ more[n + 1].normal_impulse <= a.impulse
    BY <2>1, <2>4, <1>3
  <2>10. C * n <= Now(g, step) /\ Now(g, step) < C * (n + 1) /\ (n + 1) - 1 = n
    <3> DEFINE k == n + 1
    <3>1. C \in Nat \ {0} /\ k \in Nat \ {0} /\ k - 1 = n
      BY <1>5, GridAssumption
    <3> HIDE DEF k
    <3>2. Now(g, step) = C * n /\ C * k = C * n + C /\ C * n \in Nat
      BY <1>2, <2>3, <3>1, OneStepLater
    <3>3. QED
      BY <3>1, <3>2, <1>5 DEF k
  <2> DEFINE m == Len(more)
  <2>11. m = n + 1 /\ m - 1 = n /\ m # 0
    BY <2>4, <1>5
  <2>12. Observed(more, later, a, g, step)
    <3>1. more \in Seq(Rows) /\ later \in Seq(Samples) /\ Len(later) = m
      BY <2>4, <2>5, <2>11
    <3>2. C * (m - 1) <= Now(g, step) /\ Now(g, step) < C * m
      BY <2>10, <2>11
    <3>3. more[m].normal_impulse = a.impulse /\ more[m].normal_impulse <= a.impulse
      BY <2>9, <2>11
    <3>4. \A i \in 1..m : later[i] = DiagnosticValues(CalmGates, C * (i - 1))
      BY <2>6, <2>11
    <3>5. \A i \in 1..m : \E k \in 1..Len(g) :
            step * (k - 1) = C * (i - 1) /\ (more[i].occupancy = 1 <=> g[k].occupied)
      BY <2>7, <2>11
    <3>6. \A i \in 2..m : more[i].normal_impulse >= more[i-1].normal_impulse
      BY <2>8, <2>11
    <3>7. QED
      BY <2>11, <3>1, <3>2, <3>3, <3>4, <3>5, <3>6 DEF Observed, Samples
  <2>13. QED
    BY <2>12, <1>8 DEF g, more, later, row, sample
<1>9. QED
  BY <1>7, <1>8

CalmSample(time) ==
  [time |-> time, finite_values |-> TRUE, warnings_passed |-> TRUE, solver_converged |-> TRUE,
   max_solver_iterations |-> 0, max_solver_residual |-> 0]

LEMMA CalmSamples ==
  ASSUME NEW time
  PROVE  DiagnosticValues(CalmGates, time) = CalmSample(time)
<1>1. CalmGates = [finite |-> TRUE, warning_free |-> TRUE, iterations |-> 0, residual |-> 0]
  BY DEF CalmGates, InitialGates, Calm
<1>2. Converged(CalmGates) = TRUE
  <2>1. 0 < IterationLimit /\ 0 < Infinite
    BY MagnitudeAssumption
  <2>2. Converged(CalmGates)
    BY <1>1, <2>1 DEF Converged
  <2>3. Converged(CalmGates) \in BOOLEAN
    BY DEF Converged
  <2>4. QED
    BY <2>2, <2>3
<1>3. QED
  BY <1>1, <1>2 DEF DiagnosticValues, CalmSample

(* What the referee derives again from the diagnostics of calm weather.            *)
LEMMA CalmIsAdmitted ==
  ASSUME NEW samples, NEW n \in Nat \ {0}, samples \in Seq({DiagnosticValues(CalmGates, time) : time \in Nat}),
         Len(samples) = n, \A i \in 1..n : samples[i] = DiagnosticValues(CalmGates, ControlDt * (i - 1)),
         NEW tokens, tokens = [i \in 1..n |-> ControlDt * (i - 1)], OrdinaryNotation(0)
  PROVE  AdmitDiagnostics(Diagnostics(CalmGates, samples), tokens)
<1> DEFINE d == Diagnostics(CalmGates, samples)
<1>1. CalmGates = [finite |-> TRUE, warning_free |-> TRUE, iterations |-> 0, residual |-> 0]
  BY DEF CalmGates, InitialGates, Calm
<1>2. 0 < IterationLimit /\ 0 < Infinite /\ IterationLimit \in Nat /\ Infinite # 0
  BY MagnitudeAssumption
<1>3. \A i \in 1..n : samples[i] = CalmSample(ControlDt * (i - 1))
  BY CalmSamples
<1>4. DOMAIN samples = 1..n /\ n \in 1..n
  OBVIOUS
<1>5. d = [finite_values |-> TRUE, warnings_passed |-> TRUE, solver_converged |-> TRUE, warning_records |-> FALSE,
           max_solver_iterations |-> 0, solver_iteration_limit |-> IterationLimit, max_solver_residual |-> 0,
           samples |-> samples]
  <2>1. samples[Len(samples)].solver_converged = TRUE
    BY <1>3, <1>4 DEF CalmSample
  <2>2. QED
    BY <1>1, <2>1 DEF Diagnostics
<1> HIDE DEF d
<1>6. \A i \in DOMAIN samples : AdmitDiagnosticSample(samples[i], tokens[i])
  <2>1. ASSUME NEW time PROVE AdmitDiagnosticSample(CalmSample(time), time)
    BY <1>2 DEF AdmitDiagnosticSample, CalmSample
  <2>2. QED
    BY <1>3, <1>4, <2>1
<1>7. ValidateDiagnosticCumulativeContract(samples, IterationLimit)
  <2> SUFFICES ASSUME NEW i \in 1..n
               PROVE  /\ samples[i].max_solver_iterations <= IterationLimit
                      /\ samples[i].solver_converged = (/\ samples[i].finite_values /\ samples[i].warnings_passed
                            /\ samples[i].max_solver_iterations < IterationLimit /\ samples[i].max_solver_residual # Infinite)
                      /\ i > 1 =>
                           /\ samples[i].finite_values => samples[i-1].finite_values
                           /\ samples[i].warnings_passed => samples[i-1].warnings_passed
                           /\ samples[i].max_solver_iterations >= samples[i-1].max_solver_iterations
                           /\ samples[i].max_solver_residual >= samples[i-1].max_solver_residual
    BY <1>4 DEF ValidateDiagnosticCumulativeContract
  <2>1. i > 1 => i - 1 \in 1..n
    OBVIOUS
  <2>2. samples[i] = CalmSample(ControlDt * (i - 1)) /\ (i > 1 => samples[i-1] = CalmSample(ControlDt * ((i-1) - 1)))
    BY <1>3, <2>1
  <2>3. ASSUME NEW time
        PROVE  CalmSample(time).solver_converged =
                 (/\ CalmSample(time).finite_values /\ CalmSample(time).warnings_passed
                  /\ CalmSample(time).max_solver_iterations < IterationLimit
                  /\ CalmSample(time).max_solver_residual # Infinite)
    BY <1>2 DEF CalmSample
  <2>4. samples[i].solver_converged = (/\ samples[i].finite_values /\ samples[i].warnings_passed
                      /\ samples[i].max_solver_iterations < IterationLimit /\ samples[i].max_solver_residual # Infinite)
    BY <2>2, <2>3, Zenon
  <2>5. samples[i].max_solver_iterations <= IterationLimit
    BY <1>2, <2>2 DEF CalmSample
  <2>6. i > 1 => samples[i-1].finite_values /\ samples[i-1].warnings_passed
    BY <2>2 DEF CalmSample
  <2>7. i > 1 => /\ samples[i].max_solver_iterations >= samples[i-1].max_solver_iterations
                 /\ samples[i].max_solver_residual >= samples[i-1].max_solver_residual
    BY <2>2 DEF CalmSample
  <2>8. QED
    BY <2>4, <2>5, <2>6, <2>7
<1>8. Len(tokens) = n
  OBVIOUS
<1>9. \A s \in Elements(samples) : \E time : s = CalmSample(time)
  BY <1>3, <1>4 DEF Elements
<1>10. (\A s \in Elements(samples) : s.finite_values) /\ (\A s \in Elements(samples) : s.warnings_passed)
       /\ (\A s \in Elements(samples) : s.solver_converged)
  BY <1>9 DEF CalmSample
<1>11. PICK time : samples[Len(samples)] = CalmSample(time)
  BY <1>3, <1>4
<1>12. AdmitDiagnostics(d, tokens)
  <2> DEFINE last == samples[Len(samples)]
  <2>1. last = CalmSample(time)
    BY <1>11
  <2> HIDE DEF last
  <2>2. /\ Len(d.samples) = Len(tokens)
        /\ \A i \in DOMAIN d.samples : AdmitDiagnosticSample(d.samples[i], tokens[i])
        /\ ValidateDiagnosticCumulativeContract(d.samples, d.solver_iteration_limit)
    BY <1>5, <1>6, <1>7, <1>8
  <2>3. /\ d.max_solver_iterations <= d.solver_iteration_limit
        /\ d.max_solver_iterations = last.max_solver_iterations
        /\ OrdinaryNotation(d.max_solver_residual)
        /\ d.max_solver_residual = last.max_solver_residual
    BY <1>2, <1>5, <2>1 DEF CalmSample
  <2>4. /\ d.finite_values = last.finite_values /\ d.warnings_passed = last.warnings_passed
        /\ d.warnings_passed # d.warning_records /\ d.solver_converged = last.solver_converged
    BY <1>5, <2>1 DEF CalmSample
  <2>5. /\ d.finite_values = (\A s \in Elements(d.samples) : s.finite_values)
        /\ d.warnings_passed = (\A s \in Elements(d.samples) : s.warnings_passed)
        /\ d.solver_converged = (\A s \in Elements(d.samples) : s.solver_converged)
    BY <1>5, <1>10
  <2>6. d.samples[Len(d.samples)] = last
    BY <1>5 DEF last
  <2>7. QED
    BY <2>2, <2>3, <2>4, <2>5, <2>6, Zenon DEF AdmitDiagnostics
<1>13. QED
  BY <1>12 DEF d

(* The trace of a simulation that ran to its end, against the contacts that         *)
(* happened: an observation is one of the steps.                                   *)
LEMMA TraceMeansIt ==
  ASSUME NEW rows, NEW samples, NEW c, NEW h, NEW step \in Nat \ {0}, h \in Seq(Touching),
         Observed(rows, samples, c, h, step), Happened(c, h, step), Now(h, step) = Horizon,
         Horizon % ControlDt = 0, Len(rows) = Horizon \div ControlDt + 1,
         NEW contact, contact.segments = c.segments, contact.aggregate_normal_impulse = c.impulse,
         NEW arrays, arrays.rows = rows, arrays.times = [i \in 1..Len(rows) |-> ControlDt * (i - 1)]
  PROVE  ValidateContactTraceSemantics(arrays, <<contact>>) /\ CopyChannelArray(arrays, Len(rows))
<1> DEFINE n == Len(rows)
<1>1. /\ rows \in Seq(Rows) /\ n \in Nat \ {0} /\ DOMAIN rows = 1..n
      /\ \A i \in 1..n : \E k \in 1..Len(h) :
           step * (k - 1) = ControlDt * (i - 1) /\ (rows[i].occupancy = 1 <=> h[k].occupied)
      /\ \A i \in 2..n : rows[i].normal_impulse >= rows[i-1].normal_impulse
      /\ Now(h, step) = ControlDt * (n - 1) => rows[n].normal_impulse = c.impulse
  <2>1. rows \in Seq(Rows) /\ n # 0
    BY DEF Observed
  <2>2. n \in Nat /\ DOMAIN rows = 1..n
    BY <2>1
  <2>3. QED
    BY <2>1, <2>2 DEF Observed
<1>2. \A i \in 1..n : rows[i].occupancy \in {0, 1} /\ rows[i].normal_force \in Nat /\ rows[i].normal_impulse \in Nat
  <2>1. \A i \in 1..n : rows[i] \in Rows
    BY <1>1
  <2>2. QED
    BY <2>1 DEF Rows
<1>3. \A k \in 1..Len(h) : h[k].occupied = Within(c.segments, step * (k - 1))
  <2>1. DOMAIN h = 1..Len(h)
    OBVIOUS
  <2>2. QED
    BY <2>1 DEF Happened
<1>4. Now(h, step) = ControlDt * (n - 1)
  <2>1. n - 1 = Horizon \div ControlDt
    BY GridAssumption
  <2>2. Horizon = ControlDt * (Horizon \div ControlDt)
    BY GridAssumption
  <2>3. QED
    BY <2>1, <2>2
<1> HIDE DEF n
<1>5. ASSUME NEW i \in 1..n
      PROVE  /\ (rows[i].occupancy = 1) = Within(c.segments, arrays.times[i])
             /\ rows[i].normal_force >= 0 /\ rows[i].normal_impulse >= 0
             /\ i > 1 => rows[i].normal_impulse >= rows[i-1].normal_impulse
  <2>1. PICK k \in 1..Len(h) : step * (k - 1) = ControlDt * (i - 1) /\ (rows[i].occupancy = 1 <=> h[k].occupied)
    BY <1>1
  <2>2. arrays.times[i] = step * (k - 1)
    BY <2>1 DEF n
  <2>3. (rows[i].occupancy = 1) = Within(c.segments, arrays.times[i])
    <3>1. h[k].occupied = Within(c.segments, step * (k - 1))
      BY <1>3
    <3>2. Within(c.segments, step * (k - 1)) \in BOOLEAN
      BY DEF Within
    <3>3. rows[i].occupancy = 1 <=> Within(c.segments, step * (k - 1))
      BY <2>1, <3>1
    <3>4. (rows[i].occupancy = 1) = Within(c.segments, step * (k - 1))
      BY <3>2, <3>3
    <3>5. QED
      BY <2>2, <3>4
  <2>4. i > 1 => rows[i].normal_impulse >= rows[i-1].normal_impulse
    <3>1. i > 1 => i \in 2..n
      BY <1>1
    <3>2. QED
      BY <3>1, <1>1
  <2>5. rows[i].normal_force >= 0 /\ rows[i].normal_impulse >= 0
    BY <1>2
  <2>6. QED
    BY <2>3, <2>4, <2>5
<1>6. rows[n].normal_impulse = c.impulse
  BY <1>1, <1>4
<1>7. Elements(<<contact>>) = {contact}
  BY DEF Elements
<1>8. ValidateContactTraceSemantics(arrays, <<contact>>)
  <2>1. DOMAIN arrays.rows = 1..n /\ Len(arrays.rows) = n
    BY <1>1 DEF n
  <2>2. arrays.rows[Len(arrays.rows)].normal_impulse = contact.aggregate_normal_impulse
    BY <1>6, <2>1
  <2>3. ASSUME NEW i \in DOMAIN arrays.rows
        PROVE  /\ (arrays.rows[i].occupancy = 1) = Within(contact.segments, arrays.times[i])
               /\ arrays.rows[i].normal_force >= 0 /\ arrays.rows[i].normal_impulse >= 0
               /\ i > 1 => arrays.rows[i].normal_impulse >= arrays.rows[i-1].normal_impulse
    BY <1>5, <2>1, Zenon
  <2>4. QED
    BY <1>7, <2>2, <2>3 DEF ValidateContactTraceSemantics
<1>9. CopyChannelArray(arrays, n)
  BY <1>1, <1>2 DEF CopyChannelArray, n
<1>10. QED
  BY <1>8, <1>9 DEF n

--------------------------------------------------------------------------------
(* A cell that nothing disturbs *)

(* A completed cell before its referee, and what a worker has come to by now.       *)
Usual == [fact \in Facts |-> "usual"]
Judging == {"read", "profile", "trace", "judged"}
Settled == pc \in Judging /\ exit = "0"

HasManifest == pc \in {"fixture", "compile", "runtime", "initial", "simulate", "result", "checksums"} \/ Settled
HasXml == pc \in {"compile", "runtime", "initial", "simulate", "result", "checksums"} \/ Settled
HasModel == pc \in {"runtime", "initial", "simulate", "result", "checksums"} \/ Settled
HasRuntime == pc \in {"initial", "simulate", "result", "checksums"} \/ Settled
HasContacts == pc \in {"simulate", "result", "checksums"} \/ Settled
HasTrace == pc \in {"result", "checksums"} \/ Settled
HasResult == pc = "checksums" \/ Settled

(* The inputs are the declared ones, the environment is the usual one.             *)
QuietInputs ==
  /\ {"manifest", "fixture", "xml", "workload", "version"} \subseteq DOMAIN config
  /\ manifest \in Manifests /\ config.manifest = manifest
  /\ xml = DeclaredXml /\ config.xml = xml
  /\ config.fixture = Fixture(manifest, FixtureId) /\ config.workload = WorkloadIdentity(config.fixture)
  /\ config.version = ReleasedVersion
  /\ live = Usual

(* So is the one the collector measured, and its document passed the preflight.     *)
QuietProfile ==
  /\ pc \notin {"collect", "stopped"} => gathered.facts = Of(IdentityFacts, Usual)
  /\ pc \notin Before => identity = config.identity /\ LoadNativeProfileIdentity(identity, route, Role(route))

(* Whatever the worker has come to, its members hold; its weather was calm.         *)
QuietWorker ==
  /\ exit = "0" => pc \in Judging
  /\ HasManifest => own.manifest = manifest /\ members["input_manifest.json"] = manifest
  /\ HasXml => own.xml = xml /\ AdmitSelfContainedXml(xml) /\ members["fixture.xml"] = xml
  /\ HasModel => members["model.mjb"] = CompiledMjb(xml, dt)
  /\ HasRuntime =>
       /\ own.measured = Usual
       /\ own.runtime.external = identity \/ (route = 1 /\ own.runtime.external = NoIdentity)
  /\ HasContacts =>
       /\ own.gates = CalmGates /\ Paired(own.contact, dt)
       /\ Observed(own.rows, own.samples, own.contact, history, dt)
  /\ HasTrace => members["trace.npz"] = OwnArrays /\ Len(own.samples) = ObservationCount(OwnFixture)
  /\ HasResult => members["result.json"] = OwnResult
  /\ Settled => members["CHECKSUMS.sha256"] = [name \in Checksummed |-> members[name]]

(* What the property asks of a cell: its identity is there, its contacts begin after *)
(* time zero, and its numbers are written in ordinary notation.                    *)
Admissible == own.runtime.external # NoIdentity /\ ~history[1].occupied /\ Ordinary /\ FewChannels

(* The referee finds these members, and has no objection to what is in them.        *)
QuietVerdict ==
  /\ pc \in {"profile", "trace"} /\ Settled => seen = members
  /\ pc = "judged" /\ Settled /\ Admissible => Admitted

Quiet == QuietInputs /\ QuietProfile /\ QuietWorker /\ QuietVerdict

--------------------------------------------------------------------------------
(* What the referee finds of such a cell *)

LEMMA ManifestsAre ==
  ASSUME NEW m \in Manifests, LoadManifest(m, FixtureId)
  PROVE  /\ m \notin {Absent, Partial} /\ SelectManifestFixture(m, FixtureId) /\ m.supported
         /\ Fixture(m, FixtureId).fixture_id = FixtureId
         /\ ParseFixture(Fixture(m, FixtureId)) /\ IsFixture(Fixture(m, FixtureId))
         /\ Fixture(m, FixtureId).contact_pairs = <<Fixture(m, FixtureId).contact_pairs[1]>>
<1> DEFINE f == Fixture(m, FixtureId)
<1>1. DOMAIN m = {"supported", "fixtures"}
  BY DocumentsAssumption
<1>2. m # Absent /\ m # Partial
  <2>1. DOMAIN Absent = {"file"} /\ DOMAIN Partial = {"file"}
    BY DEF Absent, Partial
  <2>2. QED
    BY <1>1, <2>1
<1>3. f \in Elements(m.fixtures) /\ f.fixture_id = FixtureId
  <2>1. \E g \in Elements(m.fixtures) : g.fixture_id = FixtureId
    BY DEF LoadManifest
  <2>2. QED
    BY <2>1 DEF Fixture
<1> HIDE DEF f
<1>4. ParseFixture(f)
  BY <1>3 DEF LoadManifest
<1>5. IsFixture(f) /\ f.contact_pairs = <<f.contact_pairs[1]>>
  BY <1>3, DocumentsAssumption
<1>6. m.supported /\ SelectManifestFixture(m, FixtureId)
  BY DEF LoadManifest, SelectManifestFixture
<1>7. QED
  BY <1>2, <1>3, <1>4, <1>5, <1>6 DEF f

(* By then the worker has completed, and what it ran is what was declared.          *)
LEMMA SettledIs ==
  ASSUME IInv, Quiet, Settled
  PROVE  /\ Complete /\ dt \in Nat \ {0} /\ OwnFixture = config.fixture
         /\ OwnFixture.fixture_id = FixtureId /\ ParseFixture(OwnFixture) /\ IsFixture(OwnFixture)
         /\ OwnFixture.contact_pairs = <<OwnPair>> /\ LoadManifest(manifest, FixtureId)
<1>1. members["result.json"] = OwnResult
  BY DEF Quiet, QuietWorker, HasResult
<1>2. ~Forged(OwnResult)
  <2>1. OwnResult.status = "COMPLETED" /\ DOMAIN OwnResult # {"file"}
    BY DEF OwnResult, CompletedResult
  <2>2. DOMAIN Absent = {"file"} /\ DOMAIN Partial = {"file"}
    BY DEF Absent, Partial
  <2>3. QED
    BY <2>1, <2>2 DEF Forged
<1>3. Complete
  BY <1>1, <1>2 DEF IInv, ResultInv
<1>4. Loaded
  BY <1>3 DEF Complete, Simulated
<1>5. own.manifest = manifest /\ manifest \in Manifests /\ config.fixture = Fixture(manifest, FixtureId)
  BY DEF Quiet, QuietWorker, QuietInputs, HasManifest
<1>6. OwnFixture = Fixture(manifest, FixtureId) /\ LoadManifest(manifest, FixtureId)
  BY <1>4, <1>5 DEF OwnFixture, Loaded
<1>7. dt \in Nat \ {0}
  BY <1>4, LoadedFixture
<1>8. /\ OwnFixture.fixture_id = FixtureId /\ ParseFixture(OwnFixture) /\ IsFixture(OwnFixture)
      /\ OwnFixture.contact_pairs = <<OwnFixture.contact_pairs[1]>>
  BY <1>5, <1>6, ManifestsAre
<1>9. QED
  BY <1>3, <1>5, <1>6, <1>7, <1>8 DEF OwnPair

LEMMA RuntimeIs ==
  ASSUME IInv, Quiet, Settled
  PROVE  /\ own.runtime = RuntimeIdentity(route, Role(route), own.runtime.external, Usual)
         /\ own.runtime.profile_role = Role(route) /\ own.runtime.facts = Of(RuntimeFacts, Usual)
         /\ own.runtime.facts.version = ReleasedVersion
         /\ route = 2 => own.runtime.external = config.identity
<1>1. Bound
  BY SettledIs DEF Complete, Simulated
<1>2. /\ own.measured = Usual
      /\ own.runtime.external = identity \/ (route = 1 /\ own.runtime.external = NoIdentity)
      /\ identity = config.identity
  BY DEF Quiet, QuietWorker, QuietProfile, HasRuntime, Settled, Judging, Before
<1>3. own.runtime = RuntimeIdentity(route, Role(route), own.runtime.external, Usual)
  BY <1>1, <1>2 DEF Bound
<1> DEFINE e == own.runtime.external
<1>4. own.runtime = RuntimeIdentity(route, Role(route), e, Usual)
  BY <1>3
<1> HIDE DEF e
<1>5. Usual.version = "usual" /\ Of(RuntimeFacts, Usual).version = "usual"
  BY DEF Usual, Facts, Of, RuntimeFacts
<1>6. own.runtime.profile_role = Role(route) /\ own.runtime.facts = Of(RuntimeFacts, Usual)
  BY <1>4, <1>5 DEF RuntimeIdentity, Role, ReleasedVersion
<1>7. QED
  BY <1>2, <1>3, <1>5, <1>6 DEF ReleasedVersion

LEMMA BytesAreAdmitted ==
  ASSUME IInv, Quiet, Settled
  PROVE  ReadVerifiedMembers(members) /\ AdmitBytes(config, members)
<1> DEFINE f == OwnFixture
           result == OwnResult
<1>1. /\ members["input_manifest.json"] = manifest /\ own.manifest = manifest /\ manifest \in Manifests
      /\ members["fixture.xml"] = xml /\ own.xml = xml /\ xml = DeclaredXml /\ config.xml = xml
      /\ AdmitSelfContainedXml(xml)
      /\ members["model.mjb"] = CompiledMjb(xml, dt) /\ members["trace.npz"] = OwnArrays
      /\ members["result.json"] = result
      /\ members["CHECKSUMS.sha256"] = [name \in Checksummed |-> members[name]]
  BY DEF Quiet, QuietWorker, QuietInputs, HasManifest, HasXml, HasModel, HasTrace, HasResult
<1>2. /\ f = config.fixture /\ f.fixture_id = FixtureId /\ ParseFixture(f) /\ IsFixture(f)
      /\ LoadManifest(manifest, FixtureId)
  BY SettledIs
<1>3. /\ manifest \notin {Absent, Partial} /\ SelectManifestFixture(manifest, FixtureId) /\ manifest.supported
  BY <1>1, <1>2, ManifestsAre
<1>4. /\ result.status = "COMPLETED" /\ result.fixture_id = f.fixture_id
      /\ result.schema_version = route /\ result.step_dt = dt
      /\ result.manifest_raw = own.manifest /\ result.manifest_echo = own.manifest
      /\ result.subject = SubjectIdentity(f, own.xml, CompiledMjb(own.xml, dt))
      /\ result.workload = WorkloadIdentity(f)
      /\ result.profile = [role |-> own.runtime.profile_role, version |-> own.runtime.facts.version,
                           identity |-> own.runtime.external, sentinel |-> own.runtime.sentinel]
      /\ "status" \in DOMAIN result
  BY DEF OwnResult, CompletedResult
<1> HIDE DEF f, result
<1>5. /\ result # Absent /\ result # Partial /\ manifest # Absent /\ xml # Absent
      /\ CompiledMjb(xml, dt) # Absent /\ OwnArrays # Absent
      /\ [name \in Checksummed |-> members[name]] # Absent
  <2>1. DOMAIN Absent = {"file"} /\ DOMAIN Partial = {"file"}
    BY DEF Absent, Partial
  <2>2. result # Absent /\ result # Partial
    BY <1>4, <2>1
  <2>3. "self_contained" \in DOMAIN xml
    BY <1>1, DocumentsAssumption DEF DeclaredXml
  <2>4. xml # Absent
    BY <2>1, <2>3
  <2>5. "model" \in DOMAIN CompiledMjb(xml, dt)
    BY DEF CompiledMjb
  <2>6. "times" \in DOMAIN OwnArrays
    BY DEF OwnArrays, TraceArrays
  <2>7. CompiledMjb(xml, dt) # Absent /\ OwnArrays # Absent
    BY <2>1, <2>5, <2>6
  <2>8. [name \in Checksummed |-> members[name]] # Absent
    BY <2>1 DEF Checksummed
  <2>9. QED
    BY <1>3, <2>2, <2>4, <2>7, <2>8
<1>6. ReadVerifiedMembers(members)
  BY <1>1, <1>5 DEF ReadVerifiedMembers, Members, Checksummed
<1>7. Parses(result) /\ Parses(manifest)
  BY <1>3, <1>5 DEF Parses
<1>8. ValidateResultRoot(config, result, members)
  <2>1. config.route = route /\ config.role = Role(route) /\ config.dt = dt /\ config.version = ReleasedVersion
    BY DEF IInv, FormInv, Quiet, QuietInputs
  <2>2. /\ own.runtime.profile_role = Role(route) /\ own.runtime.facts.version = ReleasedVersion
        /\ route = 2 => own.runtime.external = config.identity
    BY RuntimeIs
  <2>3. ValidateConfiguredResultProfile(config, result)
    BY <1>4, <2>1, <2>2 DEF ValidateConfiguredResultProfile
  <2>4. QED
    BY <1>1, <1>3, <1>4, <2>1, <2>3 DEF ValidateResultRoot
<1>9. Fixture(manifest, result.fixture_id) = f /\ result.fixture_id = FixtureId
  BY <1>1, <1>2, <1>4 DEF f, OwnFixture
<1>10. ValidateFixtureContract(f)
  BY <1>2, ParsedIsAdmitted
<1>11. AdmitSubject(config, result.subject, f, members)
  BY <1>1, <1>2, <1>4 DEF AdmitSubject, SubjectIdentity, ValidateSourceClosure, SourceIdentity, AdmitSelfContainedXml
<1>12. AdmitWorkload(config, result.workload, f)
  <2>1. config.workload = WorkloadIdentity(f)
    BY <1>2 DEF Quiet, QuietInputs
  <2>2. QED
    BY <1>4, <2>1 DEF AdmitWorkload, WorkloadIdentity, ValidateInitialState, ValidateActionProgram
<1>13. AdmitBytes(config, members)
  BY <1>1, <1>3, <1>4, <1>7, <1>8, <1>9, <1>10, <1>11, <1>12 DEF AdmitBytes
<1>14. QED
  BY <1>6, <1>13

(* The record of an ordinary package is counted the same way twice.                 *)
LEMMA UsualDistribution == ValidateDistribution(DistributionPayload("usual"))
<1> DEFINE first == Entry("sha256", FALSE, TRUE)
           second == Entry("none", FALSE, TRUE)
           record == <<first, second>>
           declared == {i \in DOMAIN record : record[i].mode = "sha256"}
           bound == {i \in declared : ~record[i].outside}
           d == DistributionPayload("usual")
<1>1. Record("usual") = record
  BY DEF Record
<1>2. first.mode = "sha256" /\ second.mode = "none" /\ ~first.outside
  BY DEF Entry
<1>3. DOMAIN record = {1, 2} /\ record[1] = first /\ record[2] = second /\ Len(record) = 2 /\ record # <<>>
  OBVIOUS
<1> HIDE DEF first, second, record
<1>4. declared = {1} /\ bound = {1}
  <2>1. declared = {1}
    BY <1>2, <1>3
  <2> HIDE DEF declared
  <2>2. bound = {1}
    BY <2>1, <1>2, <1>3
  <2>3. QED
    BY <2>1, <2>2
<1>5. Cardinality({1}) = 1
  BY FS_Singleton
<1>6. d = [members |-> record, count |-> 2, bound |-> 1, declared |-> 1, unhashed |-> 1]
  <2>1. d = [members |-> record, count |-> Len(record), bound |-> Cardinality(bound),
             declared |-> Cardinality(declared), unhashed |-> Len(record) - Cardinality(declared)]
    BY <1>1 DEF DistributionPayload
  <2> HIDE DEF d, declared, bound
  <2>2. QED
    BY <2>1, <1>3, <1>4, <1>5
<1>7. /\ d.members = record /\ d.count = 2 /\ d.bound = 1 /\ d.declared = 1 /\ d.unhashed = 1
  BY <1>6
<1> HIDE DEF d
<1>8. \A e \in Elements(record) : e.mode \in {"none", "sha256"}
  BY <1>2, <1>3 DEF Elements
<1>9. Cardinality(declared) = 1 /\ Cardinality(bound) = 1
  BY <1>4, <1>5
<1>10. ValidateDistribution(d)
  BY <1>3, <1>7, <1>8, <1>9 DEF ValidateDistribution
<1>11. QED
  BY <1>10 DEF d

(* The referee admits the usual environment, and finds it in the retained identity.  *)
LEMMA ProfileIsAdmitted ==
  ASSUME IInv, Quiet, Settled, trouble = "none", own.runtime.external # NoIdentity
  PROVE  AdmitProfile(config, OwnResult, identity)
<1> DEFINE r == own.runtime
           e == own.runtime.external
<1>1. /\ r = RuntimeIdentity(route, Role(route), e, Usual)
      /\ r.profile_role = Role(route) /\ r.facts = Of(RuntimeFacts, Usual)
      /\ r.facts.version = ReleasedVersion /\ (route = 2 => e = config.identity)
  BY RuntimeIs
<1>2. /\ config.route = route /\ config.role = Role(route) /\ config.version = ReleasedVersion /\ route \in {1, 2}
      /\ identity = config.identity /\ LoadNativeProfileIdentity(identity, route, Role(route))
  BY DEF IInv, FormInv, Quiet, QuietInputs, QuietProfile, Settled, Judging, Before, Routes
<1>3. OwnResult.runtime = r /\ OwnResult.schema_version = route
      /\ OwnResult.profile = [role |-> r.profile_role, version |-> r.facts.version,
                              identity |-> r.external, sentinel |-> r.sentinel]
  BY DEF OwnResult, CompletedResult
<1>4. ValidateResultProfileIdentity(OwnResult)
  BY <1>3 DEF ValidateResultProfileIdentity
<1>5. \A fact \in RuntimeFacts : r.facts[fact] = "usual"
  BY <1>1 DEF Of, Usual, RuntimeFacts, Facts
<1> HIDE DEF r, e
<1>6. ValidateRuntimeFacts(r)
  <2>1. /\ r.facts.python = "usual" /\ r.facts.host = "usual" /\ r.facts.machine = "usual"
        /\ r.facts.environment = "usual" /\ r.facts.version = "usual" /\ r.facts.mujoco = "usual"
        /\ r.facts.numpy = "usual" /\ r.facts.pip = "usual"
    BY <1>5 DEF RuntimeFacts
  <2>2. QED
    BY <2>1, UsualDistribution DEF ValidateRuntimeFacts, ValidateRuntimePython, ValidateRuntimeHost,
       ValidateRuntimeMujoco, ValidateRuntimeNumpy, ValidatePipCheck
<1>7. r.schema = route /\ r.sealed /\ r.external = e
      /\ (route = 2 => r.worker = e.worker /\ r.sentinel = e.sentinel)
      /\ (e # NoIdentity => r.installation = e.facts.installation)
  BY <1>1 DEF RuntimeIdentity
<1>8. AdmitRuntime(config, r, identity)
  <2>1. CASE route = 1
    BY <1>1, <1>2, <1>6, <1>7, <2>1 DEF AdmitRuntime, AdmitRuntimeV1, e
  <2>2. CASE route = 2
    <3>1. e = identity /\ identity = config.identity /\ e # NoIdentity
      BY <1>1, <1>2, <2>2 DEF e
    <3>2. ValidateProfileIdentityV2(e, Role(route), TRUE)
      BY <1>2, <2>2, <3>1 DEF LoadNativeProfileIdentity
    <3>3. /\ e.profile_role = Role(route) /\ e.worker = FrozenWorker /\ e.facts.installation # "bad"
          /\ e.sentinel.status = "PASS"
      BY <3>2 DEF ValidateProfileIdentityV2, ValidateProfileContractV2, ValidateInstallationV2, ValidateSentinel
    <3>4. Agree(BoundFacts, gathered.facts, e.facts)
      <4>1. pc \notin Collecting \union {"stopped"}
        BY DEF Settled, Judging, Collecting
      <4>2. Fits(identity)
        BY <2>2, <3>1, <4>1 DEF IInv, ProfileInv
      <4>3. QED
        BY <3>1, <4>2 DEF Fits
    <3>5. gathered.facts = Of(IdentityFacts, Usual)
      BY DEF Quiet, QuietProfile, Settled, Judging
    <3>6. Agree(RuntimeFacts, r.facts, e.facts)
      <4>1. ASSUME NEW fact \in RuntimeFacts PROVE r.facts[fact] = e.facts[fact]
        <5>1. gathered.facts[fact] = e.facts[fact]
          BY <3>4 DEF Agree, BoundFacts
        <5>2. fact \in IdentityFacts /\ fact \in Facts
          BY DEF IdentityFacts, RuntimeFacts, Facts
        <5>3. gathered.facts[fact] = "usual"
          BY <3>5, <5>2 DEF Of, Usual
        <5>4. QED
          BY <5>1, <5>3, <1>5
      <4>2. QED
        BY <4>1 DEF Agree
    <3>7. BindRuntimeToProfileIdentityV2(r, identity)
      BY <1>1, <1>7, <2>2, <3>1, <3>3, <3>6 DEF BindRuntimeToProfileIdentityV2
    <3>8. LoadNativeProfileIdentity(identity, 2, config.role)
      BY <1>2, <2>2
    <3>9. AdmitRuntimeV2(config, r, identity)
      BY <1>1, <1>2, <1>6, <1>7, <2>2, <3>1, <3>3, <3>7, <3>8 DEF AdmitRuntimeV2, ValidateRuntimeInstallation
    <3>10. QED
      BY <1>2, <2>2, <3>9 DEF AdmitRuntime
  <2>3. QED
    BY <1>2, <2>1, <2>2
<1>9. QED
  BY <1>3, <1>4, <1>8 DEF AdmitProfile

(* By the end of the horizon the clock has ticked as often as the referee expects.   *)
LEMMA ClockIs ==
  ASSUME NEW f, ParseFixture(f)
  PROVE  /\ ObservationTimes(f) = ExpectedClock /\ ObservationCount(f) = Horizon \div ControlDt + 1
         /\ ObservationCount(f) \in Nat \ {0} /\ Len(ExpectedClock) = ObservationCount(f)
         /\ Horizon % ControlDt = 0 /\ f.horizon = Horizon /\ f.control_dt = ControlDt
         /\ \A step \in Elements(f.step_dts) : ControlDt % step = 0
<1>1. f.horizon = Horizon /\ f.control_dt = ControlDt
  BY DEF ParseFixture, FixedPhysicalContract
<1>2. ObservationCount(f) = Horizon \div ControlDt + 1
  BY <1>1 DEF ObservationCount
<1>3. Horizon \div ControlDt \in Nat
  BY GridAssumption
<1>4. ObservationTimes(f) = ExpectedClock
  BY <1>1, <1>2 DEF ObservationTimes, ExpectedClock
<1>5. Len(ExpectedClock) = Horizon \div ControlDt + 1
  BY <1>3 DEF ExpectedClock
<1>6. Horizon % ControlDt = 0 /\ \A step \in Elements(f.step_dts) : ControlDt % step = 0
  BY <1>1 DEF ParseFixture, ControlGrid, Divides
<1>7. QED
  BY <1>1, <1>2, <1>3, <1>4, <1>5, <1>6

LEMMA ContactsAre ==
  ASSUME IInv, Quiet, Settled, Admissible
  PROVE  /\ OwnContacts = <<FinalizeContacts(OwnPair, own.contact, dt)>>
         /\ AdmitContact(OwnContacts[1], dt) /\ Happened(own.contact, history, dt)
         /\ Now(history, dt) = Horizon /\ own.gates = CalmGates
         /\ Observed(own.rows, own.samples, own.contact, history, dt)
         /\ Len(own.samples) = ObservationCount(OwnFixture) /\ OrdinaryNotation(0)
<1>1. /\ Complete /\ dt \in Nat \ {0} /\ ParseFixture(OwnFixture) /\ OwnFixture.contact_pairs = <<OwnPair>>
  BY SettledIs
<1>2. /\ own.gates = CalmGates /\ Paired(own.contact, dt)
      /\ Observed(own.rows, own.samples, own.contact, history, dt)
      /\ Len(own.samples) = ObservationCount(OwnFixture)
  BY DEF Quiet, QuietWorker, HasContacts, HasTrace
<1>3. Traced(own.contact, history, dt) /\ EveryEpisodeEnds(own.contact) /\ Now(history, dt) = Horizon
  <2>1. OwnFixture.horizon = Horizon
    BY <1>1, ClockIs
  <2>2. QED
    BY <1>1, <2>1 DEF Complete, Simulated
<1>4. ParseContactPair(OwnPair)
  <2>1. OwnPair \in Elements(OwnFixture.contact_pairs)
    BY <1>1 DEF Elements
  <2>2. QED
    BY <1>1, <2>1 DEF ParseFixture
<1>5. OrdinaryNotation(own.contact.impulse) /\ ~history[1].occupied /\ OrdinaryNotation(0)
  <2>1. CalmGates.residual = 0
    BY DEF CalmGates, InitialGates, Calm
  <2>2. QED
    BY <1>2, <2>1 DEF Admissible, Ordinary
<1>6. AdmitContact(FinalizeContacts(OwnPair, own.contact, dt), dt) /\ Happened(own.contact, history, dt)
  BY <1>1, <1>2, <1>3, <1>4, <1>5, ContactIsAdmitted
<1>7. QED
  BY <1>2, <1>3, <1>5, <1>6 DEF OwnContacts

LEMMA MetadataIsAdmitted ==
  ASSUME IInv, Quiet, Settled, Admissible
  PROVE  AdmitTraceMetadata(config, OwnResult.trace, OwnResult.contacts, OwnFixture)
<1> DEFINE f == OwnFixture
           contact == FinalizeContacts(OwnPair, own.contact, dt)
<1>1. ParseFixture(f) /\ f.contact_pairs = <<OwnPair>>
  BY SettledIs
<1>2. OwnContacts = <<contact>> /\ AdmitContact(contact, dt)
  BY ContactsAre
<1>3. /\ OwnResult.contacts = OwnContacts /\ OwnResult.trace.tokens = ObservationTimes(f)
      /\ OwnResult.trace.count = ObservationCount(f) /\ OwnResult.trace.channels = Descriptors(f)
  BY DEF OwnResult, CompletedResult, TraceIdentity
<1>4. contact.channel_id = OwnPair.channel_id /\ contact.geoms = Geoms(OwnPair)
  BY DEF FinalizeContacts
<1> HIDE DEF f, contact
<1>5. Elements(<<contact>>) = {contact} /\ Elements(f.contact_pairs) = {OwnPair} /\ DOMAIN <<contact>> = {1}
  BY <1>1 DEF Elements
<1>6. AdmitContacts(<<contact>>, dt)
  BY <1>2, <1>5 DEF AdmitContacts, AllDifferent
<1>7. Descriptors(f) # {} /\ Cardinality(Descriptors(f)) <= MaxTraceChannels
  <2>1. ContactDescriptor(OwnPair, "occupancy") \in Descriptors(f)
    BY <1>5 DEF Descriptors, Suffixes
  <2>2. Cardinality(Descriptors(f)) <= MaxTraceChannels
    BY DEF f, Admissible, FewChannels
  <2>3. QED
    BY <2>1, <2>2
<1>8. Descriptors(f) = ManifestLayout(f) /\ \A d \in Descriptors(f) : AdmitChannelDescriptor(d)
  BY <1>1, TraceHasTheLayout, DescriptorsAreAdmitted
<1>9. ValidateLayoutAgainstManifest(Descriptors(f), <<contact>>, f)
  BY <1>4, <1>5, <1>8 DEF ValidateLayoutAgainstManifest
<1>10. ValidateObservationClock(ObservationTimes(f), ObservationCount(f)) /\ ObservationCount(f) >= 1
  BY <1>1, ClockIs DEF ValidateObservationClock
<1>11. config.dt = dt
  BY DEF IInv, FormInv
<1>12. QED
  BY <1>2, <1>3, <1>6, <1>7, <1>8, <1>9, <1>10, <1>11 DEF AdmitTraceMetadata, f

(* Beside its repeat and the other role's cell it is one of a kind.                 *)
LEMMA OthersAgree ==
  ASSUME IInv, Quiet, Settled
  PROVE  CellAmongOthers(AdmittedEvidenceCell(OwnResult))
<1> DEFINE f == OwnFixture
           r == own.runtime
           role == Role(route)
           cell == AdmittedEvidenceCell(OwnResult)
           repeat == Peer(cell, role, r)
           other == Peer(cell, "candidate", r)
           fields == {"fixture_id", "subject", "workload", "layout", "clock"}
<1>1. /\ f = config.fixture /\ f.fixture_id = FixtureId /\ ParseFixture(f)
  BY SettledIs
<1>2. own.xml = config.xml
  BY DEF Quiet, QuietWorker, QuietInputs, HasXml
<1>3. config.workload = WorkloadIdentity(f)
  BY <1>1 DEF Quiet, QuietInputs
<1>4. ManifestLayout(f) = Descriptors(f) /\ ObservationTimes(f) = ExpectedClock
  BY <1>1, TraceHasTheLayout, ClockIs
<1>5. cell = [fixture_id |-> f.fixture_id, role |-> r.profile_role,
              subject |-> SubjectIdentity(f, own.xml, CompiledMjb(own.xml, dt)),
              workload |-> WorkloadIdentity(f), runtime |-> r, layout |-> Descriptors(f),
              clock |-> ObservationTimes(f), contacts |-> OwnContacts,
              diagnostics |-> Diagnostics(own.gates, own.samples)]
  BY DEF AdmittedEvidenceCell, OwnResult, CompletedResult, TraceIdentity
<1>6. /\ r = RuntimeIdentity(route, role, r.external, Usual) /\ r.profile_role = role
  BY RuntimeIs
<1>7. [r EXCEPT !.profile_role = role] = r /\ [r EXCEPT !.profile_role = "candidate"].facts = r.facts
  <2> DEFINE t == RuntimeIdentity(route, role, r.external, Usual)
  <2>1. [t EXCEPT !.profile_role = t.profile_role] = t /\ [t EXCEPT !.profile_role = "candidate"].facts = t.facts
    BY DEF RuntimeIdentity
  <2> HIDE DEF t
  <2>2. t = r
    BY <1>6 DEF t
  <2>3. QED
    BY <1>6, <2>1, <2>2
<1>8. role # "candidate"
  BY DEF Role, ReleasedVersion
<1> HIDE DEF f, r, role
<1>9. /\ cell.fixture_id = f.fixture_id /\ cell.role = role /\ cell.runtime = r
      /\ cell.subject = SubjectIdentity(f, own.xml, CompiledMjb(own.xml, dt))
      /\ cell.workload = WorkloadIdentity(f) /\ cell.layout = Descriptors(f) /\ cell.clock = ObservationTimes(f)
  BY <1>5, <1>6
<1>10. ASSUME NEW another
       PROVE  /\ Peer(cell, another, r).fixture_id = cell.fixture_id /\ Peer(cell, another, r).role = another
              /\ Peer(cell, another, r).subject = cell.subject /\ Peer(cell, another, r).workload = cell.workload
              /\ Peer(cell, another, r).layout = cell.layout /\ Peer(cell, another, r).clock = cell.clock
              /\ Peer(cell, another, r).runtime = [r EXCEPT !.profile_role = another]
  BY <1>1, <1>2, <1>3, <1>4, <1>5, <1>9 DEF Peer
<1> HIDE DEF cell
<1>11. \A c \in {cell, repeat, other} :
         /\ c.fixture_id = cell.fixture_id /\ c.subject = cell.subject /\ c.workload = cell.workload
         /\ c.layout = cell.layout /\ c.clock = cell.clock
  <2>1. /\ repeat.fixture_id = cell.fixture_id /\ repeat.subject = cell.subject /\ repeat.workload = cell.workload
        /\ repeat.layout = cell.layout /\ repeat.clock = cell.clock
    BY <1>10
  <2>2. /\ other.fixture_id = cell.fixture_id /\ other.subject = cell.subject /\ other.workload = cell.workload
        /\ other.layout = cell.layout /\ other.clock = cell.clock
    BY <1>10
  <2> HIDE DEF repeat, other
  <2>3. QED
    BY <2>1, <2>2
<1>12. repeat.role = role /\ repeat.runtime = r /\ other.role = "candidate" /\ other.runtime.facts = r.facts
  BY <1>7, <1>10
<1> HIDE DEF repeat, other
<1>13. \A a, b \in {cell, repeat, other} :
         /\ a.role = b.role => a.runtime = b.runtime
         /\ CommonRuntimeProjection(a.runtime) = CommonRuntimeProjection(b.runtime)
  BY <1>8, <1>9, <1>12 DEF CommonRuntimeProjection
<1>14. BindCrossCellEvidence(config, {cell, repeat, other})
  BY <1>1, <1>9, <1>11, <1>13 DEF BindCrossCellEvidence
<1>15. QED
  BY <1>9, <1>14 DEF CellAmongOthers, cell, repeat, other, role, r

(* Every row of its trace is what its contacts say of that time.                    *)
LEMMA TraceIsAdmitted ==
  ASSUME IInv, Quiet, Settled, Admissible, seen = members
  PROVE  /\ AdmitTraceArrays(OwnResult.trace, OwnResult.contacts, members["trace.npz"], seen)
         /\ AdmitDiagnostics(OwnResult.diagnostics, OwnResult.trace.tokens)
<1> DEFINE f == OwnFixture
           contact == FinalizeContacts(OwnPair, own.contact, dt)
           arrays == OwnArrays
           n == ObservationCount(f)
<1>1. /\ dt \in Nat \ {0} /\ ParseFixture(f)
  BY SettledIs
<1>2. /\ OwnContacts = <<contact>> /\ Happened(own.contact, history, dt)
      /\ Now(history, dt) = Horizon /\ own.gates = CalmGates
      /\ Observed(own.rows, own.samples, own.contact, history, dt)
      /\ Len(own.samples) = n /\ OrdinaryNotation(0)
  BY ContactsAre
<1>3. members["trace.npz"] = arrays
  BY DEF Quiet, QuietWorker, HasTrace
<1>4. /\ OwnResult.contacts = OwnContacts /\ OwnResult.trace.tokens = ObservationTimes(f)
      /\ OwnResult.trace.count = n /\ OwnResult.trace.channels = Descriptors(f)
      /\ OwnResult.trace.canonical_sha = <<arrays, Descriptors(f), OwnContacts>>
      /\ OwnResult.diagnostics = Diagnostics(own.gates, own.samples)
  BY DEF OwnResult, CompletedResult, TraceIdentity
<1>5. /\ ObservationTimes(f) = ExpectedClock /\ n = Horizon \div ControlDt + 1 /\ n \in Nat \ {0}
      /\ Horizon % ControlDt = 0 /\ f.control_dt = ControlDt
  BY <1>1, ClockIs
<1>6. ObservationTimes(f) = [i \in 1..n |-> ControlDt * (i - 1)]
  BY <1>5 DEF ObservationTimes
<1>7. arrays.times = ObservationTimes(f) /\ arrays.rows = own.rows /\ "times" \in DOMAIN arrays
  BY DEF OwnArrays, TraceArrays
<1>8. contact.segments = own.contact.segments /\ contact.aggregate_normal_impulse = own.contact.impulse
  BY DEF FinalizeContacts
<1>9. Parses(arrays)
  <2>1. DOMAIN Absent = {"file"} /\ DOMAIN Partial = {"file"}
    BY DEF Absent, Partial
  <2>2. QED
    BY <1>7, <2>1 DEF Parses
<1>10. history \in Seq(Touching)
  BY SettledIs DEF Complete, Simulated, Traced
<1> HIDE DEF f, contact, arrays, n
<1>11. Len(own.rows) = n
  BY <1>2 DEF Observed
<1>12. arrays.times = [i \in 1..Len(own.rows) |-> ControlDt * (i - 1)]
  BY <1>6, <1>7, <1>11
<1>13. ValidateContactTraceSemantics(arrays, <<contact>>) /\ CopyChannelArray(arrays, n)
  <2>1. Len(own.rows) = Horizon \div ControlDt + 1
    BY <1>5, <1>11
  <2>2. ValidateContactTraceSemantics(arrays, <<contact>>)
    BY <1>1, <1>2, <1>5, <1>7, <1>8, <1>10, <1>12, <2>1, TraceMeansIt
  <2>3. CopyChannelArray(arrays, Len(own.rows))
    BY <1>1, <1>2, <1>5, <1>7, <1>8, <1>10, <1>12, <2>1, TraceMeansIt
  <2>4. QED
    BY <1>11, <2>2, <2>3
<1>14. AdmitTraceArrays(OwnResult.trace, OwnResult.contacts, members["trace.npz"], seen)
  BY <1>2, <1>3, <1>4, <1>7, <1>9, <1>13
     DEF AdmitTraceArrays, LoadNpzArrays, AdmitObservationTimeArray, CanonicalTraceSha
<1>15. AdmitDiagnostics(Diagnostics(CalmGates, own.samples), ObservationTimes(f))
  <2>1. /\ own.samples \in Seq({DiagnosticValues(CalmGates, time) : time \in Nat}) /\ Len(own.samples) = n
        /\ \A i \in 1..n : own.samples[i] = DiagnosticValues(CalmGates, ControlDt * (i - 1))
    BY <1>2 DEF Observed
  <2>2. QED
    BY <1>2, <1>5, <1>6, <2>1, CalmIsAdmitted
<1>16. QED
  BY <1>2, <1>4, <1>14, <1>15

--------------------------------------------------------------------------------
(* Every undisturbed step leaves the cell undisturbed *)

(* The second inductive invariant: it speaks of the cells without trouble only.     *)
QInv == trouble = "none" => Quiet

LEMMA QuietAtFirst == Init => QInv
<1> SUFFICES ASSUME Init PROVE Quiet
  BY DEF QInv
<1>1. /\ pc = "collect" /\ exit = "running" /\ manifest \in Manifests /\ xml = DeclaredXml
      /\ live = [fact \in Facts |-> "usual"] /\ config = Declared(manifest)
  BY DEF Init
<1>2. QuietInputs
  BY <1>1 DEF QuietInputs, Declared, Usual
<1>3. QuietProfile
  BY <1>1 DEF QuietProfile, Before
<1>4. QuietWorker /\ QuietVerdict
  BY <1>1 DEF QuietWorker, QuietVerdict, HasManifest, HasXml, HasModel, HasRuntime, HasContacts, HasTrace,
     HasResult, Settled
<1>5. QED
  BY <1>2, <1>3, <1>4 DEF Quiet

(* Before its worker is started, or when that has refused, nothing is promised.     *)
LEMMA NothingPromised ==
  ASSUME Quiet, pc \notin Judging, UNCHANGED exit, pc' \in Before \union {"load", "refusing"}
  PROVE  QuietWorker' /\ QuietVerdict'
<1>1. exit' # "0"
  BY DEF Quiet, QuietWorker
<1>2. QED
  BY <1>1 DEF QuietWorker, QuietVerdict, HasManifest, HasXml, HasModel, HasRuntime, HasContacts, HasTrace,
     HasResult, Settled, Before, Judging

LEMMA CollectingQuiet ==
  ASSUME Quiet, Collects, pc \in Before, pc' \in Before,
         pc' \notin {"collect", "stopped"} => gathered'.facts = Of(IdentityFacts, Usual)
  PROVE  Quiet'
<1>1. QuietInputs'
  BY DEF Quiet, QuietInputs, Collects
<1>2. QuietProfile'
  BY DEF QuietProfile
<1>3. QuietWorker' /\ QuietVerdict'
  BY NothingPromised DEF Collects, Before, Judging
<1>4. QED
  BY <1>1, <1>2, <1>3 DEF Quiet

LEMMA MeasureProfileQuiet == ASSUME IInv, Quiet, MeasureProfile PROVE Quiet'
<1>1. pc = "collect" /\ Collects /\ pc' \in {"sentinel", "smoke", "stopped"}
  BY DEF MeasureProfile, CollectorRefuses
<1>2. pc' # "stopped" => gathered'.facts = Of(IdentityFacts, Usual)
  <2>1. live = Usual
    BY DEF Quiet, QuietInputs
  <2>2. QED
    BY <2>1 DEF MeasureProfile, CollectorRefuses
<1>3. QED
  BY <1>1, <1>2, CollectingQuiet DEF Before

LEMMA SentinelQuiet == ASSUME IInv, Quiet, RunSentinel PROVE Quiet'
<1>1. pc = "sentinel" /\ Collects /\ pc' \in {"smoke", "stopped"}
  BY DEF RunSentinel, CollectorRefuses
<1>2. gathered.facts = Of(IdentityFacts, Usual) /\ DOMAIN gathered = {"facts", "sentinel", "from"}
  BY <1>1 DEF Quiet, QuietProfile, IInv, ProfileInv
<1>3. pc' # "stopped" => \E sentinel : gathered' = [gathered EXCEPT !.sentinel = sentinel]
  BY DEF RunSentinel, CollectorRefuses
<1>4. pc' # "stopped" => gathered'.facts = Of(IdentityFacts, Usual)
  BY <1>2, <1>3
<1>5. QED
  BY <1>1, <1>4, CollectingQuiet DEF Before

LEMMA SmokeQuiet == ASSUME IInv, Quiet, CompileSmoke PROVE Quiet'
<1>1. pc = "smoke" /\ Collects /\ pc' \in {"identity", "stopped"}
  BY DEF CompileSmoke, CollectorRefuses
<1>2. gathered.facts = Of(IdentityFacts, Usual) /\ DOMAIN gathered = {"facts", "sentinel", "from"}
  BY <1>1 DEF Quiet, QuietProfile, IInv, ProfileInv
<1>3. pc' # "stopped" => \E document : gathered' = [gathered EXCEPT !.from = document]
  BY DEF CompileSmoke, CollectorRefuses
<1>4. pc' # "stopped" => gathered'.facts = Of(IdentityFacts, Usual)
  BY <1>2, <1>3
<1>5. QED
  BY <1>1, <1>4, CollectingQuiet DEF Before

LEMMA IdentityQuiet == ASSUME IInv, Quiet, WriteIdentity PROVE Quiet'
<1>1. pc = "identity" /\ Collects /\ pc' \in {"preflight", "stopped"} /\ UNCHANGED gathered
  BY DEF WriteIdentity, CollectorRefuses
<1>2. gathered'.facts = Of(IdentityFacts, Usual)
  BY <1>1 DEF Quiet, QuietProfile
<1>3. QED
  BY <1>1, <1>2, CollectingQuiet DEF Before

LEMMA PreflightQuiet == ASSUME IInv, Quiet, Preflight PROVE Quiet'
<1>1. /\ pc = "preflight" /\ pc' \in {"load", "stopped"}
      /\ UNCHANGED <<route, manifest, xml, identity, live, gathered, exit>>
  BY DEF Preflight, inputs
<1>2. config' \in {config, [config EXCEPT !.identity = identity]}
  BY DEF Preflight
<1>3. QuietInputs'
  BY <1>1, <1>2 DEF Quiet, QuietInputs
<1>4. ASSUME pc' = "load" PROVE identity = config'.identity /\ LoadNativeProfileIdentity(identity, route, Role(route))
  BY <1>4 DEF Preflight, IInv, FormInv
<1>5. gathered.facts = Of(IdentityFacts, Usual)
  BY <1>1 DEF Quiet, QuietProfile
<1>6. QuietProfile'
  BY <1>1, <1>4, <1>5 DEF QuietProfile, Before
<1>7. QuietWorker' /\ QuietVerdict'
  BY <1>1, NothingPromised DEF Before, Judging
<1>8. QED
  BY <1>3, <1>6, <1>7 DEF Quiet

--------------------------------------------------------------------------------
(* The worker *)

LEMMA WorkingQuiet ==
  ASSUME Quiet, UNCHANGED <<route, inputs, live, config, gathered>>, pc \notin Before, pc' \notin Before
  PROVE  QuietInputs' /\ QuietProfile'
<1>1. QuietInputs'
  BY DEF Quiet, QuietInputs, inputs
<1>2. QuietProfile'
  BY DEF Quiet, QuietProfile, inputs, Before
<1>3. QED
  BY <1>1, <1>2

LEMMA RefusingQuiet ==
  ASSUME Quiet, Works, pc \notin Before \union Judging, pc' = "refusing", UNCHANGED exit
  PROVE  Quiet'
<1>1. QuietInputs' /\ QuietProfile'
  BY WorkingQuiet DEF Works, Before
<1>2. QuietWorker' /\ QuietVerdict'
  BY NothingPromised
<1>3. QED
  BY <1>1, <1>2 DEF Quiet

(* Where nothing fails a member is written or the worker refuses; the others stay.  *)
LEMMA WrittenQuietly ==
  ASSUME IInv, NEW name \in Members, NEW contents, NEW next, WriteMember(name, contents, next),
         trouble' = "none", pc' # "refusing"
  PROVE  /\ pc' = next /\ members'[name] = contents
         /\ \A other \in Members \ {name} : members'[other] = members[other]
<1>1. pc' = next /\ members' = [members EXCEPT ![name] = contents]
  BY DEF WriteMember, SpendAll
<1>2. members = [n \in Members |-> members[n]]
  BY DEF IInv, FormInv
<1>3. QED
  BY <1>1, <1>2

LEMMA LoadQuiet == ASSUME IInv, Quiet, WorkerLoadManifest, trouble' = "none" PROVE Quiet'
<1>1. pc = "load" /\ Works /\ UNCHANGED exit
  BY DEF WorkerLoadManifest, WorkerRefuses
<1>2. CASE pc' = "refusing"
  BY <1>1, <1>2, RefusingQuiet DEF Before, Judging
<1>3. CASE pc' # "refusing"
  <2>1. own' = [manifest |-> manifest] /\ WriteMember("input_manifest.json", manifest, "fixture")
    BY <1>3 DEF WorkerLoadManifest, WorkerRefuses
  <2>2. pc' = "fixture" /\ members'["input_manifest.json"] = manifest
    BY <1>3, <2>1, WrittenQuietly DEF Members, Checksummed
  <2>3. QuietInputs' /\ QuietProfile' /\ exit' # "0"
    BY <1>1, <2>2, WorkingQuiet DEF Works, Before, Quiet, QuietWorker, Judging
  <2>4. QuietWorker' /\ QuietVerdict'
    BY <1>1, <2>1, <2>2, <2>3 DEF Works, inputs, QuietWorker, QuietVerdict, HasManifest, HasXml, HasModel,
       HasRuntime, HasContacts, HasTrace, HasResult, Settled
  <2>5. QED
    BY <2>3, <2>4 DEF Quiet
<1>4. QED
  BY <1>2, <1>3

LEMMA SourceQuiet == ASSUME IInv, Quiet, ResolveFixtureSource, trouble' = "none" PROVE Quiet'
<1>1. pc = "fixture" /\ Works /\ UNCHANGED exit
  BY DEF ResolveFixtureSource, WorkerRefuses
<1>2. CASE pc' = "refusing"
  BY <1>1, <1>2, RefusingQuiet DEF Before, Judging
<1>3. CASE pc' # "refusing"
  <2>1. /\ own' = [manifest |-> own.manifest, xml |-> xml] /\ WriteMember("fixture.xml", xml, "compile")
        /\ AdmitSelfContainedXml(xml)
    BY <1>3 DEF ResolveFixtureSource, WorkerRefuses
  <2>2. /\ pc' = "compile" /\ members'["fixture.xml"] = xml
        /\ members'["input_manifest.json"] = members["input_manifest.json"]
    BY <1>3, <2>1, WrittenQuietly DEF Members, Checksummed
  <2>3. own.manifest = manifest /\ members["input_manifest.json"] = manifest
    BY <1>1 DEF Quiet, QuietWorker, HasManifest
  <2>4. QuietInputs' /\ QuietProfile' /\ exit' # "0"
    BY <1>1, <2>2, WorkingQuiet DEF Works, Before, Quiet, QuietWorker, Judging
  <2>5. QuietWorker' /\ QuietVerdict'
    BY <1>1, <2>1, <2>2, <2>3, <2>4 DEF Works, inputs, QuietWorker, QuietVerdict, HasManifest, HasXml, HasModel,
       HasRuntime, HasContacts, HasTrace, HasResult, Settled, AdmitSelfContainedXml
  <2>6. QED
    BY <2>4, <2>5 DEF Quiet
<1>4. QED
  BY <1>2, <1>3

LEMMA CompileQuiet == ASSUME IInv, Quiet, WorkerCompile, trouble' = "none" PROVE Quiet'
<1>1. pc = "compile" /\ Works /\ UNCHANGED exit
  BY DEF WorkerCompile, WorkerRefuses
<1>2. CASE pc' = "refusing"
  BY <1>1, <1>2, RefusingQuiet DEF Before, Judging
<1>3. CASE pc' # "refusing"
  <2>1. UNCHANGED own /\ WriteMember("model.mjb", CompiledMjb(own.xml, dt), "runtime")
    BY <1>3 DEF WorkerCompile, WorkerRefuses
  <2>2. /\ pc' = "runtime" /\ members'["model.mjb"] = CompiledMjb(own.xml, dt)
        /\ members'["input_manifest.json"] = members["input_manifest.json"]
        /\ members'["fixture.xml"] = members["fixture.xml"]
    BY <1>3, <2>1, WrittenQuietly DEF Members, Checksummed
  <2>3. /\ own.manifest = manifest /\ members["input_manifest.json"] = manifest
        /\ own.xml = xml /\ AdmitSelfContainedXml(xml) /\ members["fixture.xml"] = xml
    BY <1>1 DEF Quiet, QuietWorker, HasManifest, HasXml
  <2>4. QuietInputs' /\ QuietProfile' /\ exit' # "0"
    BY <1>1, <2>2, WorkingQuiet DEF Works, Before, Quiet, QuietWorker, Judging
  <2>5. QuietWorker' /\ QuietVerdict'
    BY <1>1, <2>1, <2>2, <2>3, <2>4 DEF Works, inputs, QuietWorker, QuietVerdict, HasManifest, HasXml, HasModel,
       HasRuntime, HasContacts, HasTrace, HasResult, Settled, AdmitSelfContainedXml
  <2>6. QED
    BY <2>4, <2>5 DEF Quiet
<1>4. QED
  BY <1>2, <1>3

(* What a step of the simulation leaves alone.                                     *)
Prepared ==
  /\ own.manifest = manifest /\ members["input_manifest.json"] = manifest
  /\ own.xml = xml /\ AdmitSelfContainedXml(xml) /\ members["fixture.xml"] = xml
  /\ members["model.mjb"] = CompiledMjb(xml, dt)

LEMMA PreparedIs ==
  ASSUME Quiet, HasModel
  PROVE  Prepared
BY DEF Quiet, QuietWorker, HasManifest, HasXml, HasModel, Prepared

Measures ==
  /\ own.measured = Usual
  /\ own.runtime.external = identity \/ (route = 1 /\ own.runtime.external = NoIdentity)

LEMMA SimulatingQuiet ==
  ASSUME Prepared', Measures', pc' = "simulate", exit' # "0", own'.gates = CalmGates, Paired(own'.contact, dt'),
         Observed(own'.rows, own'.samples, own'.contact, history', dt')
  PROVE  QuietWorker' /\ QuietVerdict'
<1>1. QuietWorker'
  BY DEF Prepared, Measures, QuietWorker, HasManifest, HasXml, HasModel, HasRuntime, HasContacts, HasTrace,
     HasResult, Settled
<1>2. QuietVerdict'
  BY DEF QuietVerdict
<1>3. QED
  BY <1>1, <1>2

LEMMA MeasureQuiet == ASSUME IInv, Quiet, WorkerMeasure, trouble' = "none" PROVE Quiet'
<1>1. pc = "runtime" /\ Works /\ UNCHANGED <<exit, members>>
  BY DEF WorkerMeasure, WorkerRefuses
<1>2. CASE pc' = "refusing"
  BY <1>1, <1>2, RefusingQuiet DEF Before, Judging
<1>3. CASE pc' # "refusing"
  <2>1. PICK linked \in IF route = 1 THEN {identity, NoIdentity} ELSE {identity} :
          /\ own' = [manifest |-> own.manifest, xml |-> own.xml, measured |-> live,
                     runtime |-> RuntimeIdentity(route, Role(route), linked, live)]
          /\ pc' = "initial"
    BY <1>3 DEF WorkerMeasure, WorkerRefuses
  <2>2. own'.runtime.external = linked
    BY <2>1 DEF RuntimeIdentity
  <2>3. live = Usual
    BY DEF Quiet, QuietInputs
  <2>4. Prepared
    BY <1>1, PreparedIs DEF HasModel
  <2>5. UNCHANGED <<route, dt, manifest, xml, identity>>
    BY <1>1 DEF Works, inputs
  <2>6. own'.manifest = own.manifest /\ own'.xml = own.xml /\ own'.measured = Usual
    BY <2>1, <2>3
  <2>7. Prepared' /\ Measures'
    BY <1>1, <2>1, <2>2, <2>4, <2>5, <2>6 DEF Prepared, Measures, AdmitSelfContainedXml
  <2>8. QuietInputs' /\ QuietProfile' /\ exit' # "0"
    BY <1>1, <2>1, WorkingQuiet DEF Works, Before, Quiet, QuietWorker, Judging
  <2>9. QuietWorker'
    BY <2>1, <2>7, <2>8 DEF Prepared, Measures, QuietWorker, HasManifest, HasXml, HasModel, HasRuntime, HasContacts,
       HasTrace, HasResult, Settled
  <2>10. QuietVerdict'
    BY <2>1 DEF QuietVerdict
  <2>11. QED
    BY <2>8, <2>9, <2>10 DEF Quiet
<1>4. QED
  BY <1>2, <1>3

LEMMA InitialQuiet == ASSUME IInv, Quiet, SimulateInitial, trouble = "none", trouble' = "none" PROVE Quiet'
<1>1. pc = "initial" /\ Works /\ UNCHANGED <<exit, members>>
  BY DEF SimulateInitial, WorkerRefuses
<1>2. CASE pc' = "refusing"
  BY <1>1, <1>2, RefusingQuiet DEF Before, Judging
<1>3. CASE pc' # "refusing"
  <2>1. PICK touch \in Touching, weather \in Weather :
          /\ Calmly(weather)
          /\ LET state == NewContactState(touch)
                 gates == InitialGates(weather)
             IN /\ own' = Simulation(state, gates, <<ObservedRow(state)>>, <<DiagnosticValues(gates, 0)>>, 0)
                /\ history' = <<touch>> /\ pc' = "simulate"
    BY <1>3 DEF SimulateInitial, WorkerRefuses
  <2>2. weather = Calm
    BY <2>1 DEF Calmly, SpendAll
  <2> DEFINE state == NewContactState(touch)
  <2>3. /\ own' = Simulation(state, CalmGates, <<ObservedRow(state)>>, <<DiagnosticValues(CalmGates, 0)>>, 0)
        /\ history' = <<touch>> /\ pc' = "simulate"
    BY <2>1, <2>2 DEF CalmGates
  <2>4. /\ own'.manifest = own.manifest /\ own'.xml = own.xml /\ own'.measured = own.measured
        /\ own'.runtime = own.runtime /\ own'.contact = state /\ own'.gates = CalmGates
        /\ own'.rows = <<ObservedRow(state)>> /\ own'.samples = <<DiagnosticValues(CalmGates, 0)>>
    BY <2>3 DEF Simulation
  <2>5. Prepared /\ Measures
    BY <1>1, PreparedIs DEF HasModel, HasRuntime, Quiet, QuietWorker, Measures
  <2>6. UNCHANGED <<route, dt, manifest, xml, identity>>
    BY <1>1 DEF Works, inputs
  <2>7. Prepared' /\ Measures'
    BY <1>1, <2>4, <2>5, <2>6 DEF Prepared, Measures, AdmitSelfContainedXml
  <2>8. dt \in Nat \ {0}
    BY <1>1, LoadedFixture DEF IInv, WorkerInv
  <2>9. Paired(state, dt) /\ Observed(<<ObservedRow(state)>>, <<DiagnosticValues(CalmGates, 0)>>, state, <<touch>>, dt)
    BY <2>8, PairedBegins, ObservationBegins
  <2>10. QuietInputs' /\ QuietProfile' /\ exit' # "0"
    BY <1>1, <2>3, WorkingQuiet DEF Works, Before, Quiet, QuietWorker, Judging
  <2> HIDE DEF state
  <2>11. Paired(own'.contact, dt') /\ Observed(own'.rows, own'.samples, own'.contact, history', dt')
    BY <2>3, <2>4, <2>6, <2>9
  <2>12. QuietWorker' /\ QuietVerdict'
    BY <2>3, <2>4, <2>7, <2>10, <2>11, SimulatingQuiet
  <2>13. QED
    BY <2>10, <2>12 DEF Quiet
<1>4. QED
  BY <1>2, <1>3

LEMMA CalmStays == AdvanceGates(CalmGates, Calm) = CalmGates
BY DEF AdvanceGates, CalmGates, InitialGates, Calm, LargerOf

LEMMA StepQuiet == ASSUME IInv, Quiet, SimulateStep, trouble = "none", trouble' = "none" PROVE Quiet'
<1> DEFINE time == own.time + dt
           observed == OnGrid(time, OwnFixture.control_dt)
<1>1. pc = "simulate" /\ Works /\ UNCHANGED <<exit, members>>
  BY DEF SimulateStep, WorkerRefuses
<1>2. CASE pc' = "refusing"
  BY <1>1, <1>2, RefusingQuiet DEF Before, Judging
<1>3. CASE pc' # "refusing"
  <2>1. PICK touch \in Touching, weather \in Weather :
          /\ Calmly(weather)
          /\ LET state == AdvanceContactState(own.contact, touch, time, dt)
                 gates == AdvanceGates(own.gates, weather)
             IN /\ own' = Simulation(state, gates,
                     IF observed THEN Append(own.rows, ObservedRow(state)) ELSE own.rows,
                     IF observed THEN Append(own.samples, DiagnosticValues(gates, time)) ELSE own.samples,
                     time)
                /\ history' = Append(history, touch) /\ UNCHANGED pc
    BY <1>3 DEF SimulateStep, WorkerRefuses
  <2>2. weather = Calm
    BY <2>1 DEF Calmly, SpendAll
  <2>3. /\ own.gates = CalmGates /\ Paired(own.contact, dt)
        /\ Observed(own.rows, own.samples, own.contact, history, dt)
    BY <1>1 DEF Quiet, QuietWorker, HasContacts
  <2> DEFINE state == AdvanceContactState(own.contact, touch, time, dt)
             rows == IF observed THEN Append(own.rows, ObservedRow(state)) ELSE own.rows
             samples == IF observed THEN Append(own.samples, DiagnosticValues(CalmGates, time)) ELSE own.samples
  <2>4. AdvanceGates(own.gates, weather) = CalmGates
    BY <2>2, <2>3, CalmStays
  <2>5. /\ own' = Simulation(state, CalmGates, rows, samples, time)
        /\ history' = Append(history, touch) /\ pc' = "simulate"
    BY <1>1, <2>1, <2>4
  <2> HIDE DEF state, rows, samples
  <2>6. /\ own'.manifest = own.manifest /\ own'.xml = own.xml /\ own'.measured = own.measured
        /\ own'.runtime = own.runtime /\ own'.contact = state /\ own'.gates = CalmGates
        /\ own'.rows = rows /\ own'.samples = samples
    BY <2>5 DEF Simulation
  <2>7. Prepared /\ Measures
    BY <1>1, PreparedIs DEF HasModel, HasRuntime, Quiet, QuietWorker, Measures
  <2>8. UNCHANGED <<route, dt, manifest, xml, identity>>
    BY <1>1 DEF Works, inputs
  <2>9. Prepared' /\ Measures'
    BY <1>1, <2>6, <2>7, <2>8 DEF Prepared, Measures, AdmitSelfContainedXml
  <2>10. Loaded /\ own.time = Now(history, dt) /\ Traced(own.contact, history, dt)
    BY <1>1 DEF IInv, WorkerInv, Simulated
  <2>11. dt \in Nat \ {0} /\ time = Now(history, dt) + dt
    BY <2>10, LoadedFixture
  <2>12. OwnFixture.control_dt = ControlDt /\ ControlDt % dt = 0
    <3>1. manifest \in Manifests /\ OwnFixture = Fixture(manifest, FixtureId) /\ LoadManifest(manifest, FixtureId)
      BY <2>7, <2>10 DEF Quiet, QuietInputs, Prepared, OwnFixture, Loaded
    <3>2. ParseFixture(OwnFixture)
      BY <3>1, ManifestsAre
    <3>3. dt \in Elements(OwnFixture.step_dts)
      BY <2>10 DEF Loaded
    <3>4. QED
      BY <3>2, <3>3, ClockIs
  <2>13. Paired(state, dt)
    BY <2>3, <2>10, <2>11, PairedAdvances DEF state
  <2>14. Observed(rows, samples, state, Append(history, touch), dt)
    BY <2>3, <2>10, <2>11, <2>12, ObservationAdvances DEF state, rows, samples
  <2>15. QuietInputs' /\ QuietProfile' /\ exit' # "0"
    BY <1>1, <2>5, WorkingQuiet DEF Works, Before, Quiet, QuietWorker, Judging
  <2>16. Paired(own'.contact, dt') /\ Observed(own'.rows, own'.samples, own'.contact, history', dt')
    BY <2>5, <2>6, <2>8, <2>13, <2>14
  <2>17. QuietWorker' /\ QuietVerdict'
    BY <2>5, <2>6, <2>9, <2>15, <2>16, SimulatingQuiet
  <2>18. QED
    BY <2>15, <2>17 DEF Quiet
<1>4. QED
  BY <1>2, <1>3

Simulates ==
  /\ own.gates = CalmGates /\ Paired(own.contact, dt)
  /\ Observed(own.rows, own.samples, own.contact, history, dt)

LEMMA FinishQuiet == ASSUME IInv, Quiet, FinishSimulation, trouble' = "none" PROVE Quiet'
<1>1. pc = "simulate" /\ Works /\ UNCHANGED exit
  BY DEF FinishSimulation, WorkerRefuses
<1>2. CASE pc' = "refusing"
  BY <1>1, <1>2, RefusingQuiet DEF Before, Judging
<1>3. CASE pc' # "refusing"
  <2>1. /\ UNCHANGED <<own, history>> /\ WriteMember("trace.npz", OwnArrays, "result")
        /\ Len(own.samples) = ObservationCount(OwnFixture)
    BY <1>3 DEF FinishSimulation, WorkerRefuses
  <2>2. /\ pc' = "result" /\ members'["trace.npz"] = OwnArrays
        /\ members'["input_manifest.json"] = members["input_manifest.json"]
        /\ members'["fixture.xml"] = members["fixture.xml"] /\ members'["model.mjb"] = members["model.mjb"]
    BY <1>3, <2>1, WrittenQuietly DEF Members, Checksummed
  <2>3. Prepared /\ Measures /\ Simulates
    BY <1>1, PreparedIs DEF HasModel, HasRuntime, HasContacts, Quiet, QuietWorker, Measures, Simulates
  <2>4. UNCHANGED <<route, dt, manifest, xml, identity, config, gathered, own, history>>
    BY <1>1, <2>1 DEF Works, inputs
  <2>5. Prepared' /\ Measures' /\ Simulates' /\ OwnArrays' = OwnArrays /\ OwnFixture' = OwnFixture
    BY <2>2, <2>3, <2>4 DEF Prepared, Measures, Simulates, AdmitSelfContainedXml, OwnFixture, OwnArrays
  <2>6. Len(own'.samples) = ObservationCount(OwnFixture')
    BY <2>1, <2>5
  <2>7. QuietInputs' /\ QuietProfile' /\ exit' # "0"
    BY <1>1, <2>2, WorkingQuiet DEF Works, Before, Quiet, QuietWorker, Judging
  <2>8. QuietWorker'
    BY <2>2, <2>5, <2>6, <2>7 DEF Prepared, Measures, Simulates, QuietWorker, HasManifest, HasXml, HasModel, HasRuntime,
       HasContacts, HasTrace, HasResult, Settled
  <2>9. QuietVerdict'
    BY <2>2 DEF QuietVerdict
  <2>10. QED
    BY <2>7, <2>8, <2>9 DEF Quiet
<1>4. QED
  BY <1>2, <1>3

Traces == members["trace.npz"] = OwnArrays /\ Len(own.samples) = ObservationCount(OwnFixture)

LEMMA ResultQuiet == ASSUME IInv, Quiet, WriteResult, trouble' = "none" PROVE Quiet'
<1>1. pc = "result" /\ Works /\ UNCHANGED <<exit, own, history>> /\ WriteMember("result.json", OwnResult, "checksums")
  BY DEF WriteResult, OwnResult
<1>2. CASE pc' = "refusing"
  BY <1>1, <1>2, RefusingQuiet DEF Before, Judging
<1>3. CASE pc' # "refusing"
  <2>1. /\ pc' = "checksums" /\ members'["result.json"] = OwnResult
        /\ members'["input_manifest.json"] = members["input_manifest.json"]
        /\ members'["fixture.xml"] = members["fixture.xml"] /\ members'["model.mjb"] = members["model.mjb"]
        /\ members'["trace.npz"] = members["trace.npz"]
    BY <1>1, <1>3, WrittenQuietly DEF Members, Checksummed
  <2>2. Prepared /\ Measures /\ Simulates /\ Traces
    BY <1>1, PreparedIs DEF HasModel, HasRuntime, HasContacts, HasTrace, Quiet, QuietWorker, Measures, Simulates, Traces
  <2>3. UNCHANGED <<route, dt, manifest, xml, identity, config, gathered, own, history>>
    BY <1>1 DEF Works, inputs
  <2>4. OwnArrays' = OwnArrays /\ OwnResult' = OwnResult
    BY <2>3, OwnKept
  <2>5. Prepared' /\ Measures' /\ Simulates'
    BY <2>1, <2>2, <2>3 DEF Prepared, Measures, Simulates, AdmitSelfContainedXml
  <2>6. Traces'
    BY <2>1, <2>2, <2>3, <2>4 DEF Traces, OwnFixture
  <2>7. members'["result.json"] = OwnResult'
    BY <2>1, <2>4
  <2>8. QuietInputs' /\ QuietProfile' /\ exit' # "0"
    BY <1>1, <2>1, WorkingQuiet DEF Works, Before, Quiet, QuietWorker, Judging
  <2>9. QuietWorker'
    BY <2>1, <2>5, <2>6, <2>7, <2>8 DEF Prepared, Measures, Simulates, Traces, QuietWorker, HasManifest, HasXml,
       HasModel, HasRuntime, HasContacts, HasTrace, HasResult, Settled
  <2>10. QuietVerdict'
    BY <2>1 DEF QuietVerdict
  <2>11. QED
    BY <2>8, <2>9, <2>10 DEF Quiet
<1>4. QED
  BY <1>2, <1>3

(* Five members are there, and will be bound.                                      *)
LEMMA FiveAreThere ==
  ASSUME IInv, Quiet, pc = "checksums"
  PROVE  \A name \in Checksummed : members[name] # Absent
<1>1. Prepared /\ Traces /\ members["result.json"] = OwnResult
  BY PreparedIs DEF HasModel, HasTrace, HasResult, Quiet, QuietWorker, Traces
<1>2. DOMAIN Absent = {"file"}
  BY DEF Absent
<1>3. manifest # Absent
  <2>1. Loaded
    BY DEF IInv, WorkerInv
  <2>2. manifest \in Manifests /\ LoadManifest(manifest, FixtureId)
    BY <1>1, <2>1 DEF Quiet, QuietInputs, Prepared, Loaded
  <2>3. QED
    BY <2>2, ManifestsAre
<1>4. xml # Absent
  <2>1. xml = DeclaredXml
    BY DEF Quiet, QuietInputs
  <2>2. "self_contained" \in DOMAIN xml
    BY <2>1, DocumentsAssumption DEF DeclaredXml
  <2>3. QED
    BY <1>2, <2>2
<1>5. CompiledMjb(xml, dt) # Absent
  <2>1. "model" \in DOMAIN CompiledMjb(xml, dt)
    BY DEF CompiledMjb
  <2>2. QED
    BY <1>2, <2>1
<1>6. OwnArrays # Absent
  <2>1. "times" \in DOMAIN OwnArrays
    BY DEF OwnArrays, TraceArrays
  <2>2. QED
    BY <1>2, <2>1
<1>7. OwnResult # Absent
  <2>1. "status" \in DOMAIN OwnResult
    BY DEF OwnResult, CompletedResult
  <2>2. QED
    BY <1>2, <2>1
<1>8. QED
  BY <1>1, <1>3, <1>4, <1>5, <1>6, <1>7 DEF Prepared, Traces, Checksummed

LEMMA ChecksumsQuiet ==
  ASSUME IInv, Quiet, WriteChecksums, trouble = "none", trouble' = "none"
  PROVE  Quiet'
<1>1. /\ pc = "checksums" /\ Works /\ UNCHANGED <<own, history>>
      /\ WriteMember("CHECKSUMS.sha256", Checksums, "read") /\ exit' = IF pc' = "read" THEN "0" ELSE exit
  BY DEF WriteChecksums, SpendAll
<1>2. CASE pc' = "refusing"
  BY <1>1, <1>2, RefusingQuiet DEF Before, Judging
<1>3. CASE pc' # "refusing"
  <2>1. /\ pc' = "read" /\ members'["CHECKSUMS.sha256"] = Checksums
        /\ \A name \in Checksummed : members'[name] = members[name]
    BY <1>1, <1>3, WrittenQuietly DEF Members, Checksummed
  <2>2. Prepared /\ Measures /\ Simulates /\ Traces /\ members["result.json"] = OwnResult
    BY <1>1, PreparedIs DEF HasModel, HasRuntime, HasContacts, HasTrace, HasResult, Quiet, QuietWorker,
       Measures, Simulates, Traces
  <2>3. UNCHANGED <<route, dt, manifest, xml, identity, config, gathered, own, history>>
    BY <1>1 DEF Works, inputs
  <2>4. OwnArrays' = OwnArrays /\ OwnResult' = OwnResult
    BY <2>3, OwnKept
  <2>5. /\ members'["input_manifest.json"] = members["input_manifest.json"]
        /\ members'["fixture.xml"] = members["fixture.xml"] /\ members'["model.mjb"] = members["model.mjb"]
        /\ members'["trace.npz"] = members["trace.npz"] /\ members'["result.json"] = members["result.json"]
    BY <2>1 DEF Checksummed
  <2>6. Prepared' /\ Measures' /\ Simulates'
    BY <2>2, <2>3, <2>5 DEF Prepared, Measures, Simulates, AdmitSelfContainedXml
  <2>7. Traces' /\ members'["result.json"] = OwnResult'
    BY <2>2, <2>3, <2>4, <2>5 DEF Traces, OwnFixture
  <2>8. members'["CHECKSUMS.sha256"] = [name \in Checksummed |-> members'[name]]
    <3>1. {n \in Checksummed : members[n] # Absent} = Checksummed
      BY <1>1, FiveAreThere
    <3>2. Checksums = [name \in Checksummed |-> members[name]]
      BY <3>1 DEF Checksums
    <3>3. QED
      BY <2>1, <3>2
  <2>9. QuietInputs' /\ QuietProfile' /\ pc' \in Judging
    BY <1>1, <2>1, WorkingQuiet DEF Works, Before, Judging
  <2>10. QuietWorker'
    BY <2>6, <2>7, <2>8, <2>9 DEF Prepared, Measures, Simulates, Traces, QuietWorker
  <2>11. QuietVerdict'
    BY <2>1 DEF QuietVerdict
  <2>12. QED
    BY <2>9, <2>10, <2>11 DEF Quiet
<1>4. QED
  BY <1>2, <1>3

LEMMA RefuseQuiet == ASSUME IInv, Quiet, Refuse PROVE Quiet'
<1>1. pc = "refusing" /\ Works /\ pc' = "read" /\ exit' = "2"
  BY DEF Refuse
<1>2. QuietInputs' /\ QuietProfile'
  BY <1>1, WorkingQuiet DEF Works, Before
<1>3. QuietWorker' /\ QuietVerdict'
  BY <1>1 DEF QuietWorker, QuietVerdict, HasManifest, HasXml, HasModel, HasRuntime, HasContacts, HasTrace,
     HasResult, Settled
<1>4. QED
  BY <1>2, <1>3 DEF Quiet

--------------------------------------------------------------------------------
(* The referee *)

LEMMA JudgingQuiet ==
  ASSUME Quiet, Judges, pc \in Judging, pc' \in Judging
  PROVE  /\ QuietInputs' /\ QuietProfile' /\ QuietWorker'
         /\ Settled' <=> Settled
         /\ Admissible' <=> Admissible
<1>1. UNCHANGED <<route, dt, inputs, live, config, gathered, own, members, exit, history>>
  BY DEF Judges
<1>2. QuietInputs' /\ QuietProfile'
  BY <1>1, WorkingQuiet DEF Judging, Before
<1>3. (Settled' <=> Settled) /\ (Admissible' <=> Admissible)
  BY <1>1 DEF Settled, Admissible, Ordinary, FewChannels, OwnFixture
<1>4. OwnArrays' = OwnArrays /\ OwnResult' = OwnResult /\ OwnFixture' = OwnFixture
  BY <1>1, OwnKept DEF OwnFixture
<1>5. exit' = "0" => pc' \in Judging
  OBVIOUS
<1>6. CASE ~Settled
  <2>1. ~HasManifest' /\ ~HasXml' /\ ~HasModel' /\ ~HasRuntime'
    BY <1>3, <1>6 DEF HasManifest, HasXml, HasModel, HasRuntime, Judging
  <2>2. ~HasContacts' /\ ~HasTrace' /\ ~HasResult' /\ ~Settled'
    BY <1>3, <1>6 DEF HasContacts, HasTrace, HasResult, Judging
  <2>3. QuietWorker'
    BY <1>5, <2>1, <2>2 DEF QuietWorker
  <2>4. QED
    BY <1>2, <1>3, <2>3
<1>7. CASE Settled
  <2>1. Prepared /\ Measures /\ Simulates /\ Traces
    BY <1>7, PreparedIs DEF HasModel, HasRuntime, HasContacts, HasTrace, Quiet, QuietWorker, Measures, Simulates, Traces
  <2>2. Prepared' /\ Measures' /\ Simulates' /\ Traces'
    BY <1>1, <1>4, <2>1 DEF inputs, Prepared, Measures, Simulates, Traces, AdmitSelfContainedXml
  <2>3. members["result.json"] = OwnResult /\ members["CHECKSUMS.sha256"] = [name \in Checksummed |-> members[name]]
    BY <1>7 DEF HasResult, Quiet, QuietWorker
  <2>4. QuietWorker'
    BY <1>1, <1>4, <1>5, <2>2, <2>3 DEF QuietWorker, Prepared, Measures, Simulates, Traces
  <2>5. QED
    BY <1>2, <1>3, <2>4
<1>8. QED
  BY <1>2, <1>3, <1>6, <1>7

LEMMA ReadQuiet == ASSUME IInv, Quiet, ReadCell PROVE Quiet'
<1>1. pc = "read" /\ Judges /\ pc' \in {"profile", "judged"}
  BY DEF ReadCell, Rejected
<1>2. /\ QuietInputs' /\ QuietProfile' /\ QuietWorker'
      /\ Settled' <=> Settled
  BY <1>1, JudgingQuiet DEF Judging
<1>3. ASSUME Settled PROVE seen' = members' /\ pc' = "profile"
  <2>1. ReadVerifiedMembers(members) /\ AdmitBytes(config, members)
    BY <1>3, BytesAreAdmitted
  <2>2. QED
    BY <1>1, <2>1 DEF ReadCell, Judges
<1>4. QuietVerdict'
  BY <1>2, <1>3 DEF QuietVerdict
<1>5. QED
  BY <1>2, <1>4 DEF Quiet

LEMMA ProfileQuiet == ASSUME IInv, Quiet, ReadProfile, trouble = "none" PROVE Quiet'
<1>1. pc = "profile" /\ Judges /\ pc' \in {"trace", "judged"} /\ UNCHANGED seen
  BY DEF ReadProfile, Rejected
<1>2. /\ QuietInputs' /\ QuietProfile' /\ QuietWorker'
      /\ Settled' <=> Settled
      /\ Admissible' <=> Admissible
  BY <1>1, JudgingQuiet DEF Judging
<1>3. Settled => seen = members
  BY <1>1 DEF Quiet, QuietVerdict
<1>4. ASSUME Settled, Admissible PROVE pc' = "trace"
  <2>1. seen["result.json"] = OwnResult /\ Fixture(seen["input_manifest.json"], FixtureId) = OwnFixture
    BY <1>3, <1>4 DEF Quiet, QuietWorker, HasManifest, HasResult, OwnFixture
  <2>2. own.runtime.external # NoIdentity
    BY <1>4 DEF Admissible
  <2>3. AdmitProfile(config, OwnResult, identity)
    BY <1>4, <2>2, ProfileIsAdmitted
  <2>4. AdmitTraceMetadata(config, OwnResult.trace, OwnResult.contacts, OwnFixture)
    BY <1>4, MetadataIsAdmitted
  <2>5. QED
    BY <2>1, <2>3, <2>4 DEF ReadProfile
<1>5. QuietVerdict'
  BY <1>1, <1>2, <1>3, <1>4 DEF QuietVerdict, Judges
<1>6. QED
  BY <1>2, <1>5 DEF Quiet

LEMMA TraceQuiet == ASSUME IInv, Quiet, ReadTrace PROVE Quiet'
<1>1. pc = "trace" /\ Judges /\ pc' = "judged" /\ UNCHANGED seen
  BY DEF ReadTrace, Rejected
<1>2. /\ QuietInputs' /\ QuietProfile' /\ QuietWorker'
      /\ Settled' <=> Settled
      /\ Admissible' <=> Admissible
  BY <1>1, JudgingQuiet DEF Judging
<1>3. ASSUME Settled, Admissible PROVE verdict' = "admitted"
  <2>1. seen = members
    BY <1>1, <1>3 DEF Quiet, QuietVerdict
  <2>2. seen["result.json"] = OwnResult
    BY <1>3, <2>1 DEF Quiet, QuietWorker, HasResult
  <2>3. /\ AdmitTraceArrays(OwnResult.trace, OwnResult.contacts, members["trace.npz"], seen)
        /\ AdmitDiagnostics(OwnResult.diagnostics, OwnResult.trace.tokens)
    BY <1>3, <2>1, TraceIsAdmitted
  <2>4. CellAmongOthers(AdmittedEvidenceCell(OwnResult))
    BY <1>3, OthersAgree
  <2>5. QED
    BY <2>2, <2>3, <2>4 DEF ReadTrace
<1>4. QuietVerdict'
  BY <1>1, <1>2, <1>3 DEF QuietVerdict, Admitted
<1>5. QED
  BY <1>2, <1>4 DEF Quiet

LEMMA StandingQuiet == ASSUME Quiet, UNCHANGED vars PROVE Quiet'
<1>1. UNCHANGED <<pc, route, dt, inputs, live, config, gathered, own, members, seen, exit, verdict, history>>
  BY DEF vars
<1>2. OwnArrays' = OwnArrays /\ OwnResult' = OwnResult /\ OwnFixture' = OwnFixture
  BY <1>1, OwnKept DEF OwnFixture
<1>3. /\ Settled' <=> Settled
      /\ Admissible' <=> Admissible
  BY <1>1 DEF Settled, Admissible, Ordinary, FewChannels, OwnFixture
<1>4. QuietInputs'
  BY <1>1 DEF Quiet, QuietInputs, inputs
<1>5. QuietProfile'
  BY <1>1 DEF Quiet, QuietProfile, inputs
<1>6. /\ HasManifest' <=> HasManifest
      /\ HasXml' <=> HasXml
      /\ HasModel' <=> HasModel
      /\ HasRuntime' <=> HasRuntime
      /\ HasContacts' <=> HasContacts
      /\ HasTrace' <=> HasTrace
      /\ HasResult' <=> HasResult
  BY <1>1, <1>3 DEF HasManifest, HasXml, HasModel, HasRuntime, HasContacts, HasTrace, HasResult
<1>7. QuietWorker'
  BY <1>1, <1>2, <1>3, <1>6 DEF Quiet, QuietWorker, inputs, AdmitSelfContainedXml
<1>8. QuietVerdict'
  BY <1>1, <1>3 DEF Quiet, QuietVerdict, Admitted
<1>9. QED
  BY <1>4, <1>5, <1>7, <1>8 DEF Quiet

--------------------------------------------------------------------------------
(* Trouble remains: where there is none there was none *)

LEMMA NoTroubleBefore ==
  ASSUME IInv, Next, trouble' = "none"
  PROVE  trouble = "none" /\ ~Drift /\ ~RivalInput /\ ~Restore /\ ~RivalMember
<1>1. ~Drift /\ ~RivalInput /\ ~Restore /\ ~RivalMember
  BY DEF Drift, RivalInput, Restore, RivalMember, Disturbs, SpendAll
<1>2. CASE UNCHANGED trouble
  BY <1>1, <1>2
<1>3. ASSUME SpendAll PROVE FALSE
  BY <1>3 DEF SpendAll
<1>4. CASE MeasureProfile \/ RunSentinel \/ CompileSmoke \/ WriteIdentity \/ Preflight
  BY <1>1, <1>3, <1>4 DEF MeasureProfile, RunSentinel, CompileSmoke, WriteIdentity, Preflight
<1>5. ASSUME NEW name, NEW contents, NEW next, WriteMember(name, contents, next) PROVE UNCHANGED trouble
  BY <1>3, <1>5 DEF WriteMember
<1>6. CASE WorkerLoadManifest \/ ResolveFixtureSource \/ WorkerCompile \/ FinishSimulation \/ WriteResult
  BY <1>1, <1>5, <1>6 DEF WorkerLoadManifest, ResolveFixtureSource, WorkerCompile, FinishSimulation, WriteResult
<1>7. CASE WriteChecksums \/ WorkerMeasure \/ Refuse
  BY <1>1, <1>3, <1>5, <1>7 DEF WriteChecksums, WorkerMeasure, Refuse
<1>8. ASSUME NEW weather, Calmly(weather) PROVE UNCHANGED trouble
  BY <1>3, <1>8 DEF Calmly
<1>9. CASE SimulateInitial \/ SimulateStep
  BY <1>1, <1>8, <1>9 DEF SimulateInitial, SimulateStep
<1>10. CASE ReadCell \/ ReadProfile \/ ReadTrace \/ Finished
  BY <1>1, <1>10 DEF ReadCell, ReadProfile, ReadTrace, Finished, Judges, vars
<1>11. QED
  BY <1>1, <1>4, <1>6, <1>7, <1>9, <1>10 DEF Next

LEMMA QuietStays == ASSUME IInv, QInv, [Next]_vars PROVE QInv'
<1>1. CASE UNCHANGED vars
  BY <1>1, StandingQuiet DEF QInv, vars
<1>2. ASSUME Next, trouble' = "none" PROVE Quiet'
  <2>1. trouble = "none" /\ ~Drift /\ ~RivalInput /\ ~Restore /\ ~RivalMember
    BY <1>2, NoTroubleBefore
  <2>2. Quiet
    BY <2>1 DEF QInv
  <2>3. CASE MeasureProfile \/ RunSentinel \/ CompileSmoke \/ WriteIdentity \/ Preflight
    BY <2>2, <2>3, MeasureProfileQuiet, SentinelQuiet, SmokeQuiet, IdentityQuiet, PreflightQuiet
  <2>4. CASE WorkerLoadManifest \/ ResolveFixtureSource \/ WorkerCompile \/ WorkerMeasure
    BY <1>2, <2>2, <2>4, LoadQuiet, SourceQuiet, CompileQuiet, MeasureQuiet
  <2>5. CASE SimulateInitial \/ SimulateStep \/ FinishSimulation
    BY <1>2, <2>1, <2>2, <2>5, InitialQuiet, StepQuiet, FinishQuiet
  <2>6. CASE WriteResult \/ WriteChecksums \/ Refuse
    BY <1>2, <2>1, <2>2, <2>6, ResultQuiet, ChecksumsQuiet, RefuseQuiet
  <2>7. CASE ReadCell \/ ReadProfile \/ ReadTrace
    BY <2>1, <2>2, <2>7, ReadQuiet, ProfileQuiet, TraceQuiet
  <2>8. CASE Finished
    BY <2>2, <2>8, StandingQuiet DEF Finished
  <2>9. QED
    BY <1>2, <2>1, <2>3, <2>4, <2>5, <2>6, <2>7, <2>8 DEF Next
<1>3. QED
  BY <1>1, <1>2 DEF QInv

(* An undisturbed cell its worker completed is admitted: whatever the fixture, the   *)
(* horizon, the step size and the contacts, two programs that share no code agree   *)
(* on every document that passes between them, and on the contacts of every step.   *)
THEOREM CompletedCellsAreAdmitted == Spec => []CompletedIsAdmitted
<1>1. Init => QInv
  BY QuietAtFirst
<1>2. IInv /\ QInv /\ [Next]_vars => QInv'
  BY QuietStays
<1>3. QInv => CompletedIsAdmitted
  BY DEF QInv, Quiet, QuietVerdict, CompletedIsAdmitted, Completed, Settled, Judging, Admissible
<1>4. QED
  BY <1>1, <1>2, <1>3, CellIsInvariant, PTL DEF Spec

================================================================================
