-------------------------- MODULE ReviewConfiguration --------------------------
(* The configuration of a runtime review (runtime_review/_config.py, _paths.py): *)
(* what is parsed from the document, the canonical form it is given, and the     *)
(* directories it is bound to beneath its own directory.                         *)
(*                                                                            *)
(* A document is a record with the fields of the JSON object; "keys" in each     *)
(* object says that its keys are exactly the expected ones, each of its type. A  *)
(* path is a sequence of names below the directory of the configuration; an      *)
(* entry of the file system is "directory", "file" or "link".                    *)
EXTENDS Naturals, Sequences

CONSTANTS StepDts, RepeatIds   \* STEP_DTS and REPEAT_IDS, in frozen order

ASSUME GridAssumption ==
  StepDts \in Seq(STRING) /\ StepDts # <<>> /\ RepeatIds \in Seq(Nat) /\ RepeatIds # <<>>

Roles == <<"baseline", "candidate">>
SetOf(s) == {s[i] : i \in DOMAIN s}

(* Every slot of the campaign: role by role, step by step, repeat by repeat.     *)
CanonicalSlots ==
  LET R == Len(RepeatIds)  D == Len(StepDts) IN
  [n \in 1..(2 * D * R) |->
     [role |-> Roles[((n - 1) \div (D * R)) + 1],
      dt |-> StepDts[(((n - 1) \div R) % D) + 1],
      repeat |-> RepeatIds[((n - 1) % R) + 1]]]

Slots == SetOf(CanonicalSlots)

RequireExactMembers(actual, expected) ==
  Len(actual) = Len(expected) /\ SetOf(actual) = SetOf(expected)

--------------------------------------------------------------------------------
(* Paths. *)

Prefixes(path) == {SubSeq(path, 1, n) : n \in 1..Len(path)}
KindAt(fs, path) == IF path \in DOMAIN fs THEN fs[path] ELSE "absent"

(* Normalised, relative and traversal-free.                                     *)
Portable(path) == path # <<>> /\ \A i \in DOMAIN path : path[i] \notin {"", ".", "..", "/"}

ResolveExistingDirectory(fs, path) ==
  Portable(path) /\ \A p \in Prefixes(path) : KindAt(fs, p) = "directory"

(* Its first missing component has only directories above it.                   *)
ResolveNewOutputPath(fs, path) ==
  /\ Portable(path)
  /\ \E n \in 1..Len(path) :
       /\ KindAt(fs, SubSeq(path, 1, n)) = "absent"
       /\ \A m \in 1..(n - 1) : KindAt(fs, SubSeq(path, 1, m)) = "directory"

(* One path lies in the other.                                                  *)
Overlaps(left, right) == left \in Prefixes(right) \/ right \in Prefixes(left)

EnsureNonoverlapping(output, protected) == \A path \in protected : ~Overlaps(output, path)

--------------------------------------------------------------------------------
(* Profiles, subject, workload, cells. *)

(* A version has a form ("bare", "suffixed" or "unstable") and three components. *)
StableVersion(version, package) ==
  /\ version.form \in (IF package THEN {"bare", "suffixed"} ELSE {"bare"})
  /\ \A i \in 1..3 : version.triplet[i] < 1000

Supported(triplet) ==   \* not below _MINIMUM_PROFILE_VERSION, 3.9.0
  triplet[1] > 3 \/ (triplet[1] = 3 /\ triplet[2] >= 9)

IntegerOf(t) == t[1] * 1000000 + t[2] * 1000 + t[3]

IdentityFile(role) == <<"profile_identities", role>>

RequireSupportedProfile(profile, role) ==
  profile.keys /\ profile.id = (IF role = "baseline" THEN "A_3.10.0" ELSE "B_3.11.0")
               /\ profile.version = (IF role = "baseline" THEN "3.10.0" ELSE "3.11.0")

ProfileV2Admitted(profile, role) ==
  /\ profile.keys
  /\ profile.role = role
  /\ StableVersion(profile.package, TRUE) /\ StableVersion(profile.native, FALSE)
  /\ Supported(profile.package.triplet)
  /\ profile.package.triplet = profile.native.triplet
  /\ profile.integer = IntegerOf(profile.package.triplet)
  /\ Portable(profile.file) /\ profile.file = IdentityFile(profile.role)

ExpectedSubjectAdmitted(subject) == subject.keys
ExpectedWorkloadAdmitted(workload) == workload.keys

CellAdmitted(cell) ==
  /\ cell.keys
  /\ cell.slot \in Slots
  /\ Portable(cell.directory)

CellsAdmitted(cells) ==
  /\ \A i \in DOMAIN cells : CellAdmitted(cells[i])
  /\ \A i, j \in DOMAIN cells : i # j => cells[i].slot # cells[j].slot
                                      /\ cells[i].directory # cells[j].directory
  /\ {cells[i].slot : i \in DOMAIN cells} = Slots
  /\ Len(cells) = Len(CanonicalSlots)

(* Mutant: the cells keep the order of the document.                            *)
CanonicalCellsMutant(cells) == cells

CanonicalCells(cells) ==
  [n \in DOMAIN CanonicalSlots |->
     LET i == CHOOSE i \in DOMAIN cells : cells[i].slot = CanonicalSlots[n] IN cells[i]]

--------------------------------------------------------------------------------
(* The whole document. *)

SharedAdmitted(doc) ==
  /\ doc.keys
  /\ ExpectedSubjectAdmitted(doc.subject) /\ ExpectedWorkloadAdmitted(doc.workload)
  /\ doc.horizon = 1
  /\ RequireExactMembers(doc.step_dts, StepDts)
  /\ RequireExactMembers(doc.repeat_ids, RepeatIds)
  /\ CellsAdmitted(doc.cells)
  /\ Portable(doc.output_dir)

ConfigV1Admitted(doc) ==
  SharedAdmitted(doc) /\ \A r \in {1, 2} : RequireSupportedProfile(doc.profiles[r], Roles[r])

ConfigV2Admitted(doc) ==
  /\ SharedAdmitted(doc)
  /\ \A r \in {1, 2} : ProfileV2Admitted(doc.profiles[r], Roles[r])
  /\ doc.profiles[1].file # doc.profiles[2].file

DocumentAdmitted(doc) ==
  \/ doc.schema_version = 1 /\ ConfigV1Admitted(doc)
  \/ doc.schema_version = 2 /\ ConfigV2Admitted(doc)

(* What the document means: the same for every order of its lists.               *)
Configuration(doc) ==
  [doc EXCEPT !.step_dts = StepDts, !.repeat_ids = RepeatIds, !.cells = CanonicalCells(doc.cells)]

(* Its primitive form, which is hashed: the semantic identity.                   *)
ToPrimitive(config) == config

CellDirectories(config) == [n \in DOMAIN config.cells |-> config.cells[n].directory]

ProtectedPaths(config) ==
  SetOf(CellDirectories(config)) \union
  IF config.schema_version = 2 THEN {config.profiles[r].file : r \in {1, 2}} ELSE {}

(* An identity file is a regular file in a directory that is really there.       *)
ResolveExistingProfileIdentity(fs, path) ==
  /\ ResolveExistingDirectory(fs, SubSeq(path, 1, Len(path) - 1))
  /\ KindAt(fs, path) = "file"

BoundV1(fs, config) ==
  /\ \A path \in SetOf(CellDirectories(config)) : ResolveExistingDirectory(fs, path)
  /\ ResolveNewOutputPath(fs, config.output_dir)
  /\ EnsureNonoverlapping(config.output_dir, ProtectedPaths(config))

BoundV2(fs, config) ==
  /\ BoundV1(fs, config)
  /\ \A r \in {1, 2} : ResolveExistingProfileIdentity(fs, config.profiles[r].file)

LoadAdmits(doc, fs) ==
  /\ DocumentAdmitted(doc)
  /\ \/ doc.schema_version = 1 /\ BoundV1(fs, Configuration(doc))
     \/ doc.schema_version = 2 /\ BoundV2(fs, Configuration(doc))

(* The admitted configuration: bytes, meaning, and what the paths were bound to. *)
(* identities is what the identity files hold now.                              *)
Admitted(doc, identities) ==
  [config |-> Configuration(doc), raw |-> doc, semantic |-> ToPrimitive(Configuration(doc)),
   directories |-> CellDirectories(Configuration(doc)),
   identities |-> IF doc.schema_version = 2 THEN identities ELSE <<>>]
================================================================================
