--------------------------- MODULE PublishPipeline ---------------------------
(***************************************************************************)
(* The builds of the release pipeline (Jenkinsfile) over one bucket.  Any  *)
(* number of builds run at once, on any branch, with or without the        *)
(* release parameter, of the same or of different versions; each may fail, *)
(* be aborted or lose an answer in any stage.  Only the write is atomic.   *)
(*                                                                         *)
(* A stage of the Jenkinsfile is one step, except that publishing is a     *)
(* step per request.  Two builds of one commit may differ: the builds      *)
(* compare only their own two outputs.                                     *)
(***************************************************************************)
EXTENDS Naturals

CONSTANTS
  Build,
  Version,      \* versions pyproject.toml may declare
  Wheel,        \* the bytes a build may produce
  Damaged,      \* bytes that are not what was uploaded
  Nothing       \* no object, no digest

\* Names an object may have in the bucket; the local test versions of all builds
\* share one here, since none is ever to be stored.
Name == Version \X {"stable", "local"}

ASSUME ConstantsAssumption ==
  /\ Nothing \notin Name
  /\ Damaged \notin Wheel /\ Nothing \notin Wheel /\ Damaged # Nothing

Ref == {"main", "pr", "other"}

Stage == {"resolve", "tests", "existing", "build", "install",
          "publish", "readback", "archive", "ended"}

VARIABLES
  ref, release, version,    \* per build: its branch, PUBLISH_RELEASE, the declared version
  stage,                    \* per build: the stage about to run
  outcome,                  \* per build: running, failed, built, published
  name,                     \* per build: the name of its wheel in the bucket
  wheel,                    \* per build: the staged wheel, whose digest it records
  stored,                   \* per build: what it has read back
  archived,                 \* per build: the digest in its archived record
  bucket,                   \* the objects
  users                     \* history: builds that used the bucket's credentials

input == <<ref, release, version>>
vars == <<ref, release, version, stage, outcome, name, wheel, stored, archived,
          bucket, users>>

Init ==
  /\ ref \in [Build -> Ref] /\ release \in [Build -> BOOLEAN]
  /\ version \in [Build -> Version]
  /\ stage = [b \in Build |-> "resolve"]
  /\ outcome = [b \in Build |-> "running"]
  /\ name = [b \in Build |-> Nothing]
  /\ wheel = [b \in Build |-> Nothing]
  /\ stored = [b \in Build |-> Nothing]
  /\ archived = [b \in Build |-> Nothing]
  /\ bucket = [n \in Name |-> Nothing]
  /\ users = {}

\* isMain; a pull request never is, whatever its branch is called.
IsMainUnlessPr(b) == ref[b] # "pr"
IsMain(b) == ref[b] = "main"

\* publishes.
Publishes(b) == IsMain(b) /\ release[b]

Goto(b, s) == stage' = [stage EXCEPT ![b] = s] /\ UNCHANGED outcome
End(b, o) == stage' = [stage EXCEPT ![b] = "ended"] /\ outcome' = [outcome EXCEPT ![b] = o]

-----------------------------------------------------------------------------
(* Stages *)

\* Only main builds under the declared version.
Resolve(b) ==
  /\ stage[b] = "resolve"
  /\ name' = [name EXCEPT ![b] = <<version[b], IF IsMain(b) THEN "stable" ELSE "local">>]
  /\ Goto(b, "tests")
  /\ UNCHANGED <<input, wheel, stored, archived, bucket, users>>

Tests(b) ==
  /\ stage[b] = "tests"
  /\ Goto(b, "existing")
  /\ UNCHANGED <<input, name, wheel, stored, archived, bucket, users>>

\* A courtesy: an answer other than "it exists", an error included, lets the
\* build go on.
RejectExisting(b) ==
  /\ stage[b] = "existing"
  /\ IF Publishes(b)
     THEN /\ users' = users \cup {b}
          /\ \/ bucket[name[b]] # Nothing /\ End(b, "failed")
             \/ Goto(b, "build")
     ELSE Goto(b, "build") /\ UNCHANGED users
  /\ UNCHANGED <<input, name, wheel, stored, archived, bucket>>

\* Two builds with one output each must agree byte by byte.
BuildTwice(b) ==
  /\ stage[b] = "build"
  /\ \E w1, w2 \in Wheel :
       \/ w1 = w2 /\ wheel' = [wheel EXCEPT ![b] = w1] /\ Goto(b, "install")
       \/ w1 # w2 /\ End(b, "failed") /\ UNCHANGED wheel
  /\ UNCHANGED <<input, name, stored, archived, bucket, users>>

Install(b) ==
  /\ stage[b] = "install"
  /\ Goto(b, "publish")
  /\ UNCHANGED <<input, name, wheel, stored, archived, bucket, users>>

BuiltOnly(b) ==
  /\ stage[b] = "publish" /\ ~Publishes(b)
  /\ End(b, "built")
  /\ UNCHANGED <<input, name, wheel, stored, archived, bucket, users>>

\* Refused unless it is a stable version from main.
Refused(b) == ~IsMain(b) \/ name[b] # <<version[b], "stable">>

\* put_object with IfNoneMatch: the store accepts it only for a free name.
MayStoreAlways(n) == TRUE
MayStore(n) == bucket[n] = Nothing

\* The object is stored, as sent or damaged; the answer may be lost, in which
\* case the client's own retry finds the name taken.
Put(b) ==
  /\ stage[b] = "publish" /\ Publishes(b) /\ ~Refused(b)
  /\ users' = users \cup {b}
  /\ MayStore(name[b])
  /\ \E w \in {wheel[b], Damaged} : bucket' = [bucket EXCEPT ![name[b]] = w]
  /\ Goto(b, "readback") \/ End(b, "failed")
  /\ UNCHANGED <<input, name, wheel, stored, archived>>

\* 412, or the request never arrived.
PutRejected(b) ==
  /\ stage[b] = "publish" /\ Publishes(b)
  /\ users' = IF Refused(b) THEN users ELSE users \cup {b}
  /\ End(b, "failed")
  /\ UNCHANGED <<input, name, wheel, stored, archived, bucket>>

\* get-object and verify-stored-wheel.
Verified(b) == bucket[name[b]] = wheel[b]

ReadBack(b) ==
  /\ stage[b] = "readback"
  /\ users' = users \cup {b}
  /\ stored' = [stored EXCEPT ![b] = bucket[name[b]]]
  /\ IF Verified(b) THEN Goto(b, "archive") ELSE End(b, "failed")
  /\ UNCHANGED <<input, name, wheel, archived, bucket>>

\* archiveArtifacts: the record holds the digest of what was read back.
Archive(b) ==
  /\ stage[b] = "archive"
  /\ archived' = [archived EXCEPT ![b] = stored[b]]
  /\ End(b, "published")
  /\ UNCHANGED <<input, name, wheel, stored, bucket, users>>

\* A command fails, an operator aborts the build or its agent is lost.
Break(b) ==
  /\ stage[b] # "ended"
  /\ End(b, "failed")
  /\ UNCHANGED <<input, name, wheel, stored, archived, bucket, users>>

Step(b) == \/ Resolve(b) \/ Tests(b) \/ RejectExisting(b) \/ BuildTwice(b) \/ Install(b)
           \/ BuiltOnly(b) \/ Put(b) \/ PutRejected(b) \/ ReadBack(b) \/ Archive(b)

Next == \E b \in Build : Step(b) \/ Break(b)

Spec == Init /\ [][Next]_vars

-----------------------------------------------------------------------------
(* Properties *)

TypeOK ==
  /\ ref \in [Build -> Ref] /\ release \in [Build -> BOOLEAN]
  /\ version \in [Build -> Version]
  /\ stage \in [Build -> Stage]
  /\ outcome \in [Build -> {"running", "failed", "built", "published"}]
  /\ name \in [Build -> Name \cup {Nothing}]
  /\ wheel \in [Build -> Wheel \cup {Nothing}]
  /\ stored \in [Build -> Wheel \cup {Damaged, Nothing}]
  /\ archived \in [Build -> Wheel \cup {Nothing}]
  /\ bucket \in [Name -> Wheel \cup {Damaged, Nothing}]
  /\ users \subseteq Build

\* The credentials are used, and objects appear, only by releases of main: no
\* pull request, branch build or ordinary merge reaches the bucket, and the
\* bucket holds stable versions only.
OnlyReleasesPublish ==
  /\ \A b \in users : ref[b] = "main" /\ release[b]
  /\ \A n \in Name : bucket[n] # Nothing =>
       /\ n[2] = "stable"
       /\ \E b \in users : version[b] = n[1]

\* Of the builds of one version at most one announces it, however they
\* overlap, and what it announces is what it has built.
OneRelease ==
  \A b \in Build : archived[b] # Nothing =>
    /\ archived[b] = wheel[b]
    /\ \A c \in Build \ {b} : archived[c] # Nothing => version[b] # version[c]

\* The bucket keeps the promise of WriteOnceIndex: a stored object never
\* changes, and an announced digest is that of the object served.
Index == INSTANCE WriteOnceIndex
           WITH Artifact <- Wheel \cup {Damaged},
                served <- [v \in Version |-> bucket[<<v, "stable">>]],
                announced <- {<<version[b], archived[b]>> :
                               b \in {c \in Build : archived[c] # Nothing}}
KeepsIndex == Index!Spec

\* Each stage finds what the stages before it have prepared.
StageInv ==
  \A b \in Build :
    /\ name[b] # Nothing => name[b] = <<version[b], IF IsMain(b) THEN "stable" ELSE "local">>
    /\ stage[b] \notin {"resolve", "ended"} => name[b] # Nothing
    /\ stage[b] \in {"install", "publish", "readback", "archive"} => wheel[b] \in Wheel
    /\ stage[b] = "archive" => stored[b] = wheel[b]
    /\ archived[b] # Nothing => stage[b] = "ended" /\ archived[b] = wheel[b] /\ wheel[b] \in Wheel

\* A build that has stored its wheel and may yet announce it, or has.
Holds(b) == stage[b] \in {"readback", "archive"} \/ archived[b] # Nothing

\* The object of a build's version is the one it stored: no other build is past
\* its write for that version.
HolderInv ==
  \A b \in Build : Holds(b) =>
    /\ Publishes(b) /\ name[b] = <<version[b], "stable">>
    /\ bucket[name[b]] \in {wheel[b], Damaged}
    /\ stage[b] = "archive" \/ archived[b] # Nothing => bucket[name[b]] = wheel[b]
    /\ \A c \in Build \ {b} : Holds(c) => version[c] # version[b]

PipelineInv == StageInv /\ HolderInv
=============================================================================
