------------------------- MODULE InstalledProvenance -------------------------
(***************************************************************************)
(* The verifier of an installed distribution (flightsql/provenance.py, of  *)
(* which scripts/verify-installed-provenance is a copy): it selects the    *)
(* metadata directory, reads its RECORD, checks every file of the package  *)
(* and metadata trees against it, then the identity, and only then what    *)
(* direct_url.json says of the source.  The first check that fails ends    *)
(* the run with code 1.  Code 2 is for every other exception: a failure of *)
(* the environment, or an input on which a parser raises what no handler   *)
(* names (Unforeseen, "unforeseen", "broken").                             *)
(*                                                                         *)
(* The trees are walked in no particular order, a file a step.  Nobody     *)
(* writes to the installation meanwhile: the documents require that.       *)
(***************************************************************************)
EXTENDS Naturals

CONSTANTS
  Dir,                      \* metadata directories
  PackageFile, MetadataFile,\* what the two trees may hold, RECORD excepted
  Bytecode,                 \* the files among those outside the scope
  RequiredFile,             \* _REQUIRED_PACKAGE_FILES, _REQUIRED_METADATA_FILES
  DirectUrl,                \* direct_url.json
  Bytes, Version, Commit, Digest,
  Missing, Link, Unreadable,\* contents that are no bytes
  NoRow, NoDigest, WrongSize, \* RECORD: no row, no hash, right hash and wrong size
  None,                     \* no digest given
  Unsafe,                   \* a hash that is no SHA-256, or two that differ
  Invalid,                  \* a direct_url.json that is not one JSON object with a URL
  Malformed,                \* a version that is missing or no PEP 440 version
  Unforeseen,               \* an input whose parser raises what no handler names
  Installations, Requests   \* what the verifier may meet

File == PackageFile \cup MetadataFile
\* A URL is of the expected repository or of another one, not HTTPS or with
\* credentials, or one that urlparse raises on ("https://[").
Site == {"expected", "another", "insecure", "broken"}
NoSource == [kind |-> "unread"]

Source == [kind       : {"git", "vcs", "archive", "file", "other"}, \* "vcs": not Git
           mixed      : BOOLEAN,      \* fields of another kind besides
           site       : Site,         \* the repository its URL names
           commit     : Commit,       \* resolved commit, or that of the archive URL
           requested  : Commit,       \* requested_revision
           hash       : Digest \cup {None, Unsafe}]

Installation ==
  [packaging : BOOLEAN,               \* the one dependency can be imported
   found     : SUBSET Dir,            \* what importlib.metadata discovers
   regular   : SUBSET Dir,            \* real directories inside their root
   named     : SUBSET Dir,            \* those that call themselves flightsql-dbapi
   record    : {"good", "malformed", "unopenable", "unforeseen"},
                                      \* good: a list of safe, unique SHA-256 rows, itself
                                      \* among them; unforeseen: a size int() refuses
   rows      : [File -> Bytes \cup {NoRow, NoDigest, WrongSize}],
   content   : [File -> Bytes \cup {Missing, Link, Unreadable}],
   metadata  : {"ours", "foreign", "unforeseen"}, \* the project it names; no UTF-8
   version   : Version \cup {Malformed, Unforeseen}, \* METADATA's; Unforeseen: there is none
   literal   : Version \cup {Malformed, Unforeseen}, \* flightsql.__version__; Unforeseen:
                                      \* source that ast.parse raises ValueError on
   installer : BOOLEAN,               \* INSTALLER is text and not empty
   url       : Source \cup {Invalid, Unforeseen}, \* Unforeseen: JSON nested too deep
   artifact  : Digest \cup {Missing, Unreadable}] \* the file a local URL refers to

Request == [wellFormed : BOOLEAN,     \* arguments, commit and hash
            version    : Version \cup {Malformed, Unforeseen},
            repository : {"https", "insecure", "broken"},
            commit     : Commit,
            hash : Digest \cup {None}, allowLocal : BOOLEAN]

ASSUME ConstantsAssumption ==
  /\ PackageFile \cap MetadataFile = {}
  /\ RequiredFile \subseteq File \ Bytecode
  /\ DirectUrl \in MetadataFile \cap RequiredFile
  /\ {Missing, Link, Unreadable, NoRow, NoDigest, WrongSize} \cap Bytes = {}
  /\ Missing # Link /\ Missing # Unreadable /\ Link # Unreadable
  /\ {NoRow, NoDigest, WrongSize} \cap {Missing, Link, Unreadable} = {}
  /\ {None, Unsafe, Missing, Unreadable} \cap Digest = {}
  /\ {Invalid, Unforeseen} \cap Source = {} /\ Invalid # Unforeseen
  /\ {Malformed, Unforeseen} \cap Version = {} /\ Malformed # Unforeseen
  /\ Installations \subseteq Installation /\ Requests \subseteq Request

VARIABLES
  inst, request,    \* the installation and the arguments
  pc,
  todo,             \* entries of the current tree not yet visited
  checked,          \* files whose bytes agree with RECORD
  source,           \* what has been read of direct_url.json
  outcome,          \* of main: running, verified, failed, operational
  claim             \* the VerificationResult

vars == <<inst, request, pc, todo, checked, source, outcome, claim>>

Stage == {"request", "select", "record", "package", "metadata", "identity",
          "read", "source", "done"}

NoClaim == [mode |-> "none", commitVerified |-> FALSE, archive |-> None, artifact |-> None]
Claim(mode, commitVerified, archive, artifact) ==
  [mode |-> mode, commitVerified |-> commitVerified, archive |-> archive, artifact |-> artifact]

Init ==
  /\ inst \in Installations /\ request \in Requests
  /\ pc = "request" /\ todo = {} /\ checked = {} /\ source = NoSource
  /\ outcome = "running" /\ claim = NoClaim

-----------------------------------------------------------------------------
(* Ends of a run *)

End(o) == pc' = "done" /\ outcome' = o /\ todo' = {}

\* ProvenanceError, exit code 1; any other exception, exit code 2.
Reject == End("failed") /\ UNCHANGED <<checked, source, claim>>
Crash == End("operational") /\ UNCHANGED <<checked, source, claim>>
Accept(c) == End("verified") /\ claim' = c /\ UNCHANGED <<checked, source>>

Goto(stage) == pc' = stage /\ UNCHANGED <<outcome, claim>>

-----------------------------------------------------------------------------
(* Checks *)

CheckRequest ==
  /\ pc = "request"
  /\ \/ ~request.wellFormed /\ Reject
     \/ request.wellFormed /\ ~inst.packaging /\ Crash
     \/ request.wellFormed /\ inst.packaging /\ request.version = Malformed /\ Reject
     \/ request.wellFormed /\ inst.packaging /\ request.version = Unforeseen /\ Crash
     \/ /\ request.wellFormed /\ inst.packaging /\ request.version \in Version
        /\ Goto("select") /\ UNCHANGED <<todo, checked, source>>
  /\ UNCHANGED <<inst, request>>

\* One discovered directory, regular and without a double beside it.
SelectedAny == inst.found # {}
Selected == \E d \in inst.regular : inst.found = {d} /\ inst.named \subseteq {d}

Select ==
  /\ pc = "select"
  /\ IF Selected THEN Goto("record") /\ UNCHANGED <<todo, checked, source>> ELSE Reject
  /\ UNCHANGED <<inst, request>>

\* Only bytecode (and RECORD itself) may have a row without a hash.  A RECORD that
\* cannot be opened is refused like one that cannot be parsed.
RecordRefused == \/ inst.record \in {"malformed", "unopenable"}
                 \/ \E f \in File \ Bytecode : inst.rows[f] = NoDigest
Recorded == inst.record = "good" /\ ~RecordRefused

PresentRequired(tree) == {f \in tree \cap RequiredFile : inst.content[f] # Missing}
Present(tree) == {f \in tree : inst.content[f] # Missing}

ReadRecord ==
  /\ pc = "record"
  /\ \/ Recorded /\ Goto("package") /\ todo' = Present(PackageFile) /\ UNCHANGED <<checked, source>>
     \/ RecordRefused /\ Reject
     \/ inst.record = "unforeseen" /\ Crash
  /\ UNCHANGED <<inst, request>>

\* _verify_scoped_file; a file that cannot be opened is found out when its
\* hash is due.
Agrees(f) == inst.rows[f] = inst.content[f]
NeverUnopenable(f) == FALSE
Unopenable(f) == inst.content[f] = Unreadable /\ inst.rows[f] # NoRow

VisitFile(f) ==
  /\ pc \in {"package", "metadata"} /\ f \in todo
  /\ \/ inst.content[f] = Link /\ Reject
     \/ /\ inst.content[f] # Link /\ f \in Bytecode
        /\ todo' = todo \ {f} /\ UNCHANGED <<pc, outcome, claim, checked, source>>
     \/ /\ inst.content[f] # Link /\ f \notin Bytecode
        /\ \/ Unopenable(f) /\ Crash
           \/ ~Unopenable(f) /\ ~Agrees(f) /\ Reject
           \/ /\ ~Unopenable(f) /\ Agrees(f)
              /\ todo' = todo \ {f} /\ checked' = checked \cup {f}
              /\ UNCHANGED <<pc, outcome, claim, source>>
  /\ UNCHANGED <<inst, request>>

PackageDone ==
  /\ pc = "package" /\ todo = {}
  /\ IF RequiredFile \cap PackageFile \subseteq checked
     THEN Goto("metadata") /\ todo' = Present(MetadataFile) /\ UNCHANGED <<checked, source>>
     ELSE Reject
  /\ UNCHANGED <<inst, request>>

MetadataComplete == RequiredFile \cap MetadataFile \subseteq checked

MetadataDone ==
  /\ pc = "metadata" /\ todo = {}
  /\ IF MetadataComplete
     THEN Goto("identity") /\ UNCHANGED <<todo, checked, source>>
     ELSE Reject
  /\ UNCHANGED <<inst, request>>

\* _installed_distribution, after the inspection: METADATA, its version, the
\* literal and INSTALLER in this order, and the first fault decides the code.
Identified == /\ inst.metadata = "ours" /\ inst.installer
              /\ inst.version = request.version /\ inst.literal = request.version
IdentityBreaks ==
  \/ inst.metadata = "unforeseen"
  \/ /\ inst.metadata = "ours"
     /\ \/ inst.version = Unforeseen
        \/ inst.version = request.version /\ inst.literal = Unforeseen

CheckIdentity ==
  /\ pc = "identity"
  /\ \/ Identified /\ Goto("read") /\ UNCHANGED <<todo, checked, source>>
     \/ IdentityBreaks /\ Crash
     \/ ~Identified /\ ~IdentityBreaks /\ Reject
  /\ UNCHANGED <<inst, request>>

ReadSource ==
  /\ pc = "read"
  /\ \/ inst.url \in Source /\ Goto("source") /\ source' = inst.url /\ UNCHANGED <<todo, checked>>
     \/ inst.url = Invalid /\ Reject
     \/ inst.url = Unforeseen /\ Crash
  /\ UNCHANGED <<inst, request>>

\* Whether direct_url.json is what was asked for: _verify_vcs_source;
\* _verify_archive_source for one of the accepted URLs of the commit;
\* _verify_local_artifact_file.
FromGitResolved == /\ source.kind = "git" /\ ~source.mixed
                   /\ request.repository = "https" /\ source.site = "expected"
                   /\ source.commit = request.commit
FromGit == /\ source.kind = "git" /\ ~source.mixed
           /\ request.repository = "https" /\ source.site = "expected"
           /\ source.commit = request.commit /\ source.requested = request.commit
FromArchive == /\ source.kind = "archive" /\ ~source.mixed
               /\ request.repository = "https" /\ source.site = "expected"
               /\ source.commit = request.commit
               /\ request.hash # None /\ source.hash = request.hash
MayBeArtifact == /\ source.kind = "file" /\ ~source.mixed /\ source.hash # Unsafe
                 /\ request.repository = "https" /\ source.site # "broken"
                 /\ request.allowLocal /\ request.hash # None
FromArtifact == MayBeArtifact /\ inst.artifact = request.hash

\* urlparse raises: for Git the source's URL is parsed and judged before the
\* expected repository's, for the other kinds after it, whatever else they hold.
SourceBreaks ==
  \/ /\ source.kind = "git" /\ ~source.mixed
     /\ \/ source.site = "broken"
        \/ source.site # "insecure" /\ request.repository = "broken"
  \/ /\ source.kind \notin {"git", "vcs"}
     /\ \/ request.repository = "broken"
        \/ request.repository = "https" /\ source.site = "broken"

\* The results: only Git and archive sources verify the commit.
LocalClaimGenerous == Claim("local-artifact", TRUE, None, inst.artifact)
LocalClaim == Claim("local-artifact", FALSE, None, inst.artifact)

JudgeSource ==
  /\ pc = "source"
  /\ \/ FromGit /\ Accept(Claim("git", TRUE, None, None))
     \/ FromArchive /\ Accept(Claim("source-archive", TRUE, source.hash, None))
     \/ FromArtifact /\ Accept(LocalClaim)
     \/ SourceBreaks /\ Crash
     \/ MayBeArtifact /\ inst.artifact = Unreadable /\ Crash
     \/ /\ ~FromGit /\ ~FromArchive /\ ~FromArtifact /\ ~SourceBreaks
        /\ ~(MayBeArtifact /\ inst.artifact = Unreadable) /\ Reject
  /\ UNCHANGED <<inst, request>>

Next == \/ CheckRequest \/ Select \/ ReadRecord
        \/ \E f \in File : VisitFile(f)
        \/ PackageDone \/ MetadataDone \/ CheckIdentity \/ ReadSource \/ JudgeSource

Spec == Init /\ [][Next]_vars

-----------------------------------------------------------------------------
(* Properties *)

TypeOK ==
  /\ inst \in Installation /\ request \in Request
  /\ pc \in Stage
  /\ todo \subseteq File /\ checked \subseteq File
  /\ source \in Source \cup {NoSource}
  /\ outcome \in {"running", "verified", "failed", "operational"}
  /\ claim \in [mode : {"none", "git", "source-archive", "local-artifact"},
                commitVerified : BOOLEAN,
                archive : Digest \cup {None}, artifact : Digest \cup {None}]

\* The files of a tree that must agree with RECORD, and a tree in which each does.
Scope(tree) == {f \in tree \ Bytecode : inst.content[f] # Missing}
Good(f) == inst.content[f] \in Bytes /\ inst.rows[f] = inst.content[f]
Covered(tree) == /\ \A f \in tree : inst.content[f] # Link
                 /\ \A f \in Scope(tree) : Good(f)
                 /\ RequiredFile \cap tree \subseteq Scope(tree)

BeyondPackage == {"metadata", "identity", "read", "source"}
BeyondMetadata == {"identity", "read", "source"}

\* What the stage of a run says of the installation: a file is counted as
\* checked only if it is good, a tree that has been left is covered, and of one
\* being walked everything no longer on the list is good.
WalkInv ==
  /\ \A f \in checked : f \in File \ Bytecode /\ Good(f)
  /\ pc = "package" =>
       \A f \in PackageFile \ todo : inst.content[f] # Link /\ (f \in Scope(PackageFile) => f \in checked)
  /\ pc = "metadata" =>
       \A f \in MetadataFile \ todo : inst.content[f] # Link /\ (f \in Scope(MetadataFile) => f \in checked)
  /\ pc \in BeyondPackage \/ outcome = "verified" =>
       Covered(PackageFile) /\ Scope(PackageFile) \subseteq checked
  /\ pc \in BeyondMetadata \/ outcome = "verified" =>
       Covered(MetadataFile) /\ Scope(MetadataFile) \subseteq checked
  /\ pc = "source" \/ outcome = "verified" => source = inst.url
  /\ pc # "done" => outcome = "running" /\ claim = NoClaim

\* "matches RECORD SHA-256 for every non-bytecode regular file in the selected
\* flightsql package and distribution-metadata trees except RECORD itself"
\* (MAINTENANCE.md): the verdict is verified exactly if the whole of both trees
\* agrees and the source is the one asked for, in whatever order the files were
\* visited, and bytecode never decides it.
SoundSource(site, repository, artifact) ==
  /\ ~inst.url.mixed /\ repository = "https"
  /\ \/ /\ inst.url.kind = "git" /\ site = "expected"
        /\ inst.url.commit = request.commit /\ inst.url.requested = request.commit
     \/ /\ inst.url.kind = "archive" /\ site = "expected" /\ inst.url.commit = request.commit
        /\ request.hash # None /\ inst.url.hash = request.hash
     \/ /\ inst.url.kind = "file" /\ site # "broken" /\ inst.url.hash # Unsafe
        /\ request.allowLocal /\ request.hash # None /\ artifact = request.hash
Admissible == /\ request.wellFormed /\ request.version \in Version /\ inst.packaging
              /\ Selected /\ Recorded /\ Identified
SourceSound ==
  inst.url \in Source /\ SoundSource(inst.url.site, request.repository, inst.artifact)
Sound == Admissible /\ Covered(PackageFile) /\ Covered(MetadataFile) /\ SourceSound
VerifiesExactlySound == outcome # "running" => (outcome = "verified" <=> Sound)

\* "commit_verified means only that those hash-checked recorded source fields
\* match the asserted SHA/repository", and an archive or a local file "requires
\* its externally recorded SHA-256" (MAINTENANCE.md): a commit is claimed only
\* from a direct_url.json that RECORD covers and that names it, never for a local
\* file, and a verdict on an archive or a local file carries the digest asked for.
ClaimsAreSupported ==
  outcome = "verified" =>
    /\ claim.commitVerified => /\ Good(DirectUrl)
                               /\ inst.url.kind # "file" /\ inst.url.site = "expected"
                               /\ inst.url.commit = request.commit
    /\ inst.url.kind # "git" => /\ request.hash # None
                                /\ request.hash \in {claim.archive, claim.artifact}
    /\ inst.url.kind = "file" => inst.artifact = request.hash

\* No claim of direct_url.json is read before every file of both trees, itself
\* among them, agrees with RECORD (the comment in verify says so).
EvidenceFirst ==
  [][source' # source =>
       Good(DirectUrl) /\ \A f \in Scope(File) : Good(f)]_vars

\* What ends a run with code 2: the dependency is not there, a file cannot be
\* opened, or an input makes a parser raise what no handler names.
Obstacle == \/ ~inst.packaging \/ inst.artifact = Unreadable
            \/ \E f \in File \ Bytecode : inst.content[f] = Unreadable
Surprise == \/ Unforeseen \in {request.version, inst.version, inst.literal, inst.url}
            \/ "unforeseen" \in {inst.record, inst.metadata}
            \/ request.repository = "broken"
            \/ inst.url \in Source /\ inst.url.site = "broken"

\* What is wrong with an installation or a request even if every obstacle were
\* removed and every surprise replaced by what was asked for.
SourceMismatch ==
  LET Repaired(x, broken, good) == IF x = broken THEN good ELSE x
  IN  \/ inst.url = Invalid
      \/ /\ inst.url \in Source
         /\ ~SoundSource(Repaired(inst.url.site, "broken", "expected"),
                         Repaired(request.repository, "broken", "https"),
                         Repaired(inst.artifact, Unreadable, request.hash))
FileMismatch ==
  \/ \E f \in RequiredFile : inst.content[f] = Missing
  \/ \E f \in File : inst.content[f] = Link
  \/ \E f \in Scope(File) :
       inst.rows[f] = NoRow \/ (inst.content[f] # Unreadable /\ ~Good(f))
Mismatch ==
  \/ ~request.wellFormed \/ request.version = Malformed
  \/ ~Selected \/ RecordRefused \/ FileMismatch
  \/ inst.metadata = "foreign" \/ ~inst.installer
  \/ inst.version \notin {request.version, Unforeseen}
  \/ inst.literal \notin {request.version, Unforeseen}
  \/ SourceMismatch

\* "Operational failures must not turn --json into a traceback ... This does not
\* relabel them as provenance mismatches" (the comment in main): whatever the order
\* in which the files are visited and the faults are met, a run that ends with code
\* 1 has a mismatch to show for it that would remain without the obstacles and the
\* surprises, and one that ends with code 2 has one of those.  A RECORD that cannot
\* be opened counts as a mismatch here, as _read_record reports it.
EndsForAReason ==
  /\ outcome = "failed" => Mismatch
  /\ outcome = "operational" => Obstacle \/ Surprise
=============================================================================
