---------------------- MODULE InstalledProvenanceProofs ----------------------
(***************************************************************************)
(* Theorems about InstalledProvenance, for every set of files, of          *)
(* installations and of requests.                                          *)
(***************************************************************************)
EXTENDS InstalledProvenance, TLAPS

\* Every installation a run can start with has the shape of one, and so has
\* every request: the variables keep to their types in every run.
THEOREM TypeCorrect == Spec => []TypeOK
<1>1. Init => TypeOK
  BY ConstantsAssumption DEF ConstantsAssumption, Init, TypeOK, NoClaim, Stage
<1>2. TypeOK /\ [Next]_vars => TypeOK'
  <2> SUFFICES ASSUME TypeOK, [Next]_vars PROVE TypeOK'
    OBVIOUS
  <2> USE DEF TypeOK, Stage, Goto, Reject, Crash, End
  <2>1. CASE CheckRequest
    BY <2>1 DEF CheckRequest
  <2>2. CASE Select
    BY <2>2 DEF Select
  <2>3. CASE ReadRecord
    BY <2>3 DEF ReadRecord, Present, File
  <2>4. ASSUME NEW f \in File, VisitFile(f) PROVE TypeOK'
    BY <2>4 DEF VisitFile
  <2>5. CASE PackageDone
    BY <2>5 DEF PackageDone, Present, File
  <2>6. CASE MetadataDone
    BY <2>6 DEF MetadataDone
  <2>7. CASE CheckIdentity
    BY <2>7 DEF CheckIdentity
  <2>8. CASE ReadSource
    BY <2>8 DEF ReadSource
  <2>9. CASE JudgeSource
    <3>0. UNCHANGED <<inst, request, checked, source>> /\ pc' = "done" /\ todo' = {}
          /\ outcome' \in {"verified", "failed", "operational"}
      BY <2>9 DEF JudgeSource, Accept
    <3>1. request.hash \in Digest \cup {None}
      BY DEF Request
    <3>2. CASE FromGit /\ Accept(Claim("git", TRUE, None, None))
      BY <3>0, <3>2 DEF Accept, Claim
    <3>3. CASE FromArchive /\ Accept(Claim("source-archive", TRUE, source.hash, None))
      <4>1. source.hash \in Digest \cup {None}
        BY <3>1, <3>3 DEF FromArchive
      <4> QED BY <3>0, <3>3, <4>1 DEF Accept, Claim
    <3>4. CASE FromArtifact /\ Accept(LocalClaim)
      <4>1. inst.artifact \in Digest \cup {None}
        BY <3>1, <3>4 DEF FromArtifact
      <4> QED BY <3>0, <3>4, <4>1 DEF Accept, LocalClaim, Claim
    <3>5. CASE UNCHANGED claim
      BY <3>0, <3>5
    <3> QED BY <2>9, <3>2, <3>3, <3>4, <3>5 DEF JudgeSource
  <2>10. CASE UNCHANGED vars
    BY <2>10 DEF vars
  <2> QED BY <2>1, <2>2, <2>3, <2>4, <2>5, <2>6, <2>7, <2>8, <2>9, <2>10 DEF Next
<1> QED BY <1>1, <1>2, PTL DEF Spec

-----------------------------------------------------------------------------
(* The walk *)

USE DEF Stage

\* A file visited without complaint is good: what RECORD may say and what a file
\* may hold have only bytes in common.
LEMMA VisitedIsGood ==
  ASSUME TypeOK, NEW f \in File, Agrees(f)
  PROVE  Good(f) /\ inst.content[f] # Missing
BY ConstantsAssumption DEF ConstantsAssumption, TypeOK, Installation, Agrees, Good

\* A tree of which nothing is left to visit, and whose required files have been
\* checked, is covered.
LEMMA WalkedIsCovered ==
  ASSUME TypeOK, NEW tree \in SUBSET File,
         \A f \in checked : f \in File \ Bytecode /\ Good(f),
         \A f \in tree : inst.content[f] # Link /\ (f \in Scope(tree) => f \in checked),
         RequiredFile \cap tree \subseteq checked
  PROVE  Covered(tree) /\ Scope(tree) \subseteq checked
<1>1. \A f \in checked : inst.content[f] # Missing
  BY ConstantsAssumption DEF ConstantsAssumption, Good
<1> QED BY <1>1 DEF Covered, Scope

\* The trees are walked completely before they are left, and what is counted as
\* checked agrees with RECORD.
THEOREM WalkInvariant == Spec => []WalkInv
<1>1. Init => WalkInv
  BY DEF Init, WalkInv, NoClaim, BeyondPackage, BeyondMetadata
<1>2. TypeOK /\ WalkInv /\ [Next]_vars => WalkInv'
  <2> SUFFICES ASSUME TypeOK, WalkInv, [Next]_vars PROVE WalkInv'
    OBVIOUS
  <2> USE DEF Goto, Reject, Crash, End, BeyondPackage, BeyondMetadata
  <2>0. ASSUME inst' = inst PROVE
          /\ \A f : Good(f)' = Good(f)
          /\ \A tree : Scope(tree)' = Scope(tree)
          /\ \A tree : Covered(tree)' = Covered(tree)
    BY <2>0 DEF Good, Scope, Covered
  <2> HIDE DEF Good, Scope, Covered
  <2>1. CASE CheckRequest
    BY <2>1, <2>0 DEF CheckRequest, WalkInv
  <2>2. CASE Select
    BY <2>2, <2>0 DEF Select, WalkInv
  <2>3. CASE ReadRecord
    <3>1. \A f \in PackageFile \ Present(PackageFile) :
            inst.content[f] # Link /\ f \notin Scope(PackageFile)
      BY ConstantsAssumption DEF ConstantsAssumption, Present, Scope
    <3> QED BY <2>3, <2>0, <3>1 DEF ReadRecord, WalkInv
  <2>4. ASSUME NEW f \in File, VisitFile(f) PROVE WalkInv'
    <3>1. CASE inst.content[f] = Link
      BY <2>4, <2>0, <3>1 DEF VisitFile, WalkInv
    <3>2. CASE inst.content[f] # Link /\ f \in Bytecode
      BY <2>4, <2>0, <3>2 DEF VisitFile, WalkInv, Scope
    <3>3. CASE inst.content[f] # Link /\ f \notin Bytecode
      BY <2>4, <2>0, <3>3, VisitedIsGood DEF VisitFile, WalkInv
    <3> QED BY <3>1, <3>2, <3>3
  <2>5. CASE PackageDone
    <3>1. \A f \in MetadataFile \ Present(MetadataFile) :
            inst.content[f] # Link /\ f \notin Scope(MetadataFile)
      BY ConstantsAssumption DEF ConstantsAssumption, Present, Scope
    <3>2. RequiredFile \cap PackageFile \subseteq checked =>
            Covered(PackageFile) /\ Scope(PackageFile) \subseteq checked
      BY <2>5, WalkedIsCovered DEF PackageDone, WalkInv, File
    <3> QED BY <2>5, <2>0, <3>1, <3>2 DEF PackageDone, WalkInv
  <2>6. CASE MetadataDone
    <3>1. MetadataComplete => Covered(MetadataFile) /\ Scope(MetadataFile) \subseteq checked
      BY <2>6, WalkedIsCovered DEF MetadataDone, MetadataComplete, WalkInv, File
    <3> QED BY <2>6, <2>0, <3>1 DEF MetadataDone, WalkInv
  <2>7. CASE CheckIdentity
    BY <2>7, <2>0 DEF CheckIdentity, WalkInv
  <2>8. CASE ReadSource
    BY <2>8, <2>0 DEF ReadSource, WalkInv
  <2>9. CASE JudgeSource
    BY <2>9, <2>0 DEF JudgeSource, Accept, WalkInv
  <2>10. CASE UNCHANGED vars
    BY <2>10, <2>0 DEF vars, WalkInv
  <2> QED BY <2>1, <2>2, <2>3, <2>4, <2>5, <2>6, <2>7, <2>8, <2>9, <2>10 DEF Next
<1> QED BY <1>1, <1>2, TypeCorrect, PTL DEF Spec

\* Nothing is read of direct_url.json before the whole of both trees agrees.
THEOREM EvidencePrecedesClaims == Spec => EvidenceFirst
<1>1. WalkInv /\ [Next]_vars =>
        [source' # source => Good(DirectUrl) /\ \A f \in Scope(File) : Good(f)]_vars
  <2> SUFFICES ASSUME WalkInv, Next, source' # source
               PROVE Good(DirectUrl) /\ \A f \in Scope(File) : Good(f)
    OBVIOUS
  <2>1. ReadSource
    BY DEF Next, CheckRequest, Select, ReadRecord, VisitFile, PackageDone, MetadataDone,
           CheckIdentity, JudgeSource, Reject, Crash, Accept
  <2>2. Covered(PackageFile) /\ Covered(MetadataFile)
    BY <2>1 DEF ReadSource, WalkInv, BeyondPackage, BeyondMetadata
  <2>3. \A f \in Scope(PackageFile) \cup Scope(MetadataFile) : Good(f)
    BY <2>2 DEF Covered, Good
  <2>4. Scope(File) = Scope(PackageFile) \cup Scope(MetadataFile)
    BY DEF Scope, File
  <2>5. DirectUrl \in Scope(MetadataFile)
    BY <2>2, ConstantsAssumption DEF ConstantsAssumption, Covered
  <2> QED BY <2>3, <2>4, <2>5
<1> QED BY <1>1, WalkInvariant, PTL DEF Spec, EvidenceFirst

-----------------------------------------------------------------------------
(* The verdict *)

\* What a run has established before each stage; what is on the list is there;
\* and why a run has ended as it has.
StageInv ==
  /\ \A f \in todo : inst.content[f] # Missing
  /\ pc \notin {"request", "done"} =>
       request.wellFormed /\ request.version \in Version /\ inst.packaging
  /\ pc \notin {"request", "select", "done"} => Selected
  /\ pc \notin {"request", "select", "record", "done"} => Recorded
  /\ pc \in {"read", "source"} => Identified
  /\ pc = "source" => inst.url \in Source
VerdictInv == StageInv /\ VerifiesExactlySound /\ ClaimsAreSupported /\ EndsForAReason

LEMMA VerdictInvariant == Spec => []VerdictInv
<1>1. Init => VerdictInv
  BY DEF Init, VerdictInv, StageInv, VerifiesExactlySound, ClaimsAreSupported, EndsForAReason
<1>2. TypeOK /\ WalkInv /\ VerdictInv /\ [Next]_vars => VerdictInv'
  <2> SUFFICES ASSUME TypeOK, WalkInv, VerdictInv, [Next]_vars PROVE VerdictInv'
    OBVIOUS
  <2> USE DEF Goto, Reject, Crash, End
  <2>a. ASSUME UNCHANGED <<inst, request>> PROVE
          /\ Sound' = Sound /\ Selected' = Selected /\ Recorded' = Recorded
          /\ Identified' = Identified
          /\ Mismatch' = Mismatch /\ Obstacle' = Obstacle /\ Surprise' = Surprise
          /\ \A f : Good(f)' = Good(f)
          /\ \A tree : Scope(tree)' = Scope(tree)
    BY <2>a DEF Sound, Admissible, Selected, Recorded, RecordRefused, Identified, Covered,
                Scope, Good, SourceSound, SoundSource, SourceMismatch, FileMismatch, Mismatch,
                Obstacle, Surprise
  \* A run that goes on has only to establish what its next stage needs.
  <2>b. ASSUME UNCHANGED <<inst, request, outcome, claim>>, pc # "done", StageInv'
        PROVE  VerdictInv'
    BY <2>b DEF VerdictInv, VerifiesExactlySound, ClaimsAreSupported, EndsForAReason, WalkInv
  \* A run that is rejected needs a mismatch, and one that crashes an obstacle or a
  \* surprise.
  <2>c. ASSUME UNCHANGED <<inst, request>>, Reject, ~Sound, Mismatch
        PROVE  VerdictInv'
    BY <2>a, <2>c DEF VerdictInv, StageInv, ClaimsAreSupported, VerifiesExactlySound,
                      EndsForAReason
  <2>d. ASSUME UNCHANGED <<inst, request>>, Crash, ~Sound, Obstacle \/ Surprise
        PROVE  VerdictInv'
    BY <2>a, <2>d DEF VerdictInv, StageInv, ClaimsAreSupported, VerifiesExactlySound,
                      EndsForAReason
  <2>1. CASE CheckRequest
    <3>1. CASE UNCHANGED <<outcome, claim>>
      BY <2>1, <3>1, <2>a, <2>b DEF CheckRequest, VerdictInv, StageInv
    <3>2. CASE Reject
      BY <2>1, <3>2, <2>c, ConstantsAssumption
         DEF ConstantsAssumption, CheckRequest, Sound, Admissible, Mismatch
    <3>3. CASE Crash
      BY <2>1, <3>3, <2>d, ConstantsAssumption
         DEF ConstantsAssumption, CheckRequest, Sound, Admissible, Obstacle, Surprise
    <3> QED BY <2>1, <3>1, <3>2, <3>3 DEF CheckRequest
  <2>2. CASE Select
    <3>1. CASE Selected
      BY <2>2, <3>1, <2>a, <2>b DEF Select, VerdictInv, StageInv
    <3>2. CASE ~Selected
      BY <2>2, <3>2, <2>c DEF Select, Sound, Admissible, Mismatch
    <3> QED BY <3>1, <3>2
  <2>3. CASE ReadRecord
    <3>1. CASE Recorded /\ Goto("package")
      BY <2>3, <3>1, <2>a, <2>b DEF ReadRecord, VerdictInv, StageInv, Present
    <3>2. CASE RecordRefused /\ Reject
      BY <2>3, <3>2, <2>c DEF ReadRecord, Recorded, Sound, Admissible, Mismatch
    <3>3. CASE inst.record = "unforeseen" /\ Crash
      BY <2>3, <3>3, <2>d DEF ReadRecord, Recorded, Sound, Admissible, Surprise
    <3> QED BY <2>3, <3>1, <3>2, <3>3 DEF ReadRecord
  <2>4. ASSUME NEW f \in File, VisitFile(f) PROVE VerdictInv'
    <3>0. f \in PackageFile \/ f \in MetadataFile
      BY DEF File
    <3>1. inst.content[f] # Missing
      BY <2>4 DEF VisitFile, VerdictInv, StageInv
    <3>2. CASE UNCHANGED <<pc, outcome, claim>> /\ todo' = todo \ {f}
      BY <2>4, <3>2, <2>a, <2>b DEF VisitFile, VerdictInv, StageInv
    <3>3. CASE inst.content[f] = Link /\ Reject
      <4>1. ~Sound
        BY <3>0, <3>3 DEF Sound, Covered
      <4> QED BY <2>4, <3>3, <4>1, <2>c DEF VisitFile, Mismatch, FileMismatch
    <3>4. ASSUME f \notin Bytecode, inst.content[f] # Link PROVE f \in Scope(File) /\ (Sound => Good(f))
      BY <3>0, <3>1, <3>4 DEF Scope, Sound, Covered, File
    <3>5. CASE f \notin Bytecode /\ inst.content[f] # Link /\ Unopenable(f) /\ Crash
      <4>1. inst.content[f] = Unreadable /\ ~Good(f)
        BY <3>5, ConstantsAssumption DEF ConstantsAssumption, Unopenable, Good
      <4> QED BY <2>4, <3>4, <3>5, <4>1, <2>d DEF VisitFile, Obstacle
    <3>6. CASE f \notin Bytecode /\ inst.content[f] # Link /\ ~Unopenable(f) /\ ~Agrees(f) /\ Reject
      <4>1. ~Good(f) /\ (inst.rows[f] = NoRow \/ inst.content[f] # Unreadable)
        BY <3>6 DEF Unopenable, Agrees, Good
      <4> QED BY <2>4, <3>4, <3>6, <4>1, <2>c DEF VisitFile, Mismatch, FileMismatch
    <3> QED BY <2>4, <3>2, <3>3, <3>5, <3>6 DEF VisitFile
  <2>5. CASE PackageDone
    <3>1. CASE RequiredFile \cap PackageFile \subseteq checked
      BY <2>5, <3>1, <2>a, <2>b DEF PackageDone, VerdictInv, StageInv, Present
    <3>2. CASE ~(RequiredFile \cap PackageFile \subseteq checked)
      <4>1. PICK f \in RequiredFile \cap PackageFile : f \notin checked
        BY <3>2
      <4>2. f \notin Scope(PackageFile) /\ inst.content[f] = Missing
        BY <2>5, <4>1, ConstantsAssumption DEF ConstantsAssumption, PackageDone, WalkInv, Scope
      <4>3. ~Sound
        BY <4>1, <4>2 DEF Sound, Covered
      <4> QED BY <2>5, <3>2, <4>1, <4>2, <4>3, <2>c DEF PackageDone, Mismatch, FileMismatch
    <3> QED BY <3>1, <3>2
  <2>6. CASE MetadataDone
    <3>1. CASE MetadataComplete
      BY <2>6, <3>1, <2>a, <2>b DEF MetadataDone, VerdictInv, StageInv
    <3>2. CASE ~MetadataComplete
      <4>1. PICK f \in RequiredFile \cap MetadataFile : f \notin checked
        BY <3>2 DEF MetadataComplete
      <4>2. f \notin Scope(MetadataFile) /\ inst.content[f] = Missing
        BY <2>6, <4>1, ConstantsAssumption DEF ConstantsAssumption, MetadataDone, WalkInv, Scope
      <4>3. ~Sound
        BY <4>1, <4>2 DEF Sound, Covered
      <4> QED BY <2>6, <3>2, <4>1, <4>2, <4>3, <2>c DEF MetadataDone, Mismatch, FileMismatch
    <3> QED BY <3>1, <3>2
  <2>7. CASE CheckIdentity
    <3>0. request.version # Unforeseen
      BY <2>7, ConstantsAssumption DEF ConstantsAssumption, CheckIdentity, VerdictInv, StageInv
    <3>1. CASE Identified /\ Goto("read")
      BY <2>7, <3>1, <2>a, <2>b DEF CheckIdentity, VerdictInv, StageInv
    <3>2. CASE IdentityBreaks /\ Crash
      BY <2>7, <3>0, <3>2, <2>d DEF CheckIdentity, IdentityBreaks, Identified, Sound, Admissible,
                                   Surprise
    <3>3. CASE ~Identified /\ ~IdentityBreaks /\ Reject
      <4>1. inst.metadata \in {"ours", "foreign", "unforeseen"}
        BY DEF TypeOK, Installation
      <4>2. Mismatch
        BY <3>0, <3>3, <4>1 DEF Identified, IdentityBreaks, Mismatch
      <4> QED BY <2>7, <3>3, <4>2, <2>c DEF CheckIdentity, Sound, Admissible
    <3> QED BY <2>7, <3>1, <3>2, <3>3 DEF CheckIdentity
  <2>8. CASE ReadSource
    <3>1. CASE inst.url \in Source /\ Goto("source")
      BY <2>8, <3>1, <2>a, <2>b DEF ReadSource, VerdictInv, StageInv
    <3>2. CASE inst.url = Invalid /\ Reject
      BY <2>8, <3>2, <2>c, ConstantsAssumption
         DEF ConstantsAssumption, ReadSource, Sound, SourceSound, SourceMismatch, Mismatch
    <3>3. CASE inst.url = Unforeseen /\ Crash
      BY <2>8, <3>3, <2>d, ConstantsAssumption
         DEF ConstantsAssumption, ReadSource, Sound, SourceSound, Surprise
    <3> QED BY <2>8, <3>1, <3>2, <3>3 DEF ReadSource
  <2>9. CASE JudgeSource
    <3>0. /\ source = inst.url /\ inst.url \in Source /\ UNCHANGED <<inst, request>>
          /\ Admissible /\ Covered(PackageFile) /\ Covered(MetadataFile)
      BY <2>9 DEF JudgeSource, WalkInv, VerdictInv, StageInv, Admissible,
                  BeyondPackage, BeyondMetadata
    <3>1. Sound <=> SoundSource(inst.url.site, request.repository, inst.artifact)
      BY <3>0 DEF Sound, SourceSound
    <3>2. SoundSource(inst.url.site, request.repository, inst.artifact)
            <=> FromGit \/ FromArchive \/ FromArtifact
      BY <3>0 DEF SoundSource, FromGit, FromArchive, FromArtifact, MayBeArtifact
    <3>3. Good(DirectUrl)
      BY <3>0, ConstantsAssumption DEF ConstantsAssumption, Covered
    <3>4. ASSUME NEW c, Accept(c), Sound, 
                 c.commitVerified => inst.url.kind # "file" /\ inst.url.site = "expected"
                                     /\ inst.url.commit = request.commit,
                 inst.url.kind # "git" => request.hash # None
                                          /\ request.hash \in {c.archive, c.artifact},
                 inst.url.kind = "file" => inst.artifact = request.hash
          PROVE  VerdictInv'
      BY <3>0, <3>3, <3>4, <2>a DEF Accept, VerdictInv, StageInv, VerifiesExactlySound,
                                    ClaimsAreSupported, EndsForAReason
    <3>5. CASE FromGit /\ Accept(Claim("git", TRUE, None, None))
      BY <3>0, <3>1, <3>2, <3>4, <3>5 DEF FromGit, Claim
    <3>6. CASE FromArchive /\ Accept(Claim("source-archive", TRUE, source.hash, None))
      BY <3>0, <3>1, <3>2, <3>4, <3>6 DEF FromArchive, Claim
    <3>7. CASE FromArtifact /\ Accept(LocalClaim)
      BY <3>0, <3>1, <3>2, <3>4, <3>7 DEF FromArtifact, MayBeArtifact, LocalClaim, Claim
    <3>8. CASE SourceBreaks /\ Crash
      <4>1. ~FromGit /\ ~FromArchive /\ ~FromArtifact
        BY <3>8 DEF SourceBreaks, FromGit, FromArchive, FromArtifact, MayBeArtifact
      <4>2. Surprise
        BY <3>0, <3>8 DEF SourceBreaks, Surprise
      <4> QED BY <3>0, <3>1, <3>2, <3>8, <4>1, <4>2, <2>d
    <3>9. CASE MayBeArtifact /\ inst.artifact = Unreadable /\ Crash
      <4>1. ~FromGit /\ ~FromArchive
        BY <3>9 DEF MayBeArtifact, FromGit, FromArchive
      <4>2. request.hash # Unreadable
        BY <3>9, ConstantsAssumption DEF ConstantsAssumption, TypeOK, Request, MayBeArtifact
      <4> QED BY <3>0, <3>1, <3>2, <3>9, <4>1, <4>2, <2>d DEF FromArtifact, Obstacle
    <3>10. CASE /\ ~FromGit /\ ~FromArchive /\ ~FromArtifact /\ ~SourceBreaks
                /\ ~(MayBeArtifact /\ inst.artifact = Unreadable) /\ Reject
      <4>0. request.repository \in {"https", "insecure", "broken"}
        BY DEF TypeOK, Request
      <4>1. SourceMismatch
        <5>1. CASE inst.artifact # Unreadable
          BY <3>0, <3>10, <4>0, <5>1
             DEF SourceMismatch, SoundSource, SourceBreaks, FromGit, FromArchive, FromArtifact,
                 MayBeArtifact
        <5>2. CASE inst.artifact = Unreadable
          BY <3>0, <3>10, <4>0, <5>2
             DEF SourceMismatch, SoundSource, SourceBreaks, FromGit, FromArchive, MayBeArtifact
        <5> QED BY <5>1, <5>2
      <4> QED BY <3>0, <3>1, <3>2, <3>10, <4>1, <2>c DEF Mismatch
    <3> QED BY <2>9, <3>5, <3>6, <3>7, <3>8, <3>9, <3>10 DEF JudgeSource
  <2>10. CASE UNCHANGED vars
    BY <2>10, <2>a DEF vars, VerdictInv, StageInv, VerifiesExactlySound, ClaimsAreSupported,
                       EndsForAReason
  <2> QED BY <2>1, <2>2, <2>3, <2>4, <2>5, <2>6, <2>7, <2>8, <2>9, <2>10 DEF Next
<1> QED BY <1>1, <1>2, TypeCorrect, WalkInvariant, PTL DEF Spec

\* The verdict is verified exactly for a sound installation, whatever the order
\* in which its files are visited.
THEOREM VerdictIsExact == Spec => []VerifiesExactlySound
BY VerdictInvariant, PTL DEF VerdictInv

\* No commit and no digest is claimed that the evidence does not support.
THEOREM ClaimsSupported == Spec => []ClaimsAreSupported
BY VerdictInvariant, PTL DEF VerdictInv

\* Code 1 is never for an obstacle or a surprise alone, and code 2 never without one,
\* in whatever order the files are visited.
THEOREM EveryEndHasAReason == Spec => []EndsForAReason
BY VerdictInvariant, PTL DEF VerdictInv
=============================================================================
