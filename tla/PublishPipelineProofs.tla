------------------------ MODULE PublishPipelineProofs ------------------------
(***************************************************************************)
(* Theorems about PublishPipeline, for any number of builds, versions and  *)
(* wheels.                                                                 *)
(***************************************************************************)
EXTENDS PublishPipeline, TLAPS

LEMMA TypeInit == ASSUME Init PROVE TypeOK
BY DEF Init, TypeOK, Stage

LEMMA TypeStep ==
  ASSUME TypeOK, StageInv, [Next]_vars
  PROVE  TypeOK'
<1> USE DEF TypeOK, Stage, Goto, End
<1>1. ASSUME NEW b \in Build, Resolve(b) PROVE TypeOK'
  <2>1. <<version[b], IF IsMain(b) THEN "stable" ELSE "local">> \in Name
    BY DEF Name
  <2>2. name' \in [Build -> Name \cup {Nothing}]
    BY <1>1, <2>1 DEF Resolve
  <2>3. QED
    BY <1>1, <2>2 DEF Resolve, input
<1>2. ASSUME NEW b \in Build, Tests(b) PROVE TypeOK'
  BY <1>2 DEF Tests, input
<1>3. ASSUME NEW b \in Build, RejectExisting(b) PROVE TypeOK'
  BY <1>3 DEF RejectExisting, input
<1>4. ASSUME NEW b \in Build, BuildTwice(b) PROVE TypeOK'
  BY <1>4 DEF BuildTwice, input
<1>5. ASSUME NEW b \in Build, Install(b) PROVE TypeOK'
  BY <1>5 DEF Install, input
<1>6. ASSUME NEW b \in Build, BuiltOnly(b) PROVE TypeOK'
  BY <1>6 DEF BuiltOnly, input
<1>7. ASSUME NEW b \in Build, Put(b) PROVE TypeOK'
  <2>1. PICK w \in {wheel[b], Damaged} : bucket' = [bucket EXCEPT ![name[b]] = w]
    BY <1>7 DEF Put
  <2>2. bucket' \in [Name -> Wheel \cup {Damaged, Nothing}]
    BY <2>1
  <2>3. stage' \in [Build -> Stage] /\ outcome' \in [Build -> {"running", "failed", "built", "published"}]
    BY <1>7 DEF Put
  <2>4. QED
    BY <1>7, <2>2, <2>3 DEF Put, input
<1>8. ASSUME NEW b \in Build, PutRejected(b) PROVE TypeOK'
  BY <1>8 DEF PutRejected, input
<1>9. ASSUME NEW b \in Build, ReadBack(b) PROVE TypeOK'
  <2>1. name[b] \in Name
    BY <1>9 DEF ReadBack, StageInv
  <2>2. stored' \in [Build -> Wheel \cup {Damaged, Nothing}]
    BY <1>9, <2>1 DEF ReadBack
  <2>3. stage' \in [Build -> Stage] /\ outcome' \in [Build -> {"running", "failed", "built", "published"}]
    BY <1>9 DEF ReadBack
  <2>4. QED
    BY <1>9, <2>2, <2>3 DEF ReadBack, input
<1>10. ASSUME NEW b \in Build, Archive(b) PROVE TypeOK'
  <2>1. stored[b] \in Wheel
    BY <1>10 DEF Archive, StageInv
  <2>2. QED
    BY <1>10, <2>1 DEF Archive, input
<1>11. ASSUME NEW b \in Build, Break(b) PROVE TypeOK'
  BY <1>11 DEF Break, input
<1>12. CASE UNCHANGED vars
  BY <1>12 DEF vars
<1>13. QED
  BY <1>1, <1>2, <1>3, <1>4, <1>5, <1>6, <1>7, <1>8, <1>9, <1>10, <1>11, <1>12 DEF Next, Step

LEMMA StageInit == ASSUME Init PROVE StageInv
BY DEF Init, StageInv

LEMMA StageStep ==
  ASSUME TypeOK, StageInv, HolderInv, [Next]_vars
  PROVE  StageInv'
<1> USE DEF TypeOK, StageInv, Goto, End, IsMain, input
<1>1. ASSUME NEW b \in Build, Resolve(b) PROVE StageInv'
  <2>1. <<version[b], IF IsMain(b) THEN "stable" ELSE "local">> \in Name
    BY DEF Name
  <2>2. <<version[b], IF IsMain(b) THEN "stable" ELSE "local">> # Nothing
    BY <2>1, ConstantsAssumption DEF ConstantsAssumption
  <2>3. QED
    BY <1>1, <2>2 DEF Resolve
<1>2. ASSUME NEW b \in Build, Tests(b) PROVE StageInv'
  BY <1>2 DEF Tests
<1>3. ASSUME NEW b \in Build, RejectExisting(b) PROVE StageInv'
  BY <1>3 DEF RejectExisting
<1>4. ASSUME NEW b \in Build, BuildTwice(b) PROVE StageInv'
  BY <1>4 DEF BuildTwice
<1>5. ASSUME NEW b \in Build, Install(b) PROVE StageInv'
  BY <1>5 DEF Install
<1>6. ASSUME NEW b \in Build, BuiltOnly(b) PROVE StageInv'
  BY <1>6 DEF BuiltOnly
<1>7. ASSUME NEW b \in Build, Put(b) PROVE StageInv'
  BY <1>7 DEF Put
<1>8. ASSUME NEW b \in Build, PutRejected(b) PROVE StageInv'
  BY <1>8 DEF PutRejected
<1>9. ASSUME NEW b \in Build, ReadBack(b) PROVE StageInv'
  BY <1>9 DEF ReadBack, Verified
<1>10. ASSUME NEW b \in Build, Archive(b) PROVE StageInv'
  BY <1>10 DEF Archive
<1>11. ASSUME NEW b \in Build, Break(b) PROVE StageInv'
  BY <1>11 DEF Break
<1>12. CASE UNCHANGED vars
  BY <1>12 DEF vars
<1>13. QED
  BY <1>1, <1>2, <1>3, <1>4, <1>5, <1>6, <1>7, <1>8, <1>9, <1>10, <1>11, <1>12 DEF Next, Step

-----------------------------------------------------------------------------
(* Who holds a version *)

LEMMA HolderInit == ASSUME Init PROVE HolderInv
BY DEF Init, HolderInv, Holds

\* A step that stores nothing and makes no new holder.
LEMMA QuietStep ==
  ASSUME TypeOK, StageInv, HolderInv, NEW b \in Build,
         ref' = ref, release' = release, version' = version, bucket' = bucket,
         wheel' = wheel \/ (~Holds(b) /\ \A c \in Build \ {b} : wheel'[c] = wheel[c]),
         name' = name \/ (~Holds(b) /\ \A c \in Build \ {b} : name'[c] = name[c]),
         archived' = archived,
         \A c \in Build \ {b} : stage'[c] = stage[c],
         stage'[b] \notin {"readback", "archive"}
  PROVE  HolderInv'
<1>1. \A c \in Build : Holds(c)' => Holds(c)
  BY DEF Holds
<1>2. \A c \in Build : Holds(c)' => name'[c] = name[c] /\ wheel'[c] = wheel[c]
  BY <1>1
<1>3. \A c \in Build : Publishes(c)' = Publishes(c)
  BY DEF Publishes, IsMain
<1>4. \A c \in Build : stage'[c] = "archive" => stage[c] = "archive"
  OBVIOUS
<1>5. QED
  BY <1>1, <1>2, <1>3, <1>4 DEF HolderInv

\* A version that somebody holds has an object.
LEMMA HeldIsStored ==
  ASSUME TypeOK, StageInv, HolderInv, NEW c \in Build, Holds(c)
  PROVE  bucket[<<version[c], "stable">>] # Nothing
<1>1. wheel[c] \in Wheel
  BY DEF StageInv, Holds
<1>2. bucket[<<version[c], "stable">>] \in {wheel[c], Damaged}
  BY DEF HolderInv
<1>3. QED
  BY <1>1, <1>2, ConstantsAssumption DEF ConstantsAssumption

LEMMA HolderStep ==
  ASSUME TypeOK, StageInv, HolderInv, [Next]_vars
  PROVE  HolderInv'
<1> USE DEF TypeOK, Goto, End, input
<1>1. ASSUME NEW b \in Build, Resolve(b) PROVE HolderInv'
  <2>1. ~Holds(b)
    BY <1>1 DEF Resolve, Holds, StageInv
  <2>2. QED
    BY <1>1, <2>1, QuietStep DEF Resolve
<1>2. ASSUME NEW b \in Build, Tests(b) PROVE HolderInv'
  BY <1>2, QuietStep DEF Tests
<1>3. ASSUME NEW b \in Build, RejectExisting(b) PROVE HolderInv'
  BY <1>3, QuietStep DEF RejectExisting
<1>4. ASSUME NEW b \in Build, BuildTwice(b) PROVE HolderInv'
  <2>1. ~Holds(b)
    BY <1>4 DEF BuildTwice, Holds, StageInv
  <2>2. QED
    BY <1>4, <2>1, QuietStep DEF BuildTwice
<1>5. ASSUME NEW b \in Build, Install(b) PROVE HolderInv'
  BY <1>5, QuietStep DEF Install
<1>6. ASSUME NEW b \in Build, BuiltOnly(b) PROVE HolderInv'
  BY <1>6, QuietStep DEF BuiltOnly
<1>7. ASSUME NEW b \in Build, Put(b) PROVE HolderInv'
  <2>1. /\ name[b] = <<version[b], "stable">> /\ Publishes(b) /\ bucket[name[b]] = Nothing
        /\ stage[b] = "publish" /\ wheel[b] \in Wheel
        /\ ref' = ref /\ release' = release /\ version' = version
        /\ name' = name /\ wheel' = wheel /\ archived' = archived
        /\ stage' = [stage EXCEPT ![b] = stage'[b]] /\ stage'[b] \in {"readback", "ended"}
    BY <1>7 DEF Put, Refused, MayStore, StageInv
  <2>2. PICK w \in {wheel[b], Damaged} : bucket' = [bucket EXCEPT ![name[b]] = w]
    BY <1>7 DEF Put
  <2>3. \A c \in Build : Holds(c) => version[c] # version[b]
    BY <2>1, HeldIsStored
  <2>4. archived[b] = Nothing
    BY <2>1 DEF StageInv
  <2>5. \A c \in Build : Publishes(c)' = Publishes(c)
    BY <2>1 DEF Publishes, IsMain
  <2>6. \A c \in Build \ {b} : (Holds(c)' <=> Holds(c)) /\ stage'[c] = stage[c]
    BY <2>1 DEF Holds
  <2>7. \A c \in Build \ {b} : Holds(c) => bucket'[name[c]] = bucket[name[c]]
    <3>1. \A c \in Build \ {b} : Holds(c) => name[c] = <<version[c], "stable">> /\ name[c] # name[b]
      BY <2>1, <2>3 DEF HolderInv
    <3>2. QED
      BY <2>2, <3>1 DEF Name
  <2>8. bucket'[name[b]] \in {wheel[b], Damaged}
    <3>1. name[b] \in Name
      BY <2>1 DEF Name
    <3>2. QED
      BY <2>2, <3>1
  <2>9. ASSUME NEW c \in Build \ {b}, Holds(c)'
        PROVE  /\ Publishes(c)' /\ name'[c] = <<version'[c], "stable">>
               /\ bucket'[name'[c]] \in {wheel'[c], Damaged}
               /\ stage'[c] = "archive" \/ archived'[c] # Nothing => bucket'[name'[c]] = wheel'[c]
               /\ \A d \in Build \ {c} : Holds(d)' => version'[d] # version'[c]
    BY <2>1, <2>3, <2>5, <2>6, <2>7, <2>9 DEF HolderInv
  <2>10. ASSUME Holds(b)'
         PROVE  /\ Publishes(b)' /\ name'[b] = <<version'[b], "stable">>
                /\ bucket'[name'[b]] \in {wheel'[b], Damaged}
                /\ stage'[b] = "archive" \/ archived'[b] # Nothing => bucket'[name'[b]] = wheel'[b]
                /\ \A d \in Build \ {b} : Holds(d)' => version'[d] # version'[b]
    BY <2>1, <2>3, <2>4, <2>5, <2>6, <2>8
  <2>11. QED
    BY <2>9, <2>10 DEF HolderInv
<1>8. ASSUME NEW b \in Build, PutRejected(b) PROVE HolderInv'
  BY <1>8, QuietStep DEF PutRejected
<1>9. ASSUME NEW b \in Build, ReadBack(b) PROVE HolderInv'
  <2>1. \A c \in Build : (Holds(c)' => Holds(c)) /\ Publishes(c)' = Publishes(c)
    BY <1>9 DEF ReadBack, Holds, Publishes, IsMain
  <2>2. stage'[b] = "archive" => bucket[name[b]] = wheel[b]
    BY <1>9 DEF ReadBack, Verified
  <2>3. archived[b] = Nothing
    BY <1>9 DEF ReadBack, StageInv
  <2>4. QED
    BY <1>9, <2>1, <2>2, <2>3 DEF ReadBack, HolderInv
<1>10. ASSUME NEW b \in Build, Archive(b) PROVE HolderInv'
  <2>1. \A c \in Build : (Holds(c)' => Holds(c)) /\ Publishes(c)' = Publishes(c)
    BY <1>10 DEF Archive, Holds, Publishes, IsMain
  <2>2. bucket[name[b]] = wheel[b]
    BY <1>10 DEF Archive, HolderInv, Holds
  <2>3. QED
    BY <1>10, <2>1, <2>2 DEF Archive, HolderInv
<1>11. ASSUME NEW b \in Build, Break(b) PROVE HolderInv'
  BY <1>11, QuietStep DEF Break
<1>12. CASE UNCHANGED vars
  BY <1>12 DEF vars, HolderInv, Holds, Publishes, IsMain
<1>13. QED
  BY <1>1, <1>2, <1>3, <1>4, <1>5, <1>6, <1>7, <1>8, <1>9, <1>10, <1>11, <1>12 DEF Next, Step

\* The variables of the pipeline keep their types.
THEOREM TypeCorrect == Spec => []TypeOK
BY TypeInit, TypeStep, StageInit, StageStep, HolderInit, HolderStep, PTL DEF Spec

\* The inductive invariant: what each stage has prepared, and that between its
\* write and its record a build alone holds its version.
THEOREM PipelineInvariant == Spec => []PipelineInv
BY TypeInit, TypeStep, StageInit, StageStep, HolderInit, HolderStep, PTL DEF Spec, PipelineInv

\* At most one build announces a version, and it announces what it built.
THEOREM AtMostOneRelease == Spec => []OneRelease
<1>1. PipelineInv => OneRelease
  BY DEF PipelineInv, StageInv, HolderInv, Holds, OneRelease
<1>2. QED
  BY <1>1, PipelineInvariant, PTL

\* Only releases of main use the credentials, and only what they publish is in
\* the bucket.
THEOREM ReleasesOnly == Spec => []OnlyReleasesPublish
<1>1. Init => OnlyReleasesPublish
  BY DEF Init, OnlyReleasesPublish
<1>2. TypeOK /\ StageInv /\ HolderInv /\ OnlyReleasesPublish /\ [Next]_vars => OnlyReleasesPublish'
  <2> SUFFICES ASSUME TypeOK, StageInv, HolderInv, OnlyReleasesPublish, [Next]_vars
               PROVE  OnlyReleasesPublish'
    OBVIOUS
  <2>1. ASSUME NEW b \in Build, Put(b) PROVE OnlyReleasesPublish'
    <3>1. name[b] = <<version[b], "stable">> /\ name[b] \in Name /\ Publishes(b)
      BY <2>1 DEF Put, Refused, TypeOK, Name
    <3>2. PICK w \in {wheel[b], Damaged} : bucket' = [bucket EXCEPT ![name[b]] = w]
      BY <2>1 DEF Put
    <3>3. \A n \in Name : bucket'[n] # Nothing => n = name[b] \/ bucket[n] # Nothing
      BY <3>1, <3>2 DEF TypeOK
    <3>4. users' = users \cup {b} /\ ref' = ref /\ release' = release /\ version' = version
      BY <2>1 DEF Put, input
    <3>5. QED
      BY <3>1, <3>3, <3>4 DEF OnlyReleasesPublish, Publishes, IsMain
  <2>2. ASSUME NEW b \in Build, ReadBack(b) PROVE OnlyReleasesPublish'
    <3>1. Publishes(b)
      BY <2>2 DEF ReadBack, HolderInv, Holds
    <3>2. QED
      BY <2>2, <3>1 DEF ReadBack, input, OnlyReleasesPublish, Publishes, IsMain
  <2>3. ASSUME NEW b \in Build, RejectExisting(b) PROVE OnlyReleasesPublish'
    BY <2>3 DEF RejectExisting, input, OnlyReleasesPublish, Publishes, IsMain
  <2>4. ASSUME NEW b \in Build, PutRejected(b) PROVE OnlyReleasesPublish'
    BY <2>4 DEF PutRejected, input, OnlyReleasesPublish, Publishes, IsMain
  <2>5. ASSUME bucket' = bucket, users' = users, ref' = ref, release' = release, version' = version
        PROVE  OnlyReleasesPublish'
    BY <2>5 DEF OnlyReleasesPublish
  <2>6. ASSUME NEW b \in Build, \/ Resolve(b) \/ Tests(b) \/ BuildTwice(b) \/ Install(b)
                                \/ BuiltOnly(b) \/ Archive(b) \/ Break(b)
        PROVE  OnlyReleasesPublish'
    BY <2>5, <2>6 DEF Resolve, Tests, BuildTwice, Install, BuiltOnly, Archive, Break, input
  <2>7. CASE UNCHANGED vars
    BY <2>5, <2>7 DEF vars
  <2>8. QED
    BY <2>1, <2>2, <2>3, <2>4, <2>6, <2>7 DEF Next, Step
<1>3. QED
  BY <1>1, <1>2, TypeInit, TypeStep, StageInit, StageStep, HolderInit, HolderStep, PTL DEF Spec

-----------------------------------------------------------------------------
(* The pipeline implements a write-once index *)

\* A step that stores and archives nothing is a stutter of the index.
LEMMA QuietIndex ==
  ASSUME bucket' = bucket, archived' = archived, version' = version
  PROVE  UNCHANGED Index!vars
BY DEF Index!vars

LEMMA PutPublishes ==
  ASSUME TypeOK, StageInv, HolderInv, NEW b \in Build, Put(b)
  PROVE  Index!Next
<1>1. /\ name[b] = <<version[b], "stable">> /\ name[b] \in Name /\ bucket[name[b]] = Nothing
      /\ archived' = archived /\ version' = version /\ version[b] \in Version /\ wheel[b] \in Wheel
  BY DEF Put, Refused, MayStore, TypeOK, Name, input, StageInv
<1>2. PICK w \in {wheel[b], Damaged} : bucket' = [bucket EXCEPT ![name[b]] = w]
  BY DEF Put
<1>3. [v \in Version |-> bucket'[<<v, "stable">>]]
        = [[v \in Version |-> bucket[<<v, "stable">>]] EXCEPT ![version[b]] = w]
  <2>1. \A v \in Version : <<v, "stable">> \in Name /\ (<<v, "stable">> = name[b] <=> v = version[b])
    BY <1>1 DEF Name
  <2>2. \A v \in Version : bucket'[<<v, "stable">>] = IF v = version[b] THEN w ELSE bucket[<<v, "stable">>]
    BY <1>1, <1>2, <2>1 DEF TypeOK
  <2>3. QED
    BY <2>2
<1>4. Index!Publish(version[b], w)
  BY <1>1, <1>3 DEF Index!Publish
<1>5. w \in Wheel \cup {Damaged}
  BY <1>1
<1>6. QED
  BY <1>1, <1>4, <1>5 DEF Index!Next

LEMMA ArchiveAnnounces ==
  ASSUME TypeOK, StageInv, HolderInv, NEW b \in Build, Archive(b)
  PROVE  Index!Next
<1>1. /\ bucket[<<version[b], "stable">>] = wheel[b] /\ stored[b] = wheel[b] /\ wheel[b] \in Wheel
      /\ archived' = [archived EXCEPT ![b] = stored[b]] /\ archived[b] = Nothing
      /\ bucket' = bucket /\ version' = version /\ version[b] \in Version
  BY DEF Archive, HolderInv, Holds, StageInv, TypeOK, input
<1>2. wheel[b] # Nothing
  BY <1>1, ConstantsAssumption DEF ConstantsAssumption
<1>3. {c \in Build : archived'[c] # Nothing} = {c \in Build : archived[c] # Nothing} \cup {b}
  BY <1>1, <1>2 DEF TypeOK
<1>4. \A c \in Build : archived[c] # Nothing => archived'[c] = archived[c]
  BY <1>1 DEF TypeOK
<1>5. archived'[b] = wheel[b]
  BY <1>1 DEF TypeOK
<1>6. {<<version[c], archived'[c]>> : c \in {d \in Build : archived'[d] # Nothing}}
        = {<<version[c], archived[c]>> : c \in {d \in Build : archived[d] # Nothing}}
            \cup {<<version[b], wheel[b]>>}
  BY <1>3, <1>4, <1>5
<1>7. PICK u \in Version : u = version[b]
  BY <1>1
<1>8. [v \in Version |-> bucket[<<v, "stable">>]][u] = wheel[b]
  BY <1>1, <1>7
<1>9. [v \in Version |-> bucket'[<<v, "stable">>]] = [v \in Version |-> bucket[<<v, "stable">>]]
  BY <1>1
<1>10. {<<version'[c], archived'[c]>> : c \in {d \in Build : archived'[d] # Nothing}}
         = {<<version[c], archived[c]>> : c \in {d \in Build : archived[d] # Nothing}} \cup {<<u, wheel[b]>>}
  BY <1>1, <1>6, <1>7
<1>11. Index!Announce(u)
  BY <1>2, <1>8, <1>9, <1>10 DEF Index!Announce
<1>12. QED
  BY <1>11 DEF Index!Next

\* Every behaviour of the pipeline is one of WriteOnceIndex.
THEOREM ImplementsIndex == Spec => KeepsIndex
<1>1. Init => Index!Init
  BY DEF Init, Index!Init, Name
<1>2. TypeOK /\ StageInv /\ HolderInv /\ [Next]_vars => [Index!Next]_(Index!vars)
  <2> SUFFICES ASSUME TypeOK, StageInv, HolderInv, [Next]_vars
               PROVE  Index!Next \/ UNCHANGED Index!vars
    OBVIOUS
  <2>1. ASSUME NEW b \in Build, \/ Resolve(b) \/ Tests(b) \/ RejectExisting(b) \/ BuildTwice(b)
                                \/ Install(b) \/ BuiltOnly(b) \/ PutRejected(b) \/ ReadBack(b)
                                \/ Break(b)
        PROVE  UNCHANGED Index!vars
    <3>1. bucket' = bucket /\ archived' = archived /\ version' = version
      BY <2>1 DEF Resolve, Tests, RejectExisting, BuildTwice, Install, BuiltOnly, PutRejected,
                  ReadBack, Break, input
    <3>2. QED
      BY <3>1, QuietIndex
  <2>2. CASE UNCHANGED vars
    BY <2>2, QuietIndex DEF vars
  <2>3. QED
    BY <2>1, <2>2, PutPublishes, ArchiveAnnounces DEF Next, Step
<1>3. QED
  BY <1>1, <1>2, TypeInit, TypeStep, StageInit, StageStep, HolderInit, HolderStep, PTL
     DEF Spec, KeepsIndex, Index!Spec
=============================================================================
