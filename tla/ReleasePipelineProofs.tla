----------------------- MODULE ReleasePipelineProofs -----------------------
(***************************************************************************)
(* Theorems about ReleasePipeline: any number of runs, assets, commits and *)
(* versions, and any number of failures and manual runs.                   *)
(***************************************************************************)
EXTENDS ReleasePipeline, TLAPS

RunRecord == [state : {"idle", "waiting"} \cup Active, commit : Commit,
              tag : Version \cup {Latest}, publish : BOOLEAN]

-----------------------------------------------------------------------------
(* Type correctness *)

\* The numbers the constants stand for.
LEMMA ConstantFacts ==
    /\ Commit = 1..Len(Revision)
    /\ 1 \in Commit /\ 1 \in Version
    /\ \A v \in Version, c \in Commit : TagOf(v, c) \in Tag
<1>1. /\ Revision \in Seq(Nat \ {0}) /\ Revision # <<>>
      /\ MaxVersions \in Nat \ {0}
  BY BoundAssumption
<1>2. Commit = 1..Len(Revision) /\ Len(Revision) \in Nat /\ Len(Revision) # 0
  BY <1>1 DEF Commit
<1> QED
  BY <1>1, <1>2 DEF Tag, TagOf, Version, Commit

\* The two ways a run moves on keep its type.
LEMMA StepType ==
    ASSUME run \in [Run -> RunRecord], NEW r \in Run,
           \/ End(r)
           \/ \E state \in {"idle", "waiting"} \cup Active : To(r, state)
    PROVE  run' \in [Run -> RunRecord]
<1>1. Idle \in RunRecord
  BY ConstantFacts DEF Idle, RunRecord, Latest
<1>2. CASE End(r)
  BY <1>1, <1>2 DEF End
<1>3. ASSUME NEW state \in {"idle", "waiting"} \cup Active, To(r, state)
      PROVE  run' \in [Run -> RunRecord]
  <2>1. [run[r] EXCEPT !.state = state] \in RunRecord
    BY <1>3 DEF RunRecord
  <2>2. run' = [run EXCEPT ![r] = [run[r] EXCEPT !.state = state]]
    BY <1>3 DEF To
  <2> QED
    BY <2>1, <2>2
<1> QED
  BY <1>2, <1>3

LEMMA InitTypeOK == Init => TypeOK
<1> SUFFICES ASSUME Init PROVE TypeOK
  OBVIOUS
<1>1. run \in [Run -> RunRecord]
  BY ConstantFacts DEF Init, Idle, RunRecord, Latest
<1>2. release \in [Tag -> Release]
  BY DEF Init, Release
<1>3. dispatches \in 0..MaxDispatches /\ failures \in 0..MaxFailures
  BY BoundAssumption DEF Init
<1> QED
  BY <1>1, <1>2, <1>3, ConstantFacts DEF Init, TypeOK, RunRecord

LEMMA QueueType ==
    ASSUME run \in [Run -> RunRecord], NEW r \in Run, NEW c \in Commit,
           NEW tag \in Version \cup {Latest}, NEW publish \in BOOLEAN,
           Queue(r, c, tag, publish)
    PROVE  run' \in [Run -> RunRecord]
BY DEF Queue, RunRecord

LEMMA TriggerTypeOK ==
    ASSUME TypeOK, NEW r \in Run, Schedule(r) \/ Push(r) \/ Dispatch(r)
    PROVE  TypeOK'
<1> USE DEF TypeOK, RunRecord
<1>1. CASE Schedule(r)
  BY <1>1, QueueType DEF Schedule
<1>2. CASE Push(r)
  BY <1>2, QueueType DEF Push
<1>3. CASE Dispatch(r)
  <2>1. PICK c \in 1..main, tag \in {Latest} \cup 1..upstream, publish \in BOOLEAN :
            Queue(r, c, tag, publish)
    BY <1>3 DEF Dispatch
  <2>2. c \in Commit /\ tag \in Version \cup {Latest}
    BY <2>1, ConstantFacts, BoundAssumption DEF Version
  <2>3. run' \in [Run -> RunRecord]
    BY <2>1, <2>2, QueueType
  <2>4. dispatches' \in 0..MaxDispatches
    BY <1>3, BoundAssumption DEF Dispatch
  <2> QED
    BY <1>3, <2>3, <2>4 DEF Dispatch
<1> QED
  BY <1>1, <1>2, <1>3

\* The tag of a run that has been planned.
LEMMA OwnTagType ==
    ASSUME TypeOK, NEW r \in Run, run[r].tag \in Version
    PROVE  OwnTag(r) \in Tag
BY ConstantFacts DEF TypeOK, OwnTag

\* One asset of one release.
LEMMA AssetType ==
    ASSUME release \in [Tag -> Release], NEW t \in Tag, NEW a \in Asset,
           NEW v \in {"missing", "current"},
           release' = [release EXCEPT ![t].asset[a] = v]
    PROVE  release' \in [Tag -> Release]
<1>1. [release[t].asset EXCEPT ![a] = v] \in [Asset -> {"missing", "earlier", "current"}]
  BY DEF Release
<1>2. [release[t] EXCEPT !.asset = [release[t].asset EXCEPT ![a] = v]] \in Release
  BY <1>1 DEF Release
<1>3. release' = [release EXCEPT ![t] = [release[t] EXCEPT !.asset = [release[t].asset EXCEPT ![a] = v]]]
  OBVIOUS
<1> QED
  BY <1>2, <1>3

LEMMA PublishTypeOK ==
    ASSUME TypeOK, NEW r \in Run, run[r].tag \in Version,
           CreateDraft(r) \/ (\E a \in Asset : Upload(r, a)) \/ Edit(r)
    PROVE  TypeOK'
<1>1. OwnTag(r) \in Tag /\ run \in [Run -> RunRecord] /\ run[r].commit \in Commit
  BY OwnTagType DEF TypeOK, RunRecord
<1>2. CASE CreateDraft(r)
  <2>1. run' \in [Run -> RunRecord]
    BY <1>1, <1>2, StepType DEF CreateDraft, Active
  <2>2. release' \in [Tag -> Release]
    BY <1>1, <1>2 DEF CreateDraft, TypeOK, Release
  <2> QED
    BY <1>2, <2>1, <2>2 DEF CreateDraft, TypeOK, RunRecord
<1>3. CASE \E a \in Asset : Upload(r, a)
  <2>1. PICK a \in Asset : Upload(r, a)
    BY <1>3
  <2>2. PICK v \in {"missing", "current"} : release' = [release EXCEPT ![OwnTag(r)].asset[a] = v]
    BY <2>1 DEF Upload
  <2>3. release' \in [Tag -> Release]
    BY <1>1, <2>2, AssetType DEF TypeOK
  <2> QED
    BY <2>1, <2>3 DEF Upload, TypeOK
<1>4. CASE Edit(r)
  <2>1. run' \in [Run -> RunRecord]
    BY <1>1, <1>4, StepType DEF Edit
  <2>2. [release[OwnTag(r)] EXCEPT !.state = "published", !.target = run[r].commit] \in Release
    BY <1>1 DEF TypeOK, Release
  <2>3. release' = [release EXCEPT ![OwnTag(r)] =
                      [release[OwnTag(r)] EXCEPT !.state = "published", !.target = run[r].commit]]
    BY <1>4 DEF Edit
  <2>4. release' \in [Tag -> Release]
    BY <2>2, <2>3 DEF TypeOK
  <2> QED
    BY <1>4, <2>1, <2>4 DEF Edit, TypeOK, RunRecord
<1> QED
  BY <1>2, <1>3, <1>4

-----------------------------------------------------------------------------
(* The inductive invariant *)

\* The concurrency group.
OneActive ==
    \A q, r \in Run : run[q].state \in Active /\ run[r].state \in Active => q = r

\* A planned run knows its tag; what it will publish is not published yet.
Planned ==
    \A r \in Run : run[r].state \in {"build", "publish", "upload"} =>
        /\ run[r].tag \in Version
        /\ run[r].publish => release[OwnTag(r)].state # "published"

\* The job publish runs only if asked for, and uploads its own build.
Publishing ==
    \A r \in Run :
        /\ run[r].state \in {"publish", "upload"} => run[r].publish
        /\ run[r].state = "upload" => release[OwnTag(r)].built = run[r].commit

ReleaseInv == TypeOK /\ OneActive /\ Planned /\ Publishing /\ PublishedIsWhole

LEMMA InitReleaseInv == Init => ReleaseInv
BY InitTypeOK DEF Init, Idle, ReleaseInv, OneActive, Planned, Publishing, PublishedIsWhole, Active

\* A run that ends or is queued leaves the claims of the others alone.
LEMMA QuietInv ==
    ASSUME ReleaseInv, TypeOK', UNCHANGED release, NEW r \in Run,
           run'[r].state \in {"idle", "waiting"},
           \A q \in Run \ {r} : run'[q] = run[q]
    PROVE  ReleaseInv'
<1>1. OneActive'
  BY DEF ReleaseInv, OneActive, Active
<1>2. Planned'
  BY DEF ReleaseInv, Planned, OwnTag
<1>3. Publishing'
  BY DEF ReleaseInv, Publishing, OwnTag
<1>4. PublishedIsWhole'
  BY DEF ReleaseInv, PublishedIsWhole
<1> QED
  BY <1>1, <1>2, <1>3, <1>4 DEF ReleaseInv

LEMMA TriggerInv ==
    ASSUME ReleaseInv, NEW r \in Run, Schedule(r) \/ Push(r) \/ Dispatch(r)
    PROVE  ReleaseInv'
<1>1. TypeOK' /\ UNCHANGED release
  BY TriggerTypeOK DEF ReleaseInv, Schedule, Push, Dispatch
<1>2. PICK c, tag, publish : Queue(r, c, tag, publish)
  BY DEF Schedule, Push, Dispatch
<1>3. /\ run'[r].state = "waiting"
      /\ \A q \in Run \ {r} : run'[q] = run[q]
  BY <1>2 DEF Queue, ReleaseInv, TypeOK
<1> QED
  BY <1>1, <1>3, QuietInv

LEMMA FailsInv ==
    ASSUME ReleaseInv, NEW r \in Run, Fails(r)
    PROVE  ReleaseInv'
<1>1. TypeOK'
  <2>1. run' \in [Run -> RunRecord]
    BY StepType DEF Fails, ReleaseInv, TypeOK, RunRecord
  <2>2. failures' \in 0..MaxFailures
    BY BoundAssumption DEF Fails, ReleaseInv, TypeOK
  <2> QED
    BY <2>1, <2>2 DEF Fails, ReleaseInv, TypeOK, RunRecord
<1>2. /\ run'[r].state = "idle"
      /\ \A q \in Run \ {r} : run'[q] = run[q]
  BY DEF Fails, End, Idle, ReleaseInv, TypeOK
<1> QED
  BY <1>1, <1>2, QuietInv DEF Fails

LEMMA StartInv ==
    ASSUME ReleaseInv, NEW r \in Run, Start(r)
    PROVE  ReleaseInv'
<1>1. /\ run \in [Run -> RunRecord]
      /\ UNCHANGED release
      /\ \A q \in Run : run[q].state \notin Active
      /\ run' = [run EXCEPT ![r].state = "plan"]
  BY DEF Start, To, ReleaseInv, TypeOK, RunRecord
<1>2. run' \in [Run -> RunRecord]
  BY <1>1, StepType DEF Start, Active
<1>3. /\ run'[r].state = "plan"
      /\ \A q \in Run \ {r} : run'[q] = run[q]
  BY <1>1 DEF RunRecord
<1>4. OneActive'
  BY <1>1, <1>3 DEF OneActive
<1>5. Planned' /\ Publishing'
  BY <1>1, <1>3 DEF ReleaseInv, Planned, Publishing, OwnTag
<1>6. PublishedIsWhole'
  BY <1>1 DEF ReleaseInv, PublishedIsWhole
<1> QED
  BY <1>2, <1>4, <1>5, <1>6 DEF ReleaseInv, TypeOK, RunRecord, Start

\* The run that is active is the only one.
LEMMA SoleRun ==
    ASSUME ReleaseInv, NEW r \in Run, run[r].state \in Active
    PROVE  \A q \in Run \ {r} : run[q].state \notin Active
BY DEF ReleaseInv, OneActive

\* What the sole active run must keep to when it moves on.
LEMMA SoleStepInv ==
    ASSUME ReleaseInv, TypeOK', NEW r \in Run, run[r].state \in Active,
           \A q \in Run \ {r} : run'[q] = run[q],
           run'[r].state \in {"build", "publish", "upload"} =>
              /\ run'[r].tag \in Version
              /\ run'[r].publish => release'[OwnTag(r)'].state # "published",
           run'[r].state \in {"publish", "upload"} => run'[r].publish,
           run'[r].state = "upload" => release'[OwnTag(r)'].built = run'[r].commit,
           PublishedIsWhole'
    PROVE  ReleaseInv'
<1>1. \A q \in Run \ {r} : run'[q].state \notin Active
  BY SoleRun
<1>2. \A q \in Run \ {r} : run'[q].state \notin {"build", "publish", "upload"}
  BY <1>1 DEF Active
<1>3. OneActive'
  BY <1>1 DEF OneActive
<1>4. Planned'
  BY <1>2 DEF Planned
<1>5. Publishing'
  BY <1>2 DEF Publishing
<1> QED
  BY <1>3, <1>4, <1>5 DEF ReleaseInv

LEMMA PlanInv ==
    ASSUME ReleaseInv, NEW r \in Run, Plan(r)
    PROVE  ReleaseInv'
<1> DEFINE v == IF run[r].tag = Latest THEN upstream ELSE run[r].tag
<1>1. /\ run \in [Run -> RunRecord]
      /\ run[r].state = "plan"
      /\ UNCHANGED <<upstream, main, release, dispatches, failures>>
  BY DEF Plan, ReleaseInv, TypeOK, RunRecord
<1>2. v \in Version
  BY <1>1 DEF ReleaseInv, TypeOK, RunRecord
<1>3. CASE ShouldBuild(TagOf(v, run[r].commit), run[r].publish)
  <2>1. run' = [run EXCEPT ![r] = [run[r] EXCEPT !.state = "build", !.tag = v]]
    BY <1>3 DEF Plan
  <2>2. [run[r] EXCEPT !.state = "build", !.tag = v] \in RunRecord
    BY <1>1, <1>2 DEF RunRecord, Active
  <2>3. TypeOK'
    BY <1>1, <2>1, <2>2 DEF ReleaseInv, TypeOK, RunRecord
  <2>4. /\ run'[r].state = "build" /\ run'[r].tag = v
        /\ run'[r].publish = run[r].publish /\ run'[r].commit = run[r].commit
        /\ \A q \in Run \ {r} : run'[q] = run[q]
    BY <1>1, <2>1 DEF RunRecord
  <2>5. OwnTag(r)' = TagOf(v, run[r].commit)
    BY <2>4 DEF OwnTag, TagOf
  <2>6. run'[r].publish => release'[OwnTag(r)'].state # "published"
    BY <1>1, <1>3, <2>4, <2>5 DEF ShouldBuild
  <2>7. PublishedIsWhole'
    BY <1>1 DEF ReleaseInv, PublishedIsWhole
  <2> HIDE DEF v
  <2> QED
    BY <1>1, <1>2, <2>3, <2>4, <2>6, <2>7, SoleStepInv DEF Active
<1>4. CASE ~ShouldBuild(TagOf(v, run[r].commit), run[r].publish)
  <2>1. End(r)
    BY <1>4 DEF Plan
  <2>2. /\ run'[r].state = "idle"
        /\ \A q \in Run \ {r} : run'[q] = run[q]
    BY <1>1, <2>1 DEF End, Idle
  <2>3. TypeOK'
    BY <1>1, <2>1, StepType DEF ReleaseInv, TypeOK, RunRecord
  <2> QED
    BY <1>1, <2>2, <2>3, QuietInv
<1> QED
  BY <1>3, <1>4

LEMMA BuildInv ==
    ASSUME ReleaseInv, NEW r \in Run, Build(r)
    PROVE  ReleaseInv'
<1>1. /\ run \in [Run -> RunRecord]
      /\ run[r].state = "build"
      /\ UNCHANGED <<upstream, main, release, dispatches, failures>>
  BY DEF Build, ReleaseInv, TypeOK, RunRecord
<1>2. TypeOK'
  <2>1. run' \in [Run -> RunRecord]
    BY <1>1, StepType DEF Build, Active
  <2> QED
    BY <1>1, <2>1 DEF ReleaseInv, TypeOK, RunRecord
<1>3. CASE run[r].publish
  <2>1. /\ run'[r].state = "publish" /\ run'[r].tag = run[r].tag
        /\ run'[r].publish = run[r].publish /\ run'[r].commit = run[r].commit
        /\ \A q \in Run \ {r} : run'[q] = run[q]
    BY <1>1, <1>3 DEF Build, To, RunRecord
  <2>2. OwnTag(r)' = OwnTag(r)
    BY <2>1 DEF OwnTag, TagOf
  <2>3. run[r].tag \in Version /\ release[OwnTag(r)].state # "published"
    BY <1>1, <1>3 DEF ReleaseInv, Planned
  <2>4. PublishedIsWhole'
    BY <1>1 DEF ReleaseInv, PublishedIsWhole
  <2> QED
    BY <1>1, <1>2, <1>3, <2>1, <2>2, <2>3, <2>4, SoleStepInv DEF Active
<1>4. CASE ~run[r].publish
  <2>1. /\ run'[r].state = "idle"
        /\ \A q \in Run \ {r} : run'[q] = run[q]
    BY <1>1, <1>4 DEF Build, End, Idle
  <2> QED
    BY <1>1, <1>2, <2>1, QuietInv
<1> QED
  BY <1>3, <1>4

\* The release a publishing run works on is there and not published.
LEMMA OwnRelease ==
    ASSUME ReleaseInv, NEW r \in Run, run[r].state \in {"publish", "upload"}
    PROVE  /\ run[r] \in RunRecord /\ run[r].tag \in Version /\ run[r].publish
           /\ OwnTag(r) \in Tag
           /\ release \in [Tag -> Release] /\ release[OwnTag(r)] \in Release
           /\ release[OwnTag(r)].state # "published"
<1>1. run[r] \in RunRecord /\ run[r].tag \in Version /\ run[r].publish
  BY DEF ReleaseInv, TypeOK, RunRecord, Planned, Publishing
<1>2. OwnTag(r) \in Tag
  BY <1>1, OwnTagType DEF ReleaseInv
<1> QED
  BY <1>1, <1>2 DEF ReleaseInv, TypeOK, Planned

LEMMA CreateDraftInv ==
    ASSUME ReleaseInv, NEW r \in Run, CreateDraft(r)
    PROVE  ReleaseInv'
<1> DEFINE t == OwnTag(r)
<1>1. /\ run \in [Run -> RunRecord] /\ run[r].state = "publish"
      /\ run[r].tag \in Version /\ run[r].publish
      /\ t \in Tag /\ release \in [Tag -> Release]
      /\ release[t].state # "published"
  BY OwnRelease DEF CreateDraft, ReleaseInv, TypeOK, RunRecord
<1>2. TypeOK'
  BY <1>1, PublishTypeOK DEF ReleaseInv
<1>3. /\ run'[r].state = "upload" /\ run'[r].tag = run[r].tag
      /\ run'[r].publish = run[r].publish /\ run'[r].commit = run[r].commit
      /\ \A q \in Run \ {r} : run'[q] = run[q]
  BY <1>1 DEF CreateDraft, To, RunRecord
<1>4. OwnTag(r)' = t
  BY <1>3 DEF OwnTag, TagOf
<1>5. /\ release'[t].state # "published" /\ release'[t].built = run[r].commit
      /\ \A u \in Tag \ {t} : release'[u] = release[u]
  BY <1>1 DEF CreateDraft
<1>6. PublishedIsWhole'
  BY <1>5 DEF ReleaseInv, PublishedIsWhole
<1> HIDE DEF t
<1> QED
  BY <1>1, <1>2, <1>3, <1>4, <1>5, <1>6, SoleStepInv DEF Active

LEMMA UploadInv ==
    ASSUME ReleaseInv, NEW r \in Run, NEW a \in Asset, Upload(r, a)
    PROVE  ReleaseInv'
<1> DEFINE t == OwnTag(r)
<1>1. /\ run \in [Run -> RunRecord] /\ run[r].state = "upload"
      /\ run[r].tag \in Version /\ run[r].publish
      /\ t \in Tag /\ release \in [Tag -> Release]
      /\ release[t] \in Release /\ release[t].state # "published"
      /\ UNCHANGED <<upstream, main, run, dispatches, failures>>
  BY OwnRelease DEF Upload, ReleaseInv, TypeOK, RunRecord
<1>2. TypeOK'
  BY <1>1, PublishTypeOK DEF ReleaseInv
<1>3. PICK v \in {"missing", "current"} : release' = [release EXCEPT ![t].asset[a] = v]
  BY DEF Upload
<1>4. /\ release'[t].state = release[t].state /\ release'[t].built = release[t].built
      /\ \A u \in Tag \ {t} : release'[u] = release[u]
  BY <1>1, <1>3 DEF Release
<1>5. PublishedIsWhole'
  BY <1>1, <1>4 DEF ReleaseInv, PublishedIsWhole
<1>6. OwnTag(r)' = t /\ release[t].built = run[r].commit
  BY <1>1 DEF OwnTag, ReleaseInv, Publishing
<1> HIDE DEF t
<1> QED
  BY <1>1, <1>2, <1>4, <1>5, <1>6, SoleStepInv DEF Active

LEMMA EditInv ==
    ASSUME ReleaseInv, NEW r \in Run, Edit(r)
    PROVE  ReleaseInv'
<1> DEFINE t == OwnTag(r)
<1>1. /\ run \in [Run -> RunRecord] /\ run[r].state = "upload"
      /\ run[r].tag \in Version
      /\ t \in Tag /\ release \in [Tag -> Release] /\ release[t] \in Release
  BY OwnRelease DEF Edit, ReleaseInv, TypeOK, RunRecord
<1>2. TypeOK'
  BY <1>1, PublishTypeOK DEF ReleaseInv
<1>3. /\ run'[r].state = "idle"
      /\ \A q \in Run \ {r} : run'[q] = run[q]
  BY <1>1 DEF Edit, End, Idle
<1>4. /\ release'[t].asset = release[t].asset
      /\ release'[t].target = run[r].commit /\ release'[t].built = release[t].built
      /\ \A u \in Tag \ {t} : release'[u] = release[u]
  BY <1>1 DEF Edit, Release
<1>5. /\ \A a \in Asset : release[t].asset[a] = "current"
      /\ release[t].built = run[r].commit
  BY <1>1 DEF Edit, ReleaseInv, Publishing
<1>6. PublishedIsWhole'
  BY <1>4, <1>5 DEF ReleaseInv, PublishedIsWhole
<1> HIDE DEF t
<1> QED
  BY <1>1, <1>2, <1>3, <1>6, SoleStepInv DEF Active

LEMMA NextReleaseInv ==
    ASSUME ReleaseInv, [Next]_vars
    PROVE  ReleaseInv'
<1>1. CASE NewVersion
  <2>1. TypeOK'
    BY <1>1, BoundAssumption DEF NewVersion, ReleaseInv, TypeOK, Version, Latest
  <2> QED
    BY <1>1, <2>1 DEF NewVersion, ReleaseInv, OneActive, Planned, Publishing, PublishedIsWhole, OwnTag
<1>2. ASSUME NEW r \in Run, Schedule(r) \/ Push(r) \/ Dispatch(r)
      PROVE  ReleaseInv'
  BY <1>2, TriggerInv
<1>3. ASSUME NEW r \in Run, Start(r) \/ Job(r) \/ Fails(r)
      PROVE  ReleaseInv'
  BY <1>3, StartInv, PlanInv, BuildInv, CreateDraftInv, UploadInv, EditInv, FailsInv DEF Job
<1>4. CASE UNCHANGED vars
  BY <1>4 DEF vars, ReleaseInv, TypeOK, OneActive, Planned, Publishing, PublishedIsWhole, OwnTag
<1> QED
  BY <1>1, <1>2, <1>3, <1>4 DEF Next

LEMMA AlwaysReleaseInv == Spec => []ReleaseInv
BY InitReleaseInv, NextReleaseInv, PTL DEF Spec

-----------------------------------------------------------------------------
(* The theorems *)

\* Every variable keeps its type, however many runs and releases there are.
THEOREM ReleaseTypeCorrect == Spec => []TypeOK
<1>1. ReleaseInv => TypeOK
  BY DEF ReleaseInv
<1> QED
  BY <1>1, AlwaysReleaseInv, PTL

\* A published release is one whole build at the commit it is tagged with.
THEOREM PublishedReleasesAreWhole == Spec => []PublishedIsWhole
<1>1. ReleaseInv => PublishedIsWhole
  BY DEF ReleaseInv
<1> QED
  BY <1>1, AlwaysReleaseInv, PTL

\* Only a run that has planned the tag touches its release, and it does so
\* before the release is published.
LEMMA PublishedUntouched ==
    ASSUME ReleaseInv, [Next]_vars, NEW t \in Tag, release[t].state = "published"
    PROVE  release'[t] = release[t]
<1>1. CASE UNCHANGED release
  BY <1>1
<1>2. ASSUME NEW r \in Run, CreateDraft(r) \/ (\E a \in Asset : Upload(r, a)) \/ Edit(r)
      PROVE  release'[t] = release[t]
  <2>1. run[r].state \in {"publish", "upload"}
    BY <1>2 DEF CreateDraft, Upload, Edit
  <2>2. OwnTag(r) \in Tag /\ release \in [Tag -> Release] /\ OwnTag(r) # t
    BY <2>1, OwnRelease
  <2>3. CASE CreateDraft(r)
    BY <2>2, <2>3 DEF CreateDraft
  <2>4. CASE \E a \in Asset : Upload(r, a)
    BY <2>2, <2>4 DEF Upload
  <2>5. CASE Edit(r)
    BY <2>2, <2>5 DEF Edit
  <2> QED
    BY <1>2, <2>3, <2>4, <2>5
<1> QED
  BY <1>1, <1>2 DEF Next, vars, NewVersion, Schedule, Push, Dispatch, Start, Job, Plan, Build, Fails

\* No step of any run changes a release once it is published.
THEOREM PublishedReleasesStay == Spec => PublishedStays
<1>1. ReleaseInv /\ [Next]_vars =>
        [\A t \in Tag : release[t].state = "published" => release'[t] = release[t]]_release
  BY PublishedUntouched
<1> QED
  BY <1>1, AlwaysReleaseInv, PTL DEF Spec, PublishedStays
=============================================================================
