--------------------------- MODULE ReleasePipeline ---------------------------
(***************************************************************************)
(* The workflow .github/workflows/release.yml with scripts/plan.mjs and    *)
(* scripts/collect.mjs: schedule, pushes and manual dispatches queue runs  *)
(* of one concurrency group; a run plans, builds, and publishes a release  *)
(* by a draft, one upload per asset, and a last edit.  Any step may fail.  *)
(***************************************************************************)
EXTENDS Naturals, Sequences

CONSTANTS
    Run,            \* places for runs: one that is active and one that waits
    Asset,          \* the files of a release
    Revision,       \* Revision[c]: packageRevision in the n-th customization commit
    MaxVersions,    \* bound: stable upstream versions
    MaxDispatches,  \* bound: manual runs
    MaxFailures     \* bound: steps that fail

Version == 1..MaxVersions
Commit == DOMAIN Revision
Tag == Version \X {Revision[c] : c \in Commit}

ASSUME BoundAssumption ==
    /\ MaxVersions \in Nat \ {0} /\ MaxDispatches \in Nat /\ MaxFailures \in Nat
    /\ Revision \in Seq(Nat \ {0}) /\ Revision # <<>>

VARIABLES
    upstream,    \* the latest stable release of microsoft/vscode
    main,        \* the last commit pushed to main
    run,         \* run[r]: the state, the commit and the inputs of a run
    release,     \* release[t]: the GitHub release of a tag
    dispatches,  \* manual runs so far
    failures     \* failed steps so far

vars == <<upstream, main, run, release, dispatches, failures>>

Latest == 0    \* the input upstream_tag "latest"
Active == {"plan", "build", "publish", "upload"}

\* asset: whether a file is there, and from the build that is being published
\* or an earlier one.  built: the commit that build is from.
Release == [state : {"none", "draft", "published"},
            asset : [Asset -> {"missing", "earlier", "current"}],
            target : Commit \cup {0}, built : Commit \cup {0}]

TypeOK ==
    /\ upstream \in Version /\ main \in Commit
    /\ run \in [Run -> [state : {"idle", "waiting"} \cup Active, commit : Commit,
                        tag : Version \cup {Latest}, publish : BOOLEAN]]
    /\ release \in [Tag -> Release]
    /\ dispatches \in 0..MaxDispatches /\ failures \in 0..MaxFailures

Idle == [state |-> "idle", commit |-> 1, tag |-> Latest, publish |-> TRUE]

Init ==
    /\ upstream = 1
    /\ main = 1
    /\ run = [r \in Run |-> Idle]
    /\ release = [t \in Tag |-> [state |-> "none", asset |-> [a \in Asset |-> "missing"],
                                 target |-> 0, built |-> 0]]
    /\ dispatches = 0
    /\ failures = 0

-----------------------------------------------------------------------------
(* Triggers and the concurrency group *)

\* A new run waits for the group, in the place of the one that waited before.
Queue(r, c, tag, publish) ==
    /\ \/ run[r].state = "waiting"
       \/ run[r] = Idle /\ \A q \in Run : run[q].state # "waiting"
    /\ run' = [run EXCEPT ![r] =
                 [state |-> "waiting", commit |-> c, tag |-> tag, publish |-> publish]]

NewVersion ==
    /\ upstream < MaxVersions
    /\ upstream' = upstream + 1
    /\ UNCHANGED <<main, run, release, dispatches, failures>>

Schedule(r) ==
    /\ Queue(r, main, Latest, TRUE)
    /\ UNCHANGED <<upstream, main, release, dispatches, failures>>

Push(r) ==
    /\ main + 1 \in Commit
    /\ main' = main + 1
    /\ Queue(r, main + 1, Latest, TRUE)
    /\ UNCHANGED <<upstream, release, dispatches, failures>>

\* Run workflow, or Re-run all jobs of a run of an earlier commit.
Dispatch(r) ==
    /\ dispatches < MaxDispatches
    /\ dispatches' = dispatches + 1
    /\ \E c \in 1..main, tag \in {Latest} \cup 1..upstream, publish \in BOOLEAN :
          Queue(r, c, tag, publish)
    /\ UNCHANGED <<upstream, main, release, failures>>

To(r, state) == run' = [run EXCEPT ![r].state = state]
End(r) == run' = [run EXCEPT ![r] = Idle]

Start(r) ==
    /\ run[r].state = "waiting"
    /\ \A q \in Run : run[q].state \notin Active
    /\ To(r, "plan")
    /\ UNCHANGED <<upstream, main, release, dispatches, failures>>

-----------------------------------------------------------------------------
(* The jobs plan and build *)

TagOf(v, c) == <<v, Revision[c]>>
OwnTag(r) == TagOf(run[r].tag, run[r].commit)

\* Variant: a draft counts as published.
UndraftedOnly(t, publish) == ~publish \/ release[t].state = "none"

\* Variant: whatever exists is built again.
AlwaysBuilt(t, publish) == TRUE

ShouldBuild(t, publish) == ~publish \/ release[t].state # "published"

Plan(r) ==
    /\ run[r].state = "plan"
    /\ LET v == IF run[r].tag = Latest THEN upstream ELSE run[r].tag IN
          IF ShouldBuild(TagOf(v, run[r].commit), run[r].publish)
            THEN run' = [run EXCEPT ![r].state = "build", ![r].tag = v]
            ELSE End(r)
    /\ UNCHANGED <<upstream, main, release, dispatches, failures>>

Build(r) ==
    /\ run[r].state = "build"
    /\ IF run[r].publish THEN To(r, "publish") ELSE End(r)
    /\ UNCHANGED <<upstream, main, release, dispatches, failures>>

-----------------------------------------------------------------------------
(* The job publish *)

\* gh release view, and create --draft if there is none.  What an earlier
\* build has uploaded is still there.
CreateDraft(r) ==
    /\ run[r].state = "publish"
    /\ To(r, "upload")
    /\ release' = [release EXCEPT ![OwnTag(r)] =
          [state |-> IF @.state = "none" THEN "draft" ELSE @.state,
           asset |-> [a \in Asset |-> IF @.asset[a] = "current" THEN "earlier" ELSE @.asset[a]],
           target |-> IF @.state = "none" THEN run[r].commit ELSE @.target,
           built |-> run[r].commit]]
    /\ UNCHANGED <<upstream, main, dispatches, failures>>

\* gh release upload --clobber deletes an asset of the name first.
Upload(r, a) ==
    /\ run[r].state = "upload"
    /\ \/ /\ release[OwnTag(r)].asset[a] = "earlier"
          /\ release' = [release EXCEPT ![OwnTag(r)].asset[a] = "missing"]
       \/ /\ release[OwnTag(r)].asset[a] = "missing"
          /\ release' = [release EXCEPT ![OwnTag(r)].asset[a] = "current"]
    /\ UNCHANGED <<upstream, main, run, dispatches, failures>>

\* Variant: the target of a draft stays the commit it was created for.
EditDraftOnly(r) ==
    /\ run[r].state = "upload"
    /\ \A a \in Asset : release[OwnTag(r)].asset[a] = "current"
    /\ release' = [release EXCEPT ![OwnTag(r)].state = "published"]
    /\ End(r)
    /\ UNCHANGED <<upstream, main, dispatches, failures>>

\* gh release edit --target --draft=false, after every upload.
Edit(r) ==
    /\ run[r].state = "upload"
    /\ \A a \in Asset : release[OwnTag(r)].asset[a] = "current"
    /\ release' = [release EXCEPT ![OwnTag(r)].state = "published",
                                  ![OwnTag(r)].target = run[r].commit]
    /\ End(r)
    /\ UNCHANGED <<upstream, main, dispatches, failures>>

\* Variant: a failed run is kept in its group.
FailsInPlace(r) ==
    /\ run[r].state \in Active
    /\ failures < MaxFailures
    /\ failures' = failures + 1
    /\ To(r, "failed")
    /\ UNCHANGED <<upstream, main, release, dispatches>>

\* A step fails, the runner is lost, or the run is cancelled.
Fails(r) ==
    /\ run[r].state \in Active
    /\ failures < MaxFailures
    /\ failures' = failures + 1
    /\ End(r)
    /\ UNCHANGED <<upstream, main, release, dispatches>>

-----------------------------------------------------------------------------

Job(r) == Plan(r) \/ Build(r) \/ CreateDraft(r) \/ (\E a \in Asset : Upload(r, a)) \/ Edit(r)

Next ==
    \/ NewVersion
    \/ \E r \in Run : Schedule(r) \/ Push(r) \/ Dispatch(r) \/ Start(r) \/ Job(r) \/ Fails(r)

Spec == Init /\ [][Next]_vars

\* cron comes again and again, a group that is free is given to a run, and
\* a job goes on or is ended by its time limit.
FairSpec ==
    /\ Spec
    /\ WF_vars(\E r \in Run : Schedule(r))
    /\ WF_vars(\E r \in Run : Start(r))
    /\ \A r \in Run : WF_vars(Job(r))

-----------------------------------------------------------------------------
(* Properties *)

\* A published release has every asset, all from one build, and is tagged at
\* the commit of that build, whatever drafts were left before (lines 127-131).
PublishedIsWhole ==
    \A t \in Tag : release[t].state = "published" =>
        /\ \A a \in Asset : release[t].asset[a] = "current"
        /\ release[t].target = release[t].built

\* What is published stays as it is: "Skip a version and revision already
\* published" (README.md line 127), although the plan is hours older than the
\* upload.
PublishedStays ==
    [][\A t \in Tag : release[t].state = "published" => release'[t] = release[t]]_release

\* The latest version is published in the revision of main, through failures
\* and drafts that failures leave behind ("retry an unfinished draft").
LatestIsPublished ==
    \A v \in Version, c \in Commit :
        upstream = v /\ main = c ~>
            upstream # v \/ main # c \/ release[TagOf(v, c)].state = "published"
=============================================================================
