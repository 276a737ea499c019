------------------------------- MODULE Release -------------------------------
(***************************************************************************)
(* Releases of the packages of the monorepo: a developer's clone, the      *)
(* tools it is changed with (gcm, sync-readme, gbump with mono-release,    *)
(* mono-tagcheck), origin, the npm registry and the publishing workflow.   *)
(*                                                                         *)
(* A release is a process that runs one command after another; any of them *)
(* can fail, be killed, or do its work and have the answer lost, and the   *)
(* next attempt decides from what it finds.  Everything else interleaves:  *)
(* the workflow publishes tags when it gets to it, the registry shows an   *)
(* accepted version later, and other developers push and release.  The     *)
(* developer does nothing else in this clone while a release runs.         *)
(*                                                                         *)
(* A version X.Y.Z is a positive number: only the order of versions        *)
(* counts.  Local history is a line of commits 1..head.                    *)
(***************************************************************************)
EXTENDS Integers, FiniteSets

CONSTANTS
    Packages,
    New,            \* packages that were never published
    MaxVersion,     \* bound on versions
    MaxCommit,      \* bound on commits of the clone
    MaxNotes,       \* bound on changelogs, those of published versions included
    MaxBreaks       \* bound on releases that break off

ASSUME ReleaseAssumption ==
    /\ New \subseteq Packages
    /\ MaxVersion \in Nat \ {0}
    /\ MaxCommit \in Nat \ {0}
    /\ {MaxNotes, MaxBreaks} \subseteq Nat

Versions == 1..MaxVersion

\* A commit of another developer's clone; no tag or upload has commit 0.
Theirs == MaxCommit + 1

Lock == <<"lock">>
Readme == <<"readme">>
Files == {Lock, Readme} \cup ({"source", "manifest", "notes"} \X Packages)

NoJob == [kind |-> "none"]
NoCommit == [touched |-> {}]

VARIABLES
    manifest,   \* version in each package.json of the working tree
    notes,      \* versions with entries in changelog/<pkg>/v<ver>/log.md
    listed,     \* packages the READMEs list
    edited,     \* files that differ from HEAD, manifests aside
    commits,    \* manifests of each commit, and the packages it changed
    head,
    tag,        \* commit of each local tag, 0 if there is none
    origin,     \* commits and tags of origin; ahead: a push of others not pulled
    accepted,   \* commit an accepted upload was made from, 0 if there is none
    visible,    \* versions the registry shows
    begun,      \* history: version whose initial release made its tag, or 0
    job,        \* the release that runs
    breaks

tree == <<manifest, notes, listed, edited>>
history == <<commits, head, tag, begun>>
registry == <<accepted, visible>>
releaseVars == <<tree, history, registry, origin, job, breaks>>

MaxOf(S) == CHOOSE n \in S : \A m \in S : m <= n

\* registryBaseline: the highest version the registry shows, 0 for none.
Baseline(p) == MaxOf(visible[p] \cup {0})

\* gitDirty: what `git status --porcelain` lists.
Dirty == edited \cup {<<"manifest", p>> : p \in {q \in Packages : manifest[q] # commits[head].ver[q]}}

\* localTagState, remoteTagState
TagState(at) == IF at = 0 THEN "absent" ELSE IF at = head THEN "head" ELSE "other"

\* requireChangelog: the notes exist and have an entry.
HasChangelog(p, v) == v \in notes[p]

\* What every release asks first: a clean tree, then sync-readme --check.
MayRelease == job = NoJob /\ Dirty = {} /\ listed = Packages

\* The files a commit changes in a package's directory.
TouchedBy(files) == {p \in Packages : {<<"source", p>>, <<"manifest", p>>} \cap files # {}}

\* A new commit of some files of the working tree.
RecordCommit(files) ==
    /\ head < MaxCommit
    /\ head' = head + 1
    /\ commits' = [c \in 1..head + 1 |-> IF c <= head THEN commits[c] ELSE
                     [ver |-> [p \in Packages |-> IF <<"manifest", p>> \in files
                                                  THEN manifest[p] ELSE commits[head].ver[p]],
                      touched |-> TouchedBy(files)]]

ReleaseInit ==
    LET first == [p \in Packages |-> 1]
        old == [p \in Packages |-> [v \in Versions |-> IF v = 1 /\ p \notin New THEN 1 ELSE 0]]
    IN /\ manifest = first
       /\ notes = [p \in Packages |-> IF p \in New THEN {} ELSE {1}]
       /\ listed = Packages \ New
       /\ edited = {}
       /\ commits = [c \in {1} |-> [ver |-> first, touched |-> Packages]]
       /\ head = 1
       /\ tag = old
       /\ origin = [has |-> {1}, ahead |-> NoCommit, tag |-> old]
       /\ accepted = old
       /\ visible = [p \in Packages |-> IF p \in New THEN {} ELSE {1}]
       /\ begun = [p \in Packages |-> 0]
       /\ job = NoJob
       /\ breaks = 0

-----------------------------------------------------------------------------
(* The developer's work between releases. *)

\* Sources are written by hand (external).
Edit(p) ==
    /\ job = NoJob
    /\ edited' = edited \cup {<<"source", p>>}
    /\ UNCHANGED <<manifest, notes, listed, history, registry, origin, job, breaks>>

\* git checkout of sources and manifests (external).
Discard ==
    /\ job = NoJob
    /\ manifest' = commits[head].ver
    /\ edited' = {f \in edited : f \notin {"source"} \X Packages}
    /\ UNCHANGED <<notes, listed, history, registry, origin, job, breaks>>

\* gcm -c creates the notes of a version not below the manifest, and never writes
\* over existing ones; that it be above what is published is only asked when the
\* registry answers, so it excludes nothing.  The entries are then filled in by hand:
\* an empty skeleton is as good as none.
Changelog(p, v) ==
    /\ job = NoJob
    /\ v >= manifest[p] /\ v \notin notes[p]
    /\ Cardinality({n \in Packages \X Versions : n[2] \in notes[n[1]]}) < MaxNotes
    /\ notes' = [notes EXCEPT ![p] = @ \cup {v}]
    /\ edited' = edited \cup {<<"notes", p>>}
    /\ UNCHANGED <<manifest, listed, history, registry, origin, job, breaks>>

\* gcm: commits what is staged, all of the changes or, with --allow-dirty, some.
Commit(staged) ==
    /\ job = NoJob
    /\ staged # {} /\ staged \subseteq Dirty
    /\ RecordCommit(staged)
    /\ edited' = edited \ staged
    /\ UNCHANGED <<manifest, notes, listed, tag, begun, registry, origin, job, breaks>>

SyncReadme ==
    /\ job = NoJob /\ listed # Packages
    /\ listed' = Packages
    /\ edited' = edited \cup {Readme}
    /\ UNCHANGED <<manifest, notes, history, registry, origin, job, breaks>>

\* What others pushed gets its commit in the clone's line of history.
Renamed(mark, c) ==
    [p \in Packages |-> [v \in Versions |-> IF mark[p][v] = Theirs THEN c ELSE mark[p][v]]]

\* git pull (external): a push of others arrives, with a merge if we have commits they
\* had not seen.  The merge is one step: gcm commits nothing while paths are unmerged.
Merge ==
    LET theirs == head + 1
        unseen == (1..head) \ origin.has
        last == IF unseen = {} THEN theirs ELSE theirs + 1
        newer == [p \in Packages |-> MaxOf({commits[head].ver[p], origin.ahead.ver[p]})]
    IN /\ last <= MaxCommit
       /\ head' = last
       /\ commits' = [c \in 1..last |->
            IF c < theirs THEN commits[c]
            ELSE IF c = theirs THEN origin.ahead
            ELSE [ver |-> newer, touched |-> UNION {commits[u].touched : u \in unseen}]]
       /\ manifest' = newer
       /\ accepted' = Renamed(accepted, theirs)
       /\ origin' = [has |-> origin.has \cup {theirs}, ahead |-> NoCommit,
                     tag |-> Renamed(origin.tag, theirs)]
       /\ tag' = [p \in Packages |-> [v \in Versions |->
            IF tag[p][v] = 0 /\ origin.tag[p][v] = Theirs THEN theirs ELSE tag[p][v]]]

Pull ==
    /\ job = NoJob /\ Dirty = {} /\ origin.ahead # NoCommit
    /\ Merge
    /\ UNCHANGED <<notes, listed, edited, begun, visible, job, breaks>>

-----------------------------------------------------------------------------
(* mono-tagcheck.  bun install, which refreshes bun.lock, may fail. *)

Behind == {p \in Packages : manifest[p] < Baseline(p)}
Ahead == {p \in Packages : visible[p] # {} /\ manifest[p] > Baseline(p)}

Align(moved) ==
    /\ job = NoJob /\ moved # {}
    /\ manifest' = [p \in Packages |-> IF p \in moved THEN Baseline(p) ELSE manifest[p]]
    /\ \E lock \in {{}, {Lock}} : edited' = edited \cup lock
    /\ UNCHANGED <<notes, listed, history, registry, origin, job, breaks>>

\* --sync only raises versions, and refuses while a package is ahead.
SyncVersions == Ahead = {} /\ Align(Behind)

\* --reset only lowers versions.  The guide asks for it when the release is known
\* not to have happened, so its tag is not on origin.
ResetVersions ==
    /\ Behind = {}
    /\ \A p \in Ahead : origin.tag[p][manifest[p]] = 0
    /\ Align(Ahead)

-----------------------------------------------------------------------------
(* gbump --initial: the manifest's version is published from this machine. *)

\* Mutants: a tag of another commit is no obstacle; a published version without a tag
\* on origin is taken for a foreign one.
DecisionMutant(p) ==
    LET v == manifest[p]
        here == TagState(tag[p][v])
        there == TagState(origin.tag[p][v])
        unknown == visible[p] = {}
    IN [error |-> \/ unknown /\ there # "absent"
                  \/ ~unknown /\ (Baseline(p) # v \/ here = "absent"),
        createTag |-> unknown /\ here = "absent",
        publish |-> unknown,
        done |-> ~unknown /\ there = "head"]

DecisionMutant2(p) ==
    LET v == manifest[p]
        here == TagState(tag[p][v])
        there == TagState(origin.tag[p][v])
        unknown == visible[p] = {}
    IN [error |-> \/ "other" \in {here, there}
                  \/ unknown /\ there # "absent"
                  \/ ~unknown /\ (Baseline(p) # v \/ "absent" \in {here, there}),
        createTag |-> unknown /\ here = "absent",
        publish |-> unknown,
        done |-> ~unknown /\ there = "head"]

\* initialReleaseDecision
Decision(p) ==
    LET v == manifest[p]
        here == TagState(tag[p][v])
        there == TagState(origin.tag[p][v])
        unknown == visible[p] = {}
    IN [error |-> \/ "other" \in {here, there}
                  \/ unknown /\ there # "absent"
                  \/ ~unknown /\ (Baseline(p) # v \/ here = "absent"),
        createTag |-> unknown /\ here = "absent",
        publish |-> unknown,
        done |-> ~unknown /\ there = "head"]

\* The decision, then whoami, a dry run of npm publish and the confirmation, which
\* change nothing when they fail.
StartInitial(p) ==
    LET decision == Decision(p)
    IN /\ MayRelease
       /\ HasChangelog(p, manifest[p])
       /\ ~decision.error /\ ~decision.done
       /\ job' = [kind |-> "initial", pkg |-> p,
                  at |-> IF decision.createTag THEN "tag"
                         ELSE IF decision.publish THEN "publish" ELSE "branch"]
       /\ UNCHANGED <<tree, history, registry, origin, breaks>>

Initial(step) == job.kind = "initial" /\ job.at = step

InitialTag ==
    LET p == job.pkg
    IN /\ Initial("tag")
       /\ tag' = [tag EXCEPT ![p][manifest[p]] = head]
       /\ begun' = [begun EXCEPT ![p] = manifest[p]]
       /\ job' = [job EXCEPT !.at = "publish"]
       /\ UNCHANGED <<tree, commits, head, registry, origin, breaks>>

\* npm publish; the registry takes a version once.
InitialPublish ==
    LET p == job.pkg
    IN /\ Initial("publish") /\ accepted[p][manifest[p]] = 0
       /\ accepted' = [accepted EXCEPT ![p][manifest[p]] = head]
       /\ job' = [job EXCEPT !.at = "branch"]
       /\ UNCHANGED <<tree, history, visible, origin, breaks>>

\* Mutant: the tag is pushed although the branch was rejected.
PushBranchMutant ==
    /\ Initial("branch")
    /\ origin' = IF origin.ahead = NoCommit THEN [origin EXCEPT !.has = 1..head] ELSE origin
    /\ job' = [job EXCEPT !.at = "push"]
    /\ UNCHANGED <<tree, history, registry, breaks>>

\* git push
PushBranch ==
    /\ Initial("branch") /\ origin.ahead = NoCommit
    /\ origin' = [origin EXCEPT !.has = 1..head]
    /\ job' = [job EXCEPT !.at = "push"]
    /\ UNCHANGED <<tree, history, registry, breaks>>

\* git push origin <tag>
PushTag ==
    LET p == job.pkg
    IN /\ Initial("push")
       /\ origin' = [origin EXCEPT !.tag[p][manifest[p]] = tag[p][manifest[p]]]
       /\ job' = NoJob
       /\ UNCHANGED <<tree, history, registry, breaks>>

-----------------------------------------------------------------------------
(* gbump, regular: one commit and a tag per package, published by the workflow. *)

\* git describe --match <pkg>@*, and whether the package changed since.
LastTag(p) == MaxOf({0} \cup {tag[p][v] : v \in Versions})
ChangedSinceTag(p) ==
    LastTag(p) = 0 \/ \E c \in LastTag(p) + 1..head : p \in commits[c].touched

\* The batches gbump accepts: some packages, each once, with a version each.
Plans == UNION {[S -> Versions] : S \in SUBSET Packages \ {{}}}

\* patch, minor and major raise the version, --set-ver must.
Raises(p, v) == v > manifest[p]

\* The guards of a regular release, for one package.
MayRaise(p, v) ==
    /\ Raises(p, v)
    /\ visible[p] # {} /\ manifest[p] = Baseline(p)
    /\ ChangedSinceTag(p)
    /\ HasChangelog(p, v)
    /\ tag[p][v] = 0 /\ origin.tag[p][v] = 0

StartRegular(plan) ==
    /\ MayRelease
    /\ \A p \in DOMAIN plan : MayRaise(p, plan[p])
    /\ head < MaxCommit
    /\ job' = [kind |-> "regular", plan |-> plan, at |-> "write", left |-> DOMAIN plan]
    /\ UNCHANGED <<tree, history, registry, origin, breaks>>

Regular(step) == job.kind = "regular" /\ job.at = step

WriteManifest(p) ==
    /\ Regular("write") /\ p \in job.left
    /\ manifest' = [manifest EXCEPT ![p] = job.plan[p]]
    /\ job' = [job EXCEPT !.left = @ \ {p}]
    /\ UNCHANGED <<notes, listed, edited, history, registry, origin, breaks>>

\* syncLockfileWorkspaceVersions
SyncLockfile ==
    /\ Regular("write") /\ job.left = {}
    /\ edited' = edited \cup {Lock}
    /\ job' = [job EXCEPT !.at = "commit"]
    /\ UNCHANGED <<manifest, notes, listed, history, registry, origin, breaks>>

CommitRelease ==
    /\ Regular("commit")
    /\ RecordCommit({Lock} \cup ({"manifest"} \X DOMAIN job.plan))
    /\ edited' = edited \ {Lock}
    /\ job' = [job EXCEPT !.at = "tag", !.left = DOMAIN job.plan]
    /\ UNCHANGED <<manifest, notes, listed, tag, begun, registry, origin, breaks>>

TagRelease(p) ==
    /\ Regular("tag") /\ p \in job.left
    /\ tag' = [tag EXCEPT ![p][job.plan[p]] = head]
    /\ job' = [job EXCEPT !.left = @ \ {p}]
    /\ UNCHANGED <<tree, commits, head, begun, registry, origin, breaks>>

\* git push --atomic: the branch and the tags of a set of packages, or nothing.
AtomicPush(tags) ==
    /\ origin.ahead = NoCommit
    /\ \A p \in tags : origin.tag[p][manifest[p]] = 0
    /\ origin' = [origin EXCEPT !.has = 1..head,
                                !.tag = [p \in Packages |-> IF p \in tags
                                          THEN [@[p] EXCEPT ![manifest[p]] = tag[p][manifest[p]]]
                                          ELSE @[p]]]

PushRelease ==
    /\ Regular("tag") /\ job.left = {}
    /\ AtomicPush(DOMAIN job.plan)
    /\ job' = NoJob
    /\ UNCHANGED <<tree, history, registry, breaks>>

\* After a failed push the guide has the same push repeated by hand.
FinishPush ==
    LET tags == {p \in Packages : /\ tag[p][manifest[p]] # 0
                                  /\ begun[p] # manifest[p]
                                  /\ origin.tag[p][manifest[p]] = 0}
    IN /\ job = NoJob /\ tags # {}
       /\ AtomicPush(tags)
       /\ UNCHANGED <<tree, history, registry, job, breaks>>

\* A command fails, is killed, or does its work and the answer is lost.
Break ==
    /\ job # NoJob /\ breaks < MaxBreaks
    /\ breaks' = breaks + 1
    /\ job' = NoJob
    /\ UNCHANGED <<tree, history, registry, origin>>

\* npm refuses a version it has, origin a branch that others have moved.
ReleaseRefused ==
    /\ job # NoJob
    /\ \/ Initial("publish") /\ accepted[job.pkg][manifest[job.pkg]] # 0
       \/ Initial("branch") /\ origin.ahead # NoCommit
       \/ Regular("tag") /\ job.left = {} /\ origin.ahead # NoCommit
    /\ job' = NoJob
    /\ UNCHANGED <<tree, history, registry, origin, breaks>>

-----------------------------------------------------------------------------
(* The workflow, the registry and other developers. *)

\* publish.yml for a pushed tag: the manifest of the tagged commit must have the
\* tag's version; what is published is skipped.
Workflow(p, v) ==
    LET at == origin.tag[p][v]
    IN /\ at # 0 /\ accepted[p][v] = 0
       /\ at # Theirs => commits[at].ver[p] = v
       /\ accepted' = [accepted EXCEPT ![p][v] = at]
       /\ UNCHANGED <<tree, history, visible, origin, job, breaks>>

\* The registry shows a version some time after it took it (external).
BecomesVisible(p, v) ==
    /\ accepted[p][v] # 0 /\ v \notin visible[p]
    /\ visible' = [visible EXCEPT ![p] = @ \cup {v}]
    /\ UNCHANGED <<tree, history, accepted, origin, job, breaks>>

\* Another developer pushes a change of a package, or releases one with these tools
\* (external).
OtherPush(p) ==
    LET tip == commits[MaxOf(origin.has)].ver
        push(ver) == [ver |-> ver, touched |-> {p}]
        v == tip[p] + 1
    IN /\ origin.ahead = NoCommit
       /\ \/ origin' = [origin EXCEPT !.ahead = push(tip)]
          \/ /\ tip[p] = Baseline(p) /\ v \in Versions /\ origin.tag[p][v] = 0
             /\ origin' = [origin EXCEPT !.ahead = push([tip EXCEPT ![p] = v]),
                                         !.tag[p][v] = Theirs]
       /\ UNCHANGED <<tree, history, registry, job, breaks>>

-----------------------------------------------------------------------------

Developer ==
    \/ Discard \/ SyncReadme \/ Pull \/ SyncVersions \/ ResetVersions \/ FinishPush
    \/ \E staged \in SUBSET Dirty : Commit(staged)
    \/ \E p \in Packages : Edit(p) \/ \E v \in Versions : Changelog(p, v)

Tool ==
    \/ InitialTag \/ InitialPublish \/ PushBranch \/ PushTag
    \/ SyncLockfile \/ CommitRelease \/ PushRelease \/ Break \/ ReleaseRefused
    \/ \E p \in Packages : StartInitial(p) \/ WriteManifest(p) \/ TagRelease(p)
    \/ \E plan \in Plans : StartRegular(plan)

World == \E p \in Packages : OtherPush(p) \/ \E v \in Versions : Workflow(p, v) \/ BecomesVisible(p, v)

ReleaseNext == Developer \/ Tool \/ World

ReleaseSpec == ReleaseInit /\ [][ReleaseNext]_releaseVars

-----------------------------------------------------------------------------

\* What is published under a version is what its tag names, on origin or, while an
\* initial release is unfinished, in the clone, and that commit's manifest has the
\* version: by the machine and by the workflow, across retries and others' releases.
PublishedIsTagged ==
    \A p \in Packages, v \in Versions : LET at == accepted[p][v] IN
        at # 0 => /\ at = IF origin.tag[p][v] # 0 THEN origin.tag[p][v] ELSE tag[p][v]
                  /\ at # Theirs => commits[at].ver[p] = v

\* A tag that origin has names a commit of its branch and stays there: no push of this
\* machine moves it, whatever was rejected before and whatever is pushed again.
TagsStay ==
    [][\A p \in Packages, v \in Versions : LET c == origin.tag[p][v] IN
         c \notin {0, Theirs} => c \in origin.has /\ origin'.tag[p][v] = c]_releaseVars

\* An initial release that broke off can be run again, from wherever it stopped, as
\* long as HEAD stays where its tag is and nobody else releases a later version.
RetryIsAccepted ==
    \A p \in Packages : LET v == manifest[p] IN
        (/\ begun[p] = v /\ tag[p][v] = head /\ job = NoJob
         /\ origin.tag[p][v] = 0 /\ Baseline(p) <= v)
            => ~Decision(p).error

=============================================================================
