------------------------------ MODULE Release ------------------------------
(***************************************************************************)
(* Publishing a version: the Publish workflow and prepare-release.py on    *)
(* one side, the repository's default branch and tags, developers who push *)
(* to it meanwhile, and crates.io on the other.  Any step of a run may be  *)
(* its last: a failed command, a lost runner, the timeout of 30 minutes;   *)
(* what it pushed or uploaded stays.                                       *)
(***************************************************************************)
EXTENDS Naturals, Sequences, FiniteSetsExt

CONSTANTS
  FirstTags,   \* patches tagged by hand before the first run
  MaxCommits,  \* bound: commits on the branch
  Unreleased,  \* the Cargo version that no tag stands for, 0.1.0
  None         \* no run, no tag, no upload

(* Version 0.0.x and tag v0.0.x are the number x. *)
Patches == 1..(MaxCommits + Max(FirstTags \cup {0}))
Versions == Patches \cup {Unreleased}

ASSUME ReleaseAssumption ==
  /\ MaxCommits \in Nat \ {0}
  /\ FirstTags \subseteq Nat \ {0} /\ IsFiniteSet(FirstTags)
  /\ Unreleased \notin Nat

(* A commit: its place in the history, its Cargo version, whether a run     *)
(* made it, and whether its sources pass the checks.                        *)
Commits == [place : 1..MaxCommits, version : Versions, release : BOOLEAN, good : BOOLEAN]

VARIABLES
  branch,   \* the default branch of the repository, oldest commit first
  tags,     \* the commit of each tag of the repository
  crates,   \* crates.io: the commit uploaded as each version
  waiting,  \* the run that waits for the concurrency group
  active,   \* the run that has it
  pc,       \* the step the active run is at
  target    \* the tag and the commit it prepared

vars == <<branch, tags, crates, waiting, active, pc, target>>

(* A run: the commit it was started on and its retry_tag. *)
Runs == [head : Commits, retry : Patches \cup {None}]
Targets == [tag : Patches, commit : Commits]

ASSUME NoneAssumption ==
  None \notin Commits /\ None \notin Runs /\ None \notin Targets /\ None \notin Patches

Head0 == [place |-> 1, version |-> Unreleased, release |-> FALSE, good |-> TRUE]

Init ==
  /\ branch = <<Head0>>
  /\ tags = [p \in Patches |-> IF p \in FirstTags THEN Head0 ELSE None]
  /\ crates = [v \in Versions |-> None]
  /\ waiting = None
  /\ active = None
  /\ pc = "none"
  /\ target = None

Tip == branch[Len(branch)]

OnBranch(c) == \E i \in DOMAIN branch : branch[i] = c

----------------------------------------------------------------------------
(* A developer pushes a commit, with sources that pass the checks or not.   *)
(* Assumed of the environment: the Cargo version is left to the workflow and *)
(* after the first run so are the tags.  (A commit that already has the next *)
(* version leaves prepare-release.py nothing to commit: every run then ends  *)
(* in PrepareNew until the version is changed back.)                        *)
Develop(good) ==
  /\ Len(branch) < MaxCommits
  /\ branch' = Append(branch, [place |-> Len(branch) + 1, version |-> Tip.version,
                               release |-> FALSE, good |-> good])
  /\ UNCHANGED <<tags, crates, waiting, active, pc, target>>

(* Somebody starts a run, or starts an old one again: on the commit it had. *)
(* The group keeps one waiting run, the newest.                             *)
Dispatch(c, retry) ==
  /\ waiting' = [head |-> c, retry |-> retry]
  /\ UNCHANGED <<branch, tags, crates, active, pc, target>>

(* The waiting run gets the group and checks its commit out. *)
MutGroupFree == TRUE
GroupFree == active = None
Start ==
  /\ waiting # None
  /\ GroupFree
  /\ active' = waiting
  /\ waiting' = None
  /\ pc' = "checkout"
  /\ UNCHANGED <<branch, tags, crates, target>>

(* max(patches, default=0) + 1 *)
NextPatch == Max({p \in Patches : tags[p] # None} \cup {0}) + 1

UpToDate(c) == c = Tip

(* The checkout of retry_tag is a release with that version, on the branch. *)
MutRetriable(p) == tags[p] # None /\ OnBranch(tags[p])
Retriable(p) == tags[p] # None /\ OnBranch(tags[p]) /\ tags[p].version = p

(* prepare-release.py after its fetch of the branch and the tags: the       *)
(* commit of the retry tag, or a release commit on top of the checkout,     *)
(* which git refuses when the version does not change.                      *)
PrepareRetry ==
  /\ pc = "checkout" /\ active.retry # None
  /\ Retriable(active.retry)
  /\ target' = [tag |-> active.retry, commit |-> tags[active.retry]]
  /\ pc' = "prepared"
  /\ UNCHANGED <<branch, tags, crates, waiting, active>>

PrepareNew ==
  /\ pc = "checkout" /\ active.retry = None
  /\ UpToDate(active.head)
  /\ active.head.place < MaxCommits /\ NextPatch \in Patches  \* bounds
  /\ active.head.version # NextPatch
  /\ target' = [tag |-> NextPatch,
                commit |-> [place |-> active.head.place + 1, version |-> NextPatch,
                            release |-> TRUE, good |-> active.head.good]]
  /\ pc' = "prepared"
  /\ UNCHANGED <<branch, tags, crates, waiting, active>>

(* rustfmt, Clippy, the tests and the dry run, on the prepared commit. *)
Checked == target.commit.good
Check ==
  /\ pc = "prepared"
  /\ Checked
  /\ pc' = IF active.retry = None THEN "push" ELSE "upload"
  /\ UNCHANGED <<branch, tags, crates, waiting, active, target>>

(* The push takes the branch and the tag or neither: not a branch that has  *)
(* moved, not a tag that exists.                                            *)
FastForward == Len(branch) + 1 = target.commit.place
Pushed == Append(SubSeq(branch, 1, target.commit.place - 1), target.commit)
Tagged == [tags EXCEPT ![target.tag] = target.commit]

MutForcePush == tags[target.tag] = None /\ branch' = Pushed /\ tags' = Tagged
MutPushTagFirst ==
  /\ tags[target.tag] = None
  /\ branch' = IF FastForward THEN Pushed ELSE branch
  /\ tags' = Tagged
MutPushBranchFirst ==
  /\ FastForward
  /\ branch' = Pushed
  /\ tags' \in {tags, Tagged}
AtomicPush ==
  /\ FastForward /\ tags[target.tag] = None
  /\ branch' = Pushed
  /\ tags' = Tagged
Push ==
  /\ pc = "push"
  /\ AtomicPush
  /\ pc' = "upload"
  /\ UNCHANGED <<crates, waiting, active, target>>

(* crates.io takes a version once. *)
Accepts(v) == crates[v] = None
Upload ==
  /\ pc = "upload"
  /\ Accepts(target.commit.version)
  /\ crates' = [crates EXCEPT ![target.commit.version] = target.commit]
  /\ pc' = "uploaded"
  /\ UNCHANGED <<branch, tags, waiting, active, target>>

(* The run is over, with success or after any of its steps. *)
End ==
  /\ active # None
  /\ active' = None
  /\ pc' = "none"
  /\ target' = None
  /\ UNCHANGED <<branch, tags, crates, waiting>>

Next ==
  \/ \E good \in BOOLEAN : Develop(good)
  \/ \E i \in DOMAIN branch, retry \in Patches \cup {None} : Dispatch(branch[i], retry)
  \/ Start \/ PrepareRetry \/ PrepareNew \/ Check \/ Push \/ Upload \/ End

Spec == Init /\ [][Next]_vars

----------------------------------------------------------------------------
(***************************************************************************)
(* Properties.                                                             *)
(***************************************************************************)

(* Commits are on the branch at their place; runs, tags and uploads refer   *)
(* to commits; only a run that has prepared one has a target.               *)
TypeOK ==
  /\ branch \in Seq(Commits) /\ Len(branch) > 0
  /\ \A i \in DOMAIN branch : branch[i].place = i
  /\ tags \in [Patches -> Commits \cup {None}]
  /\ crates \in [Versions -> Commits \cup {None}]
  /\ waiting \in Runs \cup {None} /\ active \in Runs \cup {None}
  /\ pc \in {"none", "checkout", "prepared", "push", "upload", "uploaded"}
  /\ pc = "none" <=> active = None
  /\ target \in Targets \cup {None}
  /\ target # None <=> pc \in {"prepared", "push", "upload", "uploaded"}

(* What is on crates.io can be traced: each version is the commit of the    *)
(* tag of that version, on the branch, and passed the checks, whatever      *)
(* crashed, was retried much later or was started on an old commit.         *)
PublishedIsTagged ==
  \A v \in Versions : crates[v] # None =>
    v \in Patches /\ crates[v] = tags[v] /\ OnBranch(crates[v]) /\ crates[v].good

(* A run that dies after its push and before its upload loses nothing: its  *)
(* tag can be retried, at any later time (README, "If an upload fails after *)
(* the tag is pushed").                                                     *)
TaggedStaysRetriable ==
  \A p \in Patches : tags[p] # None /\ tags[p].release => Retriable(p) /\ tags[p].good

(* The next release can always be made from the tip of the branch: a crash  *)
(* never leaves a version on the branch that the next run would choose too. *)
NextReleasePossible == NextPatch \in Patches => Tip.version # NextPatch

(* Tags never move, "published versions cannot be overwritten" (README) and *)
(* no run drops a commit a developer pushed while it was checking.          *)
NothingOverwritten ==
  [][/\ \A p \in Patches : tags[p] # None => tags'[p] = tags[p]
     /\ \A v \in Versions : crates[v] # None => crates'[v] = crates[v]
     /\ \A i \in DOMAIN branch : i \in DOMAIN branch' /\ branch'[i] = branch[i]]_vars

(***************************************************************************)
(* An inductive invariant: why a crash or a retry cannot mix releases up.  *)
(***************************************************************************)

(* What a run is about to push or upload has the version of its tag and,    *)
(* from the push on or when it is a retry, is what the tag stands for.      *)
TargetInv ==
  target # None =>
    /\ target.commit.version = target.tag
    /\ pc \in {"push", "upload"} => target.commit.good
    /\ pc = "push" => active.retry = None
    /\ IF pc \in {"upload", "uploaded"} \/ active.retry # None
         THEN tags[target.tag] = target.commit /\ OnBranch(target.commit)
         ELSE target.commit.release

InductiveInv == TypeOK /\ TargetInv /\ PublishedIsTagged /\ TaggedStaysRetriable

============================================================================
