--------------------------- MODULE ReleaseProofs ---------------------------
(***************************************************************************)
(* Proofs about Release, for every number of commits and every set of tags *)
(* made by hand.                                                           *)
(***************************************************************************)
EXTENDS Release, FiniteSetTheorems, WellFoundedInduction, TLAPS

(* The first commit is a commit. *)
LEMMA FirstCommit == Head0 \in Commits
BY ReleaseAssumption DEF Head0, Commits, Versions

(* The repository and crates.io before the first run satisfy the invariant. *)
LEMMA InitInv == Init => InductiveInv
<1> SUFFICES ASSUME Init PROVE InductiveInv
  OBVIOUS
<1> USE FirstCommit, NoneAssumption
<1>1. TypeOK
  <2>1. branch \in Seq(Commits) /\ Len(branch) > 0
    BY DEF Init
  <2>2. \A i \in DOMAIN branch : branch[i].place = i
    <3>1. branch = <<Head0>> /\ DOMAIN branch = {1} /\ branch[1] = Head0
      BY DEF Init
    <3> QED
      BY <3>1 DEF Head0
  <2>3. tags \in [Patches -> Commits \cup {None}] /\ crates \in [Versions -> Commits \cup {None}]
    BY DEF Init
  <2> QED
    BY <2>1, <2>2, <2>3 DEF Init, TypeOK
<1>2. TargetInv /\ PublishedIsTagged
  BY DEF Init, TargetInv, PublishedIsTagged
<1>3. TaggedStaysRetriable
  BY DEF Init, TaggedStaysRetriable, Head0
<1> QED
  BY <1>1, <1>2, <1>3 DEF InductiveInv

(* A branch that grew by one commit: the old ones stay where they were. *)
LEMMA Appended ==
  ASSUME TypeOK, NEW c \in Commits, c.place = Len(branch) + 1, branch' = Append(branch, c)
  PROVE  /\ branch' \in Seq(Commits) /\ Len(branch') > 0
         /\ \A i \in DOMAIN branch' : branch'[i].place = i
         /\ \A i \in DOMAIN branch : i \in DOMAIN branch' /\ branch'[i] = branch[i]
         /\ \A d : OnBranch(d) => OnBranch(d)'
         /\ OnBranch(c)'
<1> USE DEF TypeOK
<1>1. branch' \in Seq(Commits) /\ Len(branch') = Len(branch) + 1
  OBVIOUS
<1>2. branch'[Len(branch) + 1] = c
  OBVIOUS
<1>3. \A i \in DOMAIN branch : i \in DOMAIN branch' /\ branch'[i] = branch[i]
  OBVIOUS
<1>4. \A i \in DOMAIN branch' : branch'[i].place = i
  BY <1>1, <1>2, <1>3
<1>5. \A d : OnBranch(d) => OnBranch(d)'
  BY <1>3 DEF OnBranch
<1>6. OnBranch(c)'
  BY <1>1, <1>2 DEF OnBranch
<1> QED
  BY <1>1, <1>3, <1>4, <1>5, <1>6

(* A step that leaves the repository and crates.io alone. *)
LEMMA RemoteUntouched ==
  ASSUME UNCHANGED <<branch, tags, crates>>, PublishedIsTagged, TaggedStaysRetriable
  PROVE  PublishedIsTagged' /\ TaggedStaysRetriable'
BY DEF PublishedIsTagged, TaggedStaysRetriable, Retriable, OnBranch

(* The tip is a commit of the branch. *)
LEMMA TipOnBranch == ASSUME TypeOK PROVE Tip \in Commits
BY DEF TypeOK, Tip

LEMMA DevelopInv ==
  ASSUME InductiveInv, NEW good \in BOOLEAN, Develop(good)
  PROVE  InductiveInv'
<1> DEFINE c == [place |-> Len(branch) + 1, version |-> Tip.version,
                 release |-> FALSE, good |-> good]
<1> USE DEF InductiveInv
<1>1. c \in Commits /\ c.place = Len(branch) + 1
  BY TipOnBranch, ReleaseAssumption DEF Develop, Commits, TypeOK
<1>2. branch' = Append(branch, c) /\ UNCHANGED <<tags, crates, waiting, active, pc, target>>
  BY DEF Develop
<1> HIDE DEF c
<1>3. /\ branch' \in Seq(Commits) /\ Len(branch') > 0
      /\ \A i \in DOMAIN branch' : branch'[i].place = i
      /\ \A d : OnBranch(d) => OnBranch(d)'
  BY <1>1, <1>2, Appended
<1>4. TypeOK'
  BY <1>2, <1>3 DEF TypeOK
<1>5. TargetInv'
  BY <1>2, <1>3 DEF TargetInv
<1>6. PublishedIsTagged'
  BY <1>2, <1>3 DEF PublishedIsTagged
<1>7. TaggedStaysRetriable'
  BY <1>2, <1>3 DEF TaggedStaysRetriable, Retriable
<1> QED
  BY <1>4, <1>5, <1>6, <1>7

(* Starting a run, getting the group and ending change no repository. *)
LEMMA RunsInv ==
  ASSUME InductiveInv,
         \/ \E i \in DOMAIN branch, retry \in Patches \cup {None} : Dispatch(branch[i], retry)
         \/ Start
         \/ End
  PROVE  InductiveInv'
<1> USE NoneAssumption DEF InductiveInv
<1>1. UNCHANGED <<branch, tags, crates>>
  BY DEF Dispatch, Start, End
<1>2. PublishedIsTagged' /\ TaggedStaysRetriable'
  BY <1>1, RemoteUntouched
<1>3. ASSUME NEW i \in DOMAIN branch, NEW retry \in Patches \cup {None}, Dispatch(branch[i], retry)
      PROVE  TypeOK' /\ TargetInv'
  <2>1. waiting' \in Runs
    BY <1>3 DEF TypeOK, Dispatch, Runs
  <2> QED
    BY <2>1, <1>3 DEF Dispatch, TypeOK, TargetInv, OnBranch
<1>4. ASSUME Start PROVE TypeOK' /\ TargetInv'
  BY <1>4 DEF Start, GroupFree, TypeOK, TargetInv, OnBranch
<1>5. ASSUME End PROVE TypeOK' /\ TargetInv'
  BY <1>5 DEF End, TypeOK, TargetInv
<1> QED
  BY <1>2, <1>3, <1>4, <1>5

(* A retry takes over a release that is already on the branch. *)
LEMMA PrepareRetryInv ==
  ASSUME InductiveInv, PrepareRetry
  PROVE  InductiveInv'
<1> USE NoneAssumption DEF InductiveInv
<1>1. UNCHANGED <<branch, tags, crates, waiting, active>> /\ pc' = "prepared"
  BY DEF PrepareRetry
<1>2. PublishedIsTagged' /\ TaggedStaysRetriable'
  BY <1>1, RemoteUntouched
<1>3. active \in Runs /\ active.retry \in Patches
  BY DEF PrepareRetry, TypeOK, Runs
<1>4. /\ tags[active.retry] \in Commits /\ OnBranch(tags[active.retry])
      /\ tags[active.retry].version = active.retry
  BY <1>3 DEF PrepareRetry, Retriable, TypeOK
<1>5. target' = [tag |-> active.retry, commit |-> tags[active.retry]] /\ target' \in Targets
  BY <1>3, <1>4 DEF PrepareRetry, Targets
<1>6. TypeOK'
  BY <1>1, <1>3, <1>5 DEF TypeOK
<1>7. TargetInv'
  <2>1. target'.commit = tags[active.retry] /\ target'.tag = active.retry
    BY <1>5
  <2>2. OnBranch(target.commit)'
    BY <2>1, <1>1, <1>4 DEF OnBranch
  <2> QED
    BY <2>1, <2>2, <1>1, <1>3, <1>4 DEF TargetInv
<1> QED
  BY <1>2, <1>6, <1>7

(* A new release is a commit of the branch's future. *)
LEMMA PrepareNewInv ==
  ASSUME InductiveInv, PrepareNew
  PROVE  InductiveInv'
<1> DEFINE c == [place |-> active.head.place + 1, version |-> NextPatch,
                 release |-> TRUE, good |-> active.head.good]
<1> USE NoneAssumption DEF InductiveInv
<1>1. UNCHANGED <<branch, tags, crates, waiting, active>> /\ pc' = "prepared" /\ active.retry = None
  BY DEF PrepareNew
<1>2. PublishedIsTagged' /\ TaggedStaysRetriable'
  BY <1>1, RemoteUntouched
<1>3. active \in Runs /\ active.head \in Commits
  BY DEF PrepareNew, TypeOK, Runs
<1>4. NextPatch \in Patches /\ target' = [tag |-> NextPatch, commit |-> c]
  BY DEF PrepareNew
<1>5. c \in Commits
  BY <1>3, <1>4, ReleaseAssumption DEF PrepareNew, Commits, Versions
<1>6. c.version = NextPatch /\ c.release
  OBVIOUS
<1> HIDE DEF c
<1>7. target' \in Targets
  BY <1>4, <1>5 DEF Targets
<1>8. TypeOK'
  BY <1>1, <1>3, <1>7 DEF TypeOK
<1>9. TargetInv'
  BY <1>1, <1>4, <1>6 DEF TargetInv
<1> QED
  BY <1>2, <1>8, <1>9

(* The checks let only good sources pass. *)
LEMMA CheckInv ==
  ASSUME InductiveInv, Check
  PROVE  InductiveInv'
<1> USE NoneAssumption DEF InductiveInv
<1>1. UNCHANGED <<branch, tags, crates, waiting, active, target>>
  BY DEF Check
<1>2. PublishedIsTagged' /\ TaggedStaysRetriable'
  BY <1>1, RemoteUntouched
<1>3. pc = "prepared" /\ target.commit.good /\ pc' = IF active.retry = None THEN "push" ELSE "upload"
  BY DEF Check, Checked
<1>4. TypeOK'
  BY <1>1, <1>3 DEF TypeOK
<1>5. TargetInv'
  BY <1>1, <1>3 DEF TargetInv, TypeOK, OnBranch
<1> QED
  BY <1>2, <1>4, <1>5

(* What the push appends is the prepared commit, and nothing else moves. *)
LEMMA PushAppends ==
  ASSUME InductiveInv, Push
  PROVE  /\ target \in Targets /\ target.tag \in Patches /\ target.commit \in Commits
         /\ target.commit.place = Len(branch) + 1
         /\ branch' = Append(branch, target.commit)
         /\ tags[target.tag] = None
         /\ tags' = [tags EXCEPT ![target.tag] = target.commit]
<1> USE DEF InductiveInv
<1>1. target \in Targets /\ target.tag \in Patches /\ target.commit \in Commits
  BY DEF Push, TypeOK, Targets
<1>2. target.commit.place = Len(branch) + 1 /\ tags[target.tag] = None
  BY DEF Push, AtomicPush, FastForward
<1>3. SubSeq(branch, 1, target.commit.place - 1) = branch
  BY <1>2 DEF TypeOK
<1> QED
  BY <1>1, <1>2, <1>3 DEF Push, AtomicPush, Pushed, Tagged

(* The push puts the release on the branch and its tag on the release. *)
LEMMA PushInv ==
  ASSUME InductiveInv, Push
  PROVE  InductiveInv'
<1> USE NoneAssumption DEF InductiveInv
<1> PICK c, t : c = target.commit /\ t = target.tag
  OBVIOUS
<1>1. /\ t \in Patches /\ c \in Commits /\ c.place = Len(branch) + 1
      /\ branch' = Append(branch, c) /\ tags[t] = None
      /\ tags' = [tags EXCEPT ![t] = c]
  BY PushAppends
<1>2. pc = "push" /\ pc' = "upload" /\ UNCHANGED <<crates, waiting, active, target>>
  BY DEF Push
<1>3. target # None /\ active.retry = None /\ c.version = t /\ c.good /\ c.release
  BY <1>2 DEF TypeOK, TargetInv
<1>4. tags' \in [Patches -> Commits \cup {None}] /\ tags'[t] = c
      /\ \A p \in Patches : p # t => tags'[p] = tags[p]
  BY <1>1 DEF TypeOK
<1>5. /\ branch' \in Seq(Commits) /\ Len(branch') > 0
      /\ \A i \in DOMAIN branch' : branch'[i].place = i
      /\ \A d : OnBranch(d) => OnBranch(d)'
      /\ OnBranch(c)'
  BY <1>1, Appended
<1>6. TypeOK'
  BY <1>2, <1>4, <1>5 DEF TypeOK
<1>7. TargetInv'
  BY <1>2, <1>3, <1>4, <1>5 DEF TargetInv
<1>8. PublishedIsTagged'
  BY <1>1, <1>2, <1>4, <1>5 DEF PublishedIsTagged
<1>9. TaggedStaysRetriable'
  BY <1>3, <1>4, <1>5 DEF TaggedStaysRetriable, Retriable
<1> QED
  BY <1>6, <1>7, <1>8, <1>9

(* The upload is of what the tag stands for. *)
LEMMA UploadInv ==
  ASSUME InductiveInv, Upload
  PROVE  InductiveInv'
<1> USE NoneAssumption DEF InductiveInv
<1> DEFINE c == target.commit
           t == target.tag
<1>1. pc = "upload" /\ pc' = "uploaded" /\ UNCHANGED <<branch, tags, waiting, active, target>>
  BY DEF Upload
<1>2. target \in Targets /\ t \in Patches /\ c \in Commits
  BY <1>1 DEF TypeOK, Targets
<1>3. c.version = t /\ c.good /\ tags[t] = c /\ OnBranch(c)
  BY <1>1, <1>2 DEF TargetInv
<1>4. t \in Versions
  BY <1>2 DEF Versions
<1>5. crates' = [crates EXCEPT ![t] = c]
  BY <1>3 DEF Upload
<1>6. /\ crates' \in [Versions -> Commits \cup {None}] /\ crates'[t] = c
      /\ \A v \in Versions : v # t => crates'[v] = crates[v]
  BY <1>2, <1>4, <1>5 DEF TypeOK
<1> HIDE DEF c, t
<1>7. TypeOK'
  BY <1>1, <1>2, <1>6 DEF TypeOK
<1>8. TargetInv'
  BY <1>1, <1>2, <1>3 DEF TargetInv, OnBranch, c, t
<1>9. PublishedIsTagged'
  BY <1>1, <1>2, <1>3, <1>6 DEF PublishedIsTagged, OnBranch
<1>10. TaggedStaysRetriable'
  BY <1>1 DEF TaggedStaysRetriable, Retriable, OnBranch
<1> QED
  BY <1>7, <1>8, <1>9, <1>10

(* The invariant holds of every behaviour: after any crash, retry or push.  *)
THEOREM InvariantHolds == Spec => []InductiveInv
<1>1. InductiveInv /\ [Next]_vars => InductiveInv'
  <2> SUFFICES ASSUME InductiveInv, [Next]_vars PROVE InductiveInv'
    OBVIOUS
  <2>1. ASSUME NEW good \in BOOLEAN, Develop(good) PROVE InductiveInv'
    BY <2>1, DevelopInv
  <2>2. CASE UNCHANGED vars
    BY <2>2 DEF vars, InductiveInv, TypeOK, TargetInv, PublishedIsTagged,
                TaggedStaysRetriable, Retriable, OnBranch
  <2> QED
    BY <2>1, <2>2, RunsInv, PrepareRetryInv, PrepareNewInv, CheckInv, PushInv, UploadInv DEF Next
<1> QED
  BY <1>1, InitInv, PTL DEF Spec

(* State is well typed: tags, uploads and runs refer to commits, commits    *)
(* are at their place of the branch.                                        *)
THEOREM TypeCorrect == Spec => []TypeOK
<1>1. InductiveInv => TypeOK
  BY DEF InductiveInv
<1> QED
  BY <1>1, InvariantHolds, PTL

(* What is on crates.io is the checked, tagged commit of the branch: the    *)
(* order of check, push and upload in the workflow and the checks a retry   *)
(* repeats in prepare-release.py.                                           *)
THEOREM UploadsAreTagged == Spec => []PublishedIsTagged
<1>1. InductiveInv => PublishedIsTagged
  BY DEF InductiveInv
<1> QED
  BY <1>1, InvariantHolds, PTL

(* A tag pushed by a run can be retried for ever: the atomic push.          *)
THEOREM TagsStayRetriable == Spec => []TaggedStaysRetriable
<1>1. InductiveInv => TaggedStaysRetriable
  BY DEF InductiveInv
<1> QED
  BY <1>1, InvariantHolds, PTL

(* No step moves a tag, replaces an upload or drops a commit: a push takes  *)
(* no tag that exists and no branch that moved, crates.io no version twice. *)
THEOREM RemotesOnlyGrow == Spec => NothingOverwritten
<1> DEFINE Kept ==
      /\ \A p \in Patches : tags[p] # None => tags'[p] = tags[p]
      /\ \A v \in Versions : crates[v] # None => crates'[v] = crates[v]
      /\ \A i \in DOMAIN branch : i \in DOMAIN branch' /\ branch'[i] = branch[i]
<1>1. ASSUME InductiveInv, [Next]_vars PROVE [Kept]_vars
  <2>1. ASSUME UNCHANGED <<branch, tags, crates>> PROVE Kept
    BY <2>1
  <2>2. ASSUME NEW good \in BOOLEAN, Develop(good) PROVE Kept
    <3>1. \A i \in DOMAIN branch : i \in DOMAIN branch' /\ branch'[i] = branch[i]
      BY <2>2, <1>1 DEF Develop, InductiveInv, TypeOK
    <3> QED
      BY <3>1, <2>2 DEF Develop
  <2>3. CASE Push
    <3>1. \A i \in DOMAIN branch : i \in DOMAIN branch' /\ branch'[i] = branch[i]
      BY <2>3, <1>1, PushAppends DEF InductiveInv, TypeOK
    <3>2. \A p \in Patches : tags[p] # None => tags'[p] = tags[p]
      BY <2>3, <1>1, PushAppends DEF InductiveInv, TypeOK
    <3> QED
      BY <3>1, <3>2, <2>3 DEF Push
  <2>4. CASE Upload
    <3>1. \A v \in Versions : crates[v] # None => crates'[v] = crates[v]
      BY <2>4, <1>1 DEF Upload, Accepts, InductiveInv, TypeOK
    <3> QED
      BY <3>1, <2>4 DEF Upload
  <2> HIDE DEF Kept
  <2>5. CASE Start \/ PrepareRetry \/ PrepareNew \/ Check \/ End
    BY <2>1, <2>5 DEF Start, PrepareRetry, PrepareNew, Check, End
  <2>6. ASSUME NEW i \in DOMAIN branch, NEW retry \in Patches \cup {None}, Dispatch(branch[i], retry)
        PROVE  Kept
    BY <2>1, <2>6 DEF Dispatch
  <2> QED
    BY <2>2, <2>3, <2>4, <2>5, <2>6, <1>1 DEF Next
<1> QED
  BY <1>1, InvariantHolds, PTL DEF Spec, NothingOverwritten


----------------------------------------------------------------------------
(***************************************************************************)
(* The next release can always be made.  NextPatch is one more than a      *)
(* maximum, which exists because the tags are bounded.                     *)
(***************************************************************************)

(* A set of naturals has a least element. *)
LEMMA LeastNatural ==
  ASSUME NEW T \in SUBSET Nat, T # {}
  PROVE  \E x \in T : \A y \in T : x <= y
<1> DEFINE R == OpToRel(<, Nat)
<1>1. R = {ss \in Nat \X Nat : ss[1] < ss[2]}
  BY DEF OpToRel
<1>2. IsWellFoundedOn(R, Nat)
  BY NatLessThanWellFounded
<1> HIDE DEF R
<1>3. PICK x \in T : \A y \in T : ~(<<y, x>> \in R)
  BY <1>2, WFMin
<1>4. ASSUME NEW y \in T PROVE x <= y
  <2>1. x \in Nat /\ y \in Nat /\ <<y, x>> \in Nat \X Nat
    OBVIOUS
  <2>2. <<y, x>> \notin R
    BY <1>3
  <2>3. ~(y < x)
    BY <2>1, <2>2, <1>1
  <2> QED
    BY <2>1, <2>3
<1> QED
  BY <1>4

(* A bounded set of naturals has a greatest element, which Max finds. *)
LEMMA MaxOfBounded ==
  ASSUME NEW K \in Nat, NEW S \in SUBSET (0..K), S # {}
  PROVE  Max(S) \in S /\ \A y \in S : y <= Max(S)
<1>1. PICK T : T = {n \in Nat : \E x \in S : n = K - x}
  OBVIOUS
<1>2. T \in SUBSET Nat /\ T # {}
  <2>1. PICK x \in S : TRUE
    OBVIOUS
  <2>2. x \in 0..K
    OBVIOUS
  <2>3. K - x \in Nat
    BY <2>2
  <2>4. K - x \in T
    BY <2>3, <1>1
  <2> QED
    BY <2>4, <1>1
<1>3. PICK m \in T : \A n \in T : m <= n
  BY <1>2, LeastNatural
<1>4. PICK x \in S : m = K - x
  BY <1>1, <1>3
<1>5. ASSUME NEW y \in S PROVE x >= y
  <2>1. x \in 0..K /\ y \in 0..K
    OBVIOUS
  <2>2. K - y \in Nat
    BY <2>1
  <2>3. K - y \in T
    BY <2>2, <1>1
  <2> QED
    BY <2>1, <2>3, <1>3, <1>4
<1>6. Max(S) \in S /\ \A y \in S : Max(S) >= y
  BY <1>5 DEF Max
<1>7. ASSUME NEW y \in S PROVE y <= Max(S)
  <2>1. Max(S) \in 0..K /\ y \in 0..K
    BY <1>6
  <2> QED
    BY <2>1, <1>6
<1> QED
  BY <1>6, <1>7

(* A finite set of naturals is bounded: its largest bounded subset lacks no *)
(* element, for the bound could be raised to include it.                    *)
LEMMA FiniteIsBounded ==
  ASSUME NEW S \in SUBSET Nat, IsFiniteSet(S)
  PROVE  \E K \in Nat : S \subseteq 0..K
<1> DEFINE Bounded(T) == \E K \in Nat : T \subseteq 0..K
           Sizes == {n \in Nat : \E T \in SUBSET S : Bounded(T) /\ n = Cardinality(T)}
<1>1. Cardinality(S) \in Nat
  BY FS_CardinalityType
<1>2. \A T \in SUBSET S : IsFiniteSet(T) /\ Cardinality(T) \in 0..Cardinality(S)
  <2> TAKE T \in SUBSET S
  <2>1. IsFiniteSet(T) /\ Cardinality(T) <= Cardinality(S)
    BY FS_Subset
  <2>2. Cardinality(T) \in Nat
    BY <2>1, FS_CardinalityType
  <2> QED
    BY <2>1, <2>2, <1>1
<1>3. Sizes \in SUBSET (0..Cardinality(S)) /\ Sizes # {}
  <2>1. Sizes \in SUBSET (0..Cardinality(S))
    BY <1>2
  <2>2. {} \in SUBSET S /\ Bounded({})
    BY 0 \in Nat
  <2>3. Cardinality({}) \in Sizes
    BY <2>2, FS_EmptySet
  <2> QED
    BY <2>1, <2>3
<1>4. Max(Sizes) \in Sizes /\ \A n \in Sizes : n <= Max(Sizes)
  <2> HIDE DEF Sizes
  <2> QED
    BY <1>1, <1>3, MaxOfBounded
<1>5. PICK T \in SUBSET S : Bounded(T) /\ Max(Sizes) = Cardinality(T)
  BY <1>4
<1>6. PICK K \in Nat : T \subseteq 0..K
  BY <1>5
<1>7. S \subseteq T
  <2> SUFFICES ASSUME NEW x \in S, x \notin T PROVE FALSE
    OBVIOUS
  <2> DEFINE U == T \cup {x}
  <2>1. U \in SUBSET S /\ x \in Nat
    OBVIOUS
  <2>2. U \subseteq 0..(K + x)
    BY <1>6, <2>1
  <2>3. K + x \in Nat
    BY <2>1
  <2>4. Bounded(U)
    BY <2>2, <2>3
  <2>5. IsFiniteSet(T) /\ Cardinality(T) \in Nat /\ Cardinality(U) \in Nat
    BY <1>2, <2>1
  <2>6. Cardinality(U) = Cardinality(T) + 1
    BY <2>5, FS_AddElement
  <2>7. Cardinality(U) \in Sizes
    BY <2>1, <2>4, <2>5
  <2> HIDE DEF Sizes, U
  <2> QED
    BY <2>5, <2>6, <2>7, <1>4, <1>5
<1> QED
  BY <1>6, <1>7

(* The patches are 1 to some natural number. *)
LEMMA PatchesBounded == \E K \in Nat : Patches = 1..K
<1> DEFINE F == FirstTags \cup {0}
<1>1. F \in SUBSET Nat /\ F # {}
  BY ReleaseAssumption
<1>2. IsFiniteSet(F)
  BY FS_AddElement, ReleaseAssumption
<1>3. PICK B \in Nat : F \subseteq 0..B
  BY <1>1, <1>2, FiniteIsBounded
<1>4. Max(F) \in F
  <2> HIDE DEF F
  <2> QED
    BY <1>1, <1>3, MaxOfBounded
<1>5. MaxCommits + Max(F) \in Nat
  <2>1. Max(F) \in Nat
    BY <1>1, <1>4
  <2> HIDE DEF F
  <2> QED
    BY <2>1, ReleaseAssumption
<1> QED
  BY <1>5 DEF Patches

(* NextPatch is above every tag. *)
LEMMA NextPatchIsFree ==
  ASSUME NEW p \in Patches, tags[p] # None
  PROVE  p # NextPatch
<1> DEFINE S == {q \in Patches : tags[q] # None} \cup {0}
<1>1. PICK K \in Nat : Patches = 1..K
  BY PatchesBounded
<1>2. S \in SUBSET (0..K) /\ S # {} /\ p \in S
  BY <1>1
<1>3. NextPatch = Max(S) + 1
  BY DEF NextPatch
<1> HIDE DEF S
<1>4. Max(S) \in S /\ p <= Max(S)
  BY <1>1, <1>2, MaxOfBounded
<1>5. Max(S) \in 0..K /\ p \in 0..K
  BY <1>2, <1>4
<1> QED
  BY <1>3, <1>4, <1>5

(* Every version on the branch has its tag: a release commit reaches the    *)
(* branch only together with its tag, and a developer's commit keeps the    *)
(* version of the commit before it.                                         *)
VersionsTagged ==
  \A i \in DOMAIN branch : branch[i].version \in Patches => tags[branch[i].version] # None

LEMMA VersionsTaggedStep ==
  ASSUME InductiveInv, VersionsTagged, [Next]_vars
  PROVE  VersionsTagged'
<1> USE NoneAssumption DEF InductiveInv
<1>1. ASSUME UNCHANGED <<branch, tags>> PROVE VersionsTagged'
  BY <1>1 DEF VersionsTagged
<1>2. ASSUME NEW good \in BOOLEAN, Develop(good) PROVE VersionsTagged'
  <2> DEFINE c == [place |-> Len(branch) + 1, version |-> Tip.version,
                   release |-> FALSE, good |-> good]
  <2>1. branch' = Append(branch, c) /\ tags' = tags
    BY <1>2 DEF Develop
  <2>2. c.version = branch[Len(branch)].version
    BY DEF Tip
  <2> HIDE DEF c
  <2>3. Len(branch) \in DOMAIN branch
    BY DEF TypeOK
  <2>4. \A i \in DOMAIN branch' : branch'[i] = c \/ (i \in DOMAIN branch /\ branch'[i] = branch[i])
    BY <2>1 DEF TypeOK
  <2> QED
    BY <2>1, <2>2, <2>3, <2>4 DEF VersionsTagged
<1>3. CASE Push
  <2> PICK c, t : c = target.commit /\ t = target.tag
    OBVIOUS
  <2>1. /\ t \in Patches /\ c \in Commits
        /\ branch' = Append(branch, c) /\ tags' = [tags EXCEPT ![t] = c]
    BY <1>3, PushAppends
  <2>2. c.version = t
    BY <1>3 DEF Push, TargetInv, TypeOK
  <2>3. tags'[t] = c /\ \A p \in Patches : p # t => tags'[p] = tags[p]
    BY <2>1 DEF TypeOK
  <2>4. \A i \in DOMAIN branch' : branch'[i] = c \/ (i \in DOMAIN branch /\ branch'[i] = branch[i])
    BY <2>1 DEF TypeOK
  <2> QED
    BY <2>1, <2>2, <2>3, <2>4 DEF VersionsTagged
<1>4. CASE Start \/ PrepareRetry \/ PrepareNew \/ Check \/ Upload \/ End \/ UNCHANGED vars
  BY <1>1, <1>4 DEF Start, PrepareRetry, PrepareNew, Check, Upload, End, vars
<1>5. ASSUME NEW i \in DOMAIN branch, NEW retry \in Patches \cup {None}, Dispatch(branch[i], retry)
      PROVE  VersionsTagged'
  BY <1>1, <1>5 DEF Dispatch
<1> QED
  BY <1>2, <1>3, <1>4, <1>5 DEF Next

(* The tip of the branch never has the version the next run would choose,   *)
(* so that git always has a release commit to make: prepare-release.py      *)
(* counts the tags, and a crash cannot part a version from its tag.         *)
THEOREM ReleasesGoOn == Spec => []NextReleasePossible
<1>1. Init => VersionsTagged
  <2> SUFFICES ASSUME Init PROVE VersionsTagged
    OBVIOUS
  <2>1. PICK K \in Nat : Patches = 1..K
    BY PatchesBounded
  <2>2. Unreleased \notin Patches
    BY <2>1, ReleaseAssumption
  <2>3. \A i \in DOMAIN branch : branch[i] = Head0
    BY DEF Init
  <2> QED
    BY <2>2, <2>3 DEF VersionsTagged, Head0
<1>2. InductiveInv /\ VersionsTagged => NextReleasePossible
  <2> SUFFICES ASSUME InductiveInv, VersionsTagged, NextPatch \in Patches
               PROVE  Tip.version # NextPatch
    BY DEF NextReleasePossible
  <2>1. Len(branch) \in DOMAIN branch
    BY DEF InductiveInv, TypeOK
  <2>2. Tip.version \in Patches => tags[Tip.version] # None
    BY <2>1 DEF VersionsTagged, Tip
  <2> QED
    BY <2>2, NextPatchIsFree
<1> QED
  BY <1>1, <1>2, VersionsTaggedStep, InvariantHolds, PTL DEF Spec

============================================================================
