-------------------------- MODULE BlobCommitProofs --------------------------
(***************************************************************************)
(* The upload protocol, for every number of uploads, keys, blocks and      *)
(* attempts.  The inductive invariant says what an upload knows between    *)
(* its read of the blob's identity and its commit: either nothing was      *)
(* committed since, and the identity is still its own or absent, or the    *)
(* path has an owner by now.                                               *)
(***************************************************************************)
EXTENDS BlobCommit, TLAPS

\* What holds of an upload between its read and its commit.
ReadIsCurrent ==
    \A u \in Uploads :
        pc[u] = "commit" =>
            /\ seen[u] <= blob.etag
            /\ seen[u] = blob.etag => SameIdentity(u)
            /\ seen[u] # blob.etag => blob.key # None

\* An upload that lost a race knows that the path has an owner.
LostToAnOwner ==
    \A u \in Uploads :
        /\ pc[u] \in Working => attempt[u] < MaxCommitAttempts
        /\ attempt[u] >= 1 => blob.key # None
        /\ attempt[u] >= 1 /\ pc[u] = "commit" => blob.key = KeyOf[u]

\* Before a commit the whole source is staged.
StagedInFull ==
    \A u \in Uploads :
        /\ pc[u] = "check" => count[u] = 0
        /\ pc[u] \in {"read", "commit"} => count[u] = LenOf[u]

\* What is committed is whole.
CommittedInFull ==
    /\ \A i \in 1 .. blob.len : blob.blocks[i] # None
    /\ blob.key # None =>
         \E u \in Uploads : KeyOf[u] = blob.key /\ LenOf[u] = blob.len

\* Only a commit discards staged blocks, and it leaves the path with an owner.
MissingBlocksCommitted ==
    \A u \in Uploads : \A i \in 1 .. count[u] : staged[i] = None => blob.key # None

\* Whatever goes wrong with an upload ends it.
NothingMetYet == \A u \in Uploads : pc[u] \in Working => met[u] = "nothing"

IInv ==
    /\ TypeOK
    /\ MissingBlocksCommitted
    /\ NothingMetYet
    /\ VerdictIsJustified
    /\ ReadIsCurrent
    /\ LostToAnOwner
    /\ StagedInFull
    /\ CommittedInFull
    /\ DoneOwnsPath
    /\ RefusalIsFinal
    /\ ContentionAmongEquals

LEMMA InitIInv == Init => IInv
<1> SUFFICES ASSUME Init PROVE IInv
  OBVIOUS
<1> USE UploadsAssumption, AttemptsAssumption
<1>1. TypeOK
  <2>1. blob \in Blob
    BY DEF Init, Blob, NoBlob, LegacyBlob, NoBlocks
  <2>2. staged \in [Blocks -> Uploads \cup {None}]
    BY DEF Init, NoBlocks
  <2> QED BY <2>1, <2>2 DEF Init, TypeOK, Working
<1>2. \A u \in Uploads :
        pc[u] = "check" /\ count[u] = 0 /\ attempt[u] = 0 /\ met[u] = "nothing"
  BY DEF Init
<1>3. blob.key = None /\ blob.len = 0
  BY DEF Init, NoBlob, LegacyBlob
<1> QED BY <1>1, <1>2, <1>3
        DEF IInv, ReadIsCurrent, LostToAnOwner, StagedInFull, CommittedInFull, DoneOwnsPath,
            RefusalIsFinal, ContentionAmongEquals, MissingBlocksCommitted, VerdictIsJustified,
            NothingMetYet, Working

\* An AdlsUploadError is as transient as what it was raised from.
LEMMA WrappingKeeps ==
  ASSUME NEW e, NEW a, ~ IsTransientSingle(a)
  PROVE  IsTransient(<<a, e>>) <=> IsTransientSingle(e)
BY DEF IsTransient

LEMMA UploadErrorIsOpaque == ~ IsTransientSingle(Error("AdlsUploadError"))
BY DEF IsTransientSingle, Error, TransportErrors

\* The classifier tells the two kinds of failure apart.
LEMMA OutageIsTransient == \A e \in Outages : IsTransientSingle(e)
BY DEF Outages, SourceOutages, StorageOutages, IsTransientSingle, Error, ErrorWith,
   TransportErrors, RetriedStatus

LEMMA DefectIsNotTransient == \A e \in Defects : ~ IsTransientSingle(e)
BY DEF Defects, SourceDefects, StorageDefects, IsTransientSingle, Error, ErrorWith,
   TransportErrors, RetriedStatus, NoStatus

LEMMA OutageFails ==
  ASSUME NEW u \in Uploads, NEW e \in Outages, RaiseFrom(u, e)
  PROVE  Goto(u, "failed")
BY WrappingKeeps, UploadErrorIsOpaque, OutageIsTransient DEF RaiseFrom, Raise

LEMMA DefectDrops ==
  ASSUME NEW u \in Uploads, NEW e \in Defects, RaiseFrom(u, e)
  PROVE  Goto(u, "dropped")
BY WrappingKeeps, UploadErrorIsOpaque, DefectIsNotTransient DEF RaiseFrom, Raise

\* No class and status is on both sides.
LEMMA OutageIsNoDefect == Outages \cap Defects = {}
BY OutageIsTransient, DefectIsNotTransient

\* A block list that has become invalid is for good.
LEMMA InvalidDrops ==
  ASSUME NEW u \in Uploads, RaiseFrom(u, ErrorWith("HttpResponseError", 400))
  PROVE  Goto(u, "dropped")
<1>1. ~ IsTransientSingle(ErrorWith("HttpResponseError", 400))
  BY DEF IsTransientSingle, ErrorWith, TransportErrors, RetriedStatus
<1> QED BY <1>1, WrappingKeeps, UploadErrorIsOpaque DEF RaiseFrom, Raise

\* So is a source that is not there.
LEMMA AbsenceDrops ==
  ASSUME NEW u \in Uploads, Raise(u, <<Error("AdlsUploadError")>>)
  PROVE  Goto(u, "dropped")
<1>1. ~ IsTransient(<<Error("AdlsUploadError")>>)
  BY UploadErrorIsOpaque DEF IsTransient
<1> QED BY <1>1 DEF Raise

\* A failure ends an upload with the verdict its kind deserves.
LEMMA FailVerdict ==
  ASSUME NEW u \in Uploads, Fail(u)
  PROVE  \/ Goto(u, "failed") /\ Meet(u, "outage")
         \/ Goto(u, "dropped") /\ Meet(u, "defect")
<1>1. PICK e \in Outages \cup Defects :
        RaiseFrom(u, e) /\ Meet(u, IF e \in Outages THEN "outage" ELSE "defect")
  BY DEF Fail
<1>2. CASE e \in Outages
  BY <1>1, <1>2, OutageFails
<1>3. CASE e \in Defects /\ e \notin Outages
  BY <1>1, <1>3, DefectDrops
<1> QED BY <1>2, <1>3

\* A commit, answered or not, is made under the identity it found.
LEMMA CommitKeepsIdentity ==
  ASSUME IInv, NEW u \in Uploads, pc[u] = "commit", ConditionHolds(u)
  PROVE  SameIdentity(u)
  BY DEF IInv, ReadIsCurrent, ConditionHolds

\* Whatever a step does, it does not take the path from its owner.
LEMMA StepKeepsIdentity ==
  ASSUME IInv, [Next]_vars
  PROVE  blob.key # None => blob'.key = blob.key
<1>1. ASSUME NEW u \in Uploads, Commit(u) \/ CommitUnanswered(u)
      PROVE  blob.key # None => blob'.key = blob.key
  BY <1>1, CommitKeepsIdentity
  DEF Commit, CommitUnanswered, CommitBlocks, SameIdentity
<1>2. ASSUME NEW u \in Uploads,
             PreCheck(u) \/ StageBlock(u) \/ ReadIdentity(u) \/ Refuse(u) \/ LoseRace(u)
               \/ CommitInvalid(u) \/ SourceAbsent(u) \/ Fail(u)
      PROVE  blob' = blob
  BY <1>2 DEF PreCheck, StageBlock, ReadIdentity, Refuse, LoseRace, CommitInvalid,
     SourceAbsent, Fail
<1>3. CASE Finished \/ UNCHANGED vars
  BY <1>3 DEF Finished, vars
<1> QED BY <1>1, <1>2, <1>3 DEF Next, UploadStep, UploadFault

\* The steps that leave the blob alone.
LEMMA QuietStepIInv ==
  ASSUME IInv, NEW u \in Uploads,
         PreCheck(u) \/ StageBlock(u) \/ ReadIdentity(u) \/ Refuse(u) \/ LoseRace(u)
           \/ CommitInvalid(u) \/ SourceAbsent(u) \/ Fail(u)
  PROVE  IInv'
<1> USE UploadsAssumption, AttemptsAssumption
<1> USE DEF Goto, Working, Ended
<1>0. CommittedInFull' /\ MissingBlocksCommitted'
  <2>1. CommittedInFull'
    BY DEF PreCheck, StageBlock, ReadIdentity, Refuse, LoseRace, CommitInvalid, SourceAbsent,
       Fail, IInv, CommittedInFull
  <2>2. CASE StageBlock(u)
    <3>1. count[u] + 1 \in Blocks /\ \A v \in Uploads : 1 .. count'[v] \subseteq Blocks
      BY <2>2 DEF StageBlock, Blocks, IInv, TypeOK
    <3>2. \A i \in Blocks : staged'[i] = IF i = count[u] + 1 THEN u ELSE staged[i]
      BY <2>2, <3>1 DEF StageBlock, IInv, TypeOK
    <3>3. \A v \in Uploads : count'[v] = IF v = u THEN count[u] + 1 ELSE count[v]
      BY <2>2 DEF StageBlock, IInv, TypeOK
    <3>4. blob' = blob /\ count \in [Uploads -> Nat]
      BY <2>2 DEF StageBlock, IInv, TypeOK
    <3> QED BY <2>1, <3>1, <3>2, <3>3, <3>4 DEF IInv, MissingBlocksCommitted
  <2>3. CASE UNCHANGED <<blob, staged, count>>
    BY <2>1, <2>3 DEF IInv, MissingBlocksCommitted
  <2>4. StageBlock(u) \/ UNCHANGED <<blob, staged, count>>
    BY DEF PreCheck, ReadIdentity, Refuse, LoseRace, Retry, CommitInvalid, SourceAbsent, Fail
  <2> QED BY <2>1, <2>2, <2>3, <2>4
<1>1. CASE PreCheck(u)
  <2>1. TypeOK'
    BY <1>1 DEF PreCheck, AfterStaging, SameIdentity, IInv, TypeOK
  <2>2. ReadIsCurrent'
    BY <1>1 DEF PreCheck, AfterStaging, SameIdentity, IInv, TypeOK, Blob, ReadIsCurrent
  <2>3. LostToAnOwner'
    BY <1>1 DEF PreCheck, AfterStaging, SameIdentity, IInv, TypeOK, LostToAnOwner
  <2>4. StagedInFull'
    BY <1>1 DEF PreCheck, AfterStaging, SameIdentity, IInv, TypeOK, StagedInFull
  <2>5. (/\ DoneOwnsPath /\ RefusalIsFinal /\ ContentionAmongEquals
         /\ VerdictIsJustified /\ NothingMetYet)'
    BY <1>1 DEF PreCheck, AfterStaging, SameIdentity, IInv, TypeOK, DoneOwnsPath,
       RefusalIsFinal, ContentionAmongEquals, LostToAnOwner, VerdictIsJustified, NothingMetYet
  <2> QED BY <1>0, <2>1, <2>2, <2>3, <2>4, <2>5 DEF IInv
<1>2. CASE StageBlock(u)
  <2>1. TypeOK'
    BY <1>2 DEF StageBlock, AfterStaging, Blocks, IInv, TypeOK
  <2>2. ReadIsCurrent'
    BY <1>2 DEF StageBlock, AfterStaging, Blocks, IInv, TypeOK, Blob, ReadIsCurrent,
       SameIdentity
  <2>3. LostToAnOwner'
    BY <1>2 DEF StageBlock, AfterStaging, Blocks, IInv, TypeOK, LostToAnOwner
  <2>4. StagedInFull'
    BY <1>2 DEF StageBlock, AfterStaging, Blocks, IInv, TypeOK, StagedInFull
  <2>5. (/\ DoneOwnsPath /\ RefusalIsFinal /\ ContentionAmongEquals
         /\ VerdictIsJustified /\ NothingMetYet)'
    BY <1>2 DEF StageBlock, AfterStaging, Blocks, IInv, TypeOK, DoneOwnsPath,
       RefusalIsFinal, ContentionAmongEquals, LostToAnOwner, VerdictIsJustified, NothingMetYet
  <2> QED BY <1>0, <2>1, <2>2, <2>3, <2>4, <2>5 DEF IInv
<1>3. CASE ReadIdentity(u)
  <2>1. TypeOK'
    BY <1>3 DEF ReadIdentity, SameIdentity, Blob, IInv, TypeOK
  <2>2. ReadIsCurrent'
    BY <1>3 DEF ReadIdentity, SameIdentity, Blob, IInv, TypeOK, ReadIsCurrent
  <2>3. LostToAnOwner'
    BY <1>3 DEF ReadIdentity, SameIdentity, Blob, IInv, TypeOK, LostToAnOwner,
       ReadIsCurrent
  <2>4. StagedInFull'
    BY <1>3 DEF ReadIdentity, SameIdentity, Blob, IInv, TypeOK, StagedInFull
  <2>5. (/\ DoneOwnsPath /\ RefusalIsFinal /\ ContentionAmongEquals
         /\ VerdictIsJustified /\ NothingMetYet)'
    BY <1>3 DEF ReadIdentity, SameIdentity, Blob, IInv, TypeOK, DoneOwnsPath,
       RefusalIsFinal, ContentionAmongEquals, LostToAnOwner, VerdictIsJustified, NothingMetYet
  <2> QED BY <1>0, <2>1, <2>2, <2>3, <2>4, <2>5 DEF IInv
<1>4. CASE Refuse(u)
  <2>1. TypeOK'
    BY <1>4 DEF Refuse, SameIdentity, IInv, TypeOK
  <2>2. ReadIsCurrent'
    BY <1>4 DEF Refuse, SameIdentity, IInv, TypeOK, Blob, ReadIsCurrent
  <2>3. LostToAnOwner'
    BY <1>4 DEF Refuse, SameIdentity, IInv, TypeOK, LostToAnOwner
  <2>4. StagedInFull'
    BY <1>4 DEF Refuse, SameIdentity, IInv, TypeOK, StagedInFull
  <2>5. (/\ DoneOwnsPath /\ RefusalIsFinal /\ ContentionAmongEquals
         /\ VerdictIsJustified /\ NothingMetYet)'
    BY <1>4 DEF Refuse, SameIdentity, IInv, TypeOK, DoneOwnsPath, RefusalIsFinal,
       ContentionAmongEquals, LostToAnOwner, VerdictIsJustified, NothingMetYet
  <2> QED BY <1>0, <2>1, <2>2, <2>3, <2>4, <2>5 DEF IInv
<1>5. CASE LoseRace(u)
  <2>1. TypeOK'
    BY <1>5 DEF LoseRace, Retry, ConditionHolds, IInv, TypeOK, LostToAnOwner
  <2>2. ReadIsCurrent'
    BY <1>5 DEF LoseRace, Retry, ConditionHolds, IInv, TypeOK, Blob, ReadIsCurrent,
       SameIdentity
  <2>3. LostToAnOwner'
    BY <1>5 DEF LoseRace, Retry, ConditionHolds, IInv, TypeOK, LostToAnOwner,
       ReadIsCurrent, SameIdentity
  <2>4. StagedInFull'
    BY <1>5 DEF LoseRace, Retry, ConditionHolds, IInv, TypeOK, StagedInFull
  <2>5. (/\ DoneOwnsPath /\ RefusalIsFinal /\ ContentionAmongEquals
         /\ VerdictIsJustified /\ NothingMetYet)'
    BY <1>5 DEF LoseRace, Retry, ConditionHolds, IInv, TypeOK, DoneOwnsPath,
       RefusalIsFinal, ContentionAmongEquals, LostToAnOwner, VerdictIsJustified,
       NothingMetYet, ReadIsCurrent, SameIdentity
  <2> QED BY <1>0, <2>1, <2>2, <2>3, <2>4, <2>5 DEF IInv
<1>6. ASSUME NEW l \in {"failed", "dropped"}, NEW what \in {"nothing", "outage", "defect"},
             pc[u] \in Working, Goto(u, l), Meet(u, what),
             l = "failed" => what = "outage",
             l = "dropped" => what = "defect" \/ (what = "nothing" /\ blob.key # None),
             UNCHANGED <<blob, staged, count, seen, attempt>>
      PROVE  IInv'
  <2> USE DEF Meet
  <2>1. TypeOK'
    BY <1>6 DEF IInv, TypeOK
  <2>2. ReadIsCurrent'
    BY <1>6 DEF IInv, TypeOK, Blob, ReadIsCurrent, SameIdentity
  <2>3. LostToAnOwner'
    BY <1>6 DEF IInv, TypeOK, LostToAnOwner
  <2>4. StagedInFull'
    BY <1>6 DEF IInv, TypeOK, StagedInFull
  <2>5. (DoneOwnsPath /\ RefusalIsFinal /\ ContentionAmongEquals)'
    BY <1>6 DEF IInv, TypeOK, DoneOwnsPath, RefusalIsFinal, ContentionAmongEquals
  <2>6. VerdictIsJustified' /\ NothingMetYet'
    BY <1>6 DEF IInv, TypeOK, VerdictIsJustified, NothingMetYet
  <2> QED BY <1>0, <2>1, <2>2, <2>3, <2>4, <2>5, <2>6 DEF IInv
<1>7. CASE CommitInvalid(u)
  <2>1. blob.key # None
    BY <1>7 DEF CommitInvalid, HasAllBlocks, IInv, MissingBlocksCommitted
  <2>2. Goto(u, "dropped")
    BY <1>7, InvalidDrops DEF CommitInvalid
  <2>3. Meet(u, "nothing")
    BY <1>7 DEF CommitInvalid, Meet, IInv, TypeOK, NothingMetYet
  <2> QED BY <1>6, <1>7, <2>1, <2>2, <2>3 DEF CommitInvalid
<1>8. CASE SourceAbsent(u)
  <2>1. Goto(u, "dropped")
    BY <1>8, AbsenceDrops DEF SourceAbsent
  <2> QED BY <1>6, <1>8, <2>1 DEF SourceAbsent
<1>9. CASE Fail(u)
  BY <1>6, <1>9, FailVerdict DEF Fail
<1> QED BY <1>1, <1>2, <1>3, <1>4, <1>5, <1>7, <1>8, <1>9

\* A commit, whether or not its answer arrives.
LEMMA CommitIInv ==
  ASSUME IInv, NEW u \in Uploads, Commit(u) \/ CommitUnanswered(u)
  PROVE  IInv'
<1> USE UploadsAssumption, AttemptsAssumption
<1> USE DEF Goto, Working, Ended
<1>1. /\ pc[u] = "commit" /\ ConditionHolds(u) /\ HasAllBlocks(u) /\ CommitBlocks(u)
      /\ SameIdentity(u)
  BY CommitKeepsIdentity DEF Commit, CommitUnanswered
<1>2. /\ attempt' \in [Uploads -> 0 .. MaxCommitAttempts]
      /\ \A v \in Uploads : v # u => attempt'[v] = attempt[v] /\ pc'[v] = pc[v]
      /\ pc' \in [Uploads -> Working \cup Ended]
      /\ pc'[u] \in {"done", "read", "contention", "failed", "dropped"}
      /\ pc'[u] = "read" => attempt'[u] < MaxCommitAttempts
      /\ UNCHANGED <<count, seen>>
  BY DEF Commit, CommitUnanswered, RaiseFrom, Raise, Retry, IInv, TypeOK, LostToAnOwner
<1>3. /\ met' \in [Uploads -> {"nothing", "outage", "defect"}]
      /\ \A v \in Uploads : v # u => met'[v] = met[v]
      /\ met'[u] = IF pc'[u] = "failed" THEN "outage" ELSE "nothing"
      /\ pc'[u] # "dropped"
  <2>1. CASE met' = met /\ pc'[u] \in {"done", "read", "contention"}
    BY <1>1, <2>1 DEF IInv, TypeOK, NothingMetYet
  <2>2. CASE Goto(u, "failed") /\ Meet(u, "outage")
    BY <2>2 DEF Meet, IInv, TypeOK
  <2>3. Error("ServiceResponseError") \in Outages
    BY DEF Outages, StorageOutages
  <2>4. CASE Commit(u) \/ Retry(u)
    BY <2>1, <2>4 DEF Commit, CommitUnanswered, Retry, IInv, TypeOK
  <2>5. CASE RaiseFrom(u, Error("ServiceResponseError")) /\ Meet(u, "outage")
    BY <2>2, <2>3, <2>5, OutageFails
  <2> QED BY <2>4, <2>5 DEF CommitUnanswered
<1>4. /\ blob' \in Blob /\ blob'.etag = blob.etag + 1 /\ blob'.key = KeyOf[u]
      /\ blob'.len = LenOf[u]
      /\ \A i \in 1 .. blob'.len : blob'.blocks[i] # None
      /\ staged' \in [Blocks -> Uploads \cup {None}]
  <2>1. count[u] = LenOf[u] /\ LenOf[u] \in 0 .. MaxBlocks
    BY <1>1 DEF IInv, StagedInFull
  <2>2. blob.etag \in Nat /\ blob.blocks \in [Blocks -> Uploads \cup {None}]
    BY DEF IInv, TypeOK, Blob
  <2>3. \A i \in 1 .. LenOf[u] : i \in Blocks
    BY <2>1 DEF Blocks
  <2>4. \A i \in 1 .. LenOf[u] : staged[i] = None => blob.blocks[i] # None
    BY <1>1, <2>1 DEF HasAllBlocks, IInv, CommittedInFull, TypeOK, Blob
  <2> DEFINE bs == [i \in Blocks |-> IF i > count[u] THEN None
                                    ELSE IF staged[i] # None THEN staged[i]
                                    ELSE blob.blocks[i]]
  <2>5. bs \in [Blocks -> Uploads \cup {None}]
    BY <2>2 DEF IInv, TypeOK
  <2>6. \A i \in 1 .. LenOf[u] : bs[i] # None
    BY <2>1, <2>3, <2>4
  <2>7. blob' = [etag |-> blob.etag + 1, key |-> KeyOf[u], len |-> count[u], blocks |-> bs]
    BY <1>1 DEF CommitBlocks
  <2>8. blob' \in Blob
    <3> HIDE DEF bs
    <3> QED BY <2>1, <2>2, <2>5, <2>7 DEF Blob
  <2>9. staged' \in [Blocks -> Uploads \cup {None}]
    BY <1>1 DEF CommitBlocks, NoBlocks
  <2> HIDE DEF bs
  <2> QED BY <2>1, <2>6, <2>7, <2>8, <2>9
<1>5. TypeOK'
  BY <1>2, <1>3, <1>4 DEF IInv, TypeOK
<1>6. ReadIsCurrent'
  BY <1>2, <1>4 DEF IInv, TypeOK, ReadIsCurrent, Blob
<1>7. LostToAnOwner'
  BY <1>1, <1>2, <1>4 DEF IInv, LostToAnOwner, SameIdentity
<1>8. StagedInFull' /\ CommittedInFull'
  BY <1>1, <1>2, <1>4 DEF IInv, StagedInFull, CommittedInFull
<1>9. (DoneOwnsPath /\ RefusalIsFinal /\ ContentionAmongEquals)'
  BY <1>1, <1>2, <1>4
  DEF IInv, DoneOwnsPath, RefusalIsFinal, ContentionAmongEquals, SameIdentity
<1>10. MissingBlocksCommitted'
  BY <1>4 DEF MissingBlocksCommitted
<1>11. VerdictIsJustified' /\ NothingMetYet'
  <2>1. blob'.key # None
    BY <1>4
  <2>2. VerdictIsJustified'
    BY <1>2, <1>3, <2>1 DEF VerdictIsJustified, IInv
  <2>3. NothingMetYet'
    BY <1>2, <1>3 DEF NothingMetYet, IInv
  <2> QED BY <2>2, <2>3
<1> QED BY <1>5, <1>6, <1>7, <1>8, <1>9, <1>10, <1>11 DEF IInv

LEMMA NextIInv == IInv /\ [Next]_vars => IInv'
<1> SUFFICES ASSUME IInv, [Next]_vars PROVE IInv'
  OBVIOUS
<1>1. ASSUME NEW u \in Uploads, UploadStep(u) \/ UploadFault(u)
      PROVE  IInv'
  BY <1>1, CommitIInv, QuietStepIInv DEF UploadStep, UploadFault
<1>2. CASE Finished \/ UNCHANGED vars
  BY <1>2 DEF Finished, vars, IInv, TypeOK, ReadIsCurrent, SameIdentity, LostToAnOwner,
     StagedInFull, CommittedInFull, DoneOwnsPath, RefusalIsFinal, ContentionAmongEquals,
     MissingBlocksCommitted, VerdictIsJustified, NothingMetYet
<1> QED BY <1>1, <1>2 DEF Next

\* The inductive invariant holds in every reachable state.
THEOREM Invariance == Spec => []IInv
BY InitIInv, NextIInv, PTL DEF Spec

\* The state always has its type.
THEOREM TypeCorrect == Spec => []TypeOK
<1>1. IInv => TypeOK
  BY DEF IInv
<1> QED BY Invariance, <1>1, PTL

\* An upload that reports success owns the path from then on, so no other key's
\* upload can ever take it over.
THEOREM SuccessOwnsPath == Spec => []DoneOwnsPath
<1>1. IInv => DoneOwnsPath
  BY DEF IInv
<1> QED BY Invariance, <1>1, PTL

\* The never-retried identity error is raised only if another key owns the path.
THEOREM RefusalIsJustified == Spec => []RefusalIsFinal
<1>1. IInv => RefusalIsFinal
  BY DEF IInv
<1> QED BY Invariance, <1>1, PTL

\* The retried contention error never hides a conflict of identities, whatever
\* the number of attempts from two on.
THEOREM ContentionIsHarmless == Spec => []ContentionAmongEquals
<1>1. IInv => ContentionAmongEquals
  BY DEF IInv
<1> QED BY Invariance, <1>1, PTL

\* A message is redelivered only after an outage, and given up for good only after a
\* defect or with the path owned: whatever the exception was wrapped in, at whatever
\* await it was raised, and in whatever order the uploads reach the path.
THEOREM VerdictsAreJustified == Spec => []VerdictIsJustified
<1>1. IInv => VerdictIsJustified
  BY DEF IInv
<1> QED BY Invariance, <1>1, PTL

\* A reader of the path never sees part of a file.
THEOREM NoPartialFile == Spec => []WholeFileVisible
<1>1. IInv => WholeFileVisible
  BY DEF IInv, CommittedInFull, WholeFileVisible
<1> QED BY Invariance, <1>1, PTL

\* No interleaving of uploads, retries and lost answers replaces the identity a
\* path was committed under.
THEOREM IdentityIsKept == Spec => IdentityKept
<1>1. IInv /\ [Next]_vars => [blob.key # None => blob'.key = blob.key]_vars
  BY StepKeepsIdentity
<1> QED BY Invariance, <1>1, PTL DEF Spec, IdentityKept

\* The abstract outcomes change where, and as, the program counters do.
LEMMA OutcomeStep ==
  ASSUME TypeOK, NEW u \in Uploads, NEW l \in Working \cup Ended, Goto(u, l)
  PROVE  [v \in Uploads |-> Outcome(pc'[v])]
           = [[v \in Uploads |-> Outcome(pc[v])] EXCEPT ![u] = Outcome(l)]
BY DEF Goto, TypeOK

\* The protocol implements the register of UploadSpec: initial states map to
\* initial states, and every step to a step or a stutter.
THEOREM Refinement == Spec => ImplementsPromise
<1>1. Init => Promise!Init
  BY DEF Init, NoBlob, LegacyBlob, Outcome, Working, Promise!Init
<1>2. IInv /\ [Next]_vars => [Promise!Next]_Promise!vars
  <2> SUFFICES ASSUME IInv, [Next]_vars
               PROVE  Promise!Next \/ UNCHANGED Promise!vars
    OBVIOUS
  <2> DEFINE oc == [v \in Uploads |-> Outcome(pc[v])]
  <2>0. TypeOK
    BY DEF IInv
  <2>1. ASSUME NEW u \in Uploads, NEW l \in Working, pc[u] \in Working,
               Goto(u, l), blob' = blob
        PROVE  UNCHANGED Promise!vars
    <3>1. oc' = [oc EXCEPT ![u] = "pending"]
      BY <2>0, <2>1, OutcomeStep DEF Outcome, Working, Ended
    <3>2. oc[u] = "pending"
      BY <2>1 DEF Outcome, Working
    <3> QED BY <3>1, <3>2, <2>1 DEF Promise!vars
  <2>2. ASSUME NEW u \in Uploads, Commit(u)
        PROVE  Promise!Store(u)
    <3>1. oc' = [oc EXCEPT ![u] = "stored"] /\ oc[u] = "pending"
      BY <2>0, <2>2, OutcomeStep DEF Commit, Outcome, Working, Ended
    <3>2. blob'.key = KeyOf[u] /\ blob.key \in {None, KeyOf[u]}
      BY <2>2, CommitKeepsIdentity DEF Commit, CommitBlocks, SameIdentity
    <3> QED BY <3>1, <3>2 DEF Promise!Store, Promise!Ends, Promise!Claimable
  <2>3. ASSUME NEW u \in Uploads, CommitUnanswered(u)
        PROVE  Promise!StoreUnknowingly(u)
    <3>1. oc[u] = "pending"
      BY <2>3 DEF CommitUnanswered, Outcome, Working
    <3>2. oc' = [oc EXCEPT ![u] = "pending"] \/ oc' = [oc EXCEPT ![u] = "gaveUp"]
      <4>1. PICK l \in {"read", "contention", "failed", "dropped"} : Goto(u, l)
        BY <2>3 DEF CommitUnanswered, RaiseFrom, Raise, Retry
      <4> QED BY <2>0, <4>1, OutcomeStep DEF Outcome, Working, Ended
    <3>3. blob'.key = KeyOf[u] /\ blob.key \in {None, KeyOf[u]}
      BY <2>3, CommitKeepsIdentity DEF CommitUnanswered, CommitBlocks, SameIdentity
    <3> QED BY <3>1, <3>2, <3>3
            DEF Promise!StoreUnknowingly, Promise!Ends, Promise!Claimable
  <2>4. ASSUME NEW u \in Uploads, Refuse(u)
        PROVE  Promise!Refuse(u)
    <3>1. oc' = [oc EXCEPT ![u] = "refused"] /\ oc[u] = "pending"
      BY <2>0, <2>4, OutcomeStep DEF Refuse, Outcome, Working, Ended
    <3> QED BY <2>4, <3>1
            DEF Refuse, SameIdentity, Promise!Refuse, Promise!Ends, Promise!Claimable
  <2>5. ASSUME NEW u \in Uploads, NEW l \in {"contention", "failed", "dropped"},
               pc[u] \in Working, Goto(u, l), blob' = blob
        PROVE  Promise!GiveUp(u)
    <3>1. oc' = [oc EXCEPT ![u] = "gaveUp"] /\ oc[u] = "pending"
      BY <2>0, <2>5, OutcomeStep DEF Outcome, Working, Ended
    <3> QED BY <2>5, <3>1 DEF Promise!GiveUp, Promise!Ends
  <2>6. ASSUME NEW u \in Uploads, PreCheck(u) \/ StageBlock(u) \/ ReadIdentity(u)
        PROVE  UNCHANGED Promise!vars
    <3>1. PICK l \in Working : Goto(u, l) /\ pc[u] \in Working /\ blob' = blob
      BY <2>6 DEF PreCheck, StageBlock, ReadIdentity, AfterStaging, Working
    <3> QED BY <2>1, <3>1
  <2>7. ASSUME NEW u \in Uploads,
               LoseRace(u) \/ CommitInvalid(u) \/ SourceAbsent(u) \/ Fail(u)
        PROVE  Promise!GiveUp(u) \/ UNCHANGED Promise!vars
    <3>1. PICK l \in {"read", "contention", "failed", "dropped"} :
            Goto(u, l) /\ pc[u] \in Working /\ blob' = blob
      BY <2>7 DEF LoseRace, Retry, CommitInvalid, SourceAbsent, Fail, RaiseFrom, Raise, Working
    <3>2. CASE l = "read"
      BY <2>1, <3>1, <3>2 DEF Working
    <3>3. CASE l # "read"
      BY <2>5, <3>1, <3>3
    <3> QED BY <3>2, <3>3
  <2>8. CASE Finished \/ UNCHANGED vars
    BY <2>8 DEF Finished, vars, Promise!vars
  <2> QED BY <2>2, <2>3, <2>4, <2>6, <2>7, <2>8 DEF Next, UploadStep, UploadFault, Promise!Next
<1> QED BY Invariance, <1>1, <1>2, PTL DEF Spec, ImplementsPromise, Promise!Spec
=============================================================================
