--------------------------- MODULE CollectionProofs ---------------------------
(***************************************************************************)
(* The invariant of a collection, for any number of contributors, files,   *)
(* concurrent requests, closings and restarts: one writer of the archive   *)
(* at a time, no more contributions than the link allows, infected files   *)
(* off the disk, and an archive that fits every closing that has ended.    *)
(***************************************************************************)
EXTENDS Collection, TLAPS, FiniteSetTheorems, SequenceTheorems

ReqsTyped == req \in [Requests -> RequestStates]
JobsTyped == jobs \in [Jobs -> JobStates]
FilesTyped == files \in [Files -> RowStates]

\* What a request moves on to is a state of a request.
LEMMA GoToType ==
    ASSUME ReqsTyped, NEW r \in Requests, NEW pc, GoTo(r, pc),
           pc \in {"idle", "claim", "create", "store", "attribute", "stale",
                   "close", "unlink", "dropRow"}
    PROVE  ReqsTyped'
  BY DEF ReqsTyped, GoTo, RequestStates

\* A request that ends is idle.
LEMMA EndType ==
    ASSUME ReqsTyped, NEW r \in Requests, End(r)
    PROVE  ReqsTyped'
  BY DEF ReqsTyped, End, Idle, RequestStates

\* A request that takes a contribution and a file with it is typed.
LEMMA CarryType ==
    ASSUME ReqsTyped, NEW r \in Requests,
           NEW pc \in {"store", "stale", "unlink"},
           NEW c \in Contributions \cup {NoContribution}, NEW f \in Files \cup {NoFile},
           req' = [req EXCEPT ![r] = [pc |-> pc, contribution |-> c, file |-> f]]
    PROVE  ReqsTyped'
  BY DEF ReqsTyped, RequestStates

\* What a job moves on to is a state of a job.
LEMMA JobType ==
    ASSUME JobsTyped, NEW j \in Jobs, NEW m \in JobStates,
           jobs' = [jobs EXCEPT ![j] = m]
    PROVE  JobsTyped'
  BY DEF JobsTyped

\* A job that only changes its stage is typed.
LEMMA StageType ==
    ASSUME JobsTyped, NEW j \in Jobs, NEW stage \in Stages,
           jobs' = [jobs EXCEPT ![j].stage = stage]
    PROVE  JobsTyped'
  BY DEF JobsTyped, JobStates

\* A rebuild that rejects leaves its job and the chain typed.
LEMMA RejectedType ==
    ASSUME JobsTyped, zipRebuilds \in Seq(Jobs), NEW j \in Jobs, Turn(j), Rejected(j)
    PROVE  JobsTyped' /\ zipRebuilds' \in Seq(Jobs)
  <1>1. jobs[j] \in JobStates
    BY DEF JobsTyped
  <1>2. [jobs[j] EXCEPT !.stage = "failed", !.entries = {}] \in JobStates
    BY <1>1 DEF JobStates, Stages
  <1>3. jobs' = [jobs EXCEPT ![j] = [jobs[j] EXCEPT !.stage = "failed", !.entries = {}]]
    BY DEF Rejected, JobsTyped
  <1>4. JobsTyped'
    BY <1>2, <1>3, JobType
  <1>5. zipRebuilds' \in Seq(Jobs)
    BY HeadTailProperties DEF Rejected, Turn
  <1>6. QED
    BY <1>4, <1>5

\* The rows a scan lists, or a removal takes, are ids of files.
LEMMA RowsAreFiles == Rows \subseteq Files /\ \A c : RowsOf(c) \subseteq Files
  BY DEF Rows, RowsOf

\* A step keeps the shape of the state.
LEMMA TypeStep ==
    ASSUME TypeOK, BuilderIsFirst, RowsInv, [Next]_vars
    PROVE  TypeOK'
  <1>0. ReqsTyped /\ JobsTyped /\ FilesTyped
    BY DEF TypeOK, ReqsTyped, JobsTyped, FilesTyped
  <1>a. ASSUME ReqsTyped', JobsTyped', FilesTyped',
               remainingUses' \in 0 .. MaxUseCount,
               contributions' \in [Contributions -> {"absent", "open", "closed"}],
               disk' \subseteq Files, infected' \subseteq Files,
               archive' \in [state : {"none", "writing", "whole", "torn", "corrupt"},
                             entries : SUBSET Files],
               isZipReady' \in BOOLEAN, collecting' \in BOOLEAN,
               zipRebuilds' \in Seq(Jobs),
               removals' \in 0 .. MaxRemovals, crashes' \in 0 .. MaxCrashes
        PROVE  TypeOK'
    BY <1>a DEF TypeOK, ReqsTyped, JobsTyped, FilesTyped
  <1>b. UNCHANGED req => ReqsTyped'
    BY <1>0 DEF ReqsTyped
  <1>c. UNCHANGED jobs => JobsTyped'
    BY <1>0 DEF JobsTyped
  <1>d. UNCHANGED files => FilesTyped'
    BY <1>0 DEF FilesTyped
  <1>e. /\ remainingUses \in 0 .. MaxUseCount
        /\ contributions \in [Contributions -> {"absent", "open", "closed"}]
        /\ disk \subseteq Files /\ infected \subseteq Files
        /\ archive \in [state : {"none", "writing", "whole", "torn", "corrupt"},
                        entries : SUBSET Files]
        /\ isZipReady \in BOOLEAN /\ collecting \in BOOLEAN
        /\ zipRebuilds \in Seq(Jobs)
        /\ removals \in 0 .. MaxRemovals /\ crashes \in 0 .. MaxCrashes
    BY DEF TypeOK
  <1> USE DEF deposits, stored, rebuilding, counts
  <1>1. ASSUME NEW r \in Requests, Open(r)
        PROVE  TypeOK'
    <2>1. ReqsTyped'
      BY <1>1, <1>0, GoToType DEF Open
    <2>2. QED
      BY <1>1, <1>a, <1>c, <1>d, <1>e, <2>1 DEF Open
  <1>2. ASSUME NEW r \in Requests, Claim(r)
        PROVE  TypeOK'
    <2>1. ReqsTyped'
      BY <1>2, <1>0, GoToType, EndType DEF Claim
    <2>2. remainingUses' \in 0 .. MaxUseCount
      BY <1>2, <1>e, BoundsAssumption DEF Claim, Claims
    <2>3. QED
      BY <1>2, <1>a, <1>c, <1>d, <1>e, <2>1, <2>2 DEF Claim
  <1>3. ASSUME NEW r \in Requests, StoreFile(r)
        PROVE  TypeOK'
    <2>1. ReqsTyped'
      BY <1>3, <1>0, GoToType DEF StoreFile
    <2>2. req[r].file \in Files
      BY <1>3, <1>0 DEF StoreFile, At, RowsInv, UploadsApart, ReqsTyped, RequestStates
    <2>3. FilesTyped'
      BY <1>3, <1>0, <2>2 DEF StoreFile, FilesTyped, RowStates
    <2>4. QED
      BY <1>3, <1>a, <1>c, <1>e, <2>1, <2>2, <2>3 DEF StoreFile
  <1>4. ASSUME NEW r \in Requests, Attribute(r)
        PROVE  TypeOK'
    <2>1. ReqsTyped'
      BY <1>4, <1>0, EndType DEF Attribute
    <2>2. req[r].contribution \in Contributions \cup {NoContribution}
      BY <1>0 DEF ReqsTyped, RequestStates
    <2>3. FilesTyped'
      BY <1>4, <1>0, <2>2 DEF Attribute, FilesTyped, RowStates
    <2>4. QED
      BY <1>4, <1>a, <1>c, <1>e, <2>1, <2>3 DEF Attribute
  <1>5. ASSUME NEW r \in Requests, Close(r)
        PROVE  TypeOK'
    <2>1. ReqsTyped'
      BY <1>5, <1>0, EndType DEF Close
    <2>2. QED
      BY <1>5, <1>a, <1>c, <1>d, <1>e, <2>1 DEF Close
  <1>6. ASSUME NEW r \in Requests, Unlink(r)
        PROVE  TypeOK'
    <2>1. ReqsTyped'
      BY <1>6, <1>0, GoToType, EndType DEF Unlink
    <2>2. QED
      BY <1>6, <1>a, <1>c, <1>d, <1>e, <2>1 DEF Unlink
  <1>7. ASSUME NEW r \in Requests, DropRow(r)
        PROVE  TypeOK'
    <2>1. ReqsTyped'
      BY <1>7, <1>0, EndType DEF DropRow
    <2>2. FilesTyped'
      BY <1>7, <1>0 DEF DropRow, FilesTyped, RowStates
    <2>3. QED
      BY <1>7, <1>a, <1>c, <1>e, <2>1, <2>2 DEF DropRow
  <1>8. ASSUME NEW r \in Requests, NEW c \in Contributions, CreateContribution(r, c)
        PROVE  TypeOK'
    <2>1. ReqsTyped'
      BY <1>8, <1>0, EndType DEF CreateContribution
    <2>2. QED
      BY <1>8, <1>a, <1>c, <1>d, <1>e, <2>1 DEF CreateContribution
  <1>9. ASSUME NEW r \in Requests, NEW c \in Contributions, Complete(r, c)
        PROVE  TypeOK'
    <2>1. ReqsTyped'
      BY <1>9, <1>0 DEF Complete, ReqsTyped, RequestStates
    <2>2. QED
      BY <1>9, <1>a, <1>c, <1>d, <1>e, <2>1 DEF Complete
  <1>10. ASSUME NEW r \in Requests, NEW c \in Contributions, NEW f \in Files, UploadFile(r, c, f)
        PROVE  TypeOK'
    <2>1. ReqsTyped'
      BY <1>10, <1>0, CarryType DEF UploadFile
    <2>2. QED
      BY <1>10, <1>a, <1>c, <1>d, <1>e, <2>1 DEF UploadFile
  <1>11. ASSUME NEW r \in Requests, NEW f \in Files, RemoveFile(r, f)
        PROVE  TypeOK'
    <2>1. ReqsTyped'
      BY <1>11, <1>0 DEF RemoveFile, ReqsTyped, RequestStates
    <2>2. removals' \in 0 .. MaxRemovals
      BY <1>11, <1>e, BoundsAssumption DEF RemoveFile
    <2>3. QED
      BY <1>11, <1>a, <1>c, <1>d, <1>e, <2>1, <2>2 DEF RemoveFile
  <1>12. ASSUME NEW r \in Requests, NEW j \in Jobs, StartJob(r, j)
        PROVE  TypeOK'
    <2>1. ReqsTyped'
      BY <1>12, <1>0, GoToType DEF StartJob
    <2>2. req[r].contribution \in Contributions \cup {NoContribution}
      BY <1>0 DEF ReqsTyped, RequestStates
    <2>3. [NewJob EXCEPT !.stage = "scan", !.contribution = req[r].contribution]
            \in JobStates
      BY <2>2 DEF NewJob, JobStates, Stages
    <2>4. JobsTyped'
      BY <1>12, <1>0, <2>3, JobType DEF StartJob
    <2>5. QED
      BY <1>12, <1>a, <1>d, <1>e, <2>1, <2>4 DEF StartJob
  <1>13. ASSUME NEW j \in Jobs, Scan(j)
        PROVE  TypeOK'
    <2> DEFINE listed == RowsOf(jobs[j].contribution)
               stage == IF listed \cap infected \cap disk = {} THEN "queue" ELSE "remove"
               m == [jobs[j] EXCEPT !.listed = listed, !.stage = stage]
    <2>1. listed \in SUBSET Files /\ stage \in Stages /\ jobs[j] \in JobStates
      BY <1>0, RowsAreFiles DEF JobsTyped, Stages
    <2>2. m \in JobStates
      <3> HIDE DEF listed, stage
      <3> QED
        BY <2>1 DEF JobStates
    <2>3. jobs' = [jobs EXCEPT ![j] = m]
      BY <1>13, <1>0 DEF Scan, JobsTyped
    <2>4. JobsTyped'
      <3> HIDE DEF m
      <3> QED
        BY <1>0, <2>2, <2>3, JobType
    <2>5. QED
      BY <1>13, <1>a, <1>b, <1>d, <1>e, <2>4 DEF Scan
  <1>14. ASSUME NEW j \in Jobs, RemoveFiles(j)
        PROVE  TypeOK'
    <2>1. PICK fault \in Faults, taken \in SUBSET Condemned(j) :
            /\ disk' = disk \ taken
            /\ jobs' = [jobs EXCEPT
                  ![j].fault = fault,
                  ![j].removed = IF Stopped(Condemned(j), fault) THEN {} ELSE Condemned(j),
                  ![j].stage = IF Stopped(Condemned(j), fault) THEN "queue" ELSE "dropRows"]
      BY <1>14 DEF RemoveFiles
    <2> DEFINE removed == IF Stopped(Condemned(j), fault) THEN {} ELSE Condemned(j)
               stage == IF Stopped(Condemned(j), fault) THEN "queue" ELSE "dropRows"
               m == [jobs[j] EXCEPT !.fault = fault, !.removed = removed, !.stage = stage]
    <2>2. removed \in SUBSET Files /\ stage \in Stages /\ jobs[j] \in JobStates
          /\ fault \in BOOLEAN
      BY <1>0, RowsAreFiles DEF Condemned, JobsTyped, Stages, Faults
    <2>3. m \in JobStates
      <3> HIDE DEF removed, stage
      <3> QED
        BY <2>2 DEF JobStates
    <2>4. jobs' = [jobs EXCEPT ![j] = m]
      BY <1>0, <2>1 DEF JobsTyped
    <2>5. JobsTyped'
      <3> HIDE DEF m
      <3> QED
        BY <1>0, <2>3, <2>4, JobType
    <2>6. QED
      BY <1>14, <1>a, <1>b, <1>d, <1>e, <2>1, <2>5 DEF RemoveFiles
  <1>15. ASSUME NEW j \in Jobs, DropRows(j)
        PROVE  TypeOK'
    <2>1. JobsTyped'
      <3> DEFINE m == [jobs[j] EXCEPT !.stage = "queue", !.fault = TRUE, !.removed = {}]
      <3>1. m \in JobStates
        BY <1>0 DEF JobsTyped, JobStates, Stages
      <3>2. CASE jobs' = [jobs EXCEPT ![j].stage = "queue"]
        BY <1>0, <3>2, StageType DEF Stages
      <3>3. CASE jobs' = [jobs EXCEPT ![j].stage = "queue", ![j].fault = TRUE,
                                      ![j].removed = {}]
        <4>1. jobs' = [jobs EXCEPT ![j] = m]
          BY <1>0, <3>3 DEF JobsTyped
        <4>2. QED
          <5> HIDE DEF m
          <5> QED
            BY <1>0, <3>1, <4>1, JobType
      <3>4. QED
        BY <1>15, <3>2, <3>3 DEF DropRows
    <2>2. FilesTyped'
      <3>1. CASE UNCHANGED files
        BY <1>d, <3>1
      <3>2. CASE files' = [f \in Files |->
                     IF f \in jobs[j].removed THEN [files[f] EXCEPT !.state = "gone"]
                                              ELSE files[f]]
        BY <1>0, <3>2 DEF FilesTyped, RowStates
      <3>3. QED
        BY <1>15, <3>1, <3>2 DEF DropRows
    <2>3. QED
      BY <1>15, <1>a, <1>b, <1>e, <2>1, <2>2 DEF DropRows
  <1>16. ASSUME NEW j \in Jobs, CreateZip(j)
        PROVE  TypeOK'
    <2>1. JobsTyped'
      BY <1>16, <1>0, StageType DEF CreateZip, Stages
    <2>2. zipRebuilds' \in Seq(Jobs)
      BY <1>16, <1>e, AppendProperties DEF CreateZip
    <2>3. QED
      BY <1>16, <1>a, <1>b, <1>d, <1>e, <2>1, <2>2 DEF CreateZip
  <1>17. ASSUME NEW j \in Jobs, BuildZip(j)
        PROVE  TypeOK'
    <2> DEFINE m == [jobs[j] EXCEPT !.entries = Rows, !.stage = "open"]
    <2>1. m \in JobStates
      BY <1>0, RowsAreFiles DEF JobsTyped, JobStates, Stages
    <2>2. jobs' = [jobs EXCEPT ![j] = m]
      BY <1>17, <1>0 DEF BuildZip, JobsTyped
    <2>3. JobsTyped'
      BY <1>0, <2>1, <2>2, JobType
    <2>4. QED
      BY <1>17, <1>a, <1>b, <1>d, <1>e, <2>3 DEF BuildZip
  <1>18. ASSUME NEW j \in Jobs, OpenArchive(j)
        PROVE  TypeOK'
    <2>1. Turn(j)
      BY <1>18 DEF OpenArchive, Stage, BuilderIsFirst
    <2>2. JobsTyped' /\ zipRebuilds' \in Seq(Jobs)
      <3>1. CASE Rejected(j)
        BY <3>1, <1>0, <1>e, <2>1, RejectedType
      <3>2. CASE jobs' = [jobs EXCEPT ![j].stage = "build"] /\ UNCHANGED zipRebuilds
        BY <3>2, <1>0, <1>e, StageType DEF Stages
      <3>3. QED
        BY <1>18, <3>1, <3>2 DEF OpenArchive
    <2>3. archive' \in [state : {"none", "writing", "whole", "torn", "corrupt"},
                        entries : SUBSET Files]
      BY <1>18 DEF OpenArchive
    <2>4. QED
      BY <1>18, <1>a, <1>b, <1>d, <1>e, <2>2, <2>3 DEF OpenArchive
  <1>19. ASSUME NEW j \in Jobs, FinishZip(j)
        PROVE  TypeOK'
    <2>1. Turn(j)
      BY <1>19 DEF FinishZip, Stage, BuilderIsFirst
    <2>2. zipRebuilds' \in Seq(Jobs)
      BY <1>19, <1>e, <2>1, HeadTailProperties DEF FinishZip, Turn
    <2> DEFINE m == [jobs[j] EXCEPT !.stage = "publish", !.entries = {}]
    <2>a. m \in JobStates
      BY <1>0 DEF JobsTyped, JobStates, Stages
    <2>b. jobs' = [jobs EXCEPT ![j] = m]
      BY <1>19, <1>0 DEF FinishZip, JobsTyped
    <2>3. JobsTyped'
      <3> HIDE DEF m
      <3> QED
        BY <1>0, <2>a, <2>b, JobType
    <2>4. jobs[j].entries \subseteq Files
      BY <1>0 DEF JobsTyped, JobStates
    <2>5. archive' \in [state : {"none", "writing", "whole", "torn", "corrupt"},
                        entries : SUBSET Files]
      BY <1>19, <1>e, <2>4 DEF FinishZip
    <2>6. QED
      BY <1>19, <1>a, <1>b, <1>d, <1>e, <2>2, <2>3, <2>5 DEF FinishZip
  <1>20. ASSUME NEW j \in Jobs, FailZip(j)
        PROVE  TypeOK'
    <2>1. Turn(j)
      BY <1>20 DEF FailZip, Stage, BuilderIsFirst
    <2>2. JobsTyped' /\ zipRebuilds' \in Seq(Jobs)
      BY <1>20, <1>0, <1>e, <2>1, RejectedType DEF FailZip
    <2>3. archive' \in [state : {"none", "writing", "whole", "torn", "corrupt"},
                        entries : SUBSET Files]
      BY <1>20 DEF FailZip
    <2>4. QED
      BY <1>20, <1>a, <1>b, <1>d, <1>e, <2>2, <2>3 DEF FailZip
  <1>21. ASSUME NEW j \in Jobs, Publish(j)
        PROVE  TypeOK'
    <2>1. JobsTyped'
      BY <1>21, <1>0, StageType DEF Publish, Stages
    <2>2. QED
      BY <1>21, <1>a, <1>b, <1>d, <1>e, <2>1 DEF Publish
  <1>22. CASE StopCollecting
    BY <1>22, <1>a, <1>b, <1>c, <1>d, <1>e DEF StopCollecting
  <1>23. CASE Crash
    <2>1. ReqsTyped'
      BY <1>23 DEF Crash, ReqsTyped, RequestStates, Idle
    <2>2. [NewJob EXCEPT !.stage = "lost"] \in JobStates
      BY DEF NewJob, JobStates, Stages
    <2>3. JobsTyped'
      BY <1>23, <1>0, <2>2 DEF Crash, JobsTyped
    <2>4. zipRebuilds' \in Seq(Jobs)
      BY <1>23 DEF Crash
    <2>5. archive' \in [state : {"none", "writing", "whole", "torn", "corrupt"},
                        entries : SUBSET Files]
      BY <1>23, <1>e DEF Crash
    <2>6. crashes' \in 0 .. MaxCrashes
      BY <1>23, <1>e, BoundsAssumption DEF Crash
    <2>7. QED
      BY <1>23, <1>a, <1>d, <1>e, <2>1, <2>3, <2>4, <2>5, <2>6 DEF Crash
  <1>24. CASE UNCHANGED vars
    BY <1>24, <1>a, <1>b, <1>c, <1>d, <1>e DEF vars
  <1>25. QED
    BY <1>1, <1>2, <1>3, <1>4, <1>5, <1>6, <1>7, <1>8, <1>9, <1>10, <1>11, <1>12,
       <1>13, <1>14, <1>15, <1>16, <1>17, <1>18, <1>19, <1>20, <1>21, <1>22, <1>23, <1>24
       DEF Next, JobStep

-----------------------------------------------------------------------------
(* What a step leaves alone.                                               *)

\* The steps that touch neither the archive, nor the chain, nor a job.
LEMMA StepCases ==
    ASSUME [Next]_vars
    PROVE  \/ UNCHANGED rebuilding
           \/ \E r \in Requests, j \in Jobs : StartJob(r, j)
           \/ \E j \in Jobs : JobStep(j)
           \/ Crash
  <1>1. ASSUME NEW r \in Requests,
               \/ Open(r) \/ Claim(r) \/ StoreFile(r) \/ Attribute(r) \/ Close(r)
               \/ Unlink(r) \/ DropRow(r)
        PROVE  UNCHANGED rebuilding
    BY <1>1 DEF Open, Claim, StoreFile, Attribute, Close, Unlink, DropRow
  <1>2. ASSUME NEW r \in Requests, NEW c \in Contributions,
               CreateContribution(r, c) \/ Complete(r, c)
        PROVE  UNCHANGED rebuilding
    BY <1>2 DEF CreateContribution, Complete
  <1>3. ASSUME NEW r \in Requests, NEW c \in Contributions, NEW f \in Files,
               UploadFile(r, c, f)
        PROVE  UNCHANGED rebuilding
    BY <1>3 DEF UploadFile
  <1>4. ASSUME NEW r \in Requests, NEW f \in Files, RemoveFile(r, f)
        PROVE  UNCHANGED rebuilding
    BY <1>4 DEF RemoveFile
  <1>5. StopCollecting => UNCHANGED rebuilding
    BY DEF StopCollecting
  <1>6. UNCHANGED vars => UNCHANGED rebuilding
    BY DEF vars
  <1>7. QED
    BY <1>1, <1>2, <1>3, <1>4, <1>5, <1>6 DEF Next

\* A job moves on its own, keeps its contribution, what it listed, what its
\* removal took away once that has ended, and whether it failed.
LEMMA JobMoves ==
    ASSUME TypeOK, NEW j \in Jobs, JobStep(j)
    PROVE  /\ \A k \in Jobs \ {j} : jobs'[k] = jobs[k]
           /\ jobs'[j].contribution = jobs[j].contribution
           /\ Scan(j) \/ jobs'[j].listed = jobs[j].listed
           /\ RemoveFiles(j) \/ DropRows(j) \/ jobs'[j].removed = jobs[j].removed
           /\ RemoveFiles(j) \/ (jobs[j].fault => jobs'[j].fault)
  <1>0. jobs \in [Jobs -> JobStates]
    BY DEF TypeOK
  <1>1. CASE Scan(j)
    BY <1>0, <1>1 DEF Scan, JobStates
  <1>2. CASE RemoveFiles(j)
    <2>1. PICK fault, removed, stage :
            jobs' = [jobs EXCEPT ![j].fault = fault, ![j].removed = removed,
                                 ![j].stage = stage]
      BY <1>2 DEF RemoveFiles
    <2>2. QED
      BY <1>0, <1>2, <2>1 DEF JobStates
  <1>3. CASE CreateZip(j) \/ Publish(j)
    BY <1>0, <1>3 DEF CreateZip, Publish, JobStates
  <1>9. CASE DropRows(j)
    <2>1. CASE jobs' = [jobs EXCEPT ![j].stage = "queue"]
      BY <1>0, <1>9, <2>1 DEF JobStates
    <2>2. CASE jobs' = [jobs EXCEPT ![j].stage = "queue", ![j].fault = TRUE,
                                    ![j].removed = {}]
      BY <1>0, <1>9, <2>2 DEF JobStates
    <2>3. QED
      BY <1>9, <2>1, <2>2 DEF DropRows
  <1>4. CASE BuildZip(j)
    BY <1>0, <1>4 DEF BuildZip, JobStates
  <1>5. CASE OpenArchive(j)
    BY <1>0, <1>5 DEF OpenArchive, Rejected, JobStates
  <1>6. CASE FinishZip(j)
    BY <1>0, <1>6 DEF FinishZip, JobStates
  <1>7. CASE FailZip(j)
    BY <1>0, <1>7 DEF FailZip, Rejected, JobStates
  <1>8. QED
    BY <1>1, <1>2, <1>3, <1>4, <1>5, <1>6, <1>7, <1>9 DEF JobStep

\* The stage a job comes from and the one it moves on to.
LEMMA JobStages ==
    ASSUME TypeOK, NEW j \in Jobs
    PROVE  /\ Scan(j) => Stage(j, "scan") /\ jobs'[j].stage \in {"queue", "remove"}
           /\ RemoveFiles(j) => Stage(j, "remove") /\ jobs'[j].stage \in {"dropRows", "queue"}
           /\ DropRows(j) => Stage(j, "dropRows") /\ jobs'[j].stage = "queue"
           /\ CreateZip(j) => Stage(j, "queue") /\ jobs'[j].stage = "queued"
           /\ BuildZip(j) => Stage(j, "queued") /\ jobs'[j].stage = "open"
           /\ OpenArchive(j) => Stage(j, "open") /\ jobs'[j].stage \in {"build", "failed"}
           /\ FinishZip(j) => Stage(j, "build") /\ jobs'[j].stage = "publish"
           /\ FailZip(j) => Stage(j, "build") /\ jobs'[j].stage = "failed"
           /\ Publish(j) => Stage(j, "publish") /\ jobs'[j].stage = "done"
  <1>0. jobs \in [Jobs -> JobStates]
    BY DEF TypeOK
  <1>1. Scan(j) => Stage(j, "scan") /\ jobs'[j].stage \in {"queue", "remove"}
    BY <1>0 DEF Scan, JobStates
  <1>2. RemoveFiles(j) => Stage(j, "remove") /\ jobs'[j].stage \in {"dropRows", "queue"}
    BY <1>0 DEF RemoveFiles, JobStates
  <1>3. DropRows(j) => Stage(j, "dropRows") /\ jobs'[j].stage = "queue"
    BY <1>0 DEF DropRows, JobStates
  <1>4. CreateZip(j) => Stage(j, "queue") /\ jobs'[j].stage = "queued"
    BY <1>0 DEF CreateZip, JobStates
  <1>5. BuildZip(j) => Stage(j, "queued") /\ jobs'[j].stage = "open"
    BY <1>0 DEF BuildZip, JobStates
  <1>6. OpenArchive(j) => Stage(j, "open") /\ jobs'[j].stage \in {"build", "failed"}
    BY <1>0 DEF OpenArchive, Rejected, JobStates
  <1>7. FinishZip(j) => Stage(j, "build") /\ jobs'[j].stage = "publish"
    BY <1>0 DEF FinishZip, JobStates
  <1>8. FailZip(j) => Stage(j, "build") /\ jobs'[j].stage = "failed"
    BY <1>0 DEF FailZip, Rejected, JobStates
  <1>9. Publish(j) => Stage(j, "publish") /\ jobs'[j].stage = "done"
    BY <1>0 DEF Publish, JobStates
  <1>10. QED
    BY <1>1, <1>2, <1>3, <1>4, <1>5, <1>6, <1>7, <1>8, <1>9

\* A closing starts a job afresh and leaves the others alone.
LEMMA StartMoves ==
    ASSUME TypeOK, NEW r \in Requests, NEW j \in Jobs, StartJob(r, j)
    PROVE  /\ \A k \in Jobs \ {j} : jobs'[k] = jobs[k]
           /\ jobs'[j].stage = "scan" /\ jobs'[j].contribution = req[r].contribution
           /\ jobs'[j].listed = {} /\ jobs'[j].removed = {} /\ jobs'[j].entries = {}
  BY DEF TypeOK, StartJob, NewJob

\* A restart forgets the jobs under way.
LEMMA CrashMoves ==
    ASSUME TypeOK, Crash, NEW j \in Jobs
    PROVE  \/ /\ jobs[j].stage \in {"idle", "done", "failed"} /\ jobs'[j] = jobs[j]
           \/ /\ jobs'[j].stage = "lost" /\ jobs'[j].contribution = NoContribution
              /\ jobs'[j].listed = {} /\ jobs'[j].removed = {} /\ jobs'[j].entries = {}
  BY DEF TypeOK, Crash, NewJob

-----------------------------------------------------------------------------
(* The chain of rebuilds and the one that writes.                          *)

\* A step keeps the rebuild that has begun at the head of the chain.
LEMMA BuilderStep ==
    ASSUME TypeOK, BuilderIsFirst, [Next]_vars
    PROVE  BuilderIsFirst'
  <1>1. CASE UNCHANGED rebuilding
    BY <1>1 DEF BuilderIsFirst, Turn, rebuilding
  <1>2. ASSUME NEW r \in Requests, NEW j \in Jobs, StartJob(r, j)
        PROVE  BuilderIsFirst'
    <2>1. UNCHANGED zipRebuilds
      BY <1>2 DEF StartJob
    <2>2. jobs'[j].stage = "scan" /\ \A k \in Jobs \ {j} : jobs'[k] = jobs[k]
      BY <1>2, StartMoves
    <2>3. QED
      BY <2>1, <2>2 DEF BuilderIsFirst, Turn
  <1>3. ASSUME NEW j \in Jobs, JobStep(j)
        PROVE  BuilderIsFirst'
    <2>1. CASE Scan(j) \/ RemoveFiles(j) \/ DropRows(j) \/ Publish(j)
      <3>1. UNCHANGED zipRebuilds
        BY <2>1 DEF Scan, RemoveFiles, DropRows, Publish
      <3>2. jobs'[j].stage \notin {"open", "build"}
        BY <2>1, JobStages
      <3>3. QED
        BY <1>3, <3>1, <3>2, JobMoves DEF BuilderIsFirst, Turn
    <2>2. CASE CreateZip(j)
      <3>1. zipRebuilds \in Seq(Jobs) /\ zipRebuilds' = Append(zipRebuilds, j)
        BY <2>2 DEF CreateZip, TypeOK
      <3>2. zipRebuilds # <<>> => Head(zipRebuilds') = Head(zipRebuilds)
        BY <3>1
      <3>3. zipRebuilds' # <<>>
        BY <3>1
      <3>4. jobs'[j].stage \notin {"open", "build"}
        BY <2>2, JobStages
      <3>5. QED
        BY <1>3, <3>2, <3>3, <3>4, JobMoves DEF BuilderIsFirst, Turn
    <2>3. CASE BuildZip(j)
      <3>1. UNCHANGED zipRebuilds /\ Turn(j)
        BY <2>3 DEF BuildZip
      <3>2. QED
        BY <1>3, <3>1, JobMoves DEF BuilderIsFirst, Turn
    <2>4. CASE OpenArchive(j) /\ UNCHANGED zipRebuilds
      <3>1. Turn(j)
        BY <2>4, JobStages DEF BuilderIsFirst, Stage
      <3>2. QED
        BY <1>3, <2>4, <3>1, JobMoves DEF BuilderIsFirst, Turn
    <2>5. CASE (OpenArchive(j) /\ Rejected(j)) \/ FinishZip(j) \/ FailZip(j)
      <3>1. jobs[j].stage \in {"open", "build"}
        BY <2>5, JobStages DEF Stage
      <3>2. \A k \in Jobs \ {j} : jobs[k].stage \notin {"open", "build"}
        BY <3>1 DEF BuilderIsFirst, Turn
      <3>3. jobs'[j].stage \notin {"open", "build"}
        <4>1. CASE OpenArchive(j) /\ Rejected(j)
          BY <4>1 DEF Rejected, TypeOK, JobStates
        <4>2. CASE FinishZip(j) \/ FailZip(j)
          BY <4>2, JobStages
        <4>3. QED
          BY <2>5, <4>1, <4>2
      <3>4. QED
        BY <1>3, <3>2, <3>3, JobMoves DEF BuilderIsFirst
    <2>6. QED
      BY <1>3, <2>1, <2>2, <2>3, <2>4, <2>5 DEF JobStep, OpenArchive
  <1>4. CASE Crash
    BY <1>4, CrashMoves DEF BuilderIsFirst
  <1>5. QED
    BY <1>1, <1>2, <1>3, <1>4, StepCases

\* A step never lets two rebuilds write, and keeps "writing" to a rebuild under way.
LEMMA WriterStep ==
    ASSUME TypeOK, BuilderIsFirst, OneWriter, [Next]_vars
    PROVE  OneWriter'
  <1>1. CASE UNCHANGED rebuilding
    BY <1>1 DEF OneWriter, Stage, rebuilding
  <1>2. ASSUME NEW r \in Requests, NEW j \in Jobs, StartJob(r, j)
        PROVE  OneWriter'
    <2>1. UNCHANGED archive /\ ~Stage(j, "build")
      BY <1>2 DEF StartJob, Stage
    <2>2. jobs'[j].stage = "scan" /\ \A k \in Jobs \ {j} : jobs'[k] = jobs[k]
      BY <1>2, StartMoves
    <2>3. QED
      BY <2>1, <2>2 DEF OneWriter, Stage
  <1>3. ASSUME NEW j \in Jobs, JobStep(j)
        PROVE  OneWriter'
    <2>1. CASE \/ Scan(j) \/ RemoveFiles(j) \/ DropRows(j) \/ CreateZip(j)
               \/ BuildZip(j) \/ Publish(j)
      <3>1. UNCHANGED archive
        BY <2>1 DEF Scan, RemoveFiles, DropRows, CreateZip, BuildZip, Publish
      <3>2. jobs[j].stage # "build" /\ jobs'[j].stage # "build"
        BY <2>1, JobStages DEF Stage
      <3>3. QED
        BY <1>3, <3>1, <3>2, JobMoves DEF OneWriter, Stage
    <2>2. CASE OpenArchive(j) \/ FinishZip(j) \/ FailZip(j)
      <3>1. jobs[j].stage \in {"open", "build"}
        BY <2>2, JobStages DEF Stage
      <3>2. \A k \in Jobs \ {j} : jobs[k].stage \notin {"open", "build"}
        BY <3>1 DEF BuilderIsFirst, Turn
      <3>3. \A k \in Jobs \ {j} : ~Stage(k, "build")'
        BY <1>3, <3>2, JobMoves DEF Stage
      <3>4. CASE OpenArchive(j)
        <4>1. ~\E k \in Jobs : Stage(k, "build")
          BY <3>2, <3>4, JobStages DEF Stage
        <4>2. CASE Rejected(j)
          <5>1. archive'.state = "torn" /\ ~Stage(j, "build")'
            BY <3>4, <4>2 DEF OpenArchive, Rejected, Stage, TypeOK, JobStates
          <5>2. QED
            BY <3>3, <5>1 DEF OneWriter
        <4>3. CASE ~Rejected(j)
          <5>1. archive'.state = "writing" /\ Stage(j, "build")'
            BY <3>4, <4>1, <4>3 DEF OpenArchive, Stage, TypeOK, JobStates
          <5>2. QED
            BY <5>1 DEF OneWriter
        <4>4. QED
          BY <4>2, <4>3
      <3>5. CASE FinishZip(j)
        <4>1. archive.state = "writing"
          BY <3>5 DEF OneWriter, FinishZip
        <4>2. archive'.state = "whole" /\ ~Stage(j, "build")'
          BY <3>5, <4>1, JobStages DEF FinishZip, Stage
        <4>3. QED
          BY <3>3, <4>2 DEF OneWriter
      <3>6. CASE FailZip(j)
        <4>1. archive'.state = "torn" /\ ~Stage(j, "build")'
          BY <3>6, JobStages DEF FailZip, Stage
        <4>2. QED
          BY <3>3, <4>1 DEF OneWriter
      <3>7. QED
        BY <2>2, <3>4, <3>5, <3>6
    <2>3. QED
      BY <1>3, <2>1, <2>2 DEF JobStep
  <1>4. CASE Crash
    <2>1. \A j \in Jobs : ~Stage(j, "build")'
      BY <1>4, CrashMoves DEF Stage
    <2>2. archive'.state \notin {"writing", "corrupt"}
      BY <1>4 DEF Crash, OneWriter
    <2>3. QED
      BY <2>1, <2>2 DEF OneWriter
  <1>5. QED
    BY <1>1, <1>2, <1>3, <1>4, StepCases

-----------------------------------------------------------------------------
(* The uses of the link.                                                   *)

\* The sets that are counted are finite.
LEMMA UsesFinite ==
    ASSUME TypeOK
    PROVE  /\ IsFiniteSet(Opened) /\ IsFiniteSet(Claimed)
           /\ Cardinality(Opened) \in Nat /\ Cardinality(Claimed) \in Nat
           /\ remainingUses \in Nat /\ MaxUseCount \in Nat
  <1>1. Opened \subseteq Contributions /\ Claimed \subseteq Requests
    BY DEF Opened, Claimed
  <1>2. IsFiniteSet(Opened) /\ IsFiniteSet(Claimed)
    BY <1>1, ContributionsAssumption, RequestsAssumption, FS_Subset
  <1>3. Cardinality(Opened) \in Nat /\ Cardinality(Claimed) \in Nat
    BY <1>2, FS_CardinalityType
  <1>4. remainingUses \in Nat /\ MaxUseCount \in Nat
    BY BoundsAssumption DEF TypeOK
  <1>5. QED
    BY <1>2, <1>3, <1>4

\* Fewer claims, as many rows: the bound stands.
LEMMA UsesFewer ==
    ASSUME TypeOK, TypeOK', UsesBounded,
           remainingUses' = remainingUses, Opened' = Opened, Claimed' \subseteq Claimed
    PROVE  UsesBounded'
  <1>1. Cardinality(Claimed') <= Cardinality(Claimed)
    BY UsesFinite, FS_Subset
  <1>2. Cardinality(Claimed') \in Nat
    BY UsesFinite, FS_Subset, FS_CardinalityType
  <1>3. QED
    BY <1>1, <1>2, UsesFinite DEF UsesBounded

\* A request that moves on holds no claim, unless it has just made one.
LEMMA ClaimedAfter ==
    ASSUME TypeOK, NEW r \in Requests
    PROVE  /\ End(r) => Claimed' = Claimed \ {r}
           /\ \A pc : GoTo(r, pc) /\ pc # "create" => Claimed' = Claimed \ {r}
           /\ GoTo(r, "create") => Claimed' = Claimed \cup {r}
  <1>0. req \in [Requests -> RequestStates]
    BY DEF TypeOK
  <1>1. End(r) => Claimed' = Claimed \ {r}
    BY <1>0 DEF End, Idle, Claimed, At
  <1>2. \A pc : GoTo(r, pc) /\ pc # "create" => Claimed' = Claimed \ {r}
    BY <1>0 DEF GoTo, Claimed, At, RequestStates
  <1>3. GoTo(r, "create") => Claimed' = Claimed \cup {r}
    BY <1>0 DEF GoTo, Claimed, At, RequestStates
  <1>4. QED
    BY <1>1, <1>2, <1>3

\* A step keeps the uses within the bound.
LEMMA UsesStep ==
    ASSUME TypeOK, TypeOK', UsesBounded, RowsInv, [Next]_vars
    PROVE  UsesBounded'
  <1> USE DEF deposits, stored, rebuilding, counts
  <1>a. UNCHANGED contributions => Opened' = Opened
    BY DEF Opened
  <1>b. UNCHANGED req => Claimed' = Claimed
    BY DEF Claimed, At
  <1>1. ASSUME NEW r \in Requests, Claim(r)
        PROVE  UsesBounded'
    <2>0. Opened' = Opened
      BY <1>1, <1>a DEF Claim
    <2>1. CASE Claims /\ remainingUses' = remainingUses - 1 /\ GoTo(r, "create")
      <3>1. Claimed' = Claimed \cup {r}
        BY <2>1, ClaimedAfter
      <3>2. Cardinality(Claimed') = Cardinality(Claimed) + 1
        BY <1>1, <3>1, UsesFinite, FS_AddElement DEF Claim, Claimed, At
      <3>3. QED
        BY <2>0, <2>1, <3>2, UsesFinite DEF UsesBounded
    <2>2. CASE UNCHANGED remainingUses /\ End(r)
      BY <2>0, <2>2, ClaimedAfter, UsesFewer
    <2>3. QED
      BY <1>1, <2>1, <2>2 DEF Claim
  <1>2. ASSUME NEW r \in Requests, NEW c \in Contributions, CreateContribution(r, c)
        PROVE  UsesBounded'
    <2>1. Claimed' = Claimed \ {r}
      BY <1>2, ClaimedAfter DEF CreateContribution
    <2>2. r \in Claimed
      BY <1>2 DEF CreateContribution, Claimed
    <2>3. Cardinality(Claimed') = Cardinality(Claimed) - 1
      BY <2>1, <2>2, UsesFinite, FS_RemoveElement
    <2>4. Opened' = Opened \cup {c} /\ c \notin Opened
      BY <1>2 DEF CreateContribution, Opened, TypeOK
    <2>5. Cardinality(Opened') = Cardinality(Opened) + 1
      BY <2>4, UsesFinite, FS_AddElement
    <2>6. remainingUses' = remainingUses
      BY <1>2 DEF CreateContribution
    <2>7. QED
      BY <2>3, <2>5, <2>6, UsesFinite DEF UsesBounded
  <1>3. ASSUME NEW r \in Requests, Close(r)
        PROVE  UsesBounded'
    <2>1. req[r].contribution \in Opened
      BY <1>3 DEF RowsInv, ClosingsOpened, Close, At
    <2>2. Opened' = Opened
      BY <1>3, <2>1 DEF Close, Opened, TypeOK
    <2>3. QED
      BY <1>3, <2>2, ClaimedAfter, UsesFewer DEF Close
  <1>4. ASSUME NEW r \in Requests,
               Open(r) \/ StoreFile(r) \/ Attribute(r) \/ Unlink(r) \/ DropRow(r)
        PROVE  UsesBounded'
    <2>1. UNCHANGED deposits /\ Claimed' = Claimed \ {r}
      BY <1>4, ClaimedAfter DEF Open, StoreFile, Attribute, Unlink, DropRow
    <2>2. QED
      BY <2>1, <1>a, UsesFewer
  <1>5. ASSUME NEW r \in Requests, NEW j \in Jobs, StartJob(r, j)
        PROVE  UsesBounded'
    <2>1. UNCHANGED deposits /\ Claimed' = Claimed \ {r}
      BY <1>5, ClaimedAfter DEF StartJob
    <2>2. QED
      BY <2>1, <1>a, UsesFewer
  <1>6. ASSUME NEW r \in Requests, NEW c \in Contributions, NEW f \in Files,
               UploadFile(r, c, f)
        PROVE  UsesBounded'
    <2>1. UNCHANGED deposits /\ Claimed' \subseteq Claimed
      BY <1>6 DEF UploadFile, Claimed, At, TypeOK
    <2>2. QED
      BY <2>1, <1>a, UsesFewer
  <1>7. ASSUME NEW r \in Requests, NEW c \in Contributions, Complete(r, c)
        PROVE  UsesBounded'
    <2>1. UNCHANGED deposits /\ Claimed' \subseteq Claimed
      BY <1>7 DEF Complete, Claimed, At, TypeOK, RequestStates
    <2>2. QED
      BY <2>1, <1>a, UsesFewer
  <1>8. ASSUME NEW r \in Requests, NEW f \in Files, RemoveFile(r, f)
        PROVE  UsesBounded'
    <2>1. UNCHANGED deposits /\ Claimed' \subseteq Claimed
      BY <1>8 DEF RemoveFile, Claimed, At, TypeOK, RequestStates
    <2>2. QED
      BY <2>1, <1>a, UsesFewer
  <1>9. ASSUME NEW j \in Jobs, JobStep(j)
        PROVE  UsesBounded'
    <2>1. UNCHANGED <<deposits, req>>
      BY <1>9 DEF JobStep, Scan, RemoveFiles, DropRows, CreateZip, BuildZip,
                  OpenArchive, FinishZip, FailZip, Publish
    <2>2. QED
      BY <2>1, <1>a, <1>b, UsesFewer
  <1>10. CASE Crash
    <2>1. UNCHANGED deposits /\ Claimed' = {}
      BY <1>10 DEF Crash, Claimed, At, Idle
    <2>2. QED
      BY <2>1, <1>a, UsesFewer
  <1>11. CASE StopCollecting \/ UNCHANGED vars
    BY <1>11, <1>a, <1>b, UsesFewer DEF StopCollecting, vars
  <1>12. QED
    BY <1>1, <1>2, <1>3, <1>4, <1>5, <1>6, <1>7, <1>8, <1>9, <1>10, <1>11 DEF Next

-----------------------------------------------------------------------------
(* Rows and bytes.                                                         *)

\* Which steps write the rows, the disk, the deposits and the requests.
LEMMA Frames ==
    ASSUME [Next]_vars
    PROVE  /\ \/ UNCHANGED files
              \/ \E r \in Requests : StoreFile(r) \/ Attribute(r) \/ DropRow(r)
              \/ \E j \in Jobs : DropRows(j)
           /\ \/ UNCHANGED disk
              \/ \E r \in Requests : StoreFile(r) \/ Unlink(r)
              \/ \E j \in Jobs : RemoveFiles(j)
           /\ UNCHANGED infected \/ \E r \in Requests : StoreFile(r)
           /\ \/ UNCHANGED contributions
              \/ \E r \in Requests : \/ Close(r)
                                     \/ \E c \in Contributions : CreateContribution(r, c)
  <1> USE DEF deposits, stored, rebuilding, counts
  <1>1. ASSUME NEW r \in Requests, Open(r) \/ Claim(r)
        PROVE  UNCHANGED <<files, disk, infected, contributions>>
    BY <1>1 DEF Open, Claim
  <1>2. ASSUME NEW r \in Requests, Close(r)
        PROVE  UNCHANGED <<files, disk, infected>>
    BY <1>2 DEF Close
  <1>3. ASSUME NEW r \in Requests, StoreFile(r)
        PROVE  UNCHANGED contributions
    BY <1>3 DEF StoreFile
  <1>4. ASSUME NEW r \in Requests, Attribute(r) \/ DropRow(r)
        PROVE  UNCHANGED <<disk, infected, contributions>>
    BY <1>4 DEF Attribute, DropRow
  <1>5. ASSUME NEW r \in Requests, Unlink(r)
        PROVE  UNCHANGED <<files, infected, contributions>>
    BY <1>5 DEF Unlink
  <1>6. ASSUME NEW r \in Requests, NEW c \in Contributions, CreateContribution(r, c)
        PROVE  UNCHANGED <<files, disk, infected>>
    BY <1>6 DEF CreateContribution
  <1>7. ASSUME NEW r \in Requests, NEW c \in Contributions, NEW f \in Files,
               UploadFile(r, c, f)
        PROVE  UNCHANGED <<files, disk, infected, contributions>>
    BY <1>7 DEF UploadFile
  <1>8. ASSUME NEW r \in Requests, NEW c \in Contributions, Complete(r, c)
        PROVE  UNCHANGED <<files, disk, infected, contributions>>
    BY <1>8 DEF Complete
  <1>9. ASSUME NEW r \in Requests, NEW f \in Files, RemoveFile(r, f)
        PROVE  UNCHANGED <<files, disk, infected, contributions>>
    BY <1>9 DEF RemoveFile
  <1>10. ASSUME NEW r \in Requests, NEW j \in Jobs, StartJob(r, j)
         PROVE  UNCHANGED <<files, disk, infected, contributions>>
    BY <1>10 DEF StartJob
  <1>11. ASSUME NEW j \in Jobs,
                \/ Scan(j) \/ CreateZip(j) \/ BuildZip(j) \/ OpenArchive(j)
                \/ FinishZip(j) \/ FailZip(j) \/ Publish(j)
         PROVE  UNCHANGED <<files, disk, infected, contributions>>
    BY <1>11 DEF Scan, CreateZip, BuildZip, OpenArchive, FinishZip, FailZip, Publish
  <1>12. ASSUME NEW j \in Jobs, RemoveFiles(j)
         PROVE  UNCHANGED <<files, infected, contributions>>
    BY <1>12 DEF RemoveFiles
  <1>13. ASSUME NEW j \in Jobs, DropRows(j)
         PROVE  UNCHANGED <<disk, infected, contributions>>
    BY <1>13 DEF DropRows
  <1>14. StopCollecting \/ Crash => UNCHANGED <<files, disk, infected, contributions>>
    BY DEF StopCollecting, Crash
  <1>15. UNCHANGED vars => UNCHANGED <<files, disk, infected, contributions>>
    BY DEF vars
  <1>16. ASSUME NEW j \in Jobs, JobStep(j)
         PROVE  \/ UNCHANGED <<files, disk, infected, contributions>>
                \/ RemoveFiles(j) /\ UNCHANGED <<files, infected, contributions>>
                \/ DropRows(j) /\ UNCHANGED <<disk, infected, contributions>>
    BY <1>11, <1>12, <1>13, <1>16 DEF JobStep
  <1>17. QED
    BY <1>1, <1>2, <1>3, <1>4, <1>5, <1>6, <1>7, <1>8, <1>9, <1>10, <1>14, <1>15, <1>16
       DEF Next

\* A row is made once, by the upload that waits to store it; it never comes
\* back once it is gone, and never changes the contribution it was given.
LEMMA FilesMove ==
    ASSUME TypeOK, RowsInv, [Next]_vars, NEW f \in Files
    PROVE  /\ files[f].state # "absent" =>
                 /\ files'[f].state # "absent"
                 /\ Present(f)' => Present(f)
                 /\ files[f].contribution # NoContribution
                       => files'[f].contribution = files[f].contribution
           /\ files[f] = NoRow =>
                 \/ files'[f] = files[f]
                 \/ \E r \in Requests : StoreFile(r) /\ f = req[r].file
  <1>0. files \in [Files -> RowStates] /\ files[f] \in RowStates
    BY DEF TypeOK
  <1>1. ASSUME NEW r \in Requests, StoreFile(r)
        PROVE  f # req[r].file => files'[f] = files[f]
    BY <1>0, <1>1 DEF StoreFile
  <1>2. ASSUME NEW r \in Requests, StoreFile(r)
        PROVE  files[req[r].file] = NoRow
    BY <1>2 DEF StoreFile, RowsInv, UploadsApart
  <1>3. ASSUME NEW r \in Requests, Attribute(r)
        PROVE  \/ files'[f] = files[f]
               \/ /\ files[f].contribution = NoContribution
                  /\ files[f].state = "present" /\ files'[f].state = "present"
    BY <1>0, <1>3 DEF Attribute, NoRow, RowStates
  <1>4. ASSUME NEW r \in Requests, DropRow(r)
        PROVE  \/ files'[f] = files[f]
               \/ /\ files'[f].contribution = files[f].contribution
                  /\ files[f].state # "absent" /\ files'[f].state = "gone"
    BY <1>0, <1>4 DEF DropRow, At, RowsInv, RemovalsKnown, RowStates
  <1>5. ASSUME NEW j \in Jobs, DropRows(j)
        PROVE  \/ files'[f] = files[f]
               \/ /\ files'[f].contribution = files[f].contribution
                  /\ files[f].state # "absent" /\ files'[f].state = "gone"
    <2>1. f \in jobs[j].removed => files[f].state # "absent"
      BY <1>5 DEF RowsInv, RemovedGone
    <2>2. CASE UNCHANGED files
      BY <2>2
    <2>3. CASE files' = [g \in Files |->
                   IF g \in jobs[j].removed THEN [files[g] EXCEPT !.state = "gone"]
                                            ELSE files[g]]
      BY <1>0, <2>1, <2>3 DEF RowStates
    <2>4. QED
      BY <1>5, <2>2, <2>3 DEF DropRows
  <1>6. QED
    BY <1>1, <1>2, <1>3, <1>4, <1>5, Frames DEF Present, NoRow

\* Bytes are written for a file that has no row yet, and no other.
LEMMA DiskMove ==
    ASSUME TypeOK, RowsInv, [Next]_vars, NEW f \in Files
    PROVE  f \in disk' =>
              \/ f \in disk
              \/ /\ files[f].state = "absent"
                 /\ \E r \in Requests : StoreFile(r) /\ f = req[r].file
  <1>1. ASSUME NEW r \in Requests, StoreFile(r)
        PROVE  disk' = disk \cup {req[r].file} /\ files[req[r].file].state = "absent"
    BY <1>1 DEF StoreFile, RowsInv, UploadsApart, NoRow
  <1>2. ASSUME NEW r \in Requests, Unlink(r)
        PROVE  disk' \subseteq disk
    BY <1>2 DEF Unlink
  <1>3. ASSUME NEW j \in Jobs, RemoveFiles(j)
        PROVE  disk' \subseteq disk
    BY <1>3 DEF RemoveFiles
  <1>4. QED
    BY <1>1, <1>2, <1>3, Frames

\* What a step makes of one request: it starts an upload or a deletion, or it
\* ends, or it moves on with the file and the contribution it has.
ReqMoves(q) ==
    \/ \E c \in Contributions, f \in Files : UploadFile(q, c, f)
    \/ \E f \in Files : RemoveFile(q, f)
    \/ /\ req'[q].file \in {req[q].file, NoFile}
       /\ req'[q].pc = "store" => req'[q] = req[q]
       /\ req'[q].pc \in {"unlink", "dropRow"} =>
             /\ req'[q].file = req[q].file
             /\ req[q].pc = req'[q].pc \/ (Unlink(q) /\ req[q].pc = "unlink")
       /\ req'[q].pc \in {"stale", "close"} =>
             \/ \E c \in Contributions : Complete(q, c)
             \/ /\ req'[q].contribution = req[q].contribution
                /\ req[q].pc \in {"stale", "close"}

\* Every step is one of these for every request.
LEMMA ReqMove ==
    ASSUME TypeOK, [Next]_vars, NEW q \in Requests
    PROVE  ReqMoves(q)
  <1> USE DEF ReqMoves
  <1>0. req \in [Requests -> RequestStates]
    BY DEF TypeOK
  <1>a. ASSUME req'[q] = req[q]
        PROVE  ReqMoves(q)
    BY <1>a
  <1>b. ASSUME NEW r \in Requests, End(r)
        PROVE  ReqMoves(q)
    <2>1. CASE q = r
      BY <1>0, <1>b, <2>1 DEF End, Idle
    <2>2. CASE q # r
      BY <1>0, <1>a, <1>b, <2>2 DEF End
    <2>3. QED
      BY <2>1, <2>2
  <1>c. ASSUME NEW r \in Requests, NEW pc, GoTo(r, pc)
        PROVE  /\ q # r => ReqMoves(q)
               /\ req'[r].pc = pc /\ req'[r].file = req[r].file
               /\ req'[r].contribution = req[r].contribution
    <2>1. q # r => ReqMoves(q)
      BY <1>0, <1>a, <1>c DEF GoTo
    <2>2. /\ req'[r].pc = pc /\ req'[r].file = req[r].file
          /\ req'[r].contribution = req[r].contribution
      <3> HIDE DEF ReqMoves
      <3> QED
        BY <1>0, <1>c DEF GoTo, RequestStates
    <2>3. QED
      BY <2>1, <2>2
  <1>1. ASSUME NEW r \in Requests, Open(r)
        PROVE  ReqMoves(q)
    BY <1>1, <1>c DEF Open
  <1>2. ASSUME NEW r \in Requests, Claim(r)
        PROVE  ReqMoves(q)
    BY <1>2, <1>b, <1>c DEF Claim
  <1>3. ASSUME NEW r \in Requests, StoreFile(r)
        PROVE  ReqMoves(q)
    BY <1>3, <1>c DEF StoreFile
  <1>4. ASSUME NEW r \in Requests, Attribute(r) \/ Close(r) \/ DropRow(r)
        PROVE  ReqMoves(q)
    BY <1>4, <1>b DEF Attribute, Close, DropRow
  <1>5. ASSUME NEW r \in Requests, Unlink(r)
        PROVE  ReqMoves(q)
    <2>1. CASE End(r)
      BY <2>1, <1>b
    <2>2. CASE GoTo(r, "dropRow")
      BY <1>5, <2>2, <1>c DEF Unlink, At
    <2>3. QED
      BY <1>5, <2>1, <2>2 DEF Unlink
  <1>6. ASSUME NEW r \in Requests, NEW c \in Contributions, CreateContribution(r, c)
        PROVE  ReqMoves(q)
    BY <1>6, <1>b DEF CreateContribution
  <1>7. ASSUME NEW r \in Requests, NEW c \in Contributions, Complete(r, c)
        PROVE  ReqMoves(q)
    <2>1. CASE q = r
      <3>1. req'[q].file = req[q].file /\ req'[q].pc = "stale"
        BY <1>0, <1>7, <2>1 DEF Complete, RequestStates
      <3>2. QED
        BY <1>7, <2>1, <3>1
    <2>2. CASE q # r
      BY <1>0, <1>a, <1>7, <2>2 DEF Complete
    <2>3. QED
      BY <2>1, <2>2
  <1>8. ASSUME NEW r \in Requests, NEW c \in Contributions, NEW f \in Files,
               UploadFile(r, c, f)
        PROVE  ReqMoves(q)
    <2>1. CASE q = r
      BY <1>8, <2>1
    <2>2. CASE q # r
      BY <1>0, <1>a, <1>8, <2>2 DEF UploadFile
    <2>3. QED
      BY <2>1, <2>2
  <1>9. ASSUME NEW r \in Requests, NEW f \in Files, RemoveFile(r, f)
        PROVE  ReqMoves(q)
    <2>1. CASE q = r
      BY <1>9, <2>1
    <2>2. CASE q # r
      BY <1>0, <1>a, <1>9, <2>2 DEF RemoveFile
    <2>3. QED
      BY <2>1, <2>2
  <1>10. ASSUME NEW r \in Requests, NEW j \in Jobs, StartJob(r, j)
         PROVE  ReqMoves(q)
    BY <1>10, <1>c DEF StartJob, At
  <1>11. ASSUME NEW j \in Jobs, JobStep(j)
         PROVE  ReqMoves(q)
    <2>1. UNCHANGED req
      BY <1>11 DEF JobStep, Scan, RemoveFiles, DropRows, CreateZip, BuildZip,
                   OpenArchive, FinishZip, FailZip, Publish
    <2>2. QED
      BY <2>1, <1>a
  <1>12. CASE Crash
    BY <1>12 DEF Crash, Idle
  <1>13. CASE StopCollecting \/ UNCHANGED vars
    BY <1>13, <1>a DEF StopCollecting, vars
  <1> HIDE DEF ReqMoves
  <1>14. QED
    BY <1>1, <1>2, <1>3, <1>4, <1>5, <1>6, <1>7, <1>8, <1>9, <1>10, <1>11, <1>12, <1>13
       DEF Next

\* A step leaves no bytes without a row.
LEMMA BytesStep ==
    ASSUME TypeOK, TypeOK', RowsInv, [Next]_vars
    PROVE  BytesHaveRows'
  <1> SUFFICES ASSUME NEW f \in disk'
               PROVE  Present(f)'
    BY DEF BytesHaveRows
  <1>0. f \in Files /\ files \in [Files -> RowStates]
    BY DEF TypeOK
  <1>1. ASSUME NEW r \in Requests, StoreFile(r), f = req[r].file
        PROVE  Present(f)'
    BY <1>0, <1>1 DEF StoreFile, Present, RowStates
  <1>2. CASE f \in disk
    <2>0. Present(f)
      BY <1>2 DEF RowsInv, BytesHaveRows
    <2>1. ASSUME NEW r \in Requests, StoreFile(r)
          PROVE  Present(f)'
      BY <1>0, <2>0, <2>1 DEF StoreFile, Present, RowStates
    <2>2. ASSUME NEW r \in Requests, Attribute(r)
          PROVE  Present(f)'
      BY <1>0, <2>0, <2>2 DEF Attribute, Present, RowStates
    <2>3. ASSUME NEW r \in Requests, DropRow(r)
          PROVE  Present(f)'
      <3>1. f # req[r].file
        BY <1>2, <2>3 DEF DropRow, At, RowsInv, RemovalsKnown
      <3>2. QED
        BY <1>0, <2>0, <2>3, <3>1 DEF DropRow, Present
    <2>4. ASSUME NEW j \in Jobs, DropRows(j)
          PROVE  Present(f)'
      <3>1. f \notin jobs[j].removed
        BY <1>2 DEF RowsInv, RemovedGone
      <3>2. QED
        BY <1>0, <2>0, <2>4, <3>1 DEF DropRows, Present
    <2>5. CASE UNCHANGED files
      BY <2>0, <2>5 DEF Present
    <2>6. QED
      BY <2>1, <2>2, <2>3, <2>4, <2>5, Frames
  <1>3. QED
    BY <1>0, <1>1, <1>2, DiskMove

\* A step leaves every upload alone with its id.
LEMMA UploadsStep ==
    ASSUME TypeOK, TypeOK', RowsInv, [Next]_vars
    PROVE  UploadsApart'
  <1> SUFFICES ASSUME NEW r \in Requests, At(r, "store")'
               PROVE  (/\ req[r].file # NoFile /\ files[req[r].file] = NoRow
                       /\ \A q \in Requests \ {r} : req[q].file # req[r].file)'
    BY DEF UploadsApart
  <1>0. req \in [Requests -> RequestStates]
    BY DEF TypeOK
  <1>1. CASE req'[r] = req[r]
    <2> DEFINE f == req[r].file
    <2>1. /\ f # NoFile /\ f \in Files /\ files[f] = NoRow
          /\ \A q \in Requests \ {r} : req[q].file # f
      BY <1>0, <1>1 DEF At, RowsInv, UploadsApart, RequestStates
    <2>2. ~StoreFile(r)
      <3>1. StoreFile(r) => req'[r].pc = "attribute"
        BY <1>0 DEF StoreFile, GoTo, RequestStates
      <3>2. QED
        BY <3>1 DEF At
    <2>3. files'[f] = NoRow
      BY <2>1, <2>2, FilesMove
    <2>4. ASSUME NEW q \in Requests \ {r}
          PROVE  req'[q].file # f
      <3>1. ASSUME NEW c \in Contributions, NEW g \in Files, UploadFile(q, c, g)
            PROVE  req'[q].file # f
        BY <1>0, <3>1 DEF UploadFile, Fresh
      <3>2. ASSUME NEW g \in Files, RemoveFile(q, g)
            PROVE  req'[q].file # f
        BY <1>0, <2>1, <3>2 DEF RemoveFile, Rows, NoRow, RequestStates
      <3>3. QED
        BY <2>1, <3>1, <3>2, ReqMove DEF ReqMoves
    <2>5. QED
      BY <1>1, <2>1, <2>3, <2>4
  <1>2. ASSUME NEW c \in Contributions, NEW f \in Files, UploadFile(r, c, f)
        PROVE  (/\ req[r].file # NoFile /\ files[req[r].file] = NoRow
                /\ \A q \in Requests \ {r} : req[q].file # req[r].file)'
    <2>1. req'[r].file = f /\ \A q \in Requests \ {r} : req'[q] = req[q]
      BY <1>0, <1>2 DEF UploadFile
    <2>2. files'[f] = NoRow
      BY <1>2 DEF UploadFile, Fresh, stored, NoRow
    <2>3. f # NoFile
      BY NoFileAssumption
    <2>4. \A q \in Requests : req[q].file # f
      BY <1>2 DEF UploadFile, Fresh
    <2>5. NoRow' = NoRow
      BY DEF NoRow
    <2>6. QED
      BY <2>1, <2>2, <2>3, <2>4, <2>5
  <1>3. ASSUME NEW f \in Files, RemoveFile(r, f)
        PROVE  FALSE
    BY <1>0, <1>3 DEF RemoveFile, At, RequestStates
  <1>4. QED
    BY <1>1, <1>2, <1>3, ReqMove DEF ReqMoves, At

\* A step leaves every deletion with a row it knows.
LEMMA RemovalsStep ==
    ASSUME TypeOK, TypeOK', RowsInv, [Next]_vars
    PROVE  RemovalsKnown'
  <1> SUFFICES ASSUME NEW r \in Requests, req'[r].pc \in {"unlink", "dropRow"}
               PROVE  (/\ req[r].file # NoFile /\ files[req[r].file].state # "absent"
                       /\ At(r, "dropRow") => req[r].file \notin disk)'
    BY DEF RemovalsKnown
  <1>0. req \in [Requests -> RequestStates]
    BY DEF TypeOK
  <1>1. ASSUME NEW f \in Files, RemoveFile(r, f)
        PROVE  (/\ req[r].file # NoFile /\ files[req[r].file].state # "absent"
                /\ At(r, "dropRow") => req[r].file \notin disk)'
    <2>1. req'[r].file = f /\ req'[r].pc = "unlink"
      BY <1>0, <1>1 DEF RemoveFile, RequestStates
    <2>2. files'[f].state = "present"
      BY <1>1 DEF RemoveFile, Rows, stored
    <2>3. QED
      BY <2>1, <2>2, NoFileAssumption DEF At
  <1>2. ASSUME NEW c \in Contributions, NEW f \in Files, UploadFile(r, c, f)
        PROVE  FALSE
    BY <1>0, <1>2 DEF UploadFile
  <1>3. CASE /\ req'[r].file = req[r].file
             /\ req[r].pc = req'[r].pc \/ (Unlink(r) /\ req[r].pc = "unlink")
    <2> DEFINE f == req[r].file
    <2>1. f # NoFile /\ f \in Files /\ files[f].state # "absent"
      BY <1>0, <1>3 DEF RowsInv, RemovalsKnown, RequestStates
    <2>2. files'[f].state # "absent"
      BY <2>1, FilesMove
    <2>3. At(r, "dropRow")' => f \notin disk'
      <3>1. Unlink(r) => f \notin disk'
        BY DEF Unlink
      <3>2. f \notin disk => f \notin disk'
        BY <2>1, DiskMove
      <3>3. QED
        BY <1>3, <3>1, <3>2 DEF At, RowsInv, RemovalsKnown
    <2>4. QED
      BY <1>3, <2>1, <2>2, <2>3
  <1>4. QED
    BY <1>1, <1>2, <1>3, ReqMove DEF ReqMoves

\* A step leaves every closing with a contribution that was opened.
LEMMA ClosingsStep ==
    ASSUME TypeOK, TypeOK', RowsInv, [Next]_vars
    PROVE  ClosingsOpened'
  <1> SUFFICES ASSUME NEW r \in Requests, req'[r].pc \in {"stale", "close"}
               PROVE  req'[r].contribution \in Opened'
    BY DEF ClosingsOpened
  <1>0. req \in [Requests -> RequestStates]
    BY DEF TypeOK
  <1>1. Opened \subseteq Opened'
    <2>1. ASSUME NEW q \in Requests, Close(q)
          PROVE  Opened \subseteq Opened'
      BY <2>1 DEF Close, Opened, TypeOK
    <2>2. ASSUME NEW q \in Requests, NEW c \in Contributions, CreateContribution(q, c)
          PROVE  Opened \subseteq Opened'
      BY <2>2 DEF CreateContribution, Opened, TypeOK
    <2>3. UNCHANGED contributions => Opened \subseteq Opened'
      BY DEF Opened
    <2>4. QED
      BY <2>1, <2>2, <2>3, Frames
  <1>2. ASSUME NEW c \in Contributions, Complete(r, c)
        PROVE  req'[r].contribution \in Opened'
    <2>1. req'[r].contribution = c
      BY <1>0, <1>2 DEF Complete, RequestStates
    <2>2. c \in Opened
      BY <1>2 DEF Complete, GuardPasses, Opened
    <2>3. QED
      BY <1>1, <2>1, <2>2
  <1>3. ASSUME NEW c \in Contributions, NEW f \in Files, UploadFile(r, c, f)
        PROVE  FALSE
    BY <1>0, <1>3 DEF UploadFile
  <1>4. ASSUME NEW f \in Files, RemoveFile(r, f)
        PROVE  FALSE
    BY <1>0, <1>4 DEF RemoveFile, RequestStates
  <1>5. req[r].pc \in {"stale", "close"} => req[r].contribution \in Opened
    BY DEF RowsInv, ClosingsOpened
  <1>6. QED
    BY <1>1, <1>2, <1>3, <1>4, <1>5, ReqMove DEF ReqMoves

-----------------------------------------------------------------------------
(* What the scans listed and took away.                                    *)

\* What ListedAttributed says of one job.
ListedBy(j) ==
    /\ jobs[j].stage \in {"scan", "remove"} \/ jobs[j].listed # {}
          => jobs[j].contribution # NoContribution
    /\ Stage(j, "remove") => jobs[j].listed \cap infected # {}
    /\ \A f \in jobs[j].listed :
          files[f].state # "absent" /\ files[f].contribution = jobs[j].contribution

\* A step keeps what the scans listed attributed to their contribution.
LEMMA ListedStep ==
    ASSUME TypeOK, TypeOK', RowsInv, [Next]_vars
    PROVE  ListedAttributed'
  <1> SUFFICES ASSUME NEW k \in Jobs
               PROVE  ListedBy(k)'
    BY DEF ListedAttributed, ListedBy
  <1>0. /\ jobs[k] \in JobStates /\ jobs[k].listed \subseteq Files
        /\ infected \subseteq infected'
    <2>1. \A r \in Requests : StoreFile(r) => infected \subseteq infected'
      BY DEF StoreFile
    <2>2. QED
      BY <2>1, Frames DEF TypeOK, JobStates
  <1>1. ListedBy(k)
    BY DEF RowsInv, ListedAttributed, ListedBy
  <1>2. \A f \in jobs[k].listed :
          files'[f].state # "absent" /\ files'[f].contribution = jobs[k].contribution
    BY <1>0, <1>1, FilesMove DEF ListedBy
  <1>3. ASSUME jobs'[k].stage = jobs[k].stage \/ jobs'[k].stage \notin {"scan", "remove"},
               jobs'[k].listed = jobs[k].listed,
               jobs'[k].contribution = jobs[k].contribution
        PROVE  ListedBy(k)'
    BY <1>0, <1>1, <1>2, <1>3 DEF ListedBy, Stage
  <1>4. ASSUME jobs'[k].listed = {}, jobs'[k].stage # "remove",
               jobs'[k].stage = "scan" => jobs'[k].contribution # NoContribution
        PROVE  ListedBy(k)'
    BY <1>4 DEF ListedBy, Stage
  <1>5. CASE UNCHANGED rebuilding
    BY <1>3, <1>5 DEF rebuilding
  <1>6. ASSUME NEW r \in Requests, NEW j \in Jobs, StartJob(r, j)
        PROVE  ListedBy(k)'
    <2>1. CASE k = j
      <3>1. req[r].contribution # NoContribution
        BY <1>6, NoContributionAssumption
           DEF StartJob, At, RowsInv, ClosingsOpened, Opened
      <3>2. jobs'[j].stage = "scan" /\ jobs'[j].contribution = req[r].contribution
            /\ jobs'[j].listed = {}
        BY <1>6, StartMoves
      <3>3. QED
        BY <1>4, <2>1, <3>1, <3>2
    <2>2. CASE k # j
      <3>1. jobs'[k] = jobs[k]
        BY <1>6, <2>2, StartMoves
      <3>2. QED
        BY <1>3, <3>1
    <2>3. QED
      BY <2>1, <2>2
  <1>7. ASSUME NEW j \in Jobs, JobStep(j)
        PROVE  ListedBy(k)'
    <2>1. CASE k # j
      BY <1>3, <1>7, <2>1, JobMoves
    <2>2. CASE k = j /\ Scan(j)
      <3>1. /\ jobs'[k].listed = RowsOf(jobs[k].contribution)
            /\ jobs'[k].stage = "remove" => jobs'[k].listed \cap infected # {}
        BY <1>0, <2>2 DEF Scan, JobStates, TypeOK
      <3>2. jobs'[k].contribution = jobs[k].contribution /\ jobs[k].stage = "scan"
        BY <1>7, <2>2, JobMoves, JobStages DEF Stage
      <3>3. \A f \in jobs'[k].listed :
              files'[f].state # "absent" /\ files'[f].contribution = jobs'[k].contribution
        BY <2>2, <3>1, <3>2 DEF Scan, RowsOf, Rows, stored
      <3>4. jobs'[k].contribution # NoContribution
        BY <1>1, <3>2 DEF ListedBy
      <3>5. QED
        BY <1>0, <3>1, <3>3, <3>4 DEF ListedBy, Stage
    <2>3. CASE k = j /\ ~Scan(j)
      <3>1. jobs'[k].stage \notin {"scan", "remove"}
        BY <1>7, <2>3, JobStages DEF JobStep
      <3>2. QED
        BY <1>3, <1>7, <2>3, <3>1, JobMoves
    <2>4. QED
      BY <2>1, <2>2, <2>3
  <1>8. CASE Crash
    BY <1>3, <1>4, <1>8, CrashMoves
  <1>9. QED
    BY <1>5, <1>6, <1>7, <1>8, StepCases

\* A step brings nothing back that a removal took.
LEMMA RemovedStep ==
    ASSUME TypeOK, TypeOK', RowsInv, [Next]_vars
    PROVE  RemovedGone'
  <1> SUFFICES ASSUME NEW k \in Jobs, NEW f \in jobs'[k].removed
               PROVE  (/\ f \notin disk /\ files[f].state # "absent"
                       /\ Stage(k, "dropRows") \/ files[f].state = "gone")'
    BY DEF RemovedGone
  <1>0. f \in Files /\ files' \in [Files -> RowStates] /\ files \in [Files -> RowStates]
    BY DEF TypeOK, JobStates
  <1>1. ASSUME f \in jobs[k].removed
        PROVE  /\ f \notin disk' /\ files'[f].state # "absent"
               /\ files[f].state = "gone" => files'[f].state = "gone"
    <2>1. f \notin disk /\ files[f].state # "absent"
      BY <1>1 DEF RowsInv, RemovedGone
    <2>2. files'[f].state # "absent" /\ (Present(f)' => Present(f))
      BY <1>0, <2>1, FilesMove
    <2>3. f \notin disk'
      BY <1>0, <2>1, DiskMove
    <2>4. QED
      BY <1>0, <2>2, <2>3 DEF Present, RowStates
  <1>2. ASSUME f \in jobs[k].removed, ~Stage(k, "dropRows")
        PROVE  files[f].state = "gone"
    BY <1>2 DEF RowsInv, RemovedGone
  <1>3. CASE jobs'[k] = jobs[k]
    BY <1>1, <1>2, <1>3 DEF Stage
  <1>4. CASE UNCHANGED rebuilding
    BY <1>3, <1>4 DEF rebuilding
  <1>5. ASSUME NEW r \in Requests, NEW j \in Jobs, StartJob(r, j)
        PROVE  jobs'[k] = jobs[k]
    BY <1>5, StartMoves
  <1>6. ASSUME NEW j \in Jobs, JobStep(j), j = k
        PROVE  (/\ f \notin disk /\ files[f].state # "absent"
                /\ Stage(k, "dropRows") \/ files[f].state = "gone")'
    <2>1. CASE RemoveFiles(j)
      <3>1. /\ jobs'[k].removed = Condemned(k) /\ jobs'[k].stage = "dropRows"
            /\ disk' = disk \ Condemned(k) /\ UNCHANGED files
        BY <1>6, <2>1 DEF RemoveFiles, Stopped, TypeOK, JobStates
      <3>2. files[f].state = "present"
        BY <3>1 DEF Condemned, RowsOf, Rows
      <3>3. QED
        BY <3>1, <3>2 DEF Stage
    <2>2. CASE DropRows(j)
      <3>1. CASE jobs' = [jobs EXCEPT ![k].stage = "queue", ![k].fault = TRUE,
                                      ![k].removed = {}]
        BY <3>1 DEF TypeOK, JobStates
      <3>2. CASE /\ jobs' = [jobs EXCEPT ![k].stage = "queue"]
                 /\ files' = [g \in Files |->
                       IF g \in jobs[k].removed THEN [files[g] EXCEPT !.state = "gone"]
                                                ELSE files[g]]
        <4>1. jobs'[k].removed = jobs[k].removed
          BY <3>2 DEF TypeOK, JobStates
        <4>2. files'[f].state = "gone"
          BY <1>0, <3>2, <4>1 DEF RowStates
        <4>3. QED
          BY <1>1, <4>1, <4>2
      <3>3. QED
        BY <1>6, <2>2, <3>1, <3>2 DEF DropRows
    <2>3. CASE ~RemoveFiles(j) /\ ~DropRows(j)
      <3>1. jobs'[k].removed = jobs[k].removed /\ ~Stage(k, "dropRows")
        BY <1>6, <2>3, JobMoves, JobStages DEF JobStep, Stage
      <3>2. QED
        BY <1>1, <1>2, <3>1
    <2>4. QED
      BY <2>1, <2>2, <2>3
  <1>7. ASSUME NEW j \in Jobs, JobStep(j), j # k
        PROVE  jobs'[k] = jobs[k]
    BY <1>7, JobMoves
  <1>8. CASE Crash
    BY <1>3, <1>8, CrashMoves
  <1>9. QED
    BY <1>3, <1>4, <1>5, <1>6, <1>7, <1>8, StepCases

\* A step keeps the rows and the bytes consistent.
LEMMA RowsStep ==
    ASSUME TypeOK, TypeOK', RowsInv, [Next]_vars
    PROVE  RowsInv'
  BY BytesStep, UploadsStep, RemovalsStep, ClosingsStep, ListedStep, RemovedStep
     DEF RowsInv

-----------------------------------------------------------------------------
(* What the archives hold.                                                 *)

Rebuilt(j) == jobs[j].stage \in {"publish", "done"}

\* The archive that can be downloaded fits every closing that has rebuilt it.
ArchiveFits ==
    archive.state = "whole" => \A j \in Jobs : Rebuilt(j) => Fits(j, archive.entries)

\* Entries that fit a job still do when the job keeps what it listed and took.
LEMMA FitsStep ==
    ASSUME TypeOK, RowsInv, [Next]_vars, NEW j \in Jobs, NEW entries, Fits(j, entries),
           jobs'[j].listed = jobs[j].listed, jobs'[j].removed = jobs[j].removed
    PROVE  Fits(j, entries)'
  <1>1. \A f \in jobs[j].listed : f \in Files /\ files[f].state # "absent"
    BY DEF RowsInv, ListedAttributed, TypeOK, JobStates
  <1>2. \A f \in jobs[j].listed : Present(f)' => Present(f)
    BY <1>1, FilesMove
  <1>3. QED
    BY <1>2 DEF Fits

\* What is on the transfer now fits a job that is not about to drop rows.
LEMMA RowsFit ==
    ASSUME TypeOK, RowsInv, NEW j \in Jobs, ~Stage(j, "dropRows")
    PROVE  Fits(j, Rows)
  <1>1. \A f \in jobs[j].removed : files[f].state = "gone"
    BY DEF RowsInv, RemovedGone
  <1>2. jobs[j].listed \subseteq Files
    BY DEF TypeOK, JobStates
  <1>3. QED
    BY <1>1, <1>2 DEF Fits, Rows, Present

\* A step keeps the entries being written fit for the closings that ended.
LEMMA EntriesStep ==
    ASSUME TypeOK, BuilderIsFirst, RowsInv, EntriesFit, [Next]_vars
    PROVE  EntriesFit'
  <1> SUFFICES ASSUME NEW k \in Jobs, jobs'[k].stage \in {"open", "build"},
                      NEW j \in Jobs, j = k \/ jobs'[j].stage \in {"publish", "done"}
               PROVE  Fits(j, jobs[k].entries)'
    BY DEF EntriesFit
  <1>0. PICK entries : entries = jobs[k].entries
    OBVIOUS
  <1>1. ASSUME jobs'[k].entries = jobs[k].entries, jobs[k].stage \in {"open", "build"},
               j = k \/ Rebuilt(j),
               jobs'[j].listed = jobs[j].listed, jobs'[j].removed = jobs[j].removed
        PROVE  Fits(j, jobs[k].entries)'
    <2>1. Fits(j, entries)
      BY <1>0, <1>1 DEF EntriesFit, Rebuilt
    <2>2. Fits(j, entries)'
      BY <1>1, <2>1, FitsStep
    <2>3. entries = jobs'[k].entries
      BY <1>0, <1>1
    <2>4. QED
      BY <2>2, <2>3 DEF Fits
  <1>2. CASE jobs'[k] = jobs[k] /\ jobs'[j] = jobs[j]
    BY <1>1, <1>2 DEF Rebuilt
  <1>3. CASE UNCHANGED rebuilding
    BY <1>2, <1>3 DEF rebuilding
  <1>4. ASSUME NEW r \in Requests, NEW i \in Jobs, StartJob(r, i)
        PROVE  Fits(j, jobs[k].entries)'
    BY <1>2, <1>4, StartMoves
  <1>5. ASSUME NEW i \in Jobs, JobStep(i), i # k
        PROVE  Fits(j, jobs[k].entries)'
    <2>1. jobs'[k] = jobs[k]
      BY <1>5, JobMoves
    <2>2. CASE j # i
      BY <1>2, <1>5, <2>1, <2>2, JobMoves
    <2>3. CASE j = i
      <3>1. jobs[i].stage \notin {"open", "build"}
        BY <1>5, <2>1 DEF BuilderIsFirst, Turn
      <3>2. Publish(i)
        BY <1>5, <2>3, <3>1, JobStages DEF JobStep, Stage
      <3>3. Rebuilt(j)
        BY <2>3, <3>2, JobStages DEF Stage, Rebuilt
      <3>4. jobs'[j].listed = jobs[j].listed /\ jobs'[j].removed = jobs[j].removed
        BY <1>5, <2>3, <3>2, JobMoves DEF Scan, RemoveFiles, DropRows, Publish, Stage
      <3>5. QED
        BY <1>1, <2>1, <3>3, <3>4
    <2>4. QED
      BY <2>2, <2>3
  <1>6. ASSUME JobStep(k)
        PROVE  Fits(j, jobs[k].entries)'
    <2>1. BuildZip(k) \/ OpenArchive(k)
      BY <1>6, JobStages DEF JobStep
    <2>2. ~Scan(k) /\ ~RemoveFiles(k) /\ ~DropRows(k)
      BY <2>1 DEF BuildZip, OpenArchive, Scan, RemoveFiles, DropRows, Stage
    <2>3. jobs'[j].listed = jobs[j].listed /\ jobs'[j].removed = jobs[j].removed
      BY <1>6, <2>2, JobMoves
    <2>4. j = k \/ Rebuilt(j)
      BY <1>6, JobMoves DEF Rebuilt
    <2>5. CASE OpenArchive(k)
      <3>1. jobs[k].stage = "open"
        BY <2>5, JobStages DEF Stage
      <3>2. jobs'[k].entries = jobs[k].entries
        BY <2>5 DEF OpenArchive, Rejected, TypeOK, JobStates
      <3>3. QED
        BY <1>1, <2>3, <2>4, <3>1, <3>2
    <2>6. CASE BuildZip(k)
      <3>1. jobs'[k].entries = Rows
        BY <2>6 DEF BuildZip, TypeOK, JobStates
      <3>2. ~Stage(j, "dropRows")
        BY <2>4, <2>6, JobStages DEF Stage, Rebuilt
      <3>3. PICK rows : rows = Rows
        OBVIOUS
      <3>4. Fits(j, rows)'
        BY <2>3, <3>2, <3>3, RowsFit, FitsStep
      <3>5. QED
        BY <3>1, <3>3, <3>4 DEF Fits
    <2>7. QED
      BY <2>1, <2>5, <2>6
  <1>7. CASE Crash
    BY <1>7, CrashMoves
  <1>8. QED
    BY <1>3, <1>4, <1>5, <1>6, <1>7, StepCases

\* A step keeps the archive fit for the closings that ended.
LEMMA ArchiveStep ==
    ASSUME TypeOK, OneWriter, RowsInv, EntriesFit, ArchiveFits, [Next]_vars
    PROVE  ArchiveFits'
  <1> SUFFICES ASSUME archive'.state = "whole",
                      NEW j \in Jobs, jobs'[j].stage \in {"publish", "done"}
               PROVE  Fits(j, archive.entries)'
    BY DEF ArchiveFits, Rebuilt
  <1>1. ASSUME NEW entries, archive'.entries = entries, Fits(j, entries),
               jobs'[j].listed = jobs[j].listed, jobs'[j].removed = jobs[j].removed
        PROVE  Fits(j, archive.entries)'
    <2>1. Fits(j, entries)'
      BY <1>1, FitsStep
    <2>2. QED
      BY <1>1, <2>1 DEF Fits
  <1>2. ASSUME UNCHANGED archive, Rebuilt(j),
               jobs'[j].listed = jobs[j].listed, jobs'[j].removed = jobs[j].removed
        PROVE  Fits(j, archive.entries)'
    <2>1. PICK entries : entries = archive.entries
      OBVIOUS
    <2>2. Fits(j, entries)
      BY <1>2, <2>1 DEF ArchiveFits
    <2>3. QED
      BY <1>1, <1>2, <2>1, <2>2
  <1>3. CASE UNCHANGED rebuilding
    BY <1>2, <1>3 DEF rebuilding, Rebuilt
  <1>4. ASSUME NEW r \in Requests, NEW i \in Jobs, StartJob(r, i)
        PROVE  Fits(j, archive.entries)'
    <2>1. UNCHANGED archive /\ jobs'[j] = jobs[j]
      BY <1>4, StartMoves DEF StartJob
    <2>2. QED
      BY <1>2, <2>1 DEF Rebuilt
  <1>5. ASSUME NEW i \in Jobs, JobStep(i)
        PROVE  Fits(j, archive.entries)'
    <2>1. CASE j = i /\ ~FinishZip(i)
      <3>1. Publish(i)
        BY <1>5, <2>1, JobStages DEF JobStep
      <3>2. UNCHANGED archive /\ Rebuilt(j) /\ ~Scan(i) /\ ~RemoveFiles(i) /\ ~DropRows(i)
        BY <2>1, <3>1 DEF Publish, Scan, RemoveFiles, DropRows, Stage, Rebuilt
      <3>3. QED
        BY <1>2, <1>5, <2>1, <3>2, JobMoves
    <2>2. CASE j # i /\ ~FinishZip(i)
      <3>1. ~OpenArchive(i) /\ ~FailZip(i)
        BY DEF OpenArchive, FailZip
      <3>2. UNCHANGED archive
        BY <1>5, <2>2, <3>1
           DEF JobStep, Scan, RemoveFiles, DropRows, CreateZip, BuildZip, Publish
      <3>3. QED
        BY <1>2, <1>5, <2>2, <3>2, JobMoves DEF Rebuilt
    <2>3. CASE FinishZip(i)
      <3>1. Stage(i, "build") /\ archive.state = "writing"
        BY <2>3 DEF FinishZip, OneWriter
      <3>2. PICK entries : entries = jobs[i].entries
        OBVIOUS
      <3>3. archive'.entries = entries
        BY <2>3, <3>1, <3>2 DEF FinishZip
      <3>4. j = i \/ Rebuilt(j)
        BY <1>5, JobMoves DEF Rebuilt
      <3>5. Fits(j, entries)
        BY <3>1, <3>2, <3>4 DEF EntriesFit, Rebuilt, Stage
      <3>6. ~Scan(i) /\ ~RemoveFiles(i) /\ ~DropRows(i)
        BY <3>1 DEF Scan, RemoveFiles, DropRows, Stage
      <3>7. jobs'[j].listed = jobs[j].listed /\ jobs'[j].removed = jobs[j].removed
        BY <1>5, <3>6, JobMoves
      <3>8. QED
        BY <1>1, <3>3, <3>5, <3>7
    <2>4. QED
      BY <2>1, <2>2, <2>3
  <1>6. CASE Crash
    <2>1. UNCHANGED archive
      BY <1>6 DEF Crash
    <2>2. jobs'[j] = jobs[j]
      BY <1>6, CrashMoves
    <2>3. QED
      BY <1>2, <2>1, <2>2 DEF Rebuilt
  <1>7. QED
    BY <1>3, <1>4, <1>5, <1>6, StepCases

\* What the antivirus found stays off the disk.
LEMMA InfectedStep ==
    ASSUME TypeOK, TypeOK', RowsInv, InfectedRemoved, [Next]_vars
    PROVE  InfectedRemoved'
  <1> SUFFICES ASSUME NEW j \in Jobs,
                      jobs'[j].stage \notin {"idle", "scan", "remove", "lost"},
                      ~jobs'[j].fault,
                      NEW f \in jobs'[j].listed, f \in infected', f \in disk'
               PROVE  FALSE
    BY DEF InfectedRemoved
  <1>0. f \in Files /\ jobs[j] \in JobStates
    BY DEF TypeOK, JobStates
  <1>1. ASSUME f \in jobs[j].listed
        PROVE  f \in disk /\ f \in infected
    <2>1. files[f].state # "absent"
      BY <1>1 DEF RowsInv, ListedAttributed
    <2>2. f \in disk
      BY <1>0, <2>1, DiskMove
    <2>3. ASSUME NEW r \in Requests, StoreFile(r)
          PROVE  f \in infected
      BY <2>1, <2>3 DEF StoreFile, RowsInv, UploadsApart, NoRow
    <2>4. QED
      BY <2>2, <2>3, Frames
  <1>2. CASE /\ jobs'[j].listed = jobs[j].listed
             /\ jobs[j].fault => jobs'[j].fault
             /\ jobs[j].stage \notin {"idle", "scan", "remove", "lost"}
    BY <1>1, <1>2 DEF InfectedRemoved
  <1>3. CASE UNCHANGED rebuilding
    BY <1>2, <1>3 DEF rebuilding
  <1>4. ASSUME NEW r \in Requests, NEW i \in Jobs, StartJob(r, i)
        PROVE  FALSE
    BY <1>2, <1>4, StartMoves
  <1>5. ASSUME NEW i \in Jobs, JobStep(i)
        PROVE  FALSE
    <2>1. CASE j # i
      BY <1>2, <1>5, <2>1, JobMoves
    <2>2. CASE j = i /\ Scan(i)
      <3> DEFINE listed == RowsOf(jobs[j].contribution)
      <3>1. jobs'[j].listed = listed /\ UNCHANGED <<infected, disk>>
        BY <1>0, <2>2 DEF Scan, TypeOK, JobStates, stored
      <3>2. listed \cap infected \cap disk # {} => jobs'[j].stage = "remove"
        BY <1>0, <2>2 DEF Scan, TypeOK, JobStates
      <3>3. listed \cap infected \cap disk = {}
        BY <3>2
      <3>4. QED
        BY <3>1, <3>3
    <2>3. CASE j = i /\ RemoveFiles(i)
      <3>1. jobs'[j].listed = jobs[j].listed
        BY <1>5, <2>3, JobMoves DEF RemoveFiles, Scan, Stage
      <3>2. f \in disk /\ Present(f) /\ files[f].contribution = jobs[j].contribution
        BY <1>1, <3>1 DEF RowsInv, BytesHaveRows, ListedAttributed
      <3>3. f \in Condemned(j)
        BY <1>0, <3>2 DEF Condemned, RowsOf, Rows, Present
      <3>4. QED
        BY <1>0, <2>3, <3>3 DEF RemoveFiles, Stopped, TypeOK
    <2>4. CASE j = i /\ ~Scan(i) /\ ~RemoveFiles(i)
      BY <1>2, <1>5, <2>4, JobMoves, JobStages DEF JobStep, Stage
    <2>5. QED
      BY <2>1, <2>2, <2>3, <2>4
  <1>6. CASE Crash
    BY <1>2, <1>6, CrashMoves
  <1>7. QED
    BY <1>3, <1>4, <1>5, <1>6, StepCases

\* Bytes leave for the owner, or with an infected file of the same deposit.
LEMMA OwnDepositStep ==
    ASSUME TypeOK, RowsInv, [Next]_vars, NEW f \in disk \ disk'
    PROVE  \/ \E r \in Requests : At(r, "unlink") /\ req[r].file = f
           \/ \E g \in infected :
                 /\ files[g].contribution = files[f].contribution
                 /\ files[g].contribution # NoContribution
  <1>1. ASSUME NEW r \in Requests, StoreFile(r)
        PROVE  FALSE
    BY <1>1 DEF StoreFile
  <1>2. ASSUME NEW r \in Requests, Unlink(r)
        PROVE  At(r, "unlink") /\ req[r].file = f
    BY <1>2 DEF Unlink
  <1>3. ASSUME NEW j \in Jobs, RemoveFiles(j)
        PROVE  \E g \in infected :
                  /\ files[g].contribution = files[f].contribution
                  /\ files[g].contribution # NoContribution
    <2>1. files[f].contribution = jobs[j].contribution
      BY <1>3 DEF RemoveFiles, Condemned, RowsOf
    <2>2. PICK g \in infected : g \in jobs[j].listed
      BY <1>3 DEF RemoveFiles, RowsInv, ListedAttributed
    <2>3. /\ files[g].contribution = jobs[j].contribution
          /\ jobs[j].contribution # NoContribution
      BY <2>2 DEF RowsInv, ListedAttributed
    <2>4. QED
      BY <2>1, <2>2, <2>3
  <1>4. QED
    BY <1>1, <1>2, <1>3, Frames

-----------------------------------------------------------------------------
(* The theorems.                                                           *)

Inv == TypeOK /\ CollectionInv /\ ArchiveFits /\ InfectedRemoved

\* The initial state satisfies the invariant.
LEMMA InvInit == Init => Inv
  <1> SUFFICES ASSUME Init
               PROVE  Inv
    OBVIOUS
  <1>1. TypeOK
    <2>1. NoRow \in RowStates /\ NewJob \in JobStates /\ Idle \in RequestStates
      BY DEF NoRow, RowStates, NewJob, JobStates, Stages, Idle, RequestStates
    <2>2. /\ files \in [Files -> RowStates] /\ jobs \in [Jobs -> JobStates]
          /\ req \in [Requests -> RequestStates]
      BY <2>1 DEF Init
    <2>3. /\ remainingUses \in 0 .. MaxUseCount
          /\ removals \in 0 .. MaxRemovals /\ crashes \in 0 .. MaxCrashes
      BY BoundsAssumption DEF Init
    <2>4. /\ zipRebuilds \in Seq(Jobs)
          /\ archive \in [state : {"none", "writing", "whole", "torn", "corrupt"},
                          entries : SUBSET Files]
          /\ contributions \in [Contributions -> {"absent", "open", "closed"}]
      BY DEF Init
    <2>5. /\ disk \subseteq Files /\ infected \subseteq Files
          /\ isZipReady \in BOOLEAN /\ collecting \in BOOLEAN
      BY DEF Init
    <2>6. QED
      BY <2>2, <2>3, <2>4, <2>5, Zenon DEF TypeOK
  <1>2. BuilderIsFirst /\ OneWriter /\ RowsInv /\ EntriesFit
    BY DEF Init, BuilderIsFirst, OneWriter, Stage, RowsInv, BytesHaveRows, UploadsApart,
           RemovalsKnown, ClosingsOpened, ListedAttributed, RemovedGone, EntriesFit,
           At, Idle, NewJob
  <1>3. UsesBounded
    <2>1. Opened = {} /\ Claimed = {} /\ remainingUses = MaxUseCount
      BY DEF Init, Opened, Claimed, At, Idle
    <2>2. QED
      BY <2>1, BoundsAssumption, FS_EmptySet DEF UsesBounded
  <1>4. ArchiveFits /\ InfectedRemoved
    BY DEF Init, ArchiveFits, InfectedRemoved, NewJob
  <1>5. QED
    BY <1>1, <1>2, <1>3, <1>4 DEF Inv, CollectionInv

\* Every step keeps it.
LEMMA InvStep == Inv /\ [Next]_vars => Inv'
  <1> SUFFICES ASSUME Inv, [Next]_vars
               PROVE  Inv'
    OBVIOUS
  <1>1. /\ TypeOK /\ BuilderIsFirst /\ OneWriter /\ UsesBounded /\ RowsInv
        /\ EntriesFit /\ ArchiveFits /\ InfectedRemoved
    BY DEF Inv, CollectionInv
  <1>2. TypeOK'
    BY <1>1, TypeStep
  <1>3. BuilderIsFirst' /\ OneWriter' /\ UsesBounded' /\ RowsInv' /\ EntriesFit'
    BY <1>1, <1>2, BuilderStep, WriterStep, UsesStep, RowsStep, EntriesStep
  <1>4. ArchiveFits' /\ InfectedRemoved'
    BY <1>1, <1>2, ArchiveStep, InfectedStep
  <1>5. QED
    BY <1>2, <1>3, <1>4 DEF Inv, CollectionInv

\* The invariant of a collection holds in every reachable state.
THEOREM Invariance == Spec => []Inv
  BY InvInit, InvStep, PTL DEF Spec

\* The state keeps its shape; in particular the uses of the link never go
\* below zero.
THEOREM TypeCorrect == Spec => []TypeOK
  <1>1. Inv => TypeOK
    BY DEF Inv
  <1>2. QED
    BY <1>1, Invariance, PTL

\* Rebuilds take turns at the archive, every one of them fits the closings
\* that ended before it, and no more contributions are opened than the link
\* allows.
THEOREM CollectionCorrect == Spec => []CollectionInv
  <1>1. Inv => CollectionInv
    BY DEF Inv
  <1>2. QED
    BY <1>1, Invariance, PTL

\* A whole archive holds nothing that a finished closing's scan took away.
THEOREM RemovedStaysOutCorrect == Spec => []RemovedStaysOut
  <1>1. Inv => RemovedStaysOut
    BY DEF Inv, ArchiveFits, Rebuilt, Fits, RemovedStaysOut
  <1>2. QED
    BY <1>1, Invariance, PTL

\* A whole archive holds every file a finished closing's scan let through and
\* nobody has deleted since.
THEOREM DepositInArchiveCorrect == Spec => []DepositInArchive
  <1>1. Inv => DepositInArchive
    BY DEF Inv, ArchiveFits, Rebuilt, Fits, DepositInArchive
  <1>2. QED
    BY <1>1, Invariance, PTL

\* What a scan found is off the disk from the end of the removal on, unless
\* the disk or the database failed the removal.
THEOREM InfectedRemovedCorrect == Spec => []InfectedRemoved
  <1>1. Inv => InfectedRemoved
    BY DEF Inv
  <1>2. QED
    BY <1>1, Invariance, PTL

\* No contributor's files leave because of another contributor's.
THEOREM OnlyOwnDepositRemovedCorrect == Spec => OnlyOwnDepositRemoved
  <1>1. Inv /\ [Next]_vars =>
            [\A f \in disk \ disk' :
                \/ \E r \in Requests : At(r, "unlink") /\ req[r].file = f
                \/ \E g \in infected :
                      /\ files[g].contribution = files[f].contribution
                      /\ files[g].contribution # NoContribution]_vars
    BY OwnDepositStep DEF Inv, CollectionInv
  <1>2. QED
    BY <1>1, Invariance, PTL DEF Spec, OnlyOwnDepositRemoved
=============================================================================
