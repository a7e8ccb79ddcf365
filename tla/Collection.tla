------------------------------ MODULE Collection ------------------------------
(***************************************************************************)
(* One collection: a transfer that stays open to several contributors     *)
(* while it is read (share/contribution.service.ts and                    *)
(* contribution.controller.ts, share/guard/contribution.guard.ts, the     *)
(* container's rows in reverseShare/reverseShare.service.ts).             *)
(*                                                                         *)
(* A contributor opens a contribution, uploads files into it and closes   *)
(* it.  Closing starts a background job nobody waits for: the antivirus   *)
(* looks at the deposit and may remove it (clamscan.service.ts), then the *)
(* archive "tout télécharger" serves is rebuilt from scratch, one rebuild *)
(* after the other (ShareService.createZip), then the transfer says that  *)
(* the archive is ready.  The owner deletes files meanwhile, and the      *)
(* process may restart at any point.                                      *)
(*                                                                         *)
(* Each action is what one handler does between two awaits that other     *)
(* handlers can get in between.  An upload is the request of its last     *)
(* chunk: the ones before it write no row.  Storage is local, ClamAV      *)
(* answers, and an infected deposit is deleted or quarantined: both take  *)
(* the same files and rows away from the transfer.                        *)
(***************************************************************************)
EXTENDS Naturals, Sequences, FiniteSets

CONSTANTS
    Contributions,      \* ids of ShareContribution rows
    NoContribution,     \* the contributionId of a row that has none
    Files,              \* ids of File rows
    NoFile,
    Requests,           \* concurrent HTTP requests
    Jobs,               \* background scans and rebuilds; bounds the closings
    MaxUseCount,        \* how many contributions the link allows
    MaxRemovals,        \* bounds the owner's deletions
    MaxFaults,          \* bounds the removals that fail
    MaxCrashes

ASSUME NoContributionAssumption == NoContribution \notin Contributions
ASSUME NoFileAssumption == NoFile \notin Files
ASSUME ContributionsAssumption == IsFiniteSet(Contributions)
ASSUME RequestsAssumption == IsFiniteSet(Requests)
ASSUME BoundsAssumption == {MaxUseCount, MaxRemovals, MaxFaults, MaxCrashes} \subseteq Nat

VARIABLES
    remainingUses,      \* ReverseShare.remainingUses
    contributions,      \* ShareContribution: not opened yet, open, or closed
    files,              \* File rows, with the contribution they came from
    disk,               \* the files whose bytes are in the transfer's folder
    infected,           \* what an antivirus would find
    archive,            \* archive.zip: who may be writing it, and its entries
    isZipReady,         \* Share.isZipReady
    zipRebuilds,        \* the promise chain: rebuilds that have not ended
    jobs,               \* what each closing set off in the background
    req,                \* what each request is doing
    collecting,         \* the link is there and collectionEndsAt is to come
    removals,
    crashes

counts == <<removals, crashes>>
deposits == <<remainingUses, contributions>>
stored == <<files, disk>>
rebuilding == <<archive, isZipReady, zipRebuilds, jobs>>
vars == <<deposits, stored, infected, rebuilding, req, collecting, counts>>

Idle == [pc |-> "idle", contribution |-> NoContribution, file |-> NoFile]
NewJob == [stage |-> "idle", contribution |-> NoContribution,
           listed |-> {}, removed |-> {}, entries |-> {}, fault |-> FALSE]

NoRow == [state |-> "absent", contribution |-> NoContribution]

\* The File rows of the transfer, and those of one contribution.
Rows == {f \in Files : files[f].state = "present"}
RowsOf(c) == {f \in Rows : files[f].contribution = c}

Init ==
    /\ remainingUses = MaxUseCount
    /\ contributions = [c \in Contributions |-> "absent"]
    /\ files = [f \in Files |-> NoRow]
    /\ disk = {}
    /\ infected = {}
    /\ archive = [state |-> "none", entries |-> {}]
    /\ isZipReady = FALSE
    /\ zipRebuilds = <<>>
    /\ jobs = [j \in Jobs |-> NewJob]
    /\ req = [r \in Requests |-> Idle]
    /\ collecting = TRUE
    /\ removals = 0 /\ crashes = 0

At(r, pc) == req[r].pc = pc
GoTo(r, pc) == req' = [req EXCEPT ![r].pc = pc]
End(r) == req' = [req EXCEPT ![r] = Idle]

-----------------------------------------------------------------------------
(* Contributing.                                                           *)

\* ContributionGuard.
GuardPasses(c) == contributions[c] = "open" /\ collecting

Open(r) ==
    /\ At(r, "idle")
    /\ collecting
    /\ GoTo(r, "claim")
    /\ UNCHANGED <<deposits, stored, infected, rebuilding, collecting, counts>>

\* A count read with the transfer, and a decrement of its own.
ClaimsUnchecked == TRUE

\* One conditional statement takes the use.
Claims == remainingUses > 0

\* Refused without a use left, or without a link to take it from; past
\* collectionEndsAt the link is still there, and the claim goes through.
Claim(r) ==
    /\ At(r, "claim")
    /\ \/ Claims /\ remainingUses' = remainingUses - 1 /\ GoTo(r, "create")
       \/ (~Claims \/ ~collecting) /\ UNCHANGED remainingUses /\ End(r)
    /\ UNCHANGED <<contributions, stored, infected, rebuilding, collecting, counts>>

CreateContribution(r, c) ==
    /\ At(r, "create") /\ contributions[c] = "absent"
    /\ contributions' = [contributions EXCEPT ![c] = "open"]
    /\ End(r)
    /\ UNCHANGED <<remainingUses, stored, infected, rebuilding, collecting, counts>>

\* A fresh id: no row has it and no other upload carries it.
Fresh(f) == files[f] = NoRow /\ \A r \in Requests : req[r].file # f

UploadFile(r, c, f) ==
    /\ At(r, "idle") /\ Fresh(f)
    /\ GuardPasses(c)
    /\ req' = [req EXCEPT ![r] = [pc |-> "store", contribution |-> c, file |-> f]]
    /\ UNCHANGED <<deposits, stored, infected, rebuilding, collecting, counts>>

\* LocalFileService.create: the bytes get their name, then the row is made,
\* without a contribution; nobody looks at bytes that have no row.
StoreFile(r) ==
    LET f == req[r].file IN
    /\ At(r, "store")
    /\ disk' = disk \cup {f}
    /\ files' = [files EXCEPT ![f].state = "present"]
    /\ infected' \in {infected, infected \cup {f}}
    /\ GoTo(r, "attribute")
    /\ UNCHANGED <<deposits, rebuilding, collecting, counts>>

\* The controller gives a row that belongs to nobody its contribution.
Attribute(r) ==
    LET f == req[r].file IN
    /\ At(r, "attribute")
    /\ files' = IF files[f] = [NoRow EXCEPT !.state = "present"]
                THEN [files EXCEPT ![f].contribution = req[r].contribution]
                ELSE files
    /\ End(r)
    /\ UNCHANGED <<deposits, disk, infected, rebuilding, collecting, counts>>

Complete(r, c) ==
    /\ At(r, "idle")
    /\ GuardPasses(c)
    /\ req' = [req EXCEPT ![r].pc = "stale", ![r].contribution = c]
    /\ UNCHANGED <<deposits, stored, infected, rebuilding, collecting, counts>>

\* The archive is declared stale and the background job starts.
StartJob(r, j) ==
    /\ At(r, "stale") /\ jobs[j].stage = "idle"
    /\ isZipReady' = FALSE
    /\ jobs' = [jobs EXCEPT ![j] =
                   [NewJob EXCEPT !.stage = "scan", !.contribution = req[r].contribution]]
    /\ GoTo(r, "close")
    /\ UNCHANGED <<deposits, stored, infected, archive, zipRebuilds, collecting, counts>>

Close(r) ==
    /\ At(r, "close")
    /\ contributions' = [contributions EXCEPT ![req[r].contribution] = "closed"]
    /\ End(r)
    /\ UNCHANGED <<remainingUses, stored, infected, rebuilding, collecting, counts>>

-----------------------------------------------------------------------------
(* The background job: scan, remove, rebuild, publish.                     *)

Stage(j, stage) == jobs[j].stage = stage

\* ClamScanService.check, over the rows that carry the contribution.
Scan(j) ==
    LET listed == RowsOf(jobs[j].contribution)
        found == listed \cap infected \cap disk
    IN  /\ Stage(j, "scan")
        /\ jobs' = [jobs EXCEPT ![j].listed = listed,
                                ![j].stage = IF found = {} THEN "queue" ELSE "remove"]
        /\ UNCHANGED <<deposits, stored, infected, archive, isZipReady,
                       zipRebuilds, req, collecting, counts>>

\* The whole transfer, as for an ordinary one.
CondemnedAll(j) == Rows

\* What an infected deposit takes with it: its own files and nothing else.
Condemned(j) == RowsOf(jobs[j].contribution)

\* Whether the disk or the database fails a removal.
Faults == IF Cardinality({j \in Jobs : jobs[j].fault}) < MaxFaults THEN BOOLEAN ELSE {FALSE}

\* rm without force: a missing file ends the removal too.
StoppedByMissing(ids, fault) == fault \/ ~(ids \subseteq disk)

\* A fault of the disk or of the database ends it; a file that is gone does not.
Stopped(ids, fault) == fault

\* The files go one by one.  An error is logged and ends the removal where it
\* stands, the rows stay, and the rebuild follows as if nothing had been found.
RemoveFiles(j) ==
    LET ids == Condemned(j) IN
    /\ Stage(j, "remove")
    /\ \E fault \in Faults, taken \in SUBSET ids :
          /\ Stopped(ids, fault) \/ taken = ids
          /\ disk' = disk \ taken
          /\ jobs' = [jobs EXCEPT
                ![j].fault = fault,
                ![j].removed = IF Stopped(ids, fault) THEN {} ELSE ids,
                ![j].stage = IF Stopped(ids, fault) THEN "queue" ELSE "dropRows"]
    /\ UNCHANGED <<deposits, files, infected, archive, isZipReady,
                   zipRebuilds, req, collecting, counts>>

\* The rows follow their files, or the deleteMany fails: same log, same rebuild.
DropRows(j) ==
    /\ Stage(j, "dropRows")
    /\ \/ /\ files' = [f \in Files |->
                 IF f \in jobs[j].removed THEN [files[f] EXCEPT !.state = "gone"]
                                          ELSE files[f]]
          /\ jobs' = [jobs EXCEPT ![j].stage = "queue"]
       \/ /\ TRUE \in Faults
          /\ UNCHANGED files
          /\ jobs' = [jobs EXCEPT ![j].stage = "queue", ![j].fault = TRUE,
                                  ![j].removed = {}]
    /\ UNCHANGED <<deposits, disk, infected, archive, isZipReady,
                   zipRebuilds, req, collecting, counts>>

\* A rebuild under way stands for the one that is asked for.
CreateZipShared(j) ==
    /\ Stage(j, "queue")
    /\ zipRebuilds' = IF zipRebuilds = <<>> THEN <<j>> ELSE zipRebuilds
    /\ jobs' = [jobs EXCEPT ![j].stage =
                   IF zipRebuilds = <<>> THEN "queued" ELSE "publish"]
    /\ UNCHANGED <<deposits, stored, infected, archive, isZipReady, req, collecting, counts>>

\* ShareService.createZip: one more link of the chain.
CreateZip(j) ==
    /\ Stage(j, "queue")
    /\ zipRebuilds' = Append(zipRebuilds, j)
    /\ jobs' = [jobs EXCEPT ![j].stage = "queued"]
    /\ UNCHANGED <<deposits, stored, infected, archive, isZipReady, req, collecting, counts>>

\* The rebuild before this one has ended, one way or the other.
Turn(j) == zipRebuilds # <<>> /\ Head(zipRebuilds) = j

\* buildZip reads the rows ...
BuildZip(j) ==
    /\ Stage(j, "queued") /\ Turn(j)
    /\ jobs' = [jobs EXCEPT ![j].entries = Rows, ![j].stage = "open"]
    /\ UNCHANGED <<deposits, stored, infected, archive, isZipReady,
                   zipRebuilds, req, collecting, counts>>

\* A rebuild that rejects: the next one runs all the same.
Rejected(j) ==
    /\ jobs' = [jobs EXCEPT ![j].stage = "failed", ![j].entries = {}]
    /\ zipRebuilds' = Tail(zipRebuilds)

\* ... truncates archive.zip and opens the files; one that is missing makes
\* the rebuild reject, or ends the process (see Crash).
OpenArchive(j) ==
    /\ Stage(j, "open")
    /\ \/ /\ jobs[j].entries \subseteq disk
          /\ archive' = [state |-> IF \E k \in Jobs : Stage(k, "build")
                                   THEN "corrupt" ELSE "writing",
                         entries |-> {}]
          /\ jobs' = [jobs EXCEPT ![j].stage = "build"]
          /\ UNCHANGED zipRebuilds
       \/ /\ ~(jobs[j].entries \subseteq disk)
          /\ archive' = [state |-> "torn", entries |-> {}]
          /\ Rejected(j)
    /\ UNCHANGED <<deposits, stored, infected, isZipReady, req, collecting, counts>>

FinishZip(j) ==
    /\ Stage(j, "build")
    /\ archive' = IF archive.state = "writing"
                  THEN [state |-> "whole", entries |-> jobs[j].entries]
                  ELSE archive
    /\ jobs' = [jobs EXCEPT ![j].stage = "publish", ![j].entries = {}]
    /\ zipRebuilds' = Tail(zipRebuilds)
    /\ UNCHANGED <<deposits, stored, infected, isZipReady, req, collecting, counts>>

\* The write fails: a full disk, a folder that is gone.
FailZip(j) ==
    /\ Stage(j, "build")
    /\ archive' = [state |-> "torn", entries |-> {}]
    /\ Rejected(j)
    /\ UNCHANGED <<deposits, stored, infected, isZipReady, req, collecting, counts>>

Publish(j) ==
    /\ Stage(j, "publish")
    /\ isZipReady' = TRUE
    /\ jobs' = [jobs EXCEPT ![j].stage = "done"]
    /\ UNCHANGED <<deposits, stored, infected, archive, zipRebuilds, req, collecting, counts>>

-----------------------------------------------------------------------------
(* The owner, the clock and the process.                                   *)

RemoveFile(r, f) ==
    /\ At(r, "idle") /\ f \in Rows
    /\ removals < MaxRemovals /\ removals' = removals + 1
    /\ req' = [req EXCEPT ![r].pc = "unlink", ![r].file = f]
    /\ UNCHANGED <<deposits, stored, infected, rebuilding, collecting, crashes>>

Unlink(r) ==
    LET f == req[r].file IN
    /\ At(r, "unlink")
    /\ disk' = disk \ {f}
    /\ IF f \in disk THEN GoTo(r, "dropRow") ELSE End(r)
    /\ UNCHANGED <<deposits, files, infected, rebuilding, collecting, counts>>

DropRow(r) ==
    LET f == req[r].file IN
    /\ At(r, "dropRow")
    /\ files' = [files EXCEPT ![f].state = "gone"]
    /\ End(r)
    /\ UNCHANGED <<deposits, disk, infected, rebuilding, collecting, counts>>

\* collectionEndsAt passes, or the owner removes the link: the transfer stays.
StopCollecting ==
    /\ collecting
    /\ collecting' = FALSE
    /\ UNCHANGED <<deposits, stored, infected, rebuilding, req, counts>>

\* A restart while a job is under way: requests, jobs and the chain live in
\* memory, and nothing takes them up again.
Crash ==
    /\ crashes < MaxCrashes
    /\ \E j \in Jobs : jobs[j].stage \notin {"idle", "done", "failed", "lost"}
    /\ crashes' = crashes + 1
    /\ req' = [r \in Requests |-> Idle]
    /\ jobs' = [j \in Jobs |-> IF jobs[j].stage \in {"idle", "done", "failed"}
                               THEN jobs[j] ELSE [NewJob EXCEPT !.stage = "lost"]]
    /\ zipRebuilds' = <<>>
    /\ archive' = IF archive.state = "writing"
                  THEN [state |-> "torn", entries |-> {}] ELSE archive
    /\ UNCHANGED <<deposits, stored, infected, isZipReady, collecting, removals>>

JobStep(j) ==
    \/ Scan(j) \/ RemoveFiles(j) \/ DropRows(j) \/ CreateZip(j)
    \/ BuildZip(j) \/ OpenArchive(j) \/ FinishZip(j) \/ FailZip(j) \/ Publish(j)

Next ==
    \/ \E r \in Requests :
          \/ Open(r) \/ Claim(r) \/ StoreFile(r) \/ Attribute(r) \/ Close(r)
          \/ Unlink(r) \/ DropRow(r)
          \/ \E c \in Contributions :
                \/ CreateContribution(r, c) \/ Complete(r, c)
                \/ \E f \in Files : UploadFile(r, c, f)
          \/ \E f \in Files : RemoveFile(r, f)
          \/ \E j \in Jobs : StartJob(r, j)
    \/ \E j \in Jobs : JobStep(j)
    \/ StopCollecting \/ Crash

Spec == Init /\ [][Next]_vars

-----------------------------------------------------------------------------
(* Properties.                                                             *)

Present(f) == files[f].state = "present"

RowStates == [state : {"absent", "present", "gone"},
              contribution : Contributions \cup {NoContribution}]

Stages == {"idle", "scan", "remove", "dropRows", "queue", "queued", "open",
           "build", "publish", "done", "failed", "lost"}

RequestStates == [pc : {"idle", "claim", "create", "store", "attribute", "stale",
                        "close", "unlink", "dropRow"},
                  contribution : Contributions \cup {NoContribution},
                  file : Files \cup {NoFile}]

JobStates == [stage : Stages, contribution : Contributions \cup {NoContribution},
              listed : SUBSET Files, removed : SUBSET Files, entries : SUBSET Files,
              fault : BOOLEAN]

\* The shape of the state; remainingUses never goes below zero, though it is
\* checked and decremented among many requests (contribution.service.ts:67).
TypeOK ==
    /\ remainingUses \in 0 .. MaxUseCount
    /\ contributions \in [Contributions -> {"absent", "open", "closed"}]
    /\ files \in [Files -> RowStates]
    /\ disk \subseteq Files /\ infected \subseteq Files
    /\ archive \in [state : {"none", "writing", "whole", "torn", "corrupt"},
                    entries : SUBSET Files]
    /\ isZipReady \in BOOLEAN /\ collecting \in BOOLEAN
    /\ zipRebuilds \in Seq(Jobs)
    /\ jobs \in [Jobs -> JobStates]
    /\ req \in [Requests -> RequestStates]
    /\ removals \in 0 .. MaxRemovals /\ crashes \in 0 .. MaxCrashes

\* A rebuild that has begun is the first of the chain.
BuilderIsFirst ==
    \A j \in Jobs : jobs[j].stage \in {"open", "build"} => Turn(j)

\* Two rebuilds never write archive.zip at once, and the archive is half
\* written exactly while one does.
OneWriter ==
    /\ archive.state # "corrupt"
    /\ archive.state = "writing" <=> \E j \in Jobs : Stage(j, "build")

Opened == {c \in Contributions : contributions[c] # "absent"}
Claimed == {r \in Requests : At(r, "create")}

\* No more contributions are opened than the link allows, counting the
\* requests that have claimed their use and not made their row.
UsesBounded == remainingUses + Cardinality(Opened) + Cardinality(Claimed) <= MaxUseCount

BytesHaveRows == \A f \in disk : Present(f)

\* An upload that has not stored its file yet is alone with its id.
UploadsApart ==
    \A r \in Requests : At(r, "store") =>
        /\ req[r].file # NoFile /\ files[req[r].file] = NoRow
        /\ \A q \in Requests \ {r} : req[q].file # req[r].file

\* Only a row that is or was there is being deleted, and its bytes go first.
RemovalsKnown ==
    \A r \in Requests : req[r].pc \in {"unlink", "dropRow"} =>
        /\ req[r].file # NoFile /\ files[req[r].file].state # "absent"
        /\ At(r, "dropRow") => req[r].file \notin disk

ClosingsOpened ==
    \A r \in Requests : req[r].pc \in {"stale", "close"} => req[r].contribution \in Opened

\* What a scan listed keeps the contribution it looked for, and a removal
\* follows something infected.
ListedAttributed ==
    \A j \in Jobs :
        /\ jobs[j].stage \in {"scan", "remove"} \/ jobs[j].listed # {}
              => jobs[j].contribution # NoContribution
        /\ Stage(j, "remove") => jobs[j].listed \cap infected # {}
        /\ \A f \in jobs[j].listed :
              files[f].state # "absent" /\ files[f].contribution = jobs[j].contribution

\* What a removal took is off the disk, and then without a row.
RemovedGone ==
    \A j \in Jobs : \A f \in jobs[j].removed :
        /\ f \notin disk /\ files[f].state # "absent"
        /\ Stage(j, "dropRows") \/ files[f].state = "gone"

RowsInv ==
    /\ BytesHaveRows /\ UploadsApart /\ RemovalsKnown
    /\ ClosingsOpened /\ ListedAttributed /\ RemovedGone

\* An archive with these entries is what the closing asked for.
Fits(j, entries) ==
    /\ entries \cap jobs[j].removed = {}
    /\ \A f \in jobs[j].listed : Present(f) => f \in entries

\* What a rebuild is writing fits its own closing and those that ended before.
EntriesFit ==
    \A k \in Jobs : jobs[k].stage \in {"open", "build"} =>
        \A j \in Jobs : j = k \/ jobs[j].stage \in {"publish", "done"}
            => Fits(j, jobs[k].entries)

\* The inductive invariant of a collection: deposits closed in the same second
\* rebuild the archive one after the other and never interleave into a
\* corrupt file (share.service.ts:183), each rebuild fits every closing that
\* ended before it, and the uses of the link bind however many requests read
\* the collection before they claimed one (contribution.service.ts:53).
CollectionInv == BuilderIsFirst /\ OneWriter /\ UsesBounded /\ RowsInv /\ EntriesFit

\* Once a closing has rebuilt the archive, no archive anybody can download
\* holds a file its scan took away, bytes and row, however many rebuilds were
\* under way when the scan was (contribution.service.ts:104).
RemovedStaysOut ==
    \A j \in Jobs :
        jobs[j].stage \in {"publish", "done"} /\ archive.state = "whole"
            => archive.entries \cap jobs[j].removed = {}

\* ... and every whole archive holds what the scan let through and nobody has
\* deleted since: "tout télécharger" has the files of every closed deposit
\* (docs/collecte-conteneur-unique.md:419).
DepositInArchive ==
    \A j \in Jobs :
        jobs[j].stage \in {"publish", "done"} /\ archive.state = "whole"
            => \A f \in jobs[j].listed : Present(f) => f \in archive.entries

\* What a scan has looked at and found infected is off the disk before the
\* archive is rebuilt, also when the owner is deleting the same files, unless
\* the disk or the database failed the removal (clamscan.service.ts:347, and
\* its catch at 371: the rebuild then goes on with what is left).
InfectedRemoved ==
    \A j \in Jobs :
        jobs[j].stage \notin {"idle", "scan", "remove", "lost"} /\ ~jobs[j].fault
            => jobs[j].listed \cap infected \cap disk = {}

\* Bytes leave the transfer because the owner deletes the file or because
\* something its own contributor sent is infected, never for what another
\* contributor sent (clamscan.service.ts:304).
OnlyOwnDepositRemoved ==
    [][\A f \in disk \ disk' :
          \/ \E r \in Requests : At(r, "unlink") /\ req[r].file = f
          \/ \E g \in infected :
                /\ files[g].contribution = files[f].contribution
                /\ files[g].contribution # NoContribution]_vars
=============================================================================
