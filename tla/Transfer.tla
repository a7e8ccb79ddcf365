------------------------------- MODULE Transfer -------------------------------
(***************************************************************************)
(* The life of one transfer, from its first file to its deletion          *)
(* (share/share.service.ts, file/file.service.ts, file/local.service.ts,  *)
(* clamscan/clamscan.service.ts, jobs/jobs.service.ts).                   *)
(*                                                                         *)
(* Its owner uploads files and completes it: the recipients are mailed    *)
(* one by one, the antivirus and the rebuild of the archive start in the  *)
(* background, and the transfer is locked last of all.  The owner may     *)
(* reopen it (revertComplete), change its files and complete it again,    *)
(* while what the first completion started is still running.  A job       *)
(* deletes what stayed unfinished for a day, from a list it read before,  *)
(* and the process may restart at any point.                              *)
(*                                                                         *)
(* Each action is what one handler does between two awaits that other     *)
(* handlers can get in between.  The transfer has a signed-in creator and *)
(* is no collection; its storage is local, without files imported from a  *)
(* NAS.  An upload is the request of its last chunk.  Removing the folder *)
(* is one step: nothing creates it again (fs.mkdir is only in create).    *)
(***************************************************************************)
EXTENDS Naturals, Sequences, FiniteSets

CONSTANTS
    Files,              \* ids of File rows
    NoFile,
    Uploaded,           \* those that are there when we start to look
    Infected,           \* those an antivirus would stop
    Recipients,         \* the addresses the transfer was created with
    Registered,         \* those that have an account
    MaxConcurrent,      \* HTTP requests of the owner at a time
    MaxRequests,        \* bounds what the owner asks for
    MaxReverts,
    MaxCrashes

ASSUME NoFileAssumption == NoFile \notin Files
ASSUME SubsetsAssumption ==
    Uploaded \cup Infected \subseteq Files /\ Registered \subseteq Recipients
ASSUME RecipientsAssumption == IsFiniteSet(Recipients)
ASSUME BoundsAssumption == {MaxConcurrent, MaxRequests, MaxReverts, MaxCrashes} \subseteq Nat

VARIABLES
    share,              \* the Share row; today: updatedAt is of the last day
    rows,               \* its File rows
    disk,               \* the files whose bytes are in its folder
    folder,             \* the folder is there
    archive,            \* archive.zip, its entries and the completion it is for
    zipRebuilds,        \* the promise chain: rebuilds that have not ended
    publishing,         \* rebuilds that ended and have not set isZipReady yet
    scans,              \* how many runs of checkAndRemove are at each point
    mailed, linked,     \* who was mailed; the accounts the transfer appears in
    req,
    deleted,            \* history: the ids whose row was deleted
    sweep,              \* deleteUnfinishedShares
    promised,           \* the files the mails of the last completion named
    asked,              \* rebuilds asked for
    requests, reverts, crashes

counts == <<requests, reverts, crashes>>
stored == <<deleted, rows, disk, folder>>
zipping == <<archive, zipRebuilds, publishing, asked>>
people == <<mailed, linked, promised>>
vars == <<share, stored, zipping, scans, people, req, sweep, counts>>

Idle == [pc |-> "idle", file |-> NoFile, files |-> {}, to |-> {}]
NoArchive == [state |-> "none", entries |-> {}, of |-> 0]

Requests == 1 .. MaxConcurrent

ScanPoints == {"list", "wipe", "rows", "stamp"}

Init ==
    /\ share = [exists |-> TRUE, uploadLocked |-> FALSE, isZipReady |-> FALSE,
                removed |-> FALSE, today |-> TRUE]
    /\ deleted = {} /\ rows = Uploaded /\ disk = Uploaded /\ folder = TRUE
    /\ archive = NoArchive /\ zipRebuilds = <<>> /\ publishing = 0 /\ asked = 0
    /\ scans = [p \in ScanPoints |-> 0]
    /\ mailed = {} /\ linked = {} /\ promised = {}
    /\ req = [r \in Requests |-> Idle]
    /\ sweep = "idle"
    /\ requests = 0 /\ reverts = 0 /\ crashes = 0

At(r, pc) == req[r].pc = pc
GoTo(r, pc) == req' = [req EXCEPT ![r].pc = pc]
End(r) == req' = [req EXCEPT ![r] = Idle]

\* The owner asks for something, in the first slot that is free:
\* StrictShareOwnerGuard finds the transfer.
Free(r) == At(r, "idle") /\ \A q \in 1 .. r - 1 : ~At(q, "idle")

Asks(r) ==
    /\ Free(r) /\ share.exists
    /\ requests < MaxRequests /\ requests' = requests + 1
    /\ UNCHANGED <<reverts, crashes>>

-----------------------------------------------------------------------------
(* The owner changes the files.                                            *)

\* Rows go, and one with the same id may come back.
Forget == deleted' = deleted \cup (rows \ rows')

\* FileService.create refuses an id some row has, and no other: two uploads under
\* way may carry the same one.  Then touchShare, and the storage.
UploadFile(r, f) ==
    /\ Asks(r)
    /\ f \notin rows
    /\ share' = [share EXCEPT !.today = TRUE]
    /\ req' = [req EXCEPT ![r] = [Idle EXCEPT !.pc = "check", !.file = f]]
    /\ UNCHANGED <<stored, zipping, scans, people, sweep>>

\* LocalFileService.create reads the transfer ...
CheckUnlocked(r) ==
    /\ At(r, "check")
    /\ IF share.exists /\ ~share.uploadLocked THEN GoTo(r, "store") ELSE End(r)
    /\ UNCHANGED <<share, stored, zipping, scans, people, sweep, counts>>

\* A slip: a storage that makes the folder it misses.
StoreFileAnywhere(r) ==
    LET f == req[r].file IN
    /\ At(r, "store")
    /\ disk' = disk \cup {f} /\ folder' = TRUE
    /\ GoTo(r, "row")
    /\ UNCHANGED <<share, deleted, rows, zipping, scans, people, sweep, counts>>

\* ... appends to a file and renames it, in a folder it does not make, unless
\* the chunk is not the one it expects or a limit is met ...
StoreFile(r) ==
    LET f == req[r].file IN
    /\ At(r, "store")
    /\ \/ /\ folder
          /\ disk' = disk \cup {f}
          /\ GoTo(r, "row")
       \/ End(r) /\ UNCHANGED disk
    /\ UNCHANGED <<share, deleted, rows, folder, zipping, scans, people, sweep, counts>>

\* ... and makes the row, of a transfer that has to be there; a row that has the
\* id by now is an error.
CreateRow(r) ==
    /\ At(r, "row")
    /\ rows' = IF share.exists THEN rows \cup {req[r].file} ELSE rows
    /\ End(r)
    /\ UNCHANGED <<share, deleted, disk, folder, zipping, scans, people, sweep, counts>>

RemoveFile(r, f) ==
    /\ Asks(r) /\ f \in rows
    /\ req' = [req EXCEPT ![r] = [Idle EXCEPT !.pc = "unlink", !.file = f]]
    /\ UNCHANGED <<share, stored, zipping, scans, people, sweep>>

Unlink(r) ==
    LET f == req[r].file IN
    /\ At(r, "unlink")
    /\ disk' = disk \ {f}
    /\ IF f \in disk THEN GoTo(r, "dropRow") ELSE End(r)
    /\ UNCHANGED <<share, deleted, rows, folder, zipping, scans, people, sweep, counts>>

DropRow(r) ==
    /\ At(r, "dropRow")
    /\ rows' = rows \ {req[r].file} /\ Forget
    /\ End(r)
    /\ UNCHANGED <<share, disk, folder, zipping, scans, people, sweep, counts>>

-----------------------------------------------------------------------------
(* Completing and reopening.                                               *)

\* complete reads the transfer, its files and its recipients ...
Complete(r) ==
    /\ Asks(r)
    /\ req' = [req EXCEPT ![r] = [Idle EXCEPT !.pc = "completed", !.files = rows]]
    /\ UNCHANGED <<share, stored, zipping, scans, people, sweep>>

\* A slip: a rebuild under way stands for the one that is asked for.
CheckCompletedShared(r) ==
    /\ At(r, "completed")
    /\ \/ /\ share.exists /\ ~share.uploadLocked /\ req[r].files # {}
          /\ req' = [req EXCEPT ![r].pc = "mail", ![r].to = Recipients]
          /\ IF Cardinality(req[r].files) > 1 /\ zipRebuilds = <<>>
             THEN /\ asked' = asked + 1
                  /\ zipRebuilds' = <<[of |-> asked + 1, stage |-> "queued",
                                       entries |-> {}]>>
             ELSE UNCHANGED <<asked, zipRebuilds>>
       \/ /\ ~share.exists \/ share.uploadLocked \/ req[r].files = {}
          /\ End(r) /\ UNCHANGED <<asked, zipRebuilds>>
    /\ UNCHANGED <<share, stored, archive, publishing, scans, people, sweep, counts>>

\* ... and reads again whether it is completed; createZip queues a rebuild
\* nobody waits for when there is more than one file.
CheckCompleted(r) ==
    /\ At(r, "completed")
    /\ \/ /\ share.exists /\ ~share.uploadLocked /\ req[r].files # {}
          /\ req' = [req EXCEPT ![r].pc = "mail", ![r].to = Recipients]
          /\ IF Cardinality(req[r].files) > 1
             THEN /\ asked' = asked + 1
                  /\ zipRebuilds' = Append(zipRebuilds,
                        [of |-> asked + 1, stage |-> "queued", entries |-> {}])
             ELSE UNCHANGED <<asked, zipRebuilds>>
       \/ /\ ~share.exists \/ share.uploadLocked \/ req[r].files = {}
          /\ End(r) /\ UNCHANGED <<asked, zipRebuilds>>
    /\ UNCHANGED <<share, stored, archive, publishing, scans, people, sweep, counts>>

\* A slip: a refused mail is logged like the sender's own receipt, and the next goes out.
MailCaught(r) ==
    /\ At(r, "mail") /\ req[r].to # {}
    /\ \E p \in req[r].to :
          /\ mailed' \in {mailed, mailed \cup {p}}
          /\ req' = [req EXCEPT ![r].to = @ \ {p}]
    /\ UNCHANGED <<share, stored, zipping, scans, linked, promised, sweep, counts>>

\* One mail after the other; one that is refused ends the completion.
Mail(r) ==
    /\ At(r, "mail") /\ req[r].to # {}
    /\ \/ \E p \in req[r].to :
             /\ mailed' = mailed \cup {p}
             /\ req' = [req EXCEPT ![r].to = @ \ {p}]
       \/ End(r) /\ UNCHANGED mailed
    /\ UNCHANGED <<share, stored, zipping, scans, linked, promised, sweep, counts>>

Mailed(r) == At(r, "mail") /\ req[r].to = {}

\* The accounts of the recipients get the transfer, one upsert after the other.
LinkUser(r) ==
    /\ Mailed(r)
    /\ \E p \in Registered \ linked : linked' = linked \cup {p}
    /\ UNCHANGED <<share, stored, zipping, scans, mailed, promised, req, sweep, counts>>

\* void checkAndRemove, on the way to the last update.
StartScan(r) ==
    /\ Mailed(r) /\ Registered \subseteq linked
    /\ scans' = [scans EXCEPT !["list"] = @ + 1]
    /\ GoTo(r, "lock")
    /\ UNCHANGED <<share, stored, zipping, people, sweep, counts>>

Lock(r) ==
    /\ At(r, "lock")
    /\ \/ /\ share.exists
          /\ share' = [share EXCEPT !.uploadLocked = TRUE, !.today = TRUE]
          /\ promised' = req[r].files
       \/ ~share.exists /\ UNCHANGED <<share, promised>>
    /\ End(r)
    /\ UNCHANGED <<stored, zipping, scans, mailed, linked, sweep, counts>>

\* The row it changes carries a date of change (@updatedAt).
Reopened == [share EXCEPT !.uploadLocked = FALSE, !.isZipReady = FALSE, !.today = TRUE]

RevertComplete(r) ==
    /\ Free(r) /\ share.exists
    /\ reverts < MaxReverts /\ reverts' = reverts + 1
    /\ share' = Reopened
    /\ UNCHANGED <<stored, zipping, scans, people, req, sweep, requests, crashes>>

-----------------------------------------------------------------------------
(* The archive.                                                            *)

\* What the rebuild whose turn it is does; the others wait for its end.
Rebuilding(stage) == zipRebuilds # <<>> /\ Head(zipRebuilds).stage = stage

\* buildZip reads the rows and opens archive.zip and the files; without the
\* folder there is nothing to open, and a file that is missing leaves half an
\* archive.
BuildZip ==
    LET rebuild == Head(zipRebuilds) IN
    /\ Rebuilding("queued")
    /\ \/ /\ folder /\ rows \subseteq disk
          /\ archive' = [state |-> "writing", entries |-> {}, of |-> rebuild.of]
          /\ zipRebuilds' = [zipRebuilds EXCEPT ![1].stage = "build", ![1].entries = rows]
       \/ /\ ~(folder /\ rows \subseteq disk)
          /\ archive' = IF folder THEN [NoArchive EXCEPT !.state = "torn"] ELSE archive
          /\ zipRebuilds' = Tail(zipRebuilds)
    /\ UNCHANGED <<share, stored, publishing, asked, scans, people, req, sweep, counts>>

\* An archive that was deleted meanwhile is written to nowhere.
FinishZip ==
    LET rebuild == Head(zipRebuilds) IN
    /\ Rebuilding("build")
    /\ archive' = IF archive.state = "writing"
                  THEN [archive EXCEPT !.state = "whole", !.entries = rebuild.entries]
                  ELSE archive
    /\ zipRebuilds' = Tail(zipRebuilds)
    /\ publishing' = publishing + 1
    /\ UNCHANGED <<share, stored, asked, scans, people, req, sweep, counts>>

FailZip ==
    /\ Rebuilding("build")
    /\ archive' = IF archive.state = "writing"
                  THEN [NoArchive EXCEPT !.state = "torn"] ELSE archive
    /\ zipRebuilds' = Tail(zipRebuilds)
    /\ UNCHANGED <<share, stored, publishing, asked, scans, people, req, sweep, counts>>

\* A slip: the archive is called ready before its rebuild has ended.
PublishEarly ==
    /\ zipRebuilds # <<>> \/ publishing > 0
    /\ publishing' = publishing - 1
    /\ share' = IF share.exists
                THEN [share EXCEPT !.isZipReady = TRUE, !.today = TRUE] ELSE share
    /\ UNCHANGED <<stored, archive, zipRebuilds, asked, scans, people, req, sweep, counts>>

\* The then of complete: the update of a row that is gone is refused.
Publish ==
    /\ publishing > 0 /\ publishing' = publishing - 1
    /\ share' = IF share.exists
                THEN [share EXCEPT !.isZipReady = TRUE, !.today = TRUE] ELSE share
    /\ UNCHANGED <<stored, archive, zipRebuilds, asked, scans, people, req, sweep, counts>>

-----------------------------------------------------------------------------
(* The antivirus, and deletions.                                           *)

\* deleteAllFiles, or a quarantine: nothing stays in the folder.
FolderGone == disk' = {} /\ folder' = FALSE /\ archive' = NoArchive

\* The row goes, and its files with it; a row that is gone is an error.
DeleteRow ==
    IF share.exists THEN share' = [share EXCEPT !.exists = FALSE] /\ rows' = {} /\ Forget
                    ELSE UNCHANGED <<share, rows, deleted>>

\* A scan goes on to another point, or ends.
Scanning(p) == scans[p] > 0
ScanGoesTo(p, q) == scans' = [scans EXCEPT ![p] = @ - 1, ![q] = @ + 1]
ScanEnds(p) == scans' = [scans EXCEPT ![p] = @ - 1]

\* ClamScanService.check lists the folder; one that is not there has no files.
ListFolder ==
    /\ Scanning("list")
    /\ IF disk \cap Infected = {} THEN ScanEnds("list") ELSE ScanGoesTo("list", "wipe")
    /\ UNCHANGED <<share, stored, zipping, people, req, sweep, counts>>

\* Deleting a folder that is gone is nothing, moving one is an error.
RemoveInfected ==
    /\ Scanning("wipe")
    /\ \/ FolderGone /\ ScanGoesTo("wipe", "rows")
       \/ ~folder /\ ScanEnds("wipe") /\ UNCHANGED <<disk, folder, archive>>
    /\ UNCHANGED <<share, deleted, rows, zipRebuilds, publishing, asked, people, req,
                   sweep, counts>>

DropRows ==
    /\ Scanning("rows")
    /\ rows' = {} /\ Forget
    /\ ScanGoesTo("rows", "stamp")
    /\ UNCHANGED <<share, disk, folder, zipping, people, req, sweep, counts>>

\* removedReason.
StampRemoved ==
    /\ Scanning("stamp")
    /\ share' = IF share.exists THEN [share EXCEPT !.removed = TRUE, !.today = TRUE]
                                ELSE share
    /\ ScanEnds("stamp")
    /\ UNCHANGED <<stored, zipping, people, req, sweep, counts>>

\* ShareService.remove, of a transfer nobody has paid for.
Remove(r) ==
    /\ Asks(r)
    /\ GoTo(r, "wipe")
    /\ UNCHANGED <<share, stored, zipping, scans, people, sweep>>

RemoveFolder(r) ==
    /\ At(r, "wipe")
    /\ FolderGone /\ GoTo(r, "delete")
    /\ UNCHANGED <<share, deleted, rows, zipRebuilds, publishing, asked, scans, people,
                   sweep, counts>>

RemoveRow(r) ==
    /\ At(r, "delete")
    /\ DeleteRow
    /\ End(r)
    /\ UNCHANGED <<disk, folder, zipping, scans, people, sweep, counts>>

\* A slip: only what never got a file is unfinished.
SweepEmpty ==
    /\ sweep = "idle"
    /\ share.exists /\ ~share.uploadLocked /\ ~share.today /\ rows = {}
    /\ sweep' = "wipe"
    /\ UNCHANGED <<share, stored, zipping, scans, people, req, counts>>

\* deleteUnfinishedShares reads its list ...
Sweep ==
    /\ sweep = "idle"
    /\ share.exists /\ ~share.uploadLocked /\ ~share.today
    /\ sweep' = "wipe"
    /\ UNCHANGED <<share, stored, zipping, scans, people, req, counts>>

\* ... and goes through it without looking again.
SweepFolder ==
    /\ sweep = "wipe"
    /\ FolderGone /\ sweep' = "delete"
    /\ UNCHANGED <<share, deleted, rows, zipRebuilds, publishing, asked, scans, people,
                   req, counts>>

SweepRow ==
    /\ sweep = "delete"
    /\ DeleteRow
    /\ sweep' = "idle"
    /\ UNCHANGED <<disk, folder, zipping, scans, people, req, counts>>

\* A day in which the owner did nothing: no request takes that long.
DayPasses ==
    /\ share.today
    /\ \A r \in Requests : At(r, "idle")
    /\ share' = [share EXCEPT !.today = FALSE]
    /\ UNCHANGED <<stored, zipping, scans, people, req, sweep, counts>>

\* A restart while something is under way: requests, scans, the sweep and the
\* chain live in memory.
Crash ==
    /\ crashes < MaxCrashes /\ crashes' = crashes + 1
    /\ \/ \E r \in Requests : ~At(r, "idle")
       \/ zipRebuilds # <<>> \/ publishing > 0
       \/ (\E p \in ScanPoints : Scanning(p)) \/ sweep # "idle"
    /\ req' = [r \in Requests |-> Idle]
    /\ scans' = [p \in ScanPoints |-> 0]
    /\ sweep' = "idle"
    /\ zipRebuilds' = <<>> /\ publishing' = 0
    /\ archive' = IF archive.state = "writing"
                  THEN [NoArchive EXCEPT !.state = "torn"] ELSE archive
    /\ UNCHANGED <<share, stored, asked, people, requests, reverts>>

-----------------------------------------------------------------------------

RequestStep(r) ==
    \/ CheckUnlocked(r) \/ StoreFile(r) \/ CreateRow(r) \/ Unlink(r) \/ DropRow(r)
    \/ CheckCompleted(r) \/ Mail(r) \/ LinkUser(r) \/ StartScan(r)
    \/ Lock(r) \/ RemoveFolder(r) \/ RemoveRow(r)

Owner(r) ==
    \/ Complete(r) \/ RevertComplete(r) \/ Remove(r)
    \/ \E f \in Files : UploadFile(r, f) \/ RemoveFile(r, f)

ZipStep == BuildZip \/ FinishZip \/ FailZip \/ Publish

ScanStep == ListFolder \/ RemoveInfected \/ DropRows \/ StampRemoved

SweepStep == Sweep \/ SweepFolder \/ SweepRow

Program ==
    \/ \E r \in Requests : RequestStep(r)
    \/ ZipStep \/ ScanStep \/ SweepStep \/ DayPasses

Next == (\E r \in Requests : Owner(r)) \/ Program \/ Crash

Spec == Init /\ [][Next]_vars

\* While it has something to do the program does something: handlers end, the
\* clock goes on and cron keeps calling the sweep.  Nothing makes the owner
\* come back.
Fairness == WF_vars(Program)

FairSpec == Spec /\ Fairness

-----------------------------------------------------------------------------
(* Properties.                                                             *)

RequestStates ==
    [pc : {"idle", "check", "store", "row", "unlink", "dropRow", "completed", "mail",
           "lock", "wipe", "delete"},
     file : Files \cup {NoFile}, files : SUBSET Files, to : SUBSET Recipients]

\* The shape of the state; a rebuild is called ready at most once, after it has
\* ended (share.service.ts:299).
TypeOK ==
    /\ share \in [exists : BOOLEAN, uploadLocked : BOOLEAN, isZipReady : BOOLEAN,
                  removed : BOOLEAN, today : BOOLEAN]
    /\ deleted \subseteq Files /\ rows \subseteq Files /\ disk \subseteq Files
    /\ folder \in BOOLEAN
    /\ archive \in [state : {"none", "writing", "whole", "torn"},
                    entries : SUBSET Files, of : 0 .. asked]
    /\ zipRebuilds \in Seq([of : 1 .. asked, stage : {"queued", "build"},
                            entries : SUBSET Files])
    /\ publishing \in Nat /\ asked \in Nat
    /\ scans \in [ScanPoints -> Nat]
    /\ mailed \subseteq Recipients /\ linked \subseteq Registered
    /\ promised \subseteq Files
    /\ req \in [Requests -> RequestStates]
    /\ sweep \in {"idle", "wipe", "delete"}
    /\ requests \in 0 .. MaxRequests /\ reverts \in 0 .. MaxReverts
    /\ crashes \in 0 .. MaxCrashes

\* A transfer that can be read has reached everybody it was for: each
\* recipient was mailed and sees it in their account, whatever mail was
\* refused, whatever restart came in between and whoever else was completing
\* it (share.service.ts:306).
LockedIsDelivered ==
    share.uploadLocked => mailed = Recipients /\ linked = Registered

\* What was deleted, or removed by the antivirus, leaves no bytes and no
\* archive behind: neither file routes look at removedReason, and an upload or
\* a rebuild that was under way does not bring anything back
\* (clamscan.service.ts:363, file.service.ts:212).
GoneServesNothing ==
    share.removed \/ ~share.exists => disk = {} /\ archive.state = "none"

\* Once the last rebuild that was asked for is written, the archive has every
\* file the mails named and nobody ever deleted, also when the transfer was
\* reopened while an earlier rebuild was running (share.service.ts:297).  A file
\* that was deleted and sent again under its id may have come too late for it.
PromisedInArchive ==
    /\ share.uploadLocked /\ Cardinality(promised) > 1
    /\ archive.state = "whole" /\ archive.of = asked
    => promised \ deleted \subseteq archive.entries

\* No transfer stays half done for ever: mails that were refused, restarts and
\* sweeps that were cut short included, it ends up completed or deleted
\* (jobs.service.ts:106).
EveryTransferSettles == <>[](share.exists => share.uploadLocked)
=============================================================================
