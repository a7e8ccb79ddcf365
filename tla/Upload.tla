------------------------------- MODULE Upload -------------------------------
(***************************************************************************)
(* Sending the files of a transfer, seen from both ends: the chunk loop of *)
(* the pages (UploadPage.uploadOneFile, EditableUpload.uploadFiles) and    *)
(* the request handler that appends the chunks on the local disk           *)
(* (FileService.create, LocalFileService.create), with the network between *)
(* them. A loop sends one chunk, waits for the answer and sends the next;  *)
(* a failed request starts the file over, and the server answers a chunk   *)
(* it does not expect with the one it does, from which the loop resumes.   *)
(*                                                                         *)
(* A chunk is its index, a file on disk the sequence of the chunks it was  *)
(* given. The bytes, the names, the limits on sizes and the progress bar   *)
(* between its ends are left out: a refusal by a limit, the quota or a     *)
(* full disk is a failed request (action Fail).                            *)
(***************************************************************************)
EXTENDS Naturals, FiniteSets, Sequences

CONSTANTS
    File,         \* files a visitor may drop on the page
    Order,        \* [File -> Nat]: the order of their rows on the page
    Batches,      \* the sets of files a submission is explored with
    Chunks,       \* [File -> Nat \ {0}]: how many chunks each is cut into
    Handler,      \* places for the requests the server works on at a time
    MaxId,        \* bound: file ids the page can mint
    MaxAttempts,  \* failures in a row after which a loop gives up
    Limit,        \* loops that run at the same time (promiseLimit)
    Twice,        \* bound: the files a second run may be started for while one is at work
    Pages,        \* the pages that send a set of files: "send", "combined", "edit"
    Faults,       \* the sets of kinds of failure explored, see FaultKind
    MaxFaults,    \* [Batches \X Faults -> Nat], bound: failures while a batch is sent
    Torn,         \* on the disk, a chunk of which only a part was written
    None

FaultKind == {"lost", "error", "crash", "abandon", "torn"}

ASSUME ChunksAssumption == Chunks \in [File -> Nat \ {0}]
ASSUME OrderAssumption ==
    /\ Order \in [File -> Nat]
    /\ \A f, g \in File : Order[f] = Order[g] => f = g
ASSUME LimitAssumption ==
    /\ MaxAttempts \in Nat \ {0}
    /\ Limit \in Nat \ {0}
    /\ MaxId \in Nat
    /\ IsFiniteSet(File)
    /\ Batches \subseteq (SUBSET File) \ {{}}
    /\ MaxFaults \in [Batches \X Faults -> Nat]
ASSUME KindAssumption == 
    /\ Pages \in [Batches -> SUBSET {"send", "combined", "edit"}]
    /\ Faults \subseteq SUBSET FaultKind
    /\ Twice \subseteq File
    /\ None \notin File /\ None \notin Handler /\ None \notin Nat
    /\ Torn \notin Nat

VARIABLES
    batch,     \* the files submitted
    page,      \* the page that sends: "send", "combined" (with a NAS import), "edit"
    kinds,     \* the kinds of failure this submission may meet
    list,      \* the rows of the page's file list
    progress,  \* [File -> uploadingProgress]: "queued" 0, "sending", "done" 100, "failed" -1
    loop,      \* [Loop -> one run of uploadOneFile]
    minted,    \* file ids generated so far
    handler,   \* [Handler -> the request it works on]
    tmp,       \* [Id -> the chunks in <id>.tmp-chunk, in the order they were appended]
    disk,      \* [Id -> the chunks of the stored file]
    row,       \* [Id -> the visitor's file the database row stands for, or None]
    nas,       \* nasSubmissionActiveRef: importFromNas decides when to complete
    promised,  \* the files the page held sent when it asked to complete
    locked,    \* uploadLocked
    faults     \* failures so far

vars == <<batch, page, kinds, list, progress, loop, minted, handler, tmp, disk, row, nas,
          promised, locked, faults>>

\* A file has at most two runs at a time: the one that sends it and a retry.
Loop == (File \X {1}) \cup (Twice \X {2})
Id   == 1..MaxId
LastChunk(f) == Chunks[f] - 1

LoopState ==
    [pc : {"idle", "queued", "send", "wait", "backoff", "sent", "failed"},
     at : Nat, tries : 0..(MaxAttempts - 1), id : Id \cup {None},
     on : Handler \cup {None}]

HandlerState ==
    [pc : {"free", "check", "stat", "append", "move", "row", "reply"},
     file : File \cup {None}, id : Id \cup {None}, at : Nat,
     answer : {"ok", "unexpected", "error"}, expected : Nat]

TypeOK ==
    /\ batch \in Batches
    /\ page \in {"send", "combined", "edit"}
    /\ kinds \in Faults
    /\ list \subseteq batch
    /\ progress \in [File -> {"queued", "sending", "done", "failed"}]
    /\ loop \in [Loop -> LoopState]
    /\ minted \in 0..MaxId
    /\ handler \in [Handler -> HandlerState]
    /\ tmp \in [Id -> Seq(Nat \cup {Torn})]
    /\ disk \in [Id -> Seq(Nat \cup {Torn})]
    /\ row \in [Id -> File \cup {None}]
    /\ nas \in BOOLEAN
    /\ promised \subseteq batch
    /\ locked \in BOOLEAN
    /\ faults \in 0..MaxFaults[<<batch, kinds>>]

RunAt(pc, at, tries, id, on) ==
    [pc |-> pc, at |-> at, tries |-> tries, id |-> id, on |-> on]

NoRun == RunAt("idle", 0, 0, None, None)

HandlerAt(pc, f, id, at) ==
    [pc |-> pc, file |-> f, id |-> id, at |-> at, answer |-> "ok", expected |-> 0]

Free == HandlerAt("free", None, None, 0)

\* The submission has just started: uploadFiles, importFromNas or save has
\* queued a run for every file of the list.
Init ==
    /\ batch \in Batches
    /\ page \in Pages[batch]
    /\ kinds \in Faults
    /\ list = batch
    /\ progress = [f \in File |-> "queued"]
    /\ loop = [l \in Loop |-> IF l[1] \in batch /\ l[2] = 1
                              THEN RunAt("queued", 0, 0, None, None)
                              ELSE NoRun]
    /\ minted = 0
    /\ handler = [h \in Handler |-> Free]
    /\ tmp = [i \in Id |-> << >>]
    /\ disk = [i \in Id |-> << >>]
    /\ row = [i \in Id |-> None]
    /\ nas = (page = "combined")
    /\ promised = {}
    /\ locked = FALSE
    /\ faults = 0

serverVars == <<handler, tmp, disk, row, locked>>
pageVars   == <<batch, page, kinds, list, progress, loop, minted, nas, promised>>

Running(l) == loop[l].pc \in {"send", "wait", "backoff"}
Ended(l)   == loop[l].pc \in {"sent", "failed"}

Fault(kind) ==
    /\ kind \in kinds
    /\ faults < MaxFaults[<<batch, kinds>>]
    /\ faults' = faults + 1

-----------------------------------------------------------------------------
(* The page                                                                *)

\* How many rows stand above f's.
Position(f, rows) == Cardinality({g \in rows : Order[g] < Order[f]})

\* The rows a run writes its progress to: its file's own, wherever that is. The
\* edit page goes by position: it writes to the row that now stands where the
\* file stood when its visitor saved, if there is one.
Shown(f) ==
    IF page = "edit" THEN {g \in list : Position(g, list) = Position(f, batch)} ELSE {f}

Show(f, mark) ==
    progress' = [g \in File |-> IF g \in Shown(f) THEN mark ELSE progress[g]]

\* promiseLimit lets a queued run start.
Begin(l) ==
    /\ loop[l].pc = "queued"
    /\ Cardinality({m \in Loop : Running(m)}) < Limit
    /\ loop' = [loop EXCEPT ![l] = RunAt("send", 0, 0, None, None)]
    /\ Show(l[1], "sending")
    /\ UNCHANGED <<batch, page, kinds, list, minted, nas, promised, faults, serverVars>>

\* One turn of the chunk loop. Without an id from an earlier answer,
\* uploadFile mints a new one for this request.
Send(l, h) ==
    /\ loop[l].pc = "send"
    /\ handler[h].pc = "free"
    /\ LET id == IF loop[l].id = None THEN minted + 1 ELSE loop[l].id IN
        /\ id \in Id
        /\ minted' = IF loop[l].id = None THEN id ELSE minted
        /\ handler' = [handler EXCEPT ![h] = HandlerAt("check", l[1], id, loop[l].at)]
        /\ loop' = [loop EXCEPT
                      ![l] = RunAt("wait", loop[l].at, loop[l].tries, loop[l].id, h)]
    /\ UNCHANGED <<batch, page, kinds, list, progress, nas, promised, tmp, disk, row, locked, faults>>

\* A slip: one failure too many before the run gives up.
FailedLate(l) ==
    IF page # "edit" /\ loop[l].tries >= MaxAttempts
    THEN RunAt("failed", 0, 0, None, None)
    ELSE RunAt("backoff", 0, IF page = "edit" THEN 0 ELSE loop[l].tries + 1, loop[l].id, None)

\* A slip: the failures are not counted.
FailedUncounted(l) == RunAt("backoff", 0, loop[l].tries, loop[l].id, None)

\* The catch of the chunk loop: the file starts over after a pause, or the
\* run gives up. The edit page never does.
Failed(l) ==
    LET tries == loop[l].tries + 1 IN
    IF page # "edit" /\ tries >= MaxAttempts
    THEN RunAt("failed", 0, 0, None, None)
    ELSE RunAt("backoff", 0, IF page = "edit" THEN 0 ELSE tries, loop[l].id, None)

RunFails(l) ==
    /\ loop' = [loop EXCEPT ![l] = Failed(l)]
    /\ Show(l[1], "failed")

\* The loop goes on with chunk at, or ends when there is none.
GoOn(l, at, tries, id) ==
    IF at < Chunks[l[1]] THEN RunAt("send", at, tries, id, None)
    ELSE RunAt("sent", 0, 0, None, None)

\* The answer arrives. One that names another chunk moves the loop there
\* without touching the progress; an accepted chunk gives the file its id.
Answered(l) ==
    /\ loop[l].pc = "wait"
    /\ LET h == handler[loop[l].on]
           done == h.at = LastChunk(l[1])
       IN /\ h.pc = "reply"
          /\ CASE h.answer = "ok" ->
                    /\ loop' = [loop EXCEPT ![l] = GoOn(l, h.at + 1, 0, h.id)]
                    /\ Show(l[1], IF done THEN "done" ELSE "sending")
               [] h.answer = "unexpected" ->
                    /\ loop' = [loop EXCEPT
                                  ![l] = GoOn(l, h.expected, loop[l].tries, loop[l].id)]
                    /\ UNCHANGED progress
               [] OTHER -> RunFails(l)
    /\ handler' = [handler EXCEPT ![loop[l].on] = Free]
    /\ UNCHANGED <<batch, page, kinds, list, minted, nas, promised, tmp, disk, row, locked, faults>>

\* The answer to a finished request is lost on its way.
AnswerLost(l) ==
    /\ Fault("lost")
    /\ loop[l].pc = "wait"
    /\ handler[loop[l].on].pc = "reply"
    /\ RunFails(l)
    /\ handler' = [handler EXCEPT ![loop[l].on] = Free]
    /\ UNCHANGED <<batch, page, kinds, list, minted, nas, promised, tmp, disk, row, locked>>

\* withUploadInactivityTimeout aborts a request the server still works on:
\* the handler goes on with nobody to answer.
Abandon(l) ==
    /\ Fault("abandon")
    /\ loop[l].pc = "wait"
    /\ handler[loop[l].on].pc # "reply"
    /\ RunFails(l)
    /\ UNCHANGED <<batch, page, kinds, list, minted, nas, promised, serverVars>>

\* The pause before the next attempt is over.
Resume(l) ==
    /\ loop[l].pc = "backoff"
    /\ loop' = [loop EXCEPT ![l] = RunAt("send", 0, loop[l].tries, loop[l].id, None)]
    /\ UNCHANGED <<batch, page, kinds, list, progress, minted, nas, promised, faults, serverVars>>

\* Bound: a retry starts only while ids are left for every attempt of every
\* run that has none yet.
Live == {l \in Loop : loop[l].pc \notin {"idle", "sent", "failed"}}
IdsLeft ==
    minted + MaxAttempts * (1 + Cardinality({l \in Live : loop[l].id = None})) <= MaxId

\* retryFile, offered on every row that shows a failure.
RetryFile(l) ==
    /\ page # "edit"
    /\ l[1] \in list
    /\ progress[l[1]] = "failed"
    /\ l \notin Live
    /\ IdsLeft
    /\ loop' = [loop EXCEPT ![l] = RunAt("queued", 0, 0, None, None)]
    /\ UNCHANGED <<batch, page, kinds, list, progress, minted, nas, promised, faults, serverVars>>

\* The visitor drops a row that has not begun or that shows a failure; the
\* edit page rebuilds its list too, but sends the files it had when saving.
RemoveRow(f) ==
    /\ f \in list
    /\ progress[f] \in {"queued", "failed"}
    /\ list' = list \ {f}
    /\ UNCHANGED <<batch, page, kinds, progress, loop, minted, nas, promised, faults, serverVars>>

\* What shareService.completeShare meets on the server: a transfer that is
\* not completed and has a file, imported from the NAS or edited if not sent.
Completable == ~locked /\ (page # "send" \/ \E i \in Id : row[i] # None)

\* A slip: a row that failed counts as settled.
CompleteSettled ==
    /\ page # "edit"
    /\ ~nas
    /\ list # {}
    /\ \A f \in list : progress[f] \in {"done", "failed"}
    /\ Completable
    /\ promised' = list
    /\ locked' = TRUE
    /\ list' = {}
    /\ UNCHANGED <<batch, page, kinds, progress, loop, minted, handler, tmp, disk, row, nas, faults>>

\* The completion effect: every row of the list is at 100.
Complete ==
    /\ page # "edit"
    /\ ~nas
    /\ list # {}
    /\ \A f \in list : progress[f] = "done"
    /\ Completable
    /\ promised' = list
    /\ locked' = TRUE
    /\ list' = {}
    /\ UNCHANGED <<batch, page, kinds, progress, loop, minted, handler, tmp, disk, row, nas, faults>>

\* importFromNas once every dropped file's run has returned: it completes
\* when all returned true, and else leaves the completion to the effect.
NasSettled ==
    /\ nas
    /\ \A f \in batch : Ended(<<f, 1>>)
    /\ nas' = FALSE
    /\ IF (\A f \in batch : loop[<<f, 1>>].pc = "sent") /\ Completable
       THEN promised' = batch /\ locked' = TRUE /\ list' = {}
       ELSE UNCHANGED <<promised, locked, list>>
    /\ UNCHANGED <<batch, page, kinds, progress, loop, minted, handler, tmp, disk, row, faults>>

\* save of the edit page completes again whatever became of the new files.
Save ==
    /\ page = "edit"
    /\ \A f \in batch : Ended(<<f, 1>>)
    /\ Completable
    /\ promised' = {f \in list : progress[f] = "done"}
    /\ locked' = TRUE
    /\ UNCHANGED <<batch, page, kinds, list, progress, loop, minted, handler, tmp, disk, row, nas, faults>>

-----------------------------------------------------------------------------
(* The server                                                              *)

At(h, pc) ==
    HandlerAt(pc, handler[h].file, handler[h].id, handler[h].at)

Reply(h, answer, expected) ==
    [pc |-> "reply", file |-> handler[h].file, id |-> handler[h].id,
     at |-> handler[h].at, answer |-> answer, expected |-> expected]

\* FileService.create refuses an id that a stored file has, and
\* LocalFileService.create a transfer that is completed.
Check(h) ==
    /\ handler[h].pc = "check"
    /\ handler' = [handler EXCEPT
                     ![h] = IF row[handler[h].id] # None \/ locked
                            THEN Reply(h, "error", 0) ELSE At(h, "stat")]
    /\ UNCHANGED <<tmp, disk, row, locked, faults, pageVars>>

\* A slip: the server appends whatever chunk comes.
StatUnchecked(h) ==
    /\ handler[h].pc = "stat"
    /\ handler' = [handler EXCEPT ![h] = At(h, "append")]
    /\ UNCHANGED <<tmp, disk, row, locked, faults, pageVars>>

\* The size of the file so far says which chunk comes next.
Stat(h) ==
    /\ handler[h].pc = "stat"
    /\ LET expected == Len(tmp[handler[h].id]) IN
       handler' = [handler EXCEPT
                     ![h] = IF expected # handler[h].at
                            THEN Reply(h, "unexpected", expected)
                            ELSE At(h, "append")]
    /\ UNCHANGED <<tmp, disk, row, locked, faults, pageVars>>

AppendChunk(h) ==
    /\ handler[h].pc = "append"
    /\ tmp' = [tmp EXCEPT ![handler[h].id] = Append(@, handler[h].at)]
    /\ handler' = [handler EXCEPT
                     ![h] = IF handler[h].at = LastChunk(handler[h].file)
                            THEN At(h, "move") ELSE Reply(h, "ok", 0)]
    /\ UNCHANGED <<disk, row, locked, faults, pageVars>>

\* The last chunk is there: the file takes its name. A rename without its
\* source fails.
Move(h) ==
    /\ handler[h].pc = "move"
    /\ LET id == handler[h].id IN
       IF tmp[id] = << >>
       THEN /\ handler' = [handler EXCEPT ![h] = Reply(h, "error", 0)]
            /\ UNCHANGED <<tmp, disk>>
       ELSE /\ disk' = [disk EXCEPT ![id] = tmp[id]]
            /\ tmp' = [tmp EXCEPT ![id] = << >>]
            /\ handler' = [handler EXCEPT ![h] = At(h, "row")]
    /\ UNCHANGED <<row, locked, faults, pageVars>>

\* The row of the file: the id is the primary key.
CreateRow(h) ==
    /\ handler[h].pc = "row"
    /\ LET id == handler[h].id IN
       IF row[id] # None
       THEN /\ handler' = [handler EXCEPT ![h] = Reply(h, "error", 0)]
            /\ UNCHANGED row
       ELSE /\ row' = [row EXCEPT ![id] = handler[h].file]
            /\ handler' = [handler EXCEPT ![h] = Reply(h, "ok", 0)]
    /\ UNCHANGED <<tmp, disk, locked, faults, pageVars>>

\* A step of a request fails: a limit, the disk, the database.
Fail(h) ==
    /\ Fault("error")
    /\ handler[h].pc \notin {"free", "reply"}
    /\ handler' = [handler EXCEPT ![h] = Reply(h, "error", 0)]
    /\ UNCHANGED <<tmp, disk, row, locked, pageVars>>

\* The disk fills up while a chunk is written: a part of it stays.
Tear(h) ==
    /\ Fault("torn")
    /\ handler[h].pc = "append"
    /\ tmp' = [tmp EXCEPT ![handler[h].id] = Append(@, Torn)]
    /\ handler' = [handler EXCEPT ![h] = Reply(h, "error", 0)]
    /\ UNCHANGED <<disk, row, locked, pageVars>>

\* Nobody waits for this answer any more.
Discard(h) ==
    /\ handler[h].pc = "reply"
    /\ \A l \in Loop : loop[l].on # h
    /\ handler' = [handler EXCEPT ![h] = Free]
    /\ UNCHANGED <<tmp, disk, row, locked, faults, pageVars>>

\* The server restarts: every request under way fails, the disk and the
\* database stay.
Crash ==
    /\ Fault("crash")
    /\ \E h \in Handler : handler[h].pc # "free"
    /\ handler' = [h \in Handler |-> IF handler[h].pc = "free" THEN Free
                                     ELSE Reply(h, "error", 0)]
    /\ UNCHANGED <<tmp, disk, row, locked, pageVars>>

-----------------------------------------------------------------------------
PageStep ==
    \/ \E l \in Loop : \/ Begin(l) \/ Answered(l) \/ Resume(l)
                       \/ \E h \in Handler : Send(l, h)
    \/ Complete \/ NasSettled \/ Save

Visitor ==
    \/ \E l \in Loop : RetryFile(l)
    \/ \E f \in File : RemoveRow(f)

HandlerStep(h) ==
    \/ Check(h) \/ Stat(h) \/ AppendChunk(h) \/ Move(h)
    \/ CreateRow(h) \/ Discard(h)

Failure ==
    \/ \E l \in Loop : AnswerLost(l) \/ Abandon(l)
    \/ \E h \in Handler : Fail(h) \/ Tear(h)
    \/ Crash

Next ==
    \/ PageStep
    \/ Visitor
    \/ \E h \in Handler : HandlerStep(h)
    \/ Failure

Spec == Init /\ [][Next]_vars

\* The event loops of the browser and of the server run every callback that
\* is ready; the visitor and the failures owe nothing.
FairSpec ==
    /\ Spec
    /\ \A l \in Loop :
         /\ WF_vars(Begin(l)) /\ WF_vars(Answered(l)) /\ WF_vars(Resume(l))
         /\ WF_vars(\E h \in Handler : Send(l, h))
    /\ \A h \in Handler : WF_vars(HandlerStep(h))
    /\ WF_vars(Complete) /\ WF_vars(NasSettled) /\ WF_vars(Save)

-----------------------------------------------------------------------------
(* Properties                                                              *)

Whole(f, s) == s = [i \in 1..Chunks[f] |-> i - 1]

\* No request goes on without its run, and no chunk is written in part.
Orderly == "abandon" \notin kinds /\ "torn" \notin kinds

\* A file the transfer lists is, on the disk, the visitor's file: every
\* chunk once and in order, through any number of attempts, resumptions and
\* restarts of the server (LocalFileService.create's expected chunk, the
\* loop's restart from chunk 0).  A request the page has given up on, or a
\* disk that fills up in the middle of a chunk, does break it.
StoredIntact ==
    Orderly => \A i \in Id : row[i] # None => Whole(row[i], disk[i])

\* When the page completes the transfer, every file it shows as sent is
\* among the transfer's files (the completion effect of UploadPage, and save
\* of the edit page), whatever fails and whichever rows go meanwhile. On the
\* edit page a row that goes while it saves breaks it: the rows below move up,
\* and the progress of another file is written to them (EditableUpload.tsx:87,
\* the case UploadPage.tsx:124 tells). Next to an import from the NAS it is not
\* so either: a run that was answered past its last chunk counts as sent.
PromisedIsStored ==
    page # "combined" /\ (page = "edit" => list = batch)
        => \A f \in promised : \E i \in Id : row[i] = f

\* Every run that starts ends, with the file stored or shown as failed: no
\* exchange of corrections or refusals goes on for ever.  The edit page has
\* no last attempt, and asks for ever for an id that is taken.
EveryRunEnds ==
    \A l \in Loop : loop[l].pc = "send" /\ page # "edit" ~> Ended(l)
=============================================================================
