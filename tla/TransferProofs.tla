---------------------------- MODULE TransferProofs ----------------------------
(***************************************************************************)
(* What TLAPS proves of Transfer, for any number of files, recipients,     *)
(* requests at a time and restarts.                                        *)
(***************************************************************************)
EXTENDS Transfer, TLAPS, FiniteSetTheorems

USE NoFileAssumption, SubsetsAssumption

LEMMA Bounds ==
    MaxConcurrent \in Nat /\ MaxRequests \in Nat /\ MaxReverts \in Nat /\ MaxCrashes \in Nat
  BY BoundsAssumption

Uploading(pc) == pc \in {"check", "store", "row"}

\* What a completion read, and what the mails named, is still a row or was
\* deleted; an upload is of a file.
Known ==
    /\ \A r \in Requests : req[r].files \subseteq rows \cup deleted
    /\ promised \subseteq rows \cup deleted
    /\ \A r \in Requests : Uploading(req[r].pc) => req[r].file \in Files

\* No row goes without a trace.
NoneLost == rows \cup deleted \subseteq rows' \cup deleted'

TypeInv == TypeOK /\ Known

\* A longer chain of promises is one of the same kind.
LEMMA SeqGrows ==
    ASSUME NEW S, NEW T, S \subseteq T, NEW s \in Seq(S)
    PROVE  s \in Seq(T)
  OBVIOUS

LEMMA ReqField ==
    ASSUME TypeOK, NEW r \in Requests
    PROVE  /\ req[r] \in RequestStates
           /\ req[r].file \in Files \cup {NoFile}
           /\ req[r].files \subseteq Files
           /\ req[r].to \subseteq Recipients
  BY DEF TypeOK, RequestStates

LEMMA IdleType == Idle \in RequestStates /\ Idle.file = NoFile /\ Idle.files = {}
                  /\ Idle.pc = "idle" /\ Idle.to = {}
  BY DEF Idle, RequestStates

\* What holds of the requests when one of them goes on.
Speaking == Known /\ req \in [Requests -> RequestStates]

\* A request goes on with the file it has or with none, and with no files but
\* those it read.
LEMMA ReqMove ==
    ASSUME TypeInv, NEW r \in Requests, NEW s \in RequestStates,
           req' = [req EXCEPT ![r] = s],
           s.files \subseteq req[r].files,
           Uploading(s.pc) => Uploading(req[r].pc) /\ s.file = req[r].file,
           NoneLost,
           promised' = promised \/ promised' = req[r].files
    PROVE  Speaking'
  <1>1. \A q \in Requests : req'[q] = IF q = r THEN s ELSE req[q]
    BY DEF TypeInv, TypeOK
  <1>2. req' \in [Requests -> RequestStates]
    BY DEF TypeInv, TypeOK
  <1>3. Known'
    <2>1. \A q \in Requests : req'[q].files \subseteq rows' \cup deleted'
      BY <1>1 DEF TypeInv, Known, NoneLost
    <2>2. promised' \subseteq rows' \cup deleted'
      BY DEF TypeInv, Known, NoneLost
    <2>3. \A q \in Requests : Uploading(req'[q].pc) => req'[q].file \in Files
      BY <1>1 DEF TypeInv, Known
    <2> QED
      BY <2>1, <2>2, <2>3 DEF Known
  <1> QED
    BY <1>2, <1>3 DEF Speaking

\* Nothing happens to the requests.
LEMMA ReqStay ==
    ASSUME TypeInv, req' = req, NoneLost, promised' = promised
    PROVE  Speaking'
  BY DEF TypeInv, TypeOK, Known, NoneLost, Speaking

LEMMA ReqGoTo ==
    ASSUME TypeInv, NEW r \in Requests,
           NEW pc \in {"idle", "check", "store", "row", "unlink", "dropRow", "completed",
                       "mail", "lock", "wipe", "delete"},
           GoTo(r, pc), Uploading(pc) => Uploading(req[r].pc),
           NoneLost, promised' = promised
    PROVE  Speaking'
  <1> DEFINE s == [req[r] EXCEPT !.pc = pc]
  <1>1. req[r] \in RequestStates
    BY ReqField DEF TypeInv
  <1>2. /\ s \in RequestStates /\ s.file = req[r].file /\ s.files = req[r].files
        /\ s.pc = pc
    BY <1>1 DEF RequestStates
  <1>3. req' = [req EXCEPT ![r] = s]
    BY DEF GoTo, TypeInv, TypeOK
  <1> HIDE DEF s
  <1> QED
    BY <1>2, <1>3, ReqMove

LEMMA ReqEnd ==
    ASSUME TypeInv, NEW r \in Requests, End(r), NoneLost,
           promised' = promised \/ promised' = req[r].files
    PROVE  Speaking'
  <1>1. /\ req' = [req EXCEPT ![r] = Idle]
        /\ ~Uploading(Idle.pc) /\ Idle.files = {} /\ Idle \in RequestStates
    BY IdleType DEF End, Uploading
  <1> QED
    BY <1>1, ReqMove

LEMMA ShareField ==
    ASSUME TypeOK
    PROVE  share \in [exists : BOOLEAN, uploadLocked : BOOLEAN, isZipReady : BOOLEAN,
                      removed : BOOLEAN, today : BOOLEAN]
  BY DEF TypeOK

\* Everything of TypeOK but the requests.
Shapes ==
    /\ share \in [exists : BOOLEAN, uploadLocked : BOOLEAN, isZipReady : BOOLEAN,
                  removed : BOOLEAN, today : BOOLEAN]
    /\ deleted \subseteq Files /\ rows \subseteq Files /\ disk \subseteq Files
    /\ folder \in BOOLEAN
    /\ archive \in [state : {"none", "writing", "whole", "torn"},
                    entries : SUBSET Files, of : 0 .. asked]
    /\ zipRebuilds \in Seq([of : 1 .. asked, stage : {"queued", "build"},
                            entries : SUBSET Files])
    /\ publishing \in Nat /\ asked \in Nat
    /\ scans \in [ScanPoints -> Nat]
    /\ mailed \subseteq Recipients /\ linked \subseteq Registered
    /\ promised \subseteq Files
    /\ sweep \in {"idle", "wipe", "delete"}
    /\ requests \in 0 .. MaxRequests /\ reverts \in 0 .. MaxReverts
    /\ crashes \in 0 .. MaxCrashes

LEMMA TypeSplit == TypeInv <=> Shapes /\ Speaking
  BY DEF TypeInv, TypeOK, Shapes, Speaking


-----------------------------------------------------------------------------
(* The owner and what requests do.                                         *)

LEMMA OwnerTypes ==
    ASSUME TypeInv, NEW r \in Requests, Owner(r)
    PROVE  TypeInv'
  <1> SUFFICES Shapes' /\ Speaking'
    BY TypeSplit DEF TypeInv, TypeOK, Shapes, Speaking, Known, Requests
  <1>0. Shapes
    BY TypeSplit
  <1>1. CASE Complete(r)
    <2> DEFINE s == [Idle EXCEPT !.pc = "completed", !.files = rows]
    <2>1. s \in RequestStates /\ s.file = NoFile /\ s.files = rows /\ s.pc = "completed"
      BY <1>0, IdleType DEF Idle, RequestStates, Shapes
    <2>2. req' = [req EXCEPT ![r] = s]
      BY <1>1 DEF Complete
    <2> HIDE DEF s
    <2>3. \A q \in Requests : req'[q] = IF q = r THEN s ELSE req[q]
      BY <2>2 DEF TypeInv, TypeOK
    <2>4. /\ deleted' = deleted /\ rows' = rows /\ promised' = promised
      BY <1>1 DEF Complete, stored, people
    <2>5. req' \in [Requests -> RequestStates]
      BY <2>1, <2>2 DEF TypeInv, TypeOK
    <2>6. Known'
      BY <2>1, <2>3, <2>4 DEF TypeInv, Known, Uploading
    <2>7. Shapes'
      BY <1>0, <1>1, Bounds DEF Complete, Asks, Shapes, stored, zipping, people
    <2> QED
      BY <2>5, <2>6, <2>7 DEF Speaking
  <1>2. CASE RevertComplete(r)
    <2>1. Speaking'
      BY <1>2, ReqStay DEF RevertComplete, NoneLost, stored, people
    <2>2. reverts' \in 0 .. MaxReverts /\ requests' = requests /\ crashes' = crashes
      BY <1>0, <1>2, Bounds DEF RevertComplete, Shapes
    <2>3. share' \in [exists : BOOLEAN, uploadLocked : BOOLEAN, isZipReady : BOOLEAN,
                      removed : BOOLEAN, today : BOOLEAN]
      BY <1>0, <1>2 DEF RevertComplete, Reopened, Shapes
    <2>4. Shapes'
      BY <1>0, <1>2, <2>2, <2>3 DEF RevertComplete, Shapes, stored, zipping, people
    <2> QED
      BY <2>1, <2>4
  <1>3. CASE Remove(r)
    <2>1. Speaking'
      BY <1>3, ReqGoTo DEF Remove, NoneLost, stored, people, Uploading
    <2>2. Shapes'
      BY <1>0, <1>3, Bounds DEF Remove, Asks, Shapes, stored, zipping, people
    <2> QED
      BY <2>1, <2>2
  <1>4. ASSUME NEW f \in Files, UploadFile(r, f) PROVE Shapes' /\ Speaking'
    <2> DEFINE s == [Idle EXCEPT !.pc = "check", !.file = f]
    <2>1. s \in RequestStates /\ s.file = f /\ s.files = {} /\ s.pc = "check"
      BY DEF Idle, RequestStates
    <2>2. req' = [req EXCEPT ![r] = s]
      BY <1>4 DEF UploadFile
    <2> HIDE DEF s
    <2>3. \A q \in Requests : req'[q] = IF q = r THEN s ELSE req[q]
      BY <2>2 DEF TypeInv, TypeOK
    <2>4. deleted' = deleted /\ rows' = rows /\ promised' = promised
      BY <1>4 DEF UploadFile, stored, people
    <2>5. req' \in [Requests -> RequestStates]
      BY <2>1, <2>2 DEF TypeInv, TypeOK
    <2>6. Known'
      BY <2>1, <2>3, <2>4 DEF TypeInv, Known, Uploading
    <2>7. requests' \in 0 .. MaxRequests /\ reverts' = reverts /\ crashes' = crashes
      BY <1>0, <1>4, Bounds DEF UploadFile, Asks, Shapes
    <2>8. share' \in [exists : BOOLEAN, uploadLocked : BOOLEAN, isZipReady : BOOLEAN,
                      removed : BOOLEAN, today : BOOLEAN]
      BY <1>0, <1>4 DEF UploadFile, Shapes
    <2>9. Shapes'
      BY <1>0, <1>4, <2>7, <2>8 DEF UploadFile, Shapes, stored, zipping, people
    <2> QED
      BY <2>5, <2>6, <2>9 DEF Speaking
  <1>5. ASSUME NEW f \in Files, RemoveFile(r, f) PROVE Shapes' /\ Speaking'
    <2> DEFINE s == [Idle EXCEPT !.pc = "unlink", !.file = f]
    <2>1. s \in RequestStates /\ s.file = f /\ s.files = {} /\ s.pc = "unlink"
      BY DEF Idle, RequestStates
    <2>2. req' = [req EXCEPT ![r] = s]
      BY <1>5 DEF RemoveFile
    <2> HIDE DEF s
    <2>3. \A q \in Requests : req'[q] = IF q = r THEN s ELSE req[q]
      BY <2>2 DEF TypeInv, TypeOK
    <2>4. deleted' = deleted /\ rows' = rows /\ promised' = promised
      BY <1>5 DEF RemoveFile, stored, people
    <2>5. req' \in [Requests -> RequestStates]
      BY <2>1, <2>2 DEF TypeInv, TypeOK
    <2>6. Known'
      BY <2>1, <2>3, <2>4 DEF TypeInv, Known, Uploading
    <2>7. Shapes'
      BY <1>0, <1>5, Bounds DEF RemoveFile, Asks, Shapes, stored, zipping, people
    <2> QED
      BY <2>5, <2>6, <2>7 DEF Speaking
  <1> QED
    BY <1>1, <1>2, <1>3, <1>4, <1>5 DEF Owner

LEMMA FileStepTypes ==
    ASSUME TypeInv, NEW r \in Requests,
           \/ CheckUnlocked(r) \/ StoreFile(r) \/ CreateRow(r) \/ Unlink(r) \/ DropRow(r)
    PROVE  TypeInv'
  <1> SUFFICES Shapes' /\ Speaking'
    BY TypeSplit DEF TypeInv, TypeOK, Shapes, Speaking, Known, Requests
  <1>0. Shapes
    BY TypeSplit
  <1>1. CASE CheckUnlocked(r)
    <2>1. Speaking'
      BY <1>1, ReqGoTo, ReqEnd DEF CheckUnlocked, At, Uploading, NoneLost, stored, people
    <2>2. Shapes'
      BY <1>0, <1>1 DEF CheckUnlocked, Shapes, stored, zipping, people, counts
    <2> QED
      BY <2>1, <2>2
  <1>2. CASE StoreFile(r)
    <2>1. Speaking'
      BY <1>2, ReqGoTo, ReqEnd DEF StoreFile, At, Uploading, NoneLost, people
    <2>2. req[r].file \in Files
      BY <1>2 DEF StoreFile, At, TypeInv, Known, Uploading
    <2>3. Shapes'
      BY <1>0, <1>2, <2>2 DEF StoreFile, Shapes, zipping, people, counts
    <2> QED
      BY <2>1, <2>3
  <1>3. CASE CreateRow(r)
    <2>1. Speaking'
      BY <1>3, ReqEnd DEF CreateRow, NoneLost, people
    <2>2. req[r].file \in Files
      BY <1>3 DEF CreateRow, At, TypeInv, Known, Uploading
    <2>3. Shapes'
      BY <1>0, <1>3, <2>2 DEF CreateRow, Shapes, zipping, people, counts
    <2> QED
      BY <2>1, <2>3
  <1>4. CASE Unlink(r)
    <2>1. Speaking'
      BY <1>4, ReqGoTo, ReqEnd DEF Unlink, At, Uploading, NoneLost, people
    <2>2. Shapes'
      BY <1>0, <1>4 DEF Unlink, Shapes, zipping, people, counts
    <2> QED
      BY <2>1, <2>2
  <1>5. CASE DropRow(r)
    <2>1. Speaking'
      BY <1>5, ReqEnd DEF DropRow, Forget, NoneLost, people
    <2>2. rows' \subseteq Files /\ deleted' \subseteq Files
      BY <1>0, <1>5 DEF DropRow, Forget, Shapes
    <2>3. Shapes'
      BY <1>0, <1>5, <2>2 DEF DropRow, Shapes, zipping, people, counts
    <2> QED
      BY <2>1, <2>3
  <1> QED
    BY <1>1, <1>2, <1>3, <1>4, <1>5

\* A rebuild of nothing yet, queued behind the others.
LEMMA QueuedTypes ==
    ASSUME Shapes
    PROVE  /\ zipRebuilds \in Seq([of : 1 .. asked + 1, stage : {"queued", "build"},
                                   entries : SUBSET Files])
           /\ Append(zipRebuilds, [of |-> asked + 1, stage |-> "queued", entries |-> {}])
                \in Seq([of : 1 .. asked + 1, stage : {"queued", "build"},
                         entries : SUBSET Files])
           /\ archive \in [state : {"none", "writing", "whole", "torn"},
                           entries : SUBSET Files, of : 0 .. asked + 1]
  <1> DEFINE S == [of : 1 .. asked, stage : {"queued", "build"}, entries : SUBSET Files]
             T == [of : 1 .. asked + 1, stage : {"queued", "build"}, entries : SUBSET Files]
             rebuild == [of |-> asked + 1, stage |-> "queued", entries |-> {}]
  <1>1. S \subseteq T /\ rebuild \in T
    BY DEF Shapes
  <1>2. zipRebuilds \in Seq(S)
    BY DEF Shapes
  <1>3. archive \in [state : {"none", "writing", "whole", "torn"},
                     entries : SUBSET Files, of : 0 .. asked + 1]
    BY DEF Shapes
  <1> HIDE DEF S, T, rebuild
  <1>4. zipRebuilds \in Seq(T)
    BY <1>1, <1>2, SeqGrows
  <1>5. Append(zipRebuilds, rebuild) \in Seq(T)
    BY <1>1, <1>4
  <1> QED
    BY <1>3, <1>4, <1>5 DEF T, rebuild

LEMMA CompletionTypes ==
    ASSUME TypeInv, NEW r \in Requests,
           CheckCompleted(r) \/ Mail(r) \/ LinkUser(r) \/ StartScan(r) \/ Lock(r)
    PROVE  TypeInv'
  <1> SUFFICES Shapes' /\ Speaking'
    BY TypeSplit DEF TypeInv, TypeOK, Shapes, Speaking, Known, Requests
  <1>0. Shapes
    BY TypeSplit
  <1>1. CASE CheckCompleted(r)
    <2>1. CASE End(r) /\ UNCHANGED <<asked, zipRebuilds>>
      <3>1. Speaking'
        BY <1>1, <2>1, ReqEnd DEF NoneLost, CheckCompleted, stored, people
      <3>2. Shapes'
        BY <1>0, <1>1, <2>1 DEF CheckCompleted, Shapes, stored, people, counts
      <3> QED
        BY <3>1, <3>2
    <2>2. CASE /\ req' = [req EXCEPT ![r].pc = "mail", ![r].to = Recipients]
               /\ IF Cardinality(req[r].files) > 1
                  THEN /\ asked' = asked + 1
                       /\ zipRebuilds' = Append(zipRebuilds,
                             [of |-> asked + 1, stage |-> "queued", entries |-> {}])
                  ELSE UNCHANGED <<asked, zipRebuilds>>
      <3> DEFINE s == [req[r] EXCEPT !.pc = "mail", !.to = Recipients]
      <3>1. req[r] \in RequestStates
        BY ReqField DEF TypeInv
      <3>2. /\ s \in RequestStates /\ s.file = req[r].file /\ s.files = req[r].files
            /\ s.pc = "mail"
        BY <3>1 DEF RequestStates
      <3>3. req' = [req EXCEPT ![r] = s]
        BY <2>2 DEF TypeInv, TypeOK
      <3>4. deleted' = deleted /\ rows' = rows /\ promised' = promised
        BY <1>1 DEF CheckCompleted, stored, people
      <3> HIDE DEF s
      <3>5. Speaking'
        BY <3>2, <3>3, <3>4, ReqMove DEF NoneLost, Uploading
      <3>6. /\ asked' \in Nat
            /\ zipRebuilds' \in Seq([of : 1 .. asked', stage : {"queued", "build"},
                                     entries : SUBSET Files])
            /\ archive \in [state : {"none", "writing", "whole", "torn"},
                             entries : SUBSET Files, of : 0 .. asked']
        <4>1. CASE Cardinality(req[r].files) > 1
          <5>1. /\ asked' = asked + 1 /\ asked \in Nat
                /\ zipRebuilds' = Append(zipRebuilds,
                      [of |-> asked + 1, stage |-> "queued", entries |-> {}])
            BY <1>0, <2>2, <4>1 DEF Shapes
          <5> QED
            BY <1>0, <5>1, QueuedTypes
        <4>2. CASE ~(Cardinality(req[r].files) > 1)
          BY <1>0, <2>2, <4>2 DEF Shapes
        <4> QED
          BY <4>1, <4>2
      <3>7. Shapes'
        BY <1>0, <1>1, <3>6 DEF CheckCompleted, Shapes, stored, people, counts
      <3> QED
        BY <3>5, <3>7
    <2> QED
      BY <1>1, <2>1, <2>2 DEF CheckCompleted
  <1>2. CASE Mail(r)
    <2>1. CASE End(r) /\ UNCHANGED mailed
      <3>1. Speaking'
        BY <1>2, <2>1, ReqEnd DEF NoneLost, Mail, stored
      <3>2. Shapes'
        BY <1>0, <1>2, <2>1 DEF Mail, Shapes, stored, zipping, counts
      <3> QED
        BY <3>1, <3>2
    <2>2. ASSUME NEW p \in req[r].to,
                 mailed' = mailed \cup {p}, req' = [req EXCEPT ![r].to = @ \ {p}]
          PROVE  Shapes' /\ Speaking'
      <3> DEFINE s == [req[r] EXCEPT !.to = @ \ {p}]
      <3>1. req[r] \in RequestStates /\ req[r].to \subseteq Recipients /\ req[r].pc = "mail"
        BY <1>2, ReqField DEF TypeInv, Mail, At
      <3>2. /\ s \in RequestStates /\ s.file = req[r].file /\ s.files = req[r].files
            /\ s.pc = "mail"
        BY <3>1 DEF RequestStates
      <3>3. req' = [req EXCEPT ![r] = s]
        BY <2>2 DEF TypeInv, TypeOK
      <3>4. deleted' = deleted /\ rows' = rows /\ promised' = promised
        BY <1>2 DEF Mail, stored
      <3> HIDE DEF s
      <3>5. Speaking'
        BY <3>2, <3>3, <3>4, ReqMove DEF NoneLost, Uploading
      <3>6. Shapes'
        BY <1>0, <1>2, <2>2, <3>1 DEF Mail, Shapes, stored, zipping, counts
      <3> QED
        BY <3>5, <3>6
    <2> QED
      BY <1>2, <2>1, <2>2 DEF Mail
  <1>3. CASE LinkUser(r)
    <2>1. Speaking'
      BY <1>3, ReqStay DEF NoneLost, LinkUser, stored
    <2>2. Shapes'
      BY <1>0, <1>3 DEF LinkUser, Shapes, stored, zipping, counts
    <2> QED
      BY <2>1, <2>2
  <1>4. CASE StartScan(r)
    <2>1. Speaking'
      BY <1>4, ReqGoTo DEF NoneLost, StartScan, stored, people, Uploading
    <2>2. scans' \in [ScanPoints -> Nat]
      BY <1>0, <1>4 DEF StartScan, Shapes, ScanPoints
    <2>3. Shapes'
      BY <1>0, <1>4, <2>2 DEF StartScan, Shapes, stored, zipping, people, counts
    <2> QED
      BY <2>1, <2>3
  <1>5. CASE Lock(r)
    <2>1. Speaking'
      BY <1>5, ReqEnd DEF NoneLost, Lock, stored
    <2>2. req[r].files \subseteq Files
      BY ReqField DEF TypeInv
    <2>3. Shapes'
      BY <1>0, <1>5, <2>2 DEF Lock, Shapes, stored, zipping, counts
    <2> QED
      BY <2>1, <2>3
  <1> QED
    BY <1>1, <1>2, <1>3, <1>4, <1>5

\* What is written of an archive, and what stays of the chain.
LEMMA ZipTypes ==
    ASSUME Shapes, zipRebuilds # <<>>
    PROVE  /\ Head(zipRebuilds).of \in 1 .. asked
           /\ Head(zipRebuilds).entries \subseteq Files
           /\ Tail(zipRebuilds) \in Seq([of : 1 .. asked, stage : {"queued", "build"},
                                         entries : SUBSET Files])
           /\ 1 \in DOMAIN zipRebuilds /\ zipRebuilds[1] = Head(zipRebuilds)
  <1> DEFINE S == [of : 1 .. asked, stage : {"queued", "build"}, entries : SUBSET Files]
  <1>1. zipRebuilds \in Seq(S)
    BY DEF Shapes
  <1> HIDE DEF S
  <1>2. /\ Head(zipRebuilds) \in S /\ Tail(zipRebuilds) \in Seq(S)
        /\ 1 \in DOMAIN zipRebuilds /\ zipRebuilds[1] = Head(zipRebuilds)
    BY <1>1
  <1> QED
    BY <1>2 DEF S

\* The first of the chain gets its entries.
LEMMA BuildTypes ==
    ASSUME Shapes, zipRebuilds # <<>>
    PROVE  [zipRebuilds EXCEPT ![1].stage = "build", ![1].entries = rows]
             \in Seq([of : 1 .. asked, stage : {"queued", "build"}, entries : SUBSET Files])
  <1> DEFINE S == [of : 1 .. asked, stage : {"queued", "build"}, entries : SUBSET Files]
             b == [zipRebuilds[1] EXCEPT !.stage = "build", !.entries = rows]
  <1>0. zipRebuilds \in Seq(S)
    BY DEF Shapes
  <1> HIDE DEF S
  <1>1. 1 \in 1 .. Len(zipRebuilds) /\ zipRebuilds[1] \in S
    BY <1>0
  <1>2. b \in S
    BY <1>1 DEF S, Shapes
  <1>3. [zipRebuilds EXCEPT ![1].stage = "build", ![1].entries = rows]
          = [zipRebuilds EXCEPT ![1] = b]
    BY <1>0, <1>1
  <1> HIDE DEF b
  <1>4. [zipRebuilds EXCEPT ![1] = b] \in Seq(S)
    BY <1>0, <1>1, <1>2
  <1> QED
    BY <1>3, <1>4 DEF S

LEMMA ZipStepTypes ==
    ASSUME TypeInv, ZipStep
    PROVE  TypeInv'
  <1> SUFFICES Shapes' /\ Speaking'
    BY TypeSplit DEF TypeInv, TypeOK, Shapes, Speaking, Known, Requests
  <1>0. Shapes
    BY TypeSplit
  <1>1. Speaking'
    BY ReqStay DEF NoneLost, ZipStep, BuildZip, FinishZip, FailZip, Publish, stored, people
  <1>2. CASE BuildZip
    <2>1. zipRebuilds # <<>>
      BY <1>2 DEF BuildZip, Rebuilding
    <2>2. zipRebuilds' \in Seq([of : 1 .. asked, stage : {"queued", "build"},
                                entries : SUBSET Files])
      BY <1>0, <1>2, <2>1, ZipTypes, BuildTypes DEF BuildZip
    <2>3. archive' \in [state : {"none", "writing", "whole", "torn"},
                        entries : SUBSET Files, of : 0 .. asked]
      <3>1. Head(zipRebuilds).of \in 0 .. asked /\ asked \in Nat
        BY <1>0, <2>1, ZipTypes DEF Shapes
      <3>2. \/ archive' = [state |-> "writing", entries |-> {}, of |-> Head(zipRebuilds).of]
            \/ archive' = [NoArchive EXCEPT !.state = "torn"]
            \/ archive' = archive
        BY <1>2 DEF BuildZip
      <3> QED
        BY <1>0, <3>1, <3>2 DEF NoArchive, Shapes
    <2> QED
      BY <1>0, <1>1, <1>2, <2>2, <2>3 DEF BuildZip, Shapes, stored, people, counts
  <1>3. CASE FinishZip
    <2>1. zipRebuilds # <<>>
      BY <1>3 DEF FinishZip, Rebuilding
    <2>2. zipRebuilds' \in Seq([of : 1 .. asked, stage : {"queued", "build"},
                                entries : SUBSET Files])
      BY <1>0, <1>3, <2>1, ZipTypes DEF FinishZip
    <2>3. archive' \in [state : {"none", "writing", "whole", "torn"},
                        entries : SUBSET Files, of : 0 .. asked]
      BY <1>0, <1>3, <2>1, ZipTypes DEF FinishZip, Shapes
    <2> QED
      BY <1>0, <1>1, <1>3, <2>2, <2>3 DEF FinishZip, Shapes, stored, people, counts
  <1>4. CASE FailZip
    <2>1. zipRebuilds # <<>>
      BY <1>4 DEF FailZip, Rebuilding
    <2>2. zipRebuilds' \in Seq([of : 1 .. asked, stage : {"queued", "build"},
                                entries : SUBSET Files])
      BY <1>0, <1>4, <2>1, ZipTypes DEF FailZip
    <2>3. archive' \in [state : {"none", "writing", "whole", "torn"},
                        entries : SUBSET Files, of : 0 .. asked]
      BY <1>0, <1>4 DEF FailZip, NoArchive, Shapes
    <2> QED
      BY <1>0, <1>1, <1>4, <2>2, <2>3 DEF FailZip, Shapes, stored, people, counts
  <1>5. CASE Publish
    <2>1. publishing' \in Nat
      BY <1>0, <1>5 DEF Publish, Shapes
    <2>2. share' \in [exists : BOOLEAN, uploadLocked : BOOLEAN, isZipReady : BOOLEAN,
                      removed : BOOLEAN, today : BOOLEAN]
      BY <1>0, <1>5 DEF Publish, Shapes
    <2> QED
      BY <1>0, <1>1, <1>5, <2>1, <2>2 DEF Publish, Shapes, stored, people, counts
  <1> QED
    BY <1>2, <1>3, <1>4, <1>5 DEF ZipStep

LEMMA NoArchiveType ==
    ASSUME Shapes
    PROVE  NoArchive \in [state : {"none", "writing", "whole", "torn"},
                          entries : SUBSET Files, of : 0 .. asked]
  BY DEF NoArchive, Shapes

\* A scan that is somewhere can leave.
LEMMA ScanMoves ==
    ASSUME Shapes, NEW p \in ScanPoints, NEW q \in ScanPoints, Scanning(p), p # q,
           ScanGoesTo(p, q) \/ ScanEnds(p)
    PROVE  scans' \in [ScanPoints -> Nat]
  <1>1. /\ scans \in [ScanPoints -> Nat]
        /\ scans[p] \in Nat /\ scans[q] \in Nat /\ scans[p] > 0
    BY DEF Shapes, Scanning
  <1>2. scans[p] - 1 \in Nat /\ scans[q] + 1 \in Nat
    BY <1>1
  <1>3. \/ scans' = [scans EXCEPT ![p] = scans[p] - 1, ![q] = scans[q] + 1]
        \/ scans' = [scans EXCEPT ![p] = scans[p] - 1]
    BY <1>1 DEF ScanGoesTo, ScanEnds
  <1> QED
    BY <1>1, <1>2, <1>3

LEMMA ScanStepTypes ==
    ASSUME TypeInv, ScanStep
    PROVE  TypeInv'
  <1> SUFFICES Shapes' /\ Speaking'
    BY TypeSplit DEF TypeInv, TypeOK, Shapes, Speaking, Known, Requests
  <1>0. Shapes
    BY TypeSplit
  <1>1. Speaking'
    <2>1. req' = req /\ promised' = promised /\ NoneLost
      BY DEF NoneLost, Forget, ScanStep, ListFolder, RemoveInfected, DropRows, StampRemoved, stored, people
    <2> QED
      BY <2>1, ReqStay
  <1>2. scans' \in [ScanPoints -> Nat]
    <2>1. /\ "list" \in ScanPoints /\ "wipe" \in ScanPoints
          /\ "rows" \in ScanPoints /\ "stamp" \in ScanPoints
      BY DEF ScanPoints
    <2> QED
      BY <1>0, <2>1, ScanMoves DEF ScanStep, ListFolder, RemoveInfected, DropRows, StampRemoved
  <1>3. CASE ListFolder
    BY <1>0, <1>1, <1>2, <1>3 DEF ListFolder, Shapes, stored, zipping, people, counts
  <1>4. CASE RemoveInfected
    BY <1>0, <1>1, <1>2, <1>4, NoArchiveType
    DEF RemoveInfected, FolderGone, Shapes, people, counts
  <1>5. CASE DropRows
    BY <1>0, <1>1, <1>2, <1>5 DEF DropRows, Forget, Shapes, zipping, people, counts
  <1>6. CASE StampRemoved
    BY <1>0, <1>1, <1>2, <1>6 DEF StampRemoved, Shapes, stored, zipping, people, counts
  <1> QED
    BY <1>3, <1>4, <1>5, <1>6 DEF ScanStep

LEMMA RemoveTypes ==
    ASSUME TypeInv, NEW r \in Requests, RemoveFolder(r) \/ RemoveRow(r)
    PROVE  TypeInv'
  <1> SUFFICES Shapes' /\ Speaking'
    BY TypeSplit DEF TypeInv, TypeOK, Shapes, Speaking, Known, Requests
  <1>0. Shapes
    BY TypeSplit
  <1>1. CASE RemoveFolder(r)
    <2>1. Speaking'
      BY <1>1, ReqGoTo DEF NoneLost, RemoveFolder, Uploading, people
    <2> QED
      BY <1>0, <1>1, <2>1, NoArchiveType DEF RemoveFolder, FolderGone, Shapes, people, counts
  <1>2. CASE RemoveRow(r)
    <2>1. Speaking'
      BY <1>2, ReqEnd DEF NoneLost, Forget, RemoveRow, DeleteRow, people
    <2>2. Shapes'
      BY <1>0, <1>2 DEF RemoveRow, DeleteRow, Forget, Shapes, zipping, people, counts
    <2> QED
      BY <2>1, <2>2
  <1> QED
    BY <1>1, <1>2

LEMMA SweepTypes ==
    ASSUME TypeInv, SweepStep \/ DayPasses
    PROVE  TypeInv'
  <1> SUFFICES Shapes' /\ Speaking'
    BY TypeSplit DEF TypeInv, TypeOK, Shapes, Speaking, Known, Requests
  <1>0. Shapes
    BY TypeSplit
  <1>1. Speaking'
    <2>1. req' = req /\ promised' = promised /\ NoneLost
      BY DEF NoneLost, Forget, SweepStep, Sweep, SweepFolder, SweepRow, DayPasses, DeleteRow, stored, people
    <2> QED
      BY <2>1, ReqStay
  <1>2. CASE Sweep
    BY <1>0, <1>1, <1>2 DEF Sweep, Shapes, stored, zipping, people, counts
  <1>3. CASE SweepFolder
    BY <1>0, <1>1, <1>3, NoArchiveType DEF SweepFolder, FolderGone, Shapes, people, counts
  <1>4. CASE SweepRow
    BY <1>0, <1>1, <1>4 DEF SweepRow, DeleteRow, Forget, Shapes, zipping, people, counts
  <1>5. CASE DayPasses
    BY <1>0, <1>1, <1>5 DEF DayPasses, Shapes, stored, zipping, people, counts
  <1> QED
    BY <1>2, <1>3, <1>4, <1>5 DEF SweepStep

LEMMA CrashTypes ==
    ASSUME TypeInv, Crash
    PROVE  TypeInv'
  <1> SUFFICES Shapes' /\ Speaking'
    BY TypeSplit DEF TypeInv, TypeOK, Shapes, Speaking, Known, Requests
  <1>0. Shapes
    BY TypeSplit
  <1>1. Speaking'
    <2>1. /\ req' \in [Requests -> RequestStates]
          /\ \A r \in Requests : req'[r] = Idle
          /\ deleted' = deleted /\ rows' = rows /\ promised' = promised
      BY IdleType DEF Crash, stored, people
    <2> QED
      BY <2>1, IdleType DEF Speaking, Known, Uploading, TypeInv
  <1>2. crashes' \in 0 .. MaxCrashes /\ requests' = requests /\ reverts' = reverts
    BY <1>0, Bounds DEF Crash, Shapes
  <1>3. archive' \in [state : {"none", "writing", "whole", "torn"},
                      entries : SUBSET Files, of : 0 .. asked]
    BY <1>0 DEF Crash, NoArchive, Shapes
  <1>4. /\ scans' \in [ScanPoints -> Nat] /\ publishing' = 0 /\ asked' = asked
        /\ sweep' = "idle" /\ share' = share /\ zipRebuilds' = <<>>
    <2>1. scans' = [p \in ScanPoints |-> 0]
      BY DEF Crash
    <2>2. scans' \in [ScanPoints -> Nat]
      BY <2>1
    <2> QED
      BY <2>2 DEF Crash
  <1>5. <<>> \in Seq([of : 1 .. asked, stage : {"queued", "build"}, entries : SUBSET Files])
    OBVIOUS
  <1>6. UNCHANGED <<deleted, rows, disk, folder, mailed, linked, promised>>
    BY DEF Crash, stored, people
  <1>7. Shapes'
    BY <1>0, <1>2, <1>3, <1>4, <1>5, <1>6 DEF Shapes
  <1> QED
    BY <1>1, <1>7

LEMMA StayTypes ==
    ASSUME TypeInv, UNCHANGED vars
    PROVE  TypeInv'
  BY DEF TypeInv, TypeOK, Known, Uploading, vars, stored, zipping, people, counts

LEMMA InitTypes == Init => TypeInv
  <1> SUFFICES ASSUME Init PROVE Shapes /\ Speaking
    BY TypeSplit
  <1>1. \A r \in Requests : req[r] = Idle
    BY DEF Init
  <1>2. Speaking
    BY <1>1, IdleType DEF Init, Speaking, Known, Uploading
  <1>3. Shapes
    BY Bounds DEF Init, Shapes, NoArchive
  <1> QED
    BY <1>2, <1>3

LEMMA NextTypes ==
    ASSUME TypeInv, [Next]_vars
    PROVE  TypeInv'
  BY OwnerTypes, FileStepTypes, CompletionTypes, ZipStepTypes, ScanStepTypes, RemoveTypes,
     SweepTypes, CrashTypes, StayTypes
  DEF Next, Program, RequestStep

LEMMA TypesHold == Spec => []TypeInv
  BY InitTypes, NextTypes, PTL DEF Spec

\* The state keeps its shape: no more rebuilds are called ready than have ended
\* (share.service.ts:299), and an archive is of a rebuild that was asked for.
THEOREM TransferTypes == Spec => []TypeOK
  BY TypesHold, PTL DEF TypeInv

-----------------------------------------------------------------------------
(* Mails.                                                                  *)

\* What a completion has done by the time it is somewhere: who is not left to
\* be mailed was mailed, and the lock comes after the last of everything.
DeliveryInv ==
    /\ \A r \in Requests : At(r, "mail") => Recipients \ req[r].to \subseteq mailed
    /\ \A r \in Requests : At(r, "lock") => mailed = Recipients /\ linked = Registered
    /\ LockedIsDelivered

\* Nobody is forgotten, and a request comes to the mails or to the lock the
\* way the code does.
LEMMA DeliveryKept ==
    ASSUME TypeInv, TypeInv', DeliveryInv,
           mailed \subseteq mailed', linked \subseteq linked',
           share'.uploadLocked => share.uploadLocked
                                  \/ \E r \in Requests : At(r, "lock"),
           \A r \in Requests :
              /\ At(r, "mail")' =>
                    \/ At(r, "mail") /\ req'[r].to = req[r].to
                    \/ Recipients \ req'[r].to \subseteq mailed'
              /\ At(r, "lock")' =>
                    \/ At(r, "lock")
                    \/ mailed = Recipients /\ linked = Registered
    PROVE  DeliveryInv'
  <1>1. mailed' \subseteq Recipients /\ linked' \subseteq Registered
    BY DEF TypeInv, TypeOK
  <1>2. ASSUME NEW r \in Requests, At(r, "mail")'
        PROVE  Recipients \ req'[r].to \subseteq mailed'
    BY <1>2 DEF DeliveryInv
  <1>3. ASSUME NEW r \in Requests, At(r, "lock")'
        PROVE  mailed' = Recipients /\ linked' = Registered
    BY <1>1, <1>3 DEF DeliveryInv
  <1>4. LockedIsDelivered'
    BY <1>1 DEF DeliveryInv, LockedIsDelivered
  <1> QED
    BY <1>2, <1>3, <1>4 DEF DeliveryInv, Requests

\* Steps that leave the mails and the lock alone.
LEMMA DeliveryStays ==
    ASSUME TypeInv, TypeInv', DeliveryInv, UNCHANGED <<mailed, linked>>,
           share'.uploadLocked => share.uploadLocked,
           \A r \in Requests : req'[r] = req[r] \/ req'[r].pc \notin {"mail", "lock"}
    PROVE  DeliveryInv'
  <1>1. \A r \in Requests :
           /\ At(r, "mail")' => At(r, "mail") /\ req'[r].to = req[r].to
           /\ At(r, "lock")' => At(r, "lock")
    BY DEF At
  <1> QED
    BY <1>1, DeliveryKept

\* Where a request is after it went on or ended, and where the others are.
LEMMA Elsewhere ==
    ASSUME TypeInv, NEW r \in Requests, NEW pc, GoTo(r, pc) \/ End(r)
    PROVE  /\ \A q \in Requests : q # r => req'[q] = req[q]
           /\ req'[r].pc \in {pc, "idle"}
           /\ GoTo(r, pc) => req'[r].pc = pc /\ req'[r].to = req[r].to
                             /\ req'[r].files = req[r].files
           /\ End(r) => req'[r] = Idle
  <1>1. req \in [Requests -> RequestStates] /\ req[r] \in RequestStates
    BY DEF TypeInv, TypeOK
  <1>2. CASE GoTo(r, pc)
    <2>1. /\ req'[r] = [req[r] EXCEPT !.pc = pc]
          /\ \A q \in Requests : q # r => req'[q] = req[q]
      BY <1>1, <1>2 DEF GoTo
    <2>2. req'[r].pc = pc /\ req'[r].to = req[r].to /\ req'[r].files = req[r].files
      BY <1>1, <2>1 DEF RequestStates
    <2>3. End(r) => req'[r] = Idle
      BY <1>1 DEF End
    <2> QED
      BY <2>1, <2>2, <2>3
  <1>3. CASE End(r)
    <2>1. req'[r] = Idle /\ \A q \in Requests : q # r => req'[q] = req[q]
      BY <1>1, <1>3 DEF End
    <2>2. GoTo(r, pc) => req'[r].pc = pc /\ req'[r].to = req[r].to
                         /\ req'[r].files = req[r].files
      <3>1. SUFFICES ASSUME GoTo(r, pc)
                     PROVE  req'[r].pc = pc /\ req'[r].to = req[r].to
                            /\ req'[r].files = req[r].files
        OBVIOUS
      <3>2. req'[r] = [req[r] EXCEPT !.pc = pc]
        BY <1>1, <3>1 DEF GoTo
      <3> QED
        BY <1>1, <3>2 DEF RequestStates
    <2> QED
      BY <2>1, <2>2, IdleType
  <1> QED
    BY <1>2, <1>3

\* The same of a request that starts.
LEMMA Started ==
    ASSUME TypeInv, NEW r \in Requests,
           \/ Complete(r) \/ Remove(r)
           \/ \E f \in Files : UploadFile(r, f) \/ RemoveFile(r, f)
    PROVE  /\ \A q \in Requests : q # r => req'[q] = req[q]
           /\ req'[r].pc \in {"completed", "wipe", "check", "unlink"}
           /\ UNCHANGED <<mailed, linked, promised, rows, disk, folder, zipping, scans, sweep>>
           /\ share' = [share EXCEPT !.today = TRUE] \/ share' = share
  <1>1. req \in [Requests -> RequestStates]
    BY DEF TypeInv, TypeOK
  <1>2. CASE Complete(r)
    BY <1>1, <1>2 DEF Complete, stored, people, Idle
  <1>3. CASE Remove(r)
    <2>1. GoTo(r, "wipe")
      BY <1>3 DEF Remove
    <2>2. req'[r].pc = "wipe" /\ \A q \in Requests : q # r => req'[q] = req[q]
      BY <2>1, Elsewhere
    <2> QED
      BY <1>3, <2>2 DEF Remove, stored, people
  <1>4. ASSUME NEW f \in Files, UploadFile(r, f)
        PROVE  /\ \A q \in Requests : q # r => req'[q] = req[q]
               /\ req'[r].pc \in {"completed", "wipe", "check", "unlink"}
               /\ UNCHANGED <<mailed, linked, promised, rows, disk, folder, zipping, scans, sweep>>
               /\ share' = [share EXCEPT !.today = TRUE] \/ share' = share
    BY <1>1, <1>4 DEF UploadFile, stored, people, Idle
  <1>5. ASSUME NEW f \in Files, RemoveFile(r, f)
        PROVE  /\ \A q \in Requests : q # r => req'[q] = req[q]
               /\ req'[r].pc \in {"completed", "wipe", "check", "unlink"}
               /\ UNCHANGED <<mailed, linked, promised, rows, disk, folder, zipping, scans, sweep>>
               /\ share' = [share EXCEPT !.today = TRUE] \/ share' = share
    BY <1>1, <1>5 DEF RemoveFile, stored, people, Idle
  <1> QED
    BY <1>2, <1>3, <1>4, <1>5

\* Only the lock sets it.
LEMMA LockSetsIt ==
    ASSUME TypeInv, [Next]_vars, ~\E r \in Requests : Lock(r)
    PROVE  share'.uploadLocked => share.uploadLocked
  <1>0. share \in [exists : BOOLEAN, uploadLocked : BOOLEAN, isZipReady : BOOLEAN,
                   removed : BOOLEAN, today : BOOLEAN]
    BY DEF TypeInv, TypeOK
  <1> DEFINE Claim == share'.uploadLocked => share.uploadLocked
  <1>1. ASSUME NEW r \in Requests, Owner(r) PROVE Claim
    <2>1. CASE RevertComplete(r)
      BY <1>0, <2>1 DEF RevertComplete, Reopened
    <2>2. CASE ~RevertComplete(r)
      BY <1>0, <1>1, <2>2, Started DEF Owner
    <2> QED
      BY <2>1, <2>2
  <1>2. ASSUME NEW r \in Requests, RequestStep(r) PROVE Claim
    <2>1. share' = share \/ RemoveRow(r)
      BY <1>2 DEF RequestStep, CheckUnlocked, StoreFile, CreateRow, Unlink, DropRow,
         CheckCompleted, Mail, LinkUser, StartScan, RemoveFolder
    <2> QED
      BY <1>0, <2>1 DEF RemoveRow, DeleteRow
  <1>3. CASE ZipStep
    BY <1>0, <1>3 DEF ZipStep, BuildZip, FinishZip, FailZip, Publish
  <1>4. CASE ScanStep
    BY <1>0, <1>4 DEF ScanStep, ListFolder, RemoveInfected, DropRows, StampRemoved
  <1>5. CASE SweepStep \/ DayPasses
    BY <1>0, <1>5 DEF SweepStep, Sweep, SweepFolder, SweepRow, DeleteRow, DayPasses
  <1>6. CASE Crash \/ UNCHANGED vars
    BY <1>6 DEF Crash, vars
  <1> QED
    BY <1>1, <1>2, <1>3, <1>4, <1>5, <1>6 DEF Next, Program

LEMMA DeliveryStep ==
    ASSUME TypeInv, DeliveryInv, [Next]_vars
    PROVE  DeliveryInv'
  <1>0. TypeInv'
    BY NextTypes
  <1>1. ASSUME NEW r \in Requests, Lock(r) PROVE DeliveryInv'
    <2>1. End(r) /\ At(r, "lock") /\ UNCHANGED <<mailed, linked>>
      BY <1>1 DEF Lock
    <2>2. \A q \in Requests : req'[q] = req[q] \/ req'[q] = Idle
      BY <2>1, Elsewhere
    <2>3. \A q \in Requests :
             /\ At(q, "mail")' => At(q, "mail") /\ req'[q].to = req[q].to
             /\ At(q, "lock")' => At(q, "lock")
      BY <2>2, IdleType DEF At
    <2> QED
      BY <1>0, <2>1, <2>3, DeliveryKept
  <1>2. CASE ~\E r \in Requests : Lock(r)
    <2>0. share'.uploadLocked => share.uploadLocked
      BY <1>2, LockSetsIt
    <2>1. ASSUME NEW r \in Requests, Owner(r) PROVE DeliveryInv'
      <3>1. CASE RevertComplete(r)
        BY <1>0, <2>0, <3>1, DeliveryStays DEF RevertComplete, people
      <3>2. CASE ~RevertComplete(r)
        <4>1. /\ \A q \in Requests : q # r => req'[q] = req[q]
              /\ req'[r].pc \in {"completed", "wipe", "check", "unlink"}
              /\ UNCHANGED <<mailed, linked>>
          BY <2>1, <3>2, Started DEF Owner
        <4> QED
          BY <1>0, <2>0, <4>1, DeliveryStays
      <3> QED
        BY <3>1, <3>2
    <2>2. ASSUME NEW r \in Requests,
                 \/ CheckUnlocked(r) \/ StoreFile(r) \/ CreateRow(r) \/ Unlink(r) \/ DropRow(r)
                 \/ RemoveFolder(r) \/ RemoveRow(r)
          PROVE  DeliveryInv'
      <3>1. /\ \E pc \in {"store", "row", "dropRow", "delete"} : GoTo(r, pc) \/ End(r)
            /\ UNCHANGED <<mailed, linked>>
        BY <2>2 DEF CheckUnlocked, StoreFile, CreateRow, Unlink, DropRow, RemoveFolder,
           RemoveRow, people
      <3>2. /\ \A q \in Requests : q # r => req'[q] = req[q]
            /\ req'[r].pc \in {"store", "row", "dropRow", "delete", "idle"}
        BY <3>1, Elsewhere
      <3> QED
        BY <1>0, <2>0, <3>1, <3>2, DeliveryStays
    <2>3. ASSUME NEW r \in Requests, CheckCompleted(r) PROVE DeliveryInv'
      <3>1. UNCHANGED <<mailed, linked>>
        BY <2>3 DEF CheckCompleted, people
      <3>2. \A q \in Requests : \/ req'[q] = req[q]
                                \/ req'[q] = Idle
                                \/ req'[q].pc = "mail" /\ req'[q].to = Recipients
        <4>1. req' = [req EXCEPT ![r].pc = "mail", ![r].to = Recipients] \/ End(r)
          BY <2>3 DEF CheckCompleted
        <4>2. req \in [Requests -> RequestStates] /\ req[r] \in RequestStates
          BY DEF TypeInv, TypeOK
        <4>3. CASE End(r)
          BY <4>2, <4>3 DEF End
        <4>4. CASE req' = [req EXCEPT ![r].pc = "mail", ![r].to = Recipients]
          <5>1. /\ req'[r] = [req[r] EXCEPT !.pc = "mail", !.to = Recipients]
                /\ \A q \in Requests : q # r => req'[q] = req[q]
            BY <4>2, <4>4
          <5>2. req'[r].pc = "mail" /\ req'[r].to = Recipients
            BY <4>2, <5>1 DEF RequestStates
          <5> QED
            BY <5>1, <5>2
        <4> QED
          BY <4>1, <4>3, <4>4
      <3>3. \A q \in Requests :
               /\ At(q, "mail")' => \/ At(q, "mail") /\ req'[q].to = req[q].to
                                    \/ Recipients \ req'[q].to \subseteq mailed'
               /\ At(q, "lock")' => At(q, "lock")
        BY <3>2, IdleType DEF At
      <3> QED
        BY <1>0, <2>0, <3>1, <3>3, DeliveryKept
    <2>4. ASSUME NEW r \in Requests, Mail(r) PROVE DeliveryInv'
      <3>1. CASE End(r) /\ UNCHANGED mailed
        <4>1. \A q \in Requests : req'[q] = req[q] \/ req'[q].pc \notin {"mail", "lock"}
          BY <3>1, Elsewhere, IdleType
        <4> QED
          BY <1>0, <2>0, <2>4, <3>1, <4>1, DeliveryStays DEF Mail
      <3>2. ASSUME NEW p \in req[r].to,
                   mailed' = mailed \cup {p}, req' = [req EXCEPT ![r].to = @ \ {p}]
            PROVE  DeliveryInv'
        <4>1. /\ req'[r] = [req[r] EXCEPT !.to = @ \ {p}]
              /\ \A q \in Requests : q # r => req'[q] = req[q]
              /\ req[r] \in RequestStates /\ At(r, "mail")
          BY <2>4, <3>2 DEF TypeInv, TypeOK, Mail
        <4>2. /\ req'[r].to = req[r].to \ {p} /\ req'[r].pc = "mail"
          BY <4>1 DEF RequestStates, At
        <4>3. Recipients \ req'[r].to \subseteq mailed'
          BY <3>2, <4>1, <4>2 DEF DeliveryInv
        <4>4. \A q \in Requests :
                 /\ At(q, "mail")' => \/ At(q, "mail") /\ req'[q].to = req[q].to
                                      \/ Recipients \ req'[q].to \subseteq mailed'
                 /\ At(q, "lock")' => At(q, "lock")
          BY <4>1, <4>2, <4>3 DEF At
        <4> QED
          BY <1>0, <2>0, <2>4, <3>2, <4>4, DeliveryKept DEF Mail
      <3> QED
        BY <2>4, <3>1, <3>2 DEF Mail
    <2>5. ASSUME NEW r \in Requests, LinkUser(r) PROVE DeliveryInv'
      <3>1. linked \subseteq linked' /\ mailed' = mailed /\ req' = req
        BY <2>5 DEF LinkUser
      <3>2. \A q \in Requests :
               /\ At(q, "mail")' => At(q, "mail") /\ req'[q].to = req[q].to
               /\ At(q, "lock")' => At(q, "lock")
        BY <3>1 DEF At
      <3> QED
        BY <1>0, <2>0, <3>1, <3>2, DeliveryKept
    <2>6. ASSUME NEW r \in Requests, StartScan(r) PROVE DeliveryInv'
      <3>1. GoTo(r, "lock") /\ UNCHANGED <<mailed, linked>>
        BY <2>6 DEF StartScan, people
      <3>2. mailed = Recipients /\ linked = Registered
        BY <2>6 DEF StartScan, Mailed, At, DeliveryInv, TypeInv, TypeOK
      <3>3. /\ \A q \in Requests : q # r => req'[q] = req[q]
            /\ req'[r].pc = "lock"
        BY <3>1, Elsewhere
      <3>4. \A q \in Requests :
               /\ At(q, "mail")' => At(q, "mail") /\ req'[q].to = req[q].to
               /\ At(q, "lock")' => At(q, "lock") \/ (mailed = Recipients /\ linked = Registered)
        BY <3>2, <3>3 DEF At
      <3> QED
        BY <1>0, <2>0, <3>1, <3>4, DeliveryKept
    <2>7. CASE ZipStep \/ ScanStep \/ SweepStep \/ DayPasses \/ UNCHANGED vars
      <3>1. req' = req /\ UNCHANGED <<mailed, linked>>
        BY <2>7 DEF ZipStep, BuildZip, FinishZip, FailZip, Publish, ScanStep, ListFolder,
           RemoveInfected, DropRows, StampRemoved, SweepStep, Sweep, SweepFolder, SweepRow,
           DayPasses, vars, people
      <3> QED
        BY <1>0, <2>0, <3>1, DeliveryStays
    <2>8. CASE Crash
      <3>1. UNCHANGED <<mailed, linked>> /\ \A r \in Requests : req'[r] = Idle
        BY <2>8 DEF Crash, people
      <3>2. \A r \in Requests : req'[r].pc \notin {"mail", "lock"}
        BY <3>1, IdleType
      <3> QED
        BY <1>0, <2>0, <3>1, <3>2, DeliveryStays
    <2> QED
      BY <1>2, <2>1, <2>2, <2>3, <2>4, <2>5, <2>6, <2>7, <2>8 DEF Next, Program, RequestStep
  <1> QED
    BY <1>1, <1>2

LEMMA DeliveryHolds == Spec => []DeliveryInv
  <1>1. Init => DeliveryInv
    BY IdleType DEF Init, DeliveryInv, LockedIsDelivered, At
  <1> QED
    BY <1>1, TypesHold, DeliveryStep, PTL DEF Spec

\* A transfer that can be read has reached everybody it was for, whatever
\* mail was refused and whoever else was completing it (share.service.ts:306).
THEOREM DeliveredBeforeLocked == Spec => []LockedIsDelivered
  BY DeliveryHolds, PTL DEF DeliveryInv

-----------------------------------------------------------------------------
(* Deletions.                                                              *)

\* A deletion that has come past the folder; the folder never comes back.
FolderInv ==
    /\ ~folder => disk = {} /\ archive.state = "none"
    /\ \/ \E r \in Requests : At(r, "delete")
       \/ sweep = "delete" \/ scans["rows"] > 0 \/ scans["stamp"] > 0
       \/ share.removed \/ ~share.exists
       => ~folder

\* A step that leaves the folder gone once it is.
LEMMA FolderKept ==
    ASSUME FolderInv,
           \/ FolderGone
           \/ /\ folder' = folder
              /\ ~folder /\ archive.state = "none" =>
                    disk' \subseteq disk /\ archive'.state = "none",
           folder' => /\ \A r \in Requests : At(r, "delete")' => At(r, "delete")
                      /\ sweep' = "delete" => sweep = "delete"
                      /\ scans'["rows"] > 0 => scans["rows"] > 0
                      /\ scans'["stamp"] > 0 => scans["stamp"] > 0 \/ scans["rows"] > 0
                      /\ share'.removed => share.removed \/ scans["stamp"] > 0
                      /\ ~share'.exists => \/ ~share.exists \/ sweep = "delete"
                                           \/ \E r \in Requests : At(r, "delete")
    PROVE  FolderInv'
  <1>1. ~folder' => disk' = {} /\ archive'.state = "none"
    BY DEF FolderInv, FolderGone, NoArchive
  <1>2. folder' => folder
    BY DEF FolderGone
  <1>3. SUFFICES ASSUME folder'
                 PROVE  /\ \A r \in Requests : ~At(r, "delete")'
                        /\ sweep' # "delete" /\ ~(scans'["rows"] > 0) /\ ~(scans'["stamp"] > 0)
                        /\ ~share'.removed /\ share'.exists
    BY <1>1 DEF FolderInv, Requests
  <1> QED
    BY <1>2, <1>3 DEF FolderInv

\* Steps that do not touch what a deletion has done, nor how far it is.
LEMMA FolderStays ==
    ASSUME FolderInv, TypeInv, UNCHANGED <<disk, folder>>, archive' = archive,
           \A r \in Requests : req'[r] = req[r] \/ req'[r].pc # "delete",
           sweep' = "delete" => sweep = "delete",
           scans'["rows"] > 0 => scans["rows"] > 0,
           scans'["stamp"] > 0 => scans["stamp"] > 0 \/ scans["rows"] > 0,
           share'.removed => share.removed \/ scans["stamp"] > 0,
           ~share'.exists => \/ ~share.exists \/ sweep = "delete"
                             \/ \E r \in Requests : At(r, "delete")
    PROVE  FolderInv'
  <1>1. \A r \in Requests : At(r, "delete")' => At(r, "delete")
    BY DEF At
  <1> QED
    BY <1>1, FolderKept

\* A scan that moves on or ends.
LEMMA ScanCounts ==
    ASSUME TypeInv
    PROVE  /\ ScanGoesTo("list", "wipe") \/ ScanEnds("list") \/ ScanEnds("wipe")
              => scans'["rows"] = scans["rows"] /\ scans'["stamp"] = scans["stamp"]
           /\ ScanGoesTo("rows", "stamp") /\ scans["rows"] > 0 => scans'["rows"] < scans["rows"]
           /\ ScanEnds("stamp") /\ scans["stamp"] > 0
              => scans'["rows"] = scans["rows"] /\ scans'["stamp"] < scans["stamp"]
           /\ scans["rows"] \in Nat /\ scans["stamp"] \in Nat
  BY DEF TypeInv, TypeOK, ScanPoints, ScanGoesTo, ScanEnds

LEMMA FolderStep ==
    ASSUME TypeInv, FolderInv, [Next]_vars
    PROVE  FolderInv'
  <1>0. share \in [exists : BOOLEAN, uploadLocked : BOOLEAN, isZipReady : BOOLEAN,
                   removed : BOOLEAN, today : BOOLEAN]
    BY DEF TypeInv, TypeOK
  <1>1. ASSUME NEW r \in Requests, Owner(r) PROVE FolderInv'
    <2>1. CASE RevertComplete(r)
      <3>1. share'.removed = share.removed /\ share'.exists = share.exists
        BY <1>0, <2>1 DEF RevertComplete, Reopened
      <3> QED
        BY <2>1, <3>1, FolderStays DEF RevertComplete, stored, zipping
    <2>2. CASE ~RevertComplete(r)
      <3>1. /\ \A q \in Requests : q # r => req'[q] = req[q]
            /\ req'[r].pc \in {"completed", "wipe", "check", "unlink"}
            /\ UNCHANGED <<disk, folder, zipping, scans, sweep>>
            /\ share' = [share EXCEPT !.today = TRUE] \/ share' = share
        BY <1>1, <2>2, Started DEF Owner
      <3>2. share'.removed = share.removed /\ share'.exists = share.exists
        BY <1>0, <3>1
      <3>3. archive' = archive
        BY <3>1 DEF zipping
      <3> QED
        BY <3>1, <3>2, <3>3, FolderStays
    <2> QED
      BY <2>1, <2>2
  <1>2. ASSUME NEW r \in Requests,
               \/ CheckUnlocked(r) \/ CreateRow(r) \/ DropRow(r)
               \/ LinkUser(r) \/ StartScan(r) \/ Lock(r)
        PROVE  FolderInv'
    <2>1. /\ \E pc \in {"store", "lock"} : GoTo(r, pc) \/ End(r) \/ req' = req
          /\ UNCHANGED <<disk, folder, sweep>> /\ archive' = archive
      BY <1>2 DEF CheckUnlocked, CreateRow, DropRow, LinkUser, StartScan, Lock, stored, zipping
    <2>2. \A q \in Requests : req'[q] = req[q] \/ req'[q].pc # "delete"
      BY <2>1, Elsewhere
    <2>3. scans'["rows"] = scans["rows"] /\ scans'["stamp"] = scans["stamp"]
      <3>1. scans' = scans \/ scans' = [scans EXCEPT !["list"] = @ + 1]
        BY <1>2 DEF CheckUnlocked, CreateRow, DropRow, LinkUser, StartScan, Lock
      <3> QED
        BY <3>1 DEF TypeInv, TypeOK, ScanPoints
    <2>4. share'.removed = share.removed /\ share'.exists = share.exists
      <3>1. share' = share \/ share' = [share EXCEPT !.uploadLocked = TRUE, !.today = TRUE]
        BY <1>2 DEF CheckUnlocked, CreateRow, DropRow, LinkUser, StartScan, Lock
      <3> QED
        BY <1>0, <3>1
    <2> QED
      BY <2>1, <2>2, <2>3, <2>4, FolderStays
  <1>3. ASSUME NEW r \in Requests, CheckCompleted(r) \/ Mail(r) PROVE FolderInv'
    <2>1. /\ UNCHANGED <<disk, folder, sweep, scans, share>> /\ archive' = archive
      BY <1>3 DEF CheckCompleted, Mail, stored, zipping
    <2>2. At(r, "completed") \/ At(r, "mail")
      BY <1>3 DEF CheckCompleted, Mail
    <2>3. \/ req' = [req EXCEPT ![r].pc = "mail", ![r].to = Recipients] \/ End(r)
          \/ \E p \in req[r].to : req' = [req EXCEPT ![r].to = @ \ {p}]
      BY <1>3 DEF CheckCompleted, Mail
    <2>4. /\ \A q \in Requests : q # r => req'[q] = req[q]
          /\ req'[r].pc # "delete"
      <3>1. req \in [Requests -> RequestStates] /\ req[r] \in RequestStates
        BY DEF TypeInv, TypeOK
      <3>2. CASE End(r)
        BY <3>2, Elsewhere, IdleType
      <3>3. CASE req' = [req EXCEPT ![r].pc = "mail", ![r].to = Recipients]
        <4>1. /\ req'[r] = [req[r] EXCEPT !.pc = "mail", !.to = Recipients]
              /\ \A q \in Requests : q # r => req'[q] = req[q]
          BY <3>1, <3>3
        <4> QED
          BY <3>1, <4>1 DEF RequestStates
      <3>4. ASSUME NEW p \in req[r].to, req' = [req EXCEPT ![r].to = @ \ {p}]
            PROVE  /\ \A q \in Requests : q # r => req'[q] = req[q]
                   /\ req'[r].pc # "delete"
        <4>1. /\ req'[r] = [req[r] EXCEPT !.to = @ \ {p}]
              /\ \A q \in Requests : q # r => req'[q] = req[q]
          BY <3>1, <3>4
        <4>2. req'[r].pc = req[r].pc
          BY <3>1, <4>1 DEF RequestStates
        <4> QED
          BY <2>2, <4>1, <4>2 DEF At
      <3> QED
        BY <2>3, <3>2, <3>3, <3>4
    <2> QED
      BY <2>1, <2>4, FolderStays
  <1>4. ASSUME NEW r \in Requests, StoreFile(r) \/ Unlink(r) PROVE FolderInv'
    <2>1. /\ \E pc \in {"row", "dropRow"} : GoTo(r, pc) \/ End(r)
          /\ folder' = folder /\ UNCHANGED <<share, sweep, scans>> /\ archive' = archive
          /\ ~folder => disk' \subseteq disk
      BY <1>4 DEF StoreFile, Unlink, zipping
    <2>2. \A q \in Requests : At(q, "delete")' => At(q, "delete")
      <3>1. \A q \in Requests : req'[q] = req[q] \/ req'[q].pc # "delete"
        BY <2>1, Elsewhere
      <3> QED
        BY <3>1 DEF At
    <2> QED
      BY <2>1, <2>2, FolderKept
  <1>5. ASSUME NEW r \in Requests, RemoveRow(r) PROVE FolderInv'
    <2>1. /\ End(r) /\ At(r, "delete") /\ UNCHANGED <<disk, folder, scans, sweep>>
          /\ archive' = archive
      BY <1>5 DEF RemoveRow, zipping
    <2>2. \A q \in Requests : req'[q] = req[q] \/ req'[q].pc # "delete"
      BY <2>1, Elsewhere, IdleType
    <2>3. share'.removed = share.removed
      BY <1>0, <1>5 DEF RemoveRow, DeleteRow
    <2> QED
      BY <2>1, <2>2, <2>3, FolderStays
  <1>6. ASSUME NEW r \in Requests, RemoveFolder(r) PROVE FolderInv'
    BY <1>6, FolderKept DEF RemoveFolder, FolderGone
  <1>7. CASE ZipStep
    <2>1. UNCHANGED <<req, disk, folder, scans, sweep>>
      BY <1>7 DEF ZipStep, BuildZip, FinishZip, FailZip, Publish, stored
    <2>2. share'.removed = share.removed /\ share'.exists = share.exists
      BY <1>0, <1>7 DEF ZipStep, BuildZip, FinishZip, FailZip, Publish
    <2>3. ~folder /\ archive.state = "none" => archive'.state = "none"
      BY <1>7 DEF ZipStep, BuildZip, FinishZip, FailZip, Publish
    <2>4. \A q \in Requests : At(q, "delete")' => At(q, "delete")
      BY <2>1 DEF At
    <2> QED
      BY <2>1, <2>2, <2>3, <2>4, FolderKept
  <1>8. CASE ScanStep
    <2>1. req' = req /\ sweep' = sweep
      BY <1>8 DEF ScanStep, ListFolder, RemoveInfected, DropRows, StampRemoved
    <2>2. CASE ListFolder
      BY <2>1, <2>2, ScanCounts, FolderStays DEF ListFolder, stored, zipping
    <2>3. CASE RemoveInfected
      <3>1. CASE FolderGone
        BY <3>1, FolderKept DEF FolderGone
      <3>2. CASE ScanEnds("wipe") /\ UNCHANGED <<disk, folder, archive>>
        BY <2>1, <2>3, <3>2, ScanCounts, FolderStays DEF RemoveInfected
      <3> QED
        BY <2>3, <3>1, <3>2 DEF RemoveInfected
    <2>4. CASE DropRows
      <3>1. scans["rows"] > 0 /\ UNCHANGED <<disk, folder, share>> /\ archive' = archive
        BY <2>4 DEF DropRows, Scanning, zipping
      <3> QED
        BY <2>1, <3>1, FolderStays
    <2>5. CASE StampRemoved
      <3>1. /\ scans["stamp"] > 0 /\ ScanEnds("stamp") /\ UNCHANGED <<disk, folder>>
            /\ archive' = archive
            /\ share'.exists = share.exists
        BY <1>0, <2>5 DEF StampRemoved, Scanning, stored, zipping
      <3> QED
        BY <2>1, <3>1, ScanCounts, FolderStays
    <2> QED
      BY <1>8, <2>2, <2>3, <2>4, <2>5 DEF ScanStep
  <1>9. CASE Sweep
    <2>1. UNCHANGED <<req, disk, folder, scans, share>> /\ archive' = archive
          /\ sweep' = "wipe"
      BY <1>9 DEF Sweep, stored, zipping
    <2> QED
      BY <2>1, FolderStays
  <1>10. CASE SweepFolder
    BY <1>10, FolderKept DEF SweepFolder, FolderGone
  <1>11. CASE SweepRow
    <2>1. UNCHANGED <<req, disk, folder, scans>> /\ archive' = archive
          /\ sweep = "delete" /\ sweep' = "idle"
      BY <1>11 DEF SweepRow, zipping
    <2>2. share'.removed = share.removed
      BY <1>0, <1>11 DEF SweepRow, DeleteRow
    <2> QED
      BY <2>1, <2>2, FolderStays
  <1>12. CASE DayPasses
    <2>1. /\ UNCHANGED <<req, disk, folder, scans, sweep>> /\ archive' = archive
          /\ share'.removed = share.removed /\ share'.exists = share.exists
      BY <1>0, <1>12 DEF DayPasses, stored, zipping
    <2> QED
      BY <2>1, FolderStays
  <1>13. CASE Crash
    <2>1. /\ UNCHANGED <<disk, folder, share>> /\ sweep' = "idle"
          /\ \A r \in Requests : req'[r] = Idle
          /\ \A p \in ScanPoints : scans'[p] = 0
          /\ archive.state = "none" => archive'.state = "none"
      BY <1>13 DEF Crash, stored
    <2>2. \A q \in Requests : ~At(q, "delete")'
      BY <2>1, IdleType DEF At
    <2>3. ~(scans'["rows"] > 0) /\ ~(scans'["stamp"] > 0)
      BY <2>1 DEF ScanPoints
    <2> QED
      BY <2>1, <2>2, <2>3, FolderKept
  <1>14. CASE UNCHANGED vars
    BY <1>14, FolderStays DEF vars, stored, zipping
  <1> QED
    BY <1>1, <1>2, <1>3, <1>4, <1>5, <1>6, <1>7, <1>8, <1>9, <1>10, <1>11, <1>12, <1>13, <1>14
    DEF Next, Program, RequestStep, SweepStep

LEMMA FolderHolds == Spec => []FolderInv
  <1>1. Init => FolderInv
    BY IdleType DEF Init, FolderInv, NoArchive, At, ScanPoints
  <1> QED
    BY <1>1, TypesHold, FolderStep, PTL DEF Spec

\* What was deleted, or removed by the antivirus, serves nothing: no upload
\* and no rebuild that was under way brings a byte back
\* (clamscan.service.ts:363, file.service.ts:212).
THEOREM GoneForGood == Spec => []GoneServesNothing
  <1>1. FolderInv => GoneServesNothing
    BY DEF FolderInv, GoneServesNothing
  <1> QED
    BY <1>1, FolderHolds, PTL

-----------------------------------------------------------------------------
(* The archive.                                                            *)

\* The archive that is being written is that of the rebuild whose turn it is.
Writing ==
    archive.state = "writing" => /\ zipRebuilds # <<>>
                                 /\ Head(zipRebuilds).stage = "build"
                                 /\ Head(zipRebuilds).of = archive.of

\* The last rebuild that was asked for read its rows after these files were
\* read, and lacks none of those that nobody deleted.
Covers(F) ==
    /\ archive.state = "whole" /\ archive.of = asked => F \ deleted \subseteq archive.entries
    /\ \A i \in DOMAIN zipRebuilds :
          zipRebuilds[i].of = asked /\ zipRebuilds[i].stage = "build"
          => F \ deleted \subseteq zipRebuilds[i].entries

\* It covers what each completion under way, and the last that ended, mailed.
ArchiveInv ==
    /\ Writing
    /\ \A r \in Requests :
          /\ At(r, "mail") \/ At(r, "lock")
          /\ Cardinality(req[r].files) > 1
          => Covers(req[r].files)
    /\ Cardinality(promised) > 1 => Covers(promised)

\* No rebuild is of something nobody asked for.
LEMMA OfAsked ==
    ASSUME TypeInv
    PROVE  /\ asked \in Nat /\ archive.of \in 0 .. asked
           /\ \A i \in DOMAIN zipRebuilds : zipRebuilds[i].of \in 1 .. asked
           /\ zipRebuilds # <<>> => 1 \in DOMAIN zipRebuilds /\ zipRebuilds[1] = Head(zipRebuilds)
  <1> DEFINE S == [of : 1 .. asked, stage : {"queued", "build"}, entries : SUBSET Files]
  <1>1. zipRebuilds \in Seq(S)
    BY DEF TypeInv, TypeOK
  <1>2. asked \in Nat /\ archive.of \in 0 .. asked
    BY DEF TypeInv, TypeOK
  <1> HIDE DEF S
  <1>3. \A i \in DOMAIN zipRebuilds : zipRebuilds[i] \in S
    BY <1>1
  <1>4. zipRebuilds # <<>> => 1 \in DOMAIN zipRebuilds /\ zipRebuilds[1] = Head(zipRebuilds)
    BY <1>1
  <1> QED
    BY <1>2, <1>3, <1>4 DEF S

\* The chain without its first.
LEMMA TailIsLater ==
    ASSUME TypeInv, zipRebuilds # <<>>, NEW i \in DOMAIN Tail(zipRebuilds)
    PROVE  i + 1 \in DOMAIN zipRebuilds /\ Tail(zipRebuilds)[i] = zipRebuilds[i + 1]
  <1> DEFINE S == [of : 1 .. asked, stage : {"queued", "build"}, entries : SUBSET Files]
  <1>1. zipRebuilds \in Seq(S)
    BY DEF TypeInv, TypeOK
  <1> HIDE DEF S
  <1> QED
    BY <1>1

\* The invariant follows from what is covered, and who reads it.
LEMMA ArchiveKept ==
    ASSUME TypeInv, ArchiveInv, Writing',
           \A r \in Requests : At(r, "mail")' \/ At(r, "lock")' =>
              /\ At(r, "mail") \/ At(r, "lock")
              /\ req'[r].files = req[r].files,
           \/ promised' = promised
           \/ \E r \in Requests : At(r, "lock") /\ promised' = req[r].files,
           \A F \in SUBSET Files : Covers(F) /\ F \subseteq rows \cup deleted => Covers(F)'
    PROVE  ArchiveInv'
  <1>1. ASSUME NEW r \in Requests, At(r, "mail") \/ At(r, "lock"),
               Cardinality(req[r].files) > 1,
               NEW F \in SUBSET Files, F = req[r].files
        PROVE  Covers(F)'
    <2>1. F \subseteq rows \cup deleted
      BY <1>1 DEF TypeInv, Known
    <2>2. Covers(F)
      BY <1>1 DEF ArchiveInv
    <2> QED
      BY <2>1, <2>2
  <1>2. ASSUME Cardinality(promised) > 1, NEW F \in SUBSET Files, F = promised
        PROVE  Covers(F)'
    <2>1. F \subseteq rows \cup deleted
      BY <1>2 DEF TypeInv, Known
    <2>2. Covers(F)
      BY <1>2 DEF ArchiveInv
    <2> QED
      BY <2>1, <2>2
  <1>3. \A r \in Requests : req[r].files \in SUBSET Files
    BY ReqField DEF TypeInv
  <1>4. promised \in SUBSET Files
    BY DEF TypeInv, TypeOK
  <1>5. ASSUME NEW r \in Requests, At(r, "mail")' \/ At(r, "lock")',
               Cardinality(req'[r].files) > 1,
               NEW F \in SUBSET Files, F = req'[r].files
        PROVE  Covers(F)'
    <2>1. req'[r].files = req[r].files /\ (At(r, "mail") \/ At(r, "lock"))
      BY <1>5
    <2>2. Cardinality(req[r].files) > 1
      BY <1>5, <2>1
    <2> QED
      BY <1>1, <1>5, <2>1, <2>2
  <1>6. ASSUME Cardinality(promised') > 1, NEW F \in SUBSET Files, F = promised'
        PROVE  Covers(F)'
    <2>1. CASE promised' = promised
      <3>1. Cardinality(promised) > 1
        BY <1>6, <2>1
      <3> QED
        BY <1>2, <1>6, <2>1, <3>1
    <2>2. ASSUME NEW r \in Requests, At(r, "lock"), promised' = req[r].files
          PROVE  Covers(F)'
      <3>1. Cardinality(req[r].files) > 1
        BY <1>6, <2>2
      <3> QED
        BY <1>1, <1>6, <2>2, <3>1
    <2> QED
      BY <2>1, <2>2
  <1>7. \A r \in Requests : req'[r].files \in SUBSET Files \/ ~(At(r, "mail")' \/ At(r, "lock")')
    BY <1>3
  <1>8. promised' \in SUBSET Files
    BY <1>3, <1>4
  <1>9. \A r \in Requests :
           /\ At(r, "mail")' \/ At(r, "lock")'
           /\ Cardinality(req'[r].files) > 1
           => Covers(req[r].files)'
    BY <1>5, <1>7 DEF Covers
  <1>10. Cardinality(promised') > 1 => Covers(promised)'
    BY <1>6, <1>8 DEF Covers
  <1> QED
    BY <1>9, <1>10 DEF ArchiveInv, Requests

\* What is deleted needs no cover any more.
LEMMA CoversStays ==
    ASSUME NEW F, Covers(F), deleted \subseteq deleted',
           archive' = archive \/ archive' = NoArchive, UNCHANGED <<zipRebuilds, asked>>
    PROVE  Covers(F)'
  BY DEF Covers, NoArchive

LEMMA ArchiveStays ==
    ASSUME TypeInv, ArchiveInv, deleted \subseteq deleted',
           archive' = archive \/ archive' = NoArchive, UNCHANGED <<zipRebuilds, asked>>,
           \A r \in Requests : At(r, "mail")' \/ At(r, "lock")' =>
              /\ At(r, "mail") \/ At(r, "lock")
              /\ req'[r].files = req[r].files,
           \/ promised' = promised
           \/ \E r \in Requests : At(r, "lock") /\ promised' = req[r].files
    PROVE  ArchiveInv'
  <1>1. ASSUME NEW F \in SUBSET Files, Covers(F)
        PROVE  Covers(F)'
    BY <1>1, CoversStays, Zenon
  <1>2. Writing'
    BY DEF ArchiveInv, Writing, NoArchive
  <1> QED
    BY <1>1, <1>2, ArchiveKept

\* What was deleted once stays so.
LEMMA DeletedGrows ==
    ASSUME [Next]_vars
    PROVE  deleted \subseteq deleted'
  <1>1. ASSUME NEW r \in Requests, Owner(r) PROVE deleted' = deleted
    BY <1>1 DEF Owner, Complete, RevertComplete, Remove, UploadFile, RemoveFile, stored
  <1>2. ASSUME NEW r \in Requests, RequestStep(r) PROVE deleted \subseteq deleted'
    BY <1>2 DEF RequestStep, CheckUnlocked, StoreFile, CreateRow, Unlink, DropRow,
       CheckCompleted, Mail, LinkUser, StartScan, Lock, RemoveFolder, RemoveRow, DeleteRow,
       Forget, stored
  <1>3. CASE ZipStep \/ ScanStep
    BY <1>3 DEF ZipStep, BuildZip, FinishZip, FailZip, Publish, ScanStep, ListFolder,
       RemoveInfected, DropRows, StampRemoved, Forget, stored
  <1>4. CASE SweepStep \/ DayPasses \/ Crash \/ UNCHANGED vars
    BY <1>4 DEF SweepStep, Sweep, SweepFolder, SweepRow, DeleteRow, DayPasses, Crash,
       Forget, stored, vars
  <1> QED
    BY <1>1, <1>2, <1>3, <1>4 DEF Next, Program

LEMMA BuildCovers ==
    ASSUME TypeInv, BuildZip, Writing, NEW F, Covers(F), F \subseteq rows \cup deleted
    PROVE  Covers(F)' /\ Writing'
  <1>0. /\ zipRebuilds # <<>> /\ Head(zipRebuilds).stage = "queued" /\ UNCHANGED <<deleted, asked>>
    BY DEF BuildZip, Rebuilding, stored
  <1>1. CASE /\ archive' = [state |-> "writing", entries |-> {}, of |-> Head(zipRebuilds).of]
             /\ zipRebuilds' = [zipRebuilds EXCEPT ![1].stage = "build", ![1].entries = rows]
    <2> DEFINE S == [of : 1 .. asked, stage : {"queued", "build"}, entries : SUBSET Files]
    <2>1. zipRebuilds \in Seq(S)
      BY DEF TypeInv, TypeOK
    <2>2. \A e \in S : /\ [e EXCEPT !.stage = "build", !.entries = rows].stage = "build"
                       /\ [e EXCEPT !.stage = "build", !.entries = rows].entries = rows
                       /\ [e EXCEPT !.stage = "build", !.entries = rows].of = e.of
      OBVIOUS
    <2> HIDE DEF S
    <2>3. /\ DOMAIN zipRebuilds' = DOMAIN zipRebuilds
          /\ \A i \in DOMAIN zipRebuilds : i # 1 => zipRebuilds'[i] = zipRebuilds[i]
          /\ 1 \in DOMAIN zipRebuilds /\ zipRebuilds[1] \in S /\ zipRebuilds[1] = Head(zipRebuilds)
          /\ zipRebuilds'[1] = [zipRebuilds[1] EXCEPT !.stage = "build", !.entries = rows]
          /\ zipRebuilds' # <<>> /\ Head(zipRebuilds') = zipRebuilds'[1]
      <3> DEFINE b == [zipRebuilds[1] EXCEPT !.stage = "build", !.entries = rows]
      <3>1. 1 \in 1 .. Len(zipRebuilds) /\ DOMAIN zipRebuilds = 1 .. Len(zipRebuilds)
        BY <1>0, <2>1
      <3>2. zipRebuilds[1] \in S /\ zipRebuilds[1] = Head(zipRebuilds)
        BY <2>1, <3>1
      <3>3. zipRebuilds' = [zipRebuilds EXCEPT ![1] = b]
        BY <1>1, <3>1
      <3> HIDE DEF b
      <3>4. /\ DOMAIN zipRebuilds' = DOMAIN zipRebuilds /\ zipRebuilds'[1] = b
            /\ \A i \in DOMAIN zipRebuilds : i # 1 => zipRebuilds'[i] = zipRebuilds[i]
        BY <2>1, <3>1, <3>3
      <3>5. zipRebuilds' # <<>> /\ Head(zipRebuilds') = zipRebuilds'[1]
        BY <2>1, <3>1, <3>4
      <3> QED
        BY <3>1, <3>2, <3>4, <3>5 DEF b
    <2>4. /\ zipRebuilds'[1].stage = "build" /\ zipRebuilds'[1].entries = rows
          /\ zipRebuilds'[1].of = zipRebuilds[1].of
      BY <2>2, <2>3
    <2>5. Writing'
      BY <1>1, <2>3, <2>4 DEF Writing
    <2>6. Covers(F)'
      BY <1>0, <1>1, <2>3, <2>4 DEF Covers
    <2> QED
      BY <2>5, <2>6
  <1>2. CASE /\ archive' = IF folder THEN [NoArchive EXCEPT !.state = "torn"] ELSE archive
             /\ zipRebuilds' = Tail(zipRebuilds)
    <2>1. archive.state # "writing"
      BY <1>0 DEF Writing
    <2>2. archive'.state = "torn" \/ archive' = archive
      BY <1>2 DEF NoArchive
    <2>3. \A i \in DOMAIN zipRebuilds' : /\ i + 1 \in DOMAIN zipRebuilds
                                         /\ zipRebuilds'[i] = zipRebuilds[i + 1]
      BY <1>0, <1>2, TailIsLater
    <2>4. Covers(F)'
      BY <1>0, <2>2, <2>3 DEF Covers
    <2> QED
      BY <2>1, <2>2, <2>4 DEF Writing
  <1> QED
    BY <1>1, <1>2 DEF BuildZip

LEMMA ZipEndCovers ==
    ASSUME TypeInv, FinishZip \/ FailZip, Writing, NEW F, Covers(F)
    PROVE  Covers(F)' /\ Writing'
  <1>0. /\ zipRebuilds # <<>> /\ Head(zipRebuilds).stage = "build" /\ UNCHANGED <<deleted, asked>>
        /\ zipRebuilds' = Tail(zipRebuilds)
    BY DEF FinishZip, FailZip, Rebuilding, stored
  <1>1. /\ 1 \in DOMAIN zipRebuilds /\ zipRebuilds[1] = Head(zipRebuilds)
        /\ \A i \in DOMAIN zipRebuilds' : /\ i + 1 \in DOMAIN zipRebuilds
                                          /\ zipRebuilds'[i] = zipRebuilds[i + 1]
    BY <1>0, OfAsked, TailIsLater
  <1>2. archive \in [state : {"none", "writing", "whole", "torn"},
                     entries : SUBSET Files, of : 0 .. asked]
    BY DEF TypeInv, TypeOK
  <1>3. \/ /\ archive.state = "writing" /\ archive'.state = "whole"
           /\ archive'.entries = Head(zipRebuilds).entries /\ archive'.of = archive.of
        \/ archive'.state = "torn"
        \/ archive' = archive /\ archive.state # "writing"
    BY <1>2 DEF FinishZip, FailZip, NoArchive
  <1>4. Covers(F)'
    <2>1. \A i \in DOMAIN zipRebuilds' :
             zipRebuilds'[i].of = asked' /\ zipRebuilds'[i].stage = "build"
             => F \ deleted' \subseteq zipRebuilds'[i].entries
      BY <1>0, <1>1 DEF Covers
    <2>2. archive'.state = "whole" /\ archive'.of = asked' => F \ deleted' \subseteq archive'.entries
      BY <1>0, <1>1, <1>3 DEF Covers, Writing
    <2> QED
      BY <2>1, <2>2 DEF Covers
  <1>5. Writing'
    BY <1>3 DEF Writing
  <1> QED
    BY <1>4, <1>5

\* A rebuild that is asked for now reads its rows later.
LEMMA QueueCovers ==
    ASSUME TypeInv, Writing, archive' = archive, asked' = asked + 1,
           zipRebuilds' = Append(zipRebuilds,
              [of |-> asked + 1, stage |-> "queued", entries |-> {}]),
           NEW F
    PROVE  Covers(F)' /\ Writing'
  <1> DEFINE S == [of : 1 .. asked, stage : {"queued", "build"}, entries : SUBSET Files]
             b == [of |-> asked + 1, stage |-> "queued", entries |-> {}]
  <1>1. zipRebuilds \in Seq(S) /\ b.stage = "queued"
    BY DEF TypeInv, TypeOK
  <1> HIDE DEF S, b
  <1>2. zipRebuilds' = Append(zipRebuilds, b)
    BY DEF b
  <1>3. \A i \in DOMAIN zipRebuilds' :
           (i \in DOMAIN zipRebuilds /\ zipRebuilds'[i] = zipRebuilds[i]) \/ zipRebuilds'[i] = b
    BY <1>1, <1>2
  <1>4. zipRebuilds # <<>> => zipRebuilds' # <<>> /\ Head(zipRebuilds') = Head(zipRebuilds)
    BY <1>1, <1>2
  <1>5. archive.of # asked' /\ \A i \in DOMAIN zipRebuilds : zipRebuilds[i].of # asked'
    BY OfAsked
  <1>6. Covers(F)'
    BY <1>1, <1>3, <1>5 DEF Covers
  <1> QED
    BY <1>4, <1>6 DEF Writing

LEMMA ArchiveStep ==
    ASSUME TypeInv, ArchiveInv, [Next]_vars
    PROVE  ArchiveInv'
  <1>0. deleted \subseteq deleted'
    BY DeletedGrows
  <1>1. ASSUME NEW r \in Requests, Owner(r) PROVE ArchiveInv'
    <2>1. CASE RevertComplete(r)
      <3>1. \A q \in Requests : At(q, "mail")' \/ At(q, "lock")' =>
               (At(q, "mail") \/ At(q, "lock")) /\ req'[q].files = req[q].files
        BY <2>1 DEF RevertComplete, At
      <3> QED
        BY <1>0, <2>1, <3>1, ArchiveStays DEF RevertComplete, stored, zipping, people
    <2>2. CASE ~RevertComplete(r)
      <3>1. /\ \A q \in Requests : q # r => req'[q] = req[q]
            /\ req'[r].pc \in {"completed", "wipe", "check", "unlink"}
            /\ UNCHANGED <<promised, rows, zipping>>
        BY <1>1, <2>2, Started DEF Owner
      <3>2. \A q \in Requests : At(q, "mail")' \/ At(q, "lock")' =>
               (At(q, "mail") \/ At(q, "lock")) /\ req'[q].files = req[q].files
        BY <3>1 DEF At
      <3>3. archive' = archive /\ UNCHANGED <<zipRebuilds, asked>>
        BY <3>1 DEF zipping
      <3> QED
        BY <1>0, <3>1, <3>2, <3>3, ArchiveStays
    <2> QED
      BY <2>1, <2>2
  <1>2. ASSUME NEW r \in Requests,
               \/ CheckUnlocked(r) \/ StoreFile(r) \/ CreateRow(r) \/ Unlink(r) \/ DropRow(r)
               \/ RemoveFolder(r) \/ RemoveRow(r)
        PROVE  ArchiveInv'
    <2>1. /\ \E pc \in {"store", "row", "dropRow", "delete"} : GoTo(r, pc) \/ End(r)
          /\ promised' = promised /\ UNCHANGED <<zipRebuilds, asked>>
          /\ archive' = archive \/ archive' = NoArchive
      BY <1>2 DEF CheckUnlocked, StoreFile, CreateRow, Unlink, DropRow, RemoveFolder,
         RemoveRow, FolderGone, people, zipping
    <2>2. /\ \A q \in Requests : q # r => req'[q] = req[q]
          /\ req'[r].pc \in {"store", "row", "dropRow", "delete", "idle"}
      BY <2>1, Elsewhere
    <2>3. \A q \in Requests : At(q, "mail")' \/ At(q, "lock")' =>
             (At(q, "mail") \/ At(q, "lock")) /\ req'[q].files = req[q].files
      BY <2>2 DEF At
    <2> QED
      BY <1>0, <2>1, <2>3, ArchiveStays
  <1>3. ASSUME NEW r \in Requests, CheckCompleted(r) PROVE ArchiveInv'
    <2>0. archive' = archive /\ promised' = promised /\ deleted' = deleted
      BY <1>3 DEF CheckCompleted, people, stored
    <2>1. CASE End(r) /\ UNCHANGED <<asked, zipRebuilds>>
      <3>0. \A q \in Requests : req'[q] = req[q] \/ req'[q] = Idle
        BY <2>1, Elsewhere
      <3>1. \A q \in Requests : At(q, "mail")' \/ At(q, "lock")' =>
               (At(q, "mail") \/ At(q, "lock")) /\ req'[q].files = req[q].files
        BY <3>0, IdleType DEF At
      <3> QED
        BY <1>0, <2>0, <2>1, <3>1, ArchiveStays
    <2>2. CASE /\ req' = [req EXCEPT ![r].pc = "mail", ![r].to = Recipients]
               /\ IF Cardinality(req[r].files) > 1
                  THEN /\ asked' = asked + 1
                       /\ zipRebuilds' = Append(zipRebuilds,
                             [of |-> asked + 1, stage |-> "queued", entries |-> {}])
                  ELSE UNCHANGED <<asked, zipRebuilds>>
      <3>1. req \in [Requests -> RequestStates] /\ req[r] \in RequestStates
        BY DEF TypeInv, TypeOK
      <3>2. /\ req'[r] = [req[r] EXCEPT !.pc = "mail", !.to = Recipients]
            /\ \A q \in Requests : q # r => req'[q] = req[q]
        BY <2>2, <3>1
      <3>3. req'[r].files = req[r].files
        BY <3>1, <3>2 DEF RequestStates
      <3>4. CASE /\ Cardinality(req[r].files) > 1 /\ asked' = asked + 1
                 /\ zipRebuilds' = Append(zipRebuilds,
                       [of |-> asked + 1, stage |-> "queued", entries |-> {}])
        <4>1. \A F : Covers(F)' /\ Writing'
          BY <2>0, <3>4, QueueCovers DEF ArchiveInv
        <4>2. \A q \in Requests : Covers(req[q].files)'
          BY <4>1 DEF Covers
        <4>3. Covers(promised)'
          BY <4>1 DEF Covers
        <4> QED
          BY <4>1, <4>2, <4>3 DEF ArchiveInv
      <3>5. CASE ~(Cardinality(req[r].files) > 1) /\ UNCHANGED <<asked, zipRebuilds>>
        <4>1. \A F : Covers(F) => Covers(F)'
          BY <2>0, <3>5 DEF Covers
        <4>2. Writing'
          BY <2>0, <3>5 DEF ArchiveInv, Writing
        <4>3. ASSUME NEW q \in Requests, At(q, "mail")' \/ At(q, "lock")',
                     Cardinality(req'[q].files) > 1
              PROVE  Covers(req[q].files)'
          <5>1. q # r /\ req'[q] = req[q]
            BY <3>2, <3>3, <3>5, <4>3
          <5>2. At(q, "mail") \/ At(q, "lock")
            BY <4>3, <5>1 DEF At
          <5>3. Covers(req[q].files)
            BY <4>3, <5>1, <5>2 DEF ArchiveInv
          <5> QED
            BY <2>0, <3>5, <5>1, <5>3 DEF Covers
        <4>4. Cardinality(promised') > 1 => Covers(promised)'
          BY <2>0, <3>5 DEF Covers, ArchiveInv
        <4> QED
          BY <4>2, <4>3, <4>4 DEF ArchiveInv
      <3> QED
        BY <2>2, <3>4, <3>5
    <2> QED
      BY <1>3, <2>1, <2>2 DEF CheckCompleted
  <1>4. ASSUME NEW r \in Requests, Mail(r) PROVE ArchiveInv'
    <2>0. archive' = archive /\ UNCHANGED <<zipRebuilds, asked, promised, rows>> /\ At(r, "mail")
      BY <1>4 DEF Mail, stored, zipping
    <2>1. \A q \in Requests : At(q, "mail")' \/ At(q, "lock")' =>
             (At(q, "mail") \/ At(q, "lock")) /\ req'[q].files = req[q].files
      <3>1. CASE End(r)
        <4>1. \A q \in Requests : req'[q] = req[q] \/ req'[q] = Idle
          BY <3>1, Elsewhere
        <4> QED
          BY <4>1, IdleType DEF At
      <3>2. ASSUME NEW p \in req[r].to, req' = [req EXCEPT ![r].to = @ \ {p}]
            PROVE  \A q \in Requests : At(q, "mail")' \/ At(q, "lock")' =>
                      (At(q, "mail") \/ At(q, "lock")) /\ req'[q].files = req[q].files
        <4>1. /\ req'[r] = [req[r] EXCEPT !.to = @ \ {p}] /\ req[r] \in RequestStates
              /\ \A q \in Requests : q # r => req'[q] = req[q]
          BY <3>2 DEF TypeInv, TypeOK
        <4>2. req'[r].files = req[r].files
          BY <4>1 DEF RequestStates
        <4> QED
          BY <2>0, <4>1, <4>2 DEF At
      <3> QED
        BY <1>4, <3>1, <3>2 DEF Mail
    <2> QED
      BY <1>0, <2>0, <2>1, ArchiveStays
  <1>5. ASSUME NEW r \in Requests, StartScan(r) PROVE ArchiveInv'
    <2>1. /\ GoTo(r, "lock") /\ At(r, "mail") /\ archive' = archive
          /\ UNCHANGED <<zipRebuilds, asked, promised, rows>>
      BY <1>5 DEF StartScan, Mailed, stored, zipping, people
    <2>2. \A q \in Requests : At(q, "mail")' \/ At(q, "lock")' =>
             (At(q, "mail") \/ At(q, "lock")) /\ req'[q].files = req[q].files
      BY <2>1, Elsewhere DEF At
    <2> QED
      BY <1>0, <2>1, <2>2, ArchiveStays
  <1>6. ASSUME NEW r \in Requests, Lock(r) PROVE ArchiveInv'
    <2>1. /\ End(r) /\ At(r, "lock") /\ archive' = archive
          /\ UNCHANGED <<zipRebuilds, asked, rows>>
          /\ promised' = promised \/ promised' = req[r].files
      BY <1>6 DEF Lock, stored, zipping
    <2>2. \A q \in Requests : req'[q] = req[q] \/ req'[q] = Idle
      BY <2>1, Elsewhere
    <2>3. \A q \in Requests : At(q, "mail")' \/ At(q, "lock")' =>
             (At(q, "mail") \/ At(q, "lock")) /\ req'[q].files = req[q].files
      BY <2>2, IdleType DEF At
    <2> QED
      BY <1>0, <2>1, <2>3, ArchiveStays
  <1>7. CASE \/ \E r \in Requests : LinkUser(r)
             \/ Publish \/ ScanStep \/ SweepStep \/ DayPasses \/ UNCHANGED vars
    <2>1. /\ req' = req /\ promised' = promised /\ UNCHANGED <<zipRebuilds, asked>>
          /\ archive' = archive \/ archive' = NoArchive
      BY <1>7 DEF LinkUser, Publish, ScanStep, ListFolder, RemoveInfected, DropRows,
         StampRemoved, FolderGone, SweepStep, Sweep, SweepFolder, SweepRow, DeleteRow,
         DayPasses, vars, stored, zipping, people
    <2>2. \A q \in Requests : At(q, "mail")' \/ At(q, "lock")' =>
             (At(q, "mail") \/ At(q, "lock")) /\ req'[q].files = req[q].files
      BY <2>1 DEF At
    <2> QED
      BY <1>0, <2>1, <2>2, ArchiveStays
  <1>8. CASE BuildZip \/ FinishZip \/ FailZip
    <2>1. req' = req /\ promised' = promised
      BY <1>8 DEF BuildZip, FinishZip, FailZip, people
    <2>2. \A F : Covers(F) /\ F \subseteq rows \cup deleted => Covers(F)'
      BY <1>8, BuildCovers, ZipEndCovers DEF ArchiveInv
    <2>3. Writing'
      <3>1. Covers({})
        BY DEF Covers
      <3> QED
        BY <1>8, <3>1, BuildCovers, ZipEndCovers DEF ArchiveInv
    <2>4. \A q \in Requests : At(q, "mail")' \/ At(q, "lock")' =>
             (At(q, "mail") \/ At(q, "lock")) /\ req'[q].files = req[q].files
      BY <2>1 DEF At
    <2> QED
      BY <2>1, <2>2, <2>3, <2>4, ArchiveKept
  <1>9. CASE Crash
    <2>1. /\ \A q \in Requests : req'[q] = Idle
          /\ promised' = promised /\ deleted' = deleted /\ asked' = asked /\ zipRebuilds' = <<>>
          /\ archive'.state = "torn" \/ (archive' = archive /\ archive.state # "writing")
      BY <1>9 DEF Crash, stored, people, NoArchive
    <2>2. \A q \in Requests : ~At(q, "mail")' /\ ~At(q, "lock")'
      BY <2>1, IdleType DEF At
    <2>3. \A F : Covers(F) => Covers(F)'
      BY <2>1 DEF Covers
    <2>4. Writing'
      BY <2>1 DEF Writing
    <2> QED
      BY <2>1, <2>2, <2>3, <2>4, ArchiveKept
  <1> QED
    BY <1>1, <1>2, <1>3, <1>4, <1>5, <1>6, <1>7, <1>8, <1>9
    DEF Next, Program, RequestStep, ZipStep

LEMMA ArchiveHolds == Spec => []ArchiveInv
  <1>1. Init => ArchiveInv
    <2>1. ASSUME Init PROVE ArchiveInv
      <3>1. /\ archive.state = "none" /\ zipRebuilds = <<>>
            /\ \A r \in Requests : ~At(r, "mail") /\ ~At(r, "lock")
        BY <2>1, IdleType DEF Init, NoArchive, At
      <3>2. \A F : Covers(F)
        BY <3>1 DEF Covers
      <3> QED
        BY <3>1, <3>2 DEF ArchiveInv, Writing
    <2> QED
      BY <2>1
  <1> QED
    BY <1>1, TypesHold, ArchiveStep, PTL DEF Spec

\* The archive that was asked for last has every file the mails named that
\* nobody deleted, whatever was reopened, completed and rebuilt in between
\* (share.service.ts:297).
THEOREM ArchiveKeepsThePromise == Spec => []PromisedInArchive
  <1>1. ArchiveInv => PromisedInArchive
    BY DEF ArchiveInv, Covers, PromisedInArchive
  <1> QED
    BY <1>1, ArchiveHolds, PTL

-----------------------------------------------------------------------------
(* The program runs out of work.                                           *)

\* How many steps a request has before it, mails and accounts aside.
StepsOf(pc) ==
    CASE pc \in {"check", "completed"}               -> 3
      [] pc \in {"store", "unlink", "wipe", "mail"}  -> 2
      [] pc \in {"row", "dropRow", "delete", "lock"} -> 1
      [] OTHER                                       -> 0

\* Whom it has yet to mail.
MailsOf(q) == CASE q.pc = "completed" -> Recipients
                [] q.pc = "mail"      -> q.to
                [] OTHER              -> {}

StepsLeft == {x \in Requests \X (1 .. 3) : x[2] <= StepsOf(req[x[1]].pc)}
MailsLeft == {x \in Requests \X Recipients : x[2] \in MailsOf(req[x[1]])}
LinksLeft == Registered \ linked

\* What goes on in the background, and the sweep that is due.
ZipsLeft == 4 * Len(zipRebuilds) - (IF Rebuilding("build") THEN 1 ELSE 0) + 2 * publishing
ScansLeft == 5 * scans["list"] + 4 * scans["wipe"] + 3 * scans["rows"] + 2 * scans["stamp"]
SweepLeft == CASE sweep = "wipe"   -> 2
               [] sweep = "delete" -> 1
               [] sweep = "idle"   -> IF share.exists /\ ~share.uploadLocked THEN 3 ELSE 0
TodayLeft == IF share.today THEN 1 ELSE 0
RestLeft == ZipsLeft + ScansLeft + SweepLeft + TodayLeft

\* A step of a request leaves at most five steps to the background: a rebuild
\* or a scan it starts, or a date of change.
WorkLeft ==
    6 * Cardinality(StepsLeft) + Cardinality(MailsLeft) + Cardinality(LinksLeft) + RestLeft

LEMMA RequestsFinite == IsFiniteSet(Requests)
  BY Bounds, FS_Interval DEF Requests

LEMMA UpToFinite ==
    ASSUME NEW n \in Nat
    PROVE  IsFiniteSet(1 .. n)
  BY FS_Interval

LEMMA StepsFinite == IsFiniteSet(StepsLeft) /\ Cardinality(StepsLeft) \in Nat
  <1>1. IsFiniteSet(1 .. 3)
    BY UpToFinite
  <1>2. IsFiniteSet(Requests \X (1 .. 3))
    BY <1>1, RequestsFinite, FS_Product
  <1>3. StepsLeft \in SUBSET (Requests \X (1 .. 3))
    BY DEF StepsLeft
  <1> QED
    BY <1>2, <1>3, FS_Subset, FS_CardinalityType

LEMMA MailsFinite == IsFiniteSet(MailsLeft) /\ Cardinality(MailsLeft) \in Nat
  <1>1. IsFiniteSet(Requests \X Recipients)
    BY RecipientsAssumption, RequestsFinite, FS_Product
  <1>2. MailsLeft \in SUBSET (Requests \X Recipients)
    BY DEF MailsLeft
  <1> QED
    BY <1>1, <1>2, FS_Subset, FS_CardinalityType

LEMMA LinksFinite == IsFiniteSet(LinksLeft) /\ Cardinality(LinksLeft) \in Nat
  <1>1. LinksLeft \in SUBSET Recipients
    BY DEF LinksLeft
  <1> QED
    BY <1>1, RecipientsAssumption, FS_Subset, FS_CardinalityType

\* Each part of the work is a natural number.
Counted ==
    /\ Cardinality(StepsLeft) \in Nat /\ Cardinality(MailsLeft) \in Nat
    /\ Cardinality(LinksLeft) \in Nat
    /\ ZipsLeft \in Nat /\ ScansLeft \in Nat
    /\ SweepLeft \in 0 .. 3 /\ TodayLeft \in 0 .. 1

LEMMA ZipsCounted ==
    ASSUME TypeInv
    PROVE  ZipsLeft \in Nat
  <1>1. /\ zipRebuilds \in Seq([of : 1 .. asked, stage : {"queued", "build"},
                                entries : SUBSET Files])
        /\ publishing \in Nat
    BY DEF TypeInv, TypeOK
  <1>2. Len(zipRebuilds) \in Nat /\ (zipRebuilds # <<>> => Len(zipRebuilds) > 0)
    BY <1>1
  <1>3. CASE zipRebuilds = <<>>
    BY <1>1, <1>2, <1>3 DEF ZipsLeft, Rebuilding
  <1>4. CASE zipRebuilds # <<>>
    <2>1. Len(zipRebuilds) > 0
      BY <1>2, <1>4
    <2> QED
      BY <1>1, <1>2, <2>1 DEF ZipsLeft
  <1> QED
    BY <1>3, <1>4

LEMMA WorkCounted == TypeInv => Counted
  <1> SUFFICES ASSUME TypeInv PROVE Counted
    OBVIOUS
  <1>1. scans \in [ScanPoints -> Nat]
    BY DEF TypeInv, TypeOK
  <1>2. /\ scans["list"] \in Nat /\ scans["wipe"] \in Nat
        /\ scans["rows"] \in Nat /\ scans["stamp"] \in Nat
    BY <1>1 DEF ScanPoints
  <1>3. ScansLeft \in Nat
    BY <1>2 DEF ScansLeft
  <1>4. SweepLeft \in 0 .. 3
    BY DEF TypeInv, TypeOK, SweepLeft
  <1>5. TodayLeft \in 0 .. 1
    BY DEF TodayLeft
  <1> QED
    BY <1>3, <1>4, <1>5, StepsFinite, MailsFinite, LinksFinite, ZipsCounted DEF Counted

LEMMA CountedStep ==
    ASSUME TypeInv, TypeInv'
    PROVE  Counted /\ Counted'
  <1>1. Counted'
    BY WorkCounted, PTL
  <1> QED
    BY <1>1, WorkCounted

LEMMA WorkIsNat == TypeInv => WorkLeft \in Nat
  BY WorkCounted DEF Counted, WorkLeft, RestLeft

\* A request that goes on has fewer steps before it and mails nobody new.
LEMMA StepsDrop ==
    ASSUME TypeInv, TypeInv', NEW r \in Requests, NEW s \in RequestStates,
           req' = [req EXCEPT ![r] = s],
           StepsOf(s.pc) < StepsOf(req[r].pc)
    PROVE  Cardinality(StepsLeft)' + 1 <= Cardinality(StepsLeft)
  <1> DEFINE x == <<r, StepsOf(req[r].pc)>>
  <1>1. \A q \in Requests : req'[q] = IF q = r THEN s ELSE req[q]
    BY DEF TypeInv, TypeOK
  <1>2. \A pc : StepsOf(pc) \in 0 .. 3
    BY DEF StepsOf
  <1>3. x \in StepsLeft
    BY <1>2 DEF StepsLeft
  <1>4. StepsLeft' \subseteq StepsLeft \ {x}
    <2> SUFFICES ASSUME NEW y \in StepsLeft' PROVE y \in StepsLeft /\ y # x
      OBVIOUS
    <2>1. PICK q \in Requests, n \in 1 .. 3 : y = <<q, n>> /\ n <= StepsOf(req'[q].pc)
      BY DEF StepsLeft
    <2>2. StepsOf(req[q].pc) \in 0 .. 3 /\ StepsOf(s.pc) \in 0 .. 3
      BY <1>2
    <2>3. CASE q = r
      BY <1>1, <1>2, <2>1, <2>2, <2>3 DEF StepsLeft
    <2>4. CASE q # r
      BY <1>1, <2>1, <2>4 DEF StepsLeft
    <2> QED
      BY <2>3, <2>4
  <1> HIDE DEF x
  <1>5. /\ IsFiniteSet(StepsLeft \ {x})
        /\ Cardinality(StepsLeft \ {x}) = Cardinality(StepsLeft) - 1
    BY <1>3, StepsFinite, FS_RemoveElement
  <1>6. Cardinality(StepsLeft') <= Cardinality(StepsLeft \ {x})
    BY <1>4, <1>5, FS_Subset
  <1>7. Cardinality(StepsLeft) \in Nat /\ Cardinality(StepsLeft)' \in Nat
    BY CountedStep DEF Counted
  <1> QED
    BY <1>5, <1>6, <1>7

LEMMA MailsKept ==
    ASSUME TypeInv, NEW r \in Requests, NEW s \in RequestStates,
           req' = [req EXCEPT ![r] = s], MailsOf(s) \subseteq MailsOf(req[r])
    PROVE  Cardinality(MailsLeft)' <= Cardinality(MailsLeft)
  <1>1. \A q \in Requests : req'[q] = IF q = r THEN s ELSE req[q]
    BY DEF TypeInv, TypeOK
  <1>2. MailsLeft' \subseteq MailsLeft
    <2> SUFFICES ASSUME NEW y \in MailsLeft' PROVE y \in MailsLeft
      OBVIOUS
    <2>1. PICK q \in Requests, p \in Recipients : y = <<q, p>> /\ p \in MailsOf(req'[q])
      BY DEF MailsLeft
    <2>2. p \in MailsOf(req[q])
      BY <1>1, <2>1
    <2> QED
      BY <2>1, <2>2 DEF MailsLeft
  <1> QED
    BY <1>2, MailsFinite, FS_Subset

\* The work is a natural number before a step and after it.
LEMMA PartsCounted ==
    ASSUME TypeInv, TypeInv'
    PROVE  /\ Cardinality(StepsLeft) \in Nat /\ Cardinality(StepsLeft)' \in Nat
           /\ Cardinality(MailsLeft) \in Nat /\ Cardinality(MailsLeft)' \in Nat
           /\ Cardinality(LinksLeft) \in Nat /\ Cardinality(LinksLeft)' \in Nat
           /\ RestLeft \in Nat /\ RestLeft' \in Nat
  BY CountedStep DEF Counted, RestLeft

LEMMA RestCounted ==
    ASSUME TypeInv, TypeInv'
    PROVE  /\ ZipsLeft \in Nat /\ ZipsLeft' \in Nat
           /\ ScansLeft \in Nat /\ ScansLeft' \in Nat
           /\ SweepLeft \in 0 .. 3 /\ SweepLeft' \in 0 .. 3
           /\ TodayLeft \in 0 .. 1 /\ TodayLeft' \in 0 .. 1
  BY CountedStep DEF Counted

\* A request goes on.
LEMMA WorkDrops ==
    ASSUME TypeInv, TypeInv', NEW r \in Requests, NEW s \in RequestStates,
           req' = [req EXCEPT ![r] = s],
           StepsOf(s.pc) < StepsOf(req[r].pc), MailsOf(s) \subseteq MailsOf(req[r]),
           linked' = linked, RestLeft' <= RestLeft + 5
    PROVE  WorkLeft' < WorkLeft
  <1>1. Cardinality(StepsLeft)' + 1 <= Cardinality(StepsLeft)
    BY StepsDrop
  <1>2. Cardinality(MailsLeft)' <= Cardinality(MailsLeft)
    BY MailsKept
  <1>3. Cardinality(LinksLeft)' = Cardinality(LinksLeft)
    BY DEF LinksLeft
  <1> QED
    BY <1>1, <1>2, <1>3, PartsCounted DEF WorkLeft

LEMMA WorkGoTo ==
    ASSUME TypeInv, TypeInv', NEW r \in Requests,
           NEW pc \in {"store", "row", "dropRow", "lock", "delete"},
           GoTo(r, pc), StepsOf(pc) < StepsOf(req[r].pc),
           linked' = linked, RestLeft' <= RestLeft + 5
    PROVE  WorkLeft' < WorkLeft
  <1> DEFINE s == [req[r] EXCEPT !.pc = pc]
  <1>1. req[r] \in RequestStates
    BY ReqField DEF TypeInv
  <1>2. s \in RequestStates /\ s.pc = pc
    BY <1>1 DEF RequestStates
  <1>3. req' = [req EXCEPT ![r] = s]
    BY DEF GoTo, TypeInv, TypeOK
  <1>4. MailsOf(s) \subseteq MailsOf(req[r])
    BY <1>2 DEF MailsOf
  <1> HIDE DEF s
  <1> QED
    BY <1>2, <1>3, <1>4, WorkDrops

LEMMA WorkEnds ==
    ASSUME TypeInv, TypeInv', NEW r \in Requests, End(r), ~At(r, "idle"),
           linked' = linked, RestLeft' <= RestLeft + 5
    PROVE  WorkLeft' < WorkLeft
  <1>1. req[r] \in RequestStates
    BY ReqField DEF TypeInv
  <1>2. StepsOf(Idle.pc) = 0 /\ MailsOf(Idle) = {}
    BY IdleType DEF StepsOf, MailsOf
  <1>3. StepsOf(req[r].pc) > 0
    BY <1>1 DEF At, RequestStates, StepsOf
  <1> QED
    BY <1>2, <1>3, IdleType, WorkDrops DEF End

\* The background goes on, and no request does.
LEMMA WorkBehind ==
    ASSUME TypeInv, TypeInv', req' = req, linked' = linked, RestLeft' < RestLeft
    PROVE  WorkLeft' < WorkLeft
  <1>1. Cardinality(StepsLeft)' = Cardinality(StepsLeft)
    BY DEF StepsLeft
  <1>2. Cardinality(MailsLeft)' = Cardinality(MailsLeft)
    BY DEF MailsLeft
  <1>3. Cardinality(LinksLeft)' = Cardinality(LinksLeft)
    BY DEF LinksLeft
  <1> QED
    BY <1>1, <1>2, <1>3, PartsCounted DEF WorkLeft

\* Nothing in the background moves.
LEMMA RestStays ==
    ASSUME TypeInv, TypeInv', UNCHANGED <<share, zipRebuilds, publishing, scans, sweep>>
    PROVE  RestLeft' = RestLeft /\ RestLeft \in Nat
  <1>1. ZipsLeft' = ZipsLeft
    BY DEF ZipsLeft, Rebuilding
  <1>2. ScansLeft' = ScansLeft
    BY DEF ScansLeft
  <1>3. SweepLeft' = SweepLeft /\ TodayLeft' = TodayLeft
    BY DEF SweepLeft, TodayLeft
  <1> QED
    BY <1>1, <1>2, <1>3, PartsCounted DEF RestLeft

LEMMA FileStepWork ==
    ASSUME TypeInv, TypeInv', NEW r \in Requests,
           \/ CheckUnlocked(r) \/ StoreFile(r) \/ CreateRow(r)
           \/ Unlink(r) \/ DropRow(r) \/ RemoveFolder(r)
    PROVE  WorkLeft' < WorkLeft
  <1>1. UNCHANGED <<share, zipRebuilds, publishing, scans, sweep, linked>>
    BY DEF CheckUnlocked, StoreFile, CreateRow, Unlink, DropRow, RemoveFolder,
           stored, zipping, people
  <1>2. RestLeft' <= RestLeft + 5
    BY <1>1, RestStays
  <1>3. CASE End(r)
    <2>1. ~At(r, "idle")
      BY DEF CheckUnlocked, StoreFile, CreateRow, Unlink, DropRow, RemoveFolder, At
    <2> QED
      BY <1>1, <1>2, <1>3, <2>1, WorkEnds
  <1>4. CASE At(r, "check") /\ GoTo(r, "store")
    BY <1>1, <1>2, <1>4, WorkGoTo DEF At, StepsOf
  <1>5. CASE At(r, "store") /\ GoTo(r, "row")
    BY <1>1, <1>2, <1>5, WorkGoTo DEF At, StepsOf
  <1>6. CASE At(r, "unlink") /\ GoTo(r, "dropRow")
    BY <1>1, <1>2, <1>6, WorkGoTo DEF At, StepsOf
  <1>7. CASE At(r, "wipe") /\ GoTo(r, "delete")
    BY <1>1, <1>2, <1>7, WorkGoTo DEF At, StepsOf
  <1> QED
    BY <1>3, <1>4, <1>5, <1>6, <1>7
       DEF CheckUnlocked, StoreFile, CreateRow, Unlink, DropRow, RemoveFolder

LEMMA ZipsChanged ==
    ASSUME TypeInv, TypeInv', UNCHANGED <<share, scans, sweep>>
    PROVE  RestLeft' - RestLeft = ZipsLeft' - ZipsLeft
  <1>1. ScansLeft' = ScansLeft /\ SweepLeft' = SweepLeft /\ TodayLeft' = TodayLeft
    BY DEF ScansLeft, SweepLeft, TodayLeft
  <1>2. ZipsLeft' \in Nat
    BY RestCounted
  <1> QED
    BY <1>1, <1>2, RestCounted DEF RestLeft

\* One more rebuild at the end of the chain.
LEMMA QueuedWork ==
    ASSUME TypeInv, NEW e, zipRebuilds' = Append(zipRebuilds, e),
           e.stage = "queued", publishing' = publishing
    PROVE  ZipsLeft' = ZipsLeft + 4
  <1>1. zipRebuilds \in Seq([of : 1 .. asked, stage : {"queued", "build"},
                              entries : SUBSET Files])
        /\ publishing \in Nat
    BY DEF TypeInv, TypeOK
  <1>2. Len(zipRebuilds') = Len(zipRebuilds) + 1 /\ Len(zipRebuilds) \in Nat
    BY <1>1
  <1>3. Rebuilding("build")' <=> Rebuilding("build")
    <2>1. CASE zipRebuilds = <<>>
      <3>1. Head(zipRebuilds') = e /\ zipRebuilds' # <<>>
        BY <2>1
      <3> QED
        BY <2>1, <3>1 DEF Rebuilding
    <2>2. CASE zipRebuilds # <<>>
      <3>1. Head(zipRebuilds') = Head(zipRebuilds) /\ zipRebuilds' # <<>>
        BY <1>1, <2>2
      <3> QED
        BY <2>2, <3>1 DEF Rebuilding
    <2> QED
      BY <2>1, <2>2
  <1> QED
    BY <1>1, <1>2, <1>3 DEF ZipsLeft

LEMMA CheckCompletedWork ==
    ASSUME TypeInv, TypeInv', NEW r \in Requests, CheckCompleted(r)
    PROVE  WorkLeft' < WorkLeft
  <1>1. UNCHANGED <<share, publishing, scans, sweep, linked>> /\ At(r, "completed")
    BY DEF CheckCompleted, people
  <1>2. RestLeft' <= RestLeft + 5
    <2>1. CASE zipRebuilds' = zipRebuilds
      BY <1>1, <2>1, RestStays
    <2>2. CASE zipRebuilds' = Append(zipRebuilds,
                   [of |-> asked + 1, stage |-> "queued", entries |-> {}])
      <3>1. ZipsLeft' = ZipsLeft + 4
        BY <1>1, <2>2, QueuedWork
      <3> QED
        BY <1>1, <3>1, ZipsChanged, RestCounted, PartsCounted
    <2> QED
      BY <2>1, <2>2 DEF CheckCompleted
  <1>3. CASE End(r)
    BY <1>1, <1>2, <1>3, WorkEnds DEF At
  <1>4. CASE req' = [req EXCEPT ![r].pc = "mail", ![r].to = Recipients]
    <2> DEFINE s == [req[r] EXCEPT !.pc = "mail", !.to = Recipients]
    <2>1. req[r] \in RequestStates
      BY ReqField DEF TypeInv
    <2>2. s \in RequestStates /\ s.pc = "mail" /\ s.to = Recipients
      BY <2>1 DEF RequestStates
    <2>3. req' = [req EXCEPT ![r] = s]
      BY <1>4 DEF TypeInv, TypeOK
    <2>4. MailsOf(s) \subseteq MailsOf(req[r])
      BY <1>1, <2>2 DEF MailsOf, At
    <2>5. StepsOf(s.pc) < StepsOf(req[r].pc)
      BY <1>1, <2>2 DEF StepsOf, At
    <2> HIDE DEF s
    <2> QED
      BY <1>1, <1>2, <2>2, <2>3, <2>4, <2>5, WorkDrops
  <1> QED
    BY <1>3, <1>4 DEF CheckCompleted

\* A mail that goes out is one less; one that is refused ends the request.
LEMMA MailWork ==
    ASSUME TypeInv, TypeInv', NEW r \in Requests, Mail(r)
    PROVE  WorkLeft' < WorkLeft
  <1>1. UNCHANGED <<share, zipRebuilds, publishing, scans, sweep, linked>> /\ At(r, "mail")
    BY DEF Mail, zipping
  <1>2. RestLeft' = RestLeft /\ RestLeft \in Nat
    BY <1>1, RestStays
  <1>3. CASE End(r)
    BY <1>1, <1>2, <1>3, WorkEnds DEF At
  <1>4. ASSUME NEW p \in req[r].to, req' = [req EXCEPT ![r].to = @ \ {p}]
        PROVE  WorkLeft' < WorkLeft
    <2>1. \A q \in Requests :
            req'[q] = IF q = r THEN [req[q] EXCEPT !.to = @ \ {p}] ELSE req[q]
      BY <1>4 DEF TypeInv, TypeOK
    <2>2. req[r] \in RequestStates /\ p \in Recipients
      BY <1>4, ReqField DEF TypeInv
    <2>3. \A q \in Requests : req'[q].pc = req[q].pc
      BY <2>1, <2>2 DEF RequestStates
    <2>4. req'[r].to = req[r].to \ {p}
      BY <2>1, <2>2 DEF RequestStates
    <2>5. StepsLeft' = StepsLeft
      BY <2>3 DEF StepsLeft
    <2>6. MailsLeft' \subseteq MailsLeft \ {<<r, p>>}
      <3> SUFFICES ASSUME NEW y \in MailsLeft'
                   PROVE  y \in MailsLeft /\ y # <<r, p>>
        OBVIOUS
      <3>1. PICK q \in Requests, t \in Recipients : y = <<q, t>> /\ t \in MailsOf(req'[q])
        BY DEF MailsLeft
      <3>2. CASE q = r
        <4>1. MailsOf(req'[r]) = req[r].to \ {p} /\ MailsOf(req[r]) = req[r].to
          BY <1>1, <2>3, <2>4 DEF MailsOf, At
        <4> QED
          BY <3>1, <3>2, <4>1 DEF MailsLeft
      <3>3. CASE q # r
        BY <2>1, <3>1, <3>3 DEF MailsLeft
      <3> QED
        BY <3>2, <3>3
    <2>7. <<r, p>> \in MailsLeft
      BY <1>1, <1>4, <2>2 DEF MailsLeft, MailsOf, At
    <2>8. /\ IsFiniteSet(MailsLeft \ {<<r, p>>})
          /\ Cardinality(MailsLeft \ {<<r, p>>}) = Cardinality(MailsLeft) - 1
      BY <2>7, MailsFinite, FS_RemoveElement
    <2>9. Cardinality(MailsLeft') <= Cardinality(MailsLeft \ {<<r, p>>})
      BY <2>6, <2>8, FS_Subset
    <2>10. LinksLeft' = LinksLeft
      BY <1>1 DEF LinksLeft
    <2> QED
      BY <1>2, <2>5, <2>8, <2>9, <2>10, PartsCounted DEF WorkLeft
  <1> QED
    BY <1>3, <1>4 DEF Mail

LEMMA LinkWork ==
    ASSUME TypeInv, TypeInv', NEW r \in Requests, LinkUser(r)
    PROVE  WorkLeft' < WorkLeft
  <1>1. UNCHANGED <<share, zipRebuilds, publishing, scans, sweep, req>>
    BY DEF LinkUser, zipping
  <1>2. RestLeft' = RestLeft /\ RestLeft \in Nat
    BY <1>1, RestStays
  <1>3. PICK p \in LinksLeft : linked' = linked \cup {p}
    BY DEF LinkUser, LinksLeft
  <1>4. LinksLeft' = LinksLeft \ {p}
    BY <1>3 DEF LinksLeft
  <1>5. Cardinality(LinksLeft)' = Cardinality(LinksLeft) - 1
    BY <1>3, <1>4, LinksFinite, FS_RemoveElement
  <1>6. StepsLeft' = StepsLeft /\ MailsLeft' = MailsLeft
    BY <1>1 DEF StepsLeft, MailsLeft
  <1> QED
    BY <1>2, <1>5, <1>6, PartsCounted DEF WorkLeft

LEMMA StartScanWork ==
    ASSUME TypeInv, TypeInv', NEW r \in Requests, StartScan(r)
    PROVE  WorkLeft' < WorkLeft
  <1>1. /\ UNCHANGED <<share, zipRebuilds, publishing, sweep, linked>>
        /\ At(r, "mail") /\ GoTo(r, "lock")
        /\ scans' = [scans EXCEPT !["list"] = @ + 1]
    BY DEF StartScan, Mailed, zipping, people
  <1>2. ZipsLeft' = ZipsLeft /\ SweepLeft' = SweepLeft /\ TodayLeft' = TodayLeft
    BY <1>1 DEF ZipsLeft, Rebuilding, SweepLeft, TodayLeft
  <1>3. ScansLeft' = ScansLeft + 5
    <2>1. scans \in [ScanPoints -> Nat]
      BY DEF TypeInv, TypeOK
    <2> QED
      BY <1>1, <2>1 DEF ScanPoints, ScansLeft
  <1>4. RestLeft' <= RestLeft + 5
    BY <1>2, <1>3, RestCounted DEF RestLeft
  <1> QED
    BY <1>1, <1>4, WorkGoTo DEF At, StepsOf

\* What the row says of the sweep and of the day.
LEMMA ShareWork ==
    ASSUME TypeInv, TypeInv', UNCHANGED <<zipRebuilds, publishing, scans, sweep>>,
           share'.exists /\ ~share'.uploadLocked => share.exists /\ ~share.uploadLocked
    PROVE  RestLeft' <= RestLeft + 1
  <1>1. ZipsLeft' = ZipsLeft /\ ScansLeft' = ScansLeft
    BY DEF ZipsLeft, Rebuilding, ScansLeft
  <1>2. SweepLeft' <= SweepLeft
    <2>1. sweep \in {"idle", "wipe", "delete"}
      BY DEF TypeInv, TypeOK
    <2> QED
      BY <2>1 DEF SweepLeft
  <1>3. TodayLeft' \in 0 .. 1 /\ TodayLeft \in 0 .. 1
    BY DEF TodayLeft
  <1>4. SweepLeft' \in 0 .. 3
    BY RestCounted
  <1> QED
    BY <1>1, <1>2, <1>3, <1>4, RestCounted DEF RestLeft

LEMMA RowStepWork ==
    ASSUME TypeInv, TypeInv', NEW r \in Requests, Lock(r) \/ RemoveRow(r)
    PROVE  WorkLeft' < WorkLeft
  <1>1. /\ UNCHANGED <<zipRebuilds, publishing, scans, sweep, linked>>
        /\ End(r) /\ ~At(r, "idle")
    BY DEF Lock, RemoveRow, zipping, people, At
  <1>2. share'.exists /\ ~share'.uploadLocked => share.exists /\ ~share.uploadLocked
    BY ShareField DEF TypeInv, Lock, RemoveRow, DeleteRow
  <1>3. RestLeft' <= RestLeft + 1
    BY <1>1, <1>2, ShareWork
  <1>4. RestLeft' <= RestLeft + 5
    BY <1>3, PartsCounted
  <1> QED
    BY <1>1, <1>4, WorkEnds

\* A rebuild that leaves the chain takes its part of the work with it.
LEMMA ZipLeaves ==
    ASSUME TypeInv, zipRebuilds # <<>>, zipRebuilds' = Tail(zipRebuilds),
           publishing' \in Nat
    PROVE  ZipsLeft' <= 4 * (Len(zipRebuilds) - 1) + 2 * publishing'
  <1>1. zipRebuilds \in Seq([of : 1 .. asked, stage : {"queued", "build"},
                              entries : SUBSET Files])
    BY DEF TypeInv, TypeOK
  <1>2. Len(zipRebuilds') = Len(zipRebuilds) - 1 /\ Len(zipRebuilds) \in Nat
    BY <1>1
  <1> QED
    BY <1>2 DEF ZipsLeft

LEMMA ZipStepWork ==
    ASSUME TypeInv, TypeInv', ZipStep
    PROVE  WorkLeft' < WorkLeft
  <1>1. req' = req /\ linked' = linked
    BY DEF ZipStep, BuildZip, FinishZip, FailZip, Publish, people
  <1>2. /\ publishing \in Nat /\ publishing' \in Nat
        /\ zipRebuilds \in Seq([of : 1 .. asked, stage : {"queued", "build"},
                                entries : SUBSET Files])
    BY DEF TypeInv, TypeOK
  <1>3. Len(zipRebuilds) \in Nat
    BY <1>2
  <1>4. ASSUME BuildZip \/ FinishZip \/ FailZip
        PROVE  ZipsLeft' < ZipsLeft /\ UNCHANGED <<share, scans, sweep>>
    <2>1. UNCHANGED <<share, scans, sweep>>
      BY <1>4 DEF BuildZip, FinishZip, FailZip
    <2>2. zipRebuilds # <<>>
      BY <1>4 DEF BuildZip, FinishZip, FailZip, Rebuilding
    <2>3. ASSUME Rebuilding("queued"), publishing' = publishing,
                 zipRebuilds' = [zipRebuilds EXCEPT ![1].stage = "build", ![1].entries = rows]
          PROVE  ZipsLeft' < ZipsLeft
      <3>1. Len(zipRebuilds') = Len(zipRebuilds) /\ Len(zipRebuilds) > 0
        BY <1>2, <2>2, <2>3
      <3>2. ~Rebuilding("build")
        BY <2>3 DEF Rebuilding
      <3>3. Rebuilding("build")'
        <4> DEFINE S == [of : 1 .. asked, stage : {"queued", "build"},
                         entries : SUBSET Files]
        <4>1. zipRebuilds \in Seq(S)
          BY <1>2
        <4> HIDE DEF S
        <4>2. 1 \in DOMAIN zipRebuilds /\ zipRebuilds[1] \in S
          BY <3>1, <4>1
        <4>3. zipRebuilds'[1].stage = "build"
          BY <2>3, <4>2 DEF S
        <4>4. zipRebuilds' # <<>> /\ Head(zipRebuilds') = zipRebuilds'[1]
          BY <1>3, <3>1
        <4> QED
          BY <4>3, <4>4 DEF Rebuilding
      <3> QED
        BY <1>2, <1>3, <2>3, <3>1, <3>2, <3>3 DEF ZipsLeft
    <2>4. CASE zipRebuilds' = Tail(zipRebuilds) /\ publishing' = publishing
      <3>1. ZipsLeft' <= 4 * (Len(zipRebuilds) - 1) + 2 * publishing
        BY <1>2, <2>2, <2>4, ZipLeaves
      <3>2. ZipsLeft >= 4 * Len(zipRebuilds) - 1 + 2 * publishing
        BY <1>2, <1>3 DEF ZipsLeft
      <3>3. ZipsLeft \in Nat /\ ZipsLeft' \in Nat
        BY RestCounted
      <3> QED
        BY <1>2, <1>3, <2>1, <3>1, <3>2, <3>3
    <2>5. CASE FinishZip
      <3>1. /\ Rebuilding("build") /\ zipRebuilds' = Tail(zipRebuilds)
            /\ publishing' = publishing + 1
        BY <2>5 DEF FinishZip
      <3>2. ZipsLeft' <= 4 * (Len(zipRebuilds) - 1) + 2 * (publishing + 1)
        BY <1>2, <2>2, <3>1, ZipLeaves
      <3>3. ZipsLeft = 4 * Len(zipRebuilds) - 1 + 2 * publishing
        BY <3>1 DEF ZipsLeft
      <3>4. ZipsLeft' \in Nat
        BY RestCounted
      <3> QED
        BY <1>2, <1>3, <2>1, <3>2, <3>3, <3>4
    <2> QED
      BY <1>4, <2>1, <2>3, <2>4, <2>5 DEF BuildZip, FailZip
  <1>5. CASE BuildZip \/ FinishZip \/ FailZip
    <2>1. RestLeft' < RestLeft
      <3>1. ZipsLeft' \in Nat /\ ZipsLeft \in Nat
        BY RestCounted
      <3> QED
        BY <1>4, <1>5, <3>1, ZipsChanged, PartsCounted
    <2> QED
      BY <1>1, <2>1, WorkBehind
  <1>6. CASE Publish
    <2>1. /\ UNCHANGED <<zipRebuilds, scans, sweep>> /\ publishing' = publishing - 1
          /\ share'.exists = share.exists /\ share'.uploadLocked = share.uploadLocked
      BY <1>6, ShareField DEF TypeInv, Publish
    <2>2. ZipsLeft' = ZipsLeft - 2
      BY <1>2, <1>3, <2>1 DEF ZipsLeft, Rebuilding
    <2>3. ScansLeft' = ScansLeft /\ SweepLeft' = SweepLeft
      BY <2>1 DEF ScansLeft, SweepLeft
    <2>4. TodayLeft' <= TodayLeft + 1 /\ TodayLeft' \in 0 .. 1 /\ TodayLeft \in 0 .. 1
      BY DEF TodayLeft
    <2>5. RestLeft' < RestLeft
      BY <2>2, <2>3, <2>4, RestCounted DEF RestLeft
    <2> QED
      BY <1>1, <2>5, WorkBehind
  <1> QED
    BY <1>5, <1>6 DEF ZipStep

LEMMA ScanStepWork ==
    ASSUME TypeInv, TypeInv', ScanStep
    PROVE  WorkLeft' < WorkLeft
  <1>1. /\ UNCHANGED <<req, linked, zipRebuilds, publishing, sweep>>
        /\ share'.exists = share.exists /\ share'.uploadLocked = share.uploadLocked
    BY ShareField
       DEF TypeInv, ScanStep, ListFolder, RemoveInfected, DropRows, StampRemoved,
           zipping, people
  <1>2. ZipsLeft' = ZipsLeft /\ SweepLeft' = SweepLeft
    BY <1>1 DEF ZipsLeft, Rebuilding, SweepLeft
  <1>3. scans \in [ScanPoints -> Nat]
    BY DEF TypeInv, TypeOK
  <1>4. TodayLeft' \in 0 .. 1 /\ TodayLeft \in 0 .. 1
    BY DEF TodayLeft
  <1>5. CASE ListFolder \/ RemoveInfected \/ DropRows
    <2>1. TodayLeft' = TodayLeft
      BY <1>5 DEF ListFolder, RemoveInfected, DropRows, TodayLeft
    <2>2. ScansLeft' < ScansLeft
      <3>1. CASE ListFolder
        BY <1>3, <3>1 DEF ListFolder, ScanEnds, ScanGoesTo, Scanning, ScanPoints, ScansLeft
      <3>2. CASE RemoveInfected
        BY <1>3, <3>2 DEF RemoveInfected, ScanEnds, ScanGoesTo, Scanning, ScanPoints,
                          ScansLeft
      <3>3. CASE DropRows
        BY <1>3, <3>3 DEF DropRows, ScanGoesTo, Scanning, ScanPoints, ScansLeft
      <3> QED
        BY <1>5, <3>1, <3>2, <3>3
    <2>3. ScansLeft' \in Nat
      BY RestCounted
    <2>4. RestLeft' < RestLeft
      BY <1>2, <1>4, <2>1, <2>2, <2>3, RestCounted DEF RestLeft
    <2> QED
      BY <1>1, <2>4, WorkBehind
  <1>6. CASE StampRemoved
    <2>1. ScansLeft' = ScansLeft - 2
      BY <1>3, <1>6 DEF StampRemoved, ScanEnds, Scanning, ScanPoints, ScansLeft
    <2>2. RestLeft' < RestLeft
      BY <1>2, <1>4, <2>1, RestCounted DEF RestLeft
    <2> QED
      BY <1>1, <2>2, WorkBehind
  <1> QED
    BY <1>5, <1>6 DEF ScanStep

LEMMA ClockWork ==
    ASSUME TypeInv, TypeInv', SweepStep \/ DayPasses
    PROVE  WorkLeft' < WorkLeft
  <1>1. UNCHANGED <<req, linked, zipRebuilds, publishing, scans>>
    BY DEF SweepStep, Sweep, SweepFolder, SweepRow, DayPasses, zipping, people
  <1>2. ZipsLeft' = ZipsLeft /\ ScansLeft' = ScansLeft
    BY <1>1 DEF ZipsLeft, Rebuilding, ScansLeft
  <1>3. SweepLeft + TodayLeft > SweepLeft' + TodayLeft'
    <2>1. CASE Sweep
      BY <2>1 DEF Sweep, SweepLeft, TodayLeft
    <2>2. CASE SweepFolder
      BY <2>2 DEF SweepFolder, SweepLeft, TodayLeft
    <2>3. CASE SweepRow
      BY <2>3, ShareField DEF TypeInv, SweepRow, DeleteRow, SweepLeft, TodayLeft
    <2>4. CASE DayPasses
      <3>1. /\ share'.exists = share.exists /\ share'.uploadLocked = share.uploadLocked
            /\ share.today /\ ~share'.today /\ sweep' = sweep
        BY <2>4, ShareField DEF TypeInv, DayPasses
      <3>2. SweepLeft' = SweepLeft /\ SweepLeft \in 0 .. 3
        BY <3>1, RestCounted DEF SweepLeft
      <3> QED
        BY <3>1, <3>2 DEF TodayLeft
    <2> QED
      BY <2>1, <2>2, <2>3, <2>4 DEF SweepStep
  <1>4. SweepLeft' \in 0 .. 3 /\ TodayLeft' \in 0 .. 1
    BY RestCounted
  <1>5. RestLeft' < RestLeft
    BY <1>2, <1>3, <1>4, RestCounted DEF RestLeft
  <1> QED
    BY <1>1, <1>5, WorkBehind

LEMMA ProgramWork ==
    ASSUME TypeInv, TypeInv', Program
    PROVE  WorkLeft' < WorkLeft
  <1>1. ASSUME NEW r \in Requests, RequestStep(r)
        PROVE  WorkLeft' < WorkLeft
    BY <1>1, FileStepWork, CheckCompletedWork, MailWork, LinkWork, StartScanWork,
       RowStepWork DEF RequestStep
  <1> QED
    BY <1>1, ZipStepWork, ScanStepWork, ClockWork DEF Program

\* Nothing the program starts keeps itself going: between two acts of the owner
\* it has only so many steps before it, the mails, the rebuilds, the scans and
\* the sweep of a transfer that was left unfinished included, and each of them
\* leaves fewer.  A handler that called itself again, or a sweep that took up
\* what it had deleted, would not (share.service.ts:202, jobs.service.ts:106).
THEOREM ProgramRunsOut ==
    Spec => [](WorkLeft \in Nat) /\ [][Program => WorkLeft' < WorkLeft]_vars
  <1>1. TypeInv /\ TypeInv' /\ [Next]_vars => [Program => WorkLeft' < WorkLeft]_vars
    BY ProgramWork
  <1> QED
    BY <1>1, WorkIsNat, TypesHold, PTL DEF Spec

=============================================================================
