---------------------------- MODULE UploadProofs ----------------------------
(***************************************************************************)
(* What TLAPS proves of Upload, for any number of files, chunks, requests, *)
(* attempts and failures.                                                  *)
(***************************************************************************)
EXTENDS Upload, TLAPS, FiniteSetTheorems

\* What the proofs need of the constants.
LEMMA Bounds ==
    /\ Chunks \in [File -> Nat \ {0}]
    /\ MaxAttempts \in Nat \ {0}
    /\ MaxId \in Nat
    /\ None \notin File /\ None \notin Handler /\ None \notin Nat
    /\ Torn \notin Nat
  BY ChunksAssumption, LimitAssumption, KindAssumption

LEMMA FaultBound == \A b \in Batches, k \in Faults : MaxFaults[<<b, k>>] \in Nat
  BY LimitAssumption

LEMMA BatchFiles == \A b \in Batches : b \subseteq File
  BY LimitAssumption

USE Bounds

Waiting(l) == loop[l].pc = "wait"
Busy(h)    == handler[h].pc # "free"

\* A run waits for the request it sent, and nobody else waits for it.
WaitsForItsOwn ==
    /\ \A l \in Loop :
         IF Waiting(l)
         THEN /\ loop[l].on \in Handler
              /\ Busy(loop[l].on)
              /\ handler[loop[l].on].file = l[1]
              /\ loop[l].id # None => handler[loop[l].on].id = loop[l].id
         ELSE loop[l].on = None
    /\ \A l, m \in Loop : Waiting(l) /\ Waiting(m) /\ loop[l].on = loop[m].on => l = m

\* Requests and runs speak of chunks the file has and of ids the page minted.
InRange ==
    /\ \A h \in Handler : Busy(h) => /\ handler[h].file \in File
                                     /\ handler[h].id \in Id
                                     /\ handler[h].id <= minted
                                     /\ handler[h].at < Chunks[handler[h].file]
    /\ \A l \in Loop : /\ loop[l].pc = "send" => loop[l].at < Chunks[l[1]]
                       /\ loop[l].id # None => loop[l].id <= minted

Runs == WaitsForItsOwn /\ InRange
RunsInv == TypeOK /\ Runs

\* The file a run sends is a file.
LEMMA LoopFile == \A l \in Loop : l[1] \in File
  BY KindAssumption DEF Loop

\* Whatever rows a progress is written to, it stays the progress of every file.
LEMMA ShowType ==
    ASSUME progress \in [File -> {"queued", "sending", "done", "failed"}],
           NEW f, NEW mark \in {"queued", "sending", "done", "failed"}, Show(f, mark)
    PROVE  progress' \in [File -> {"queued", "sending", "done", "failed"}]
  BY DEF Show

\* A run starts with no failure, which is less than it may have.
LEMMA NoTries == 0 \in 0..(MaxAttempts - 1)
  OBVIOUS

\* What the constructors build is a run or a request.
LEMMA RunType ==
    ASSUME NEW pc \in {"idle", "queued", "send", "wait", "backoff", "sent", "failed"},
           NEW at \in Nat, NEW tries \in 0..(MaxAttempts - 1), NEW id \in Id \cup {None},
           NEW on \in Handler \cup {None}
    PROVE  RunAt(pc, at, tries, id, on) \in LoopState
  BY DEF RunAt, LoopState

LEMMA HandlerType ==
    ASSUME NEW pc \in {"free", "check", "stat", "append", "move", "row", "reply"},
           NEW f \in File \cup {None}, NEW id \in Id \cup {None}, NEW at \in Nat
    PROVE  HandlerAt(pc, f, id, at) \in HandlerState
  BY DEF HandlerAt, HandlerState

LEMMA FreeType == Free \in HandlerState
  BY HandlerType DEF Free

LEMMA AtType ==
    ASSUME TypeOK, NEW h \in Handler,
           NEW pc \in {"free", "check", "stat", "append", "move", "row", "reply"}
    PROVE  At(h, pc) \in HandlerState
  <1>1. /\ handler[h].file \in File \cup {None}
        /\ handler[h].id \in Id \cup {None}
        /\ handler[h].at \in Nat
    BY DEF TypeOK, HandlerState
  <1>2. HandlerAt(pc, handler[h].file, handler[h].id, handler[h].at) \in HandlerState
    BY <1>1, HandlerType
  <1>3. QED
    BY <1>2 DEF At

LEMMA ReplyType ==
    ASSUME TypeOK, NEW h \in Handler, NEW a \in {"ok", "unexpected", "error"}, NEW e \in Nat
    PROVE  Reply(h, a, e) \in HandlerState
  <1>1. handler[h] \in HandlerState
    BY DEF TypeOK
  <1>2. QED
    BY <1>1 DEF Reply, HandlerState

\* What a failure and an answer make of a run.
LEMMA FailedType ==
    ASSUME TypeOK, NEW l \in Loop
    PROVE  /\ Failed(l) \in LoopState
           /\ Failed(l).pc \in {"failed", "backoff"}
           /\ Failed(l).on = None
           /\ Failed(l).id \in {None, loop[l].id}
  <1>1. loop[l] \in LoopState
    BY DEF TypeOK
  <1>2. loop[l].tries \in 0..(MaxAttempts - 1) /\ loop[l].id \in Id \cup {None}
    BY <1>1 DEF LoopState
  <1>3. CASE page # "edit" /\ loop[l].tries + 1 >= MaxAttempts
    <2>1. Failed(l) = RunAt("failed", 0, 0, None, None)
      BY <1>3 DEF Failed
    <2>2. RunAt("failed", 0, 0, None, None) \in LoopState
      BY RunType, NoTries
    <2>3. QED
      BY <2>1, <2>2 DEF RunAt
  <1>4. CASE ~(page # "edit" /\ loop[l].tries + 1 >= MaxAttempts)
    <2> DEFINE t == IF page = "edit" THEN 0 ELSE loop[l].tries + 1
    <2>1. Failed(l) = RunAt("backoff", 0, t, loop[l].id, None)
      BY <1>4 DEF Failed
    <2>2. t \in 0..(MaxAttempts - 1)
      BY <1>2, <1>4
    <2> HIDE DEF t
    <2>3. RunAt("backoff", 0, t, loop[l].id, None) \in LoopState
      BY <1>2, <2>2, RunType
    <2>4. QED
      BY <2>1, <2>3 DEF RunAt
  <1>5. QED
    BY <1>3, <1>4

LEMMA GoOnType ==
    ASSUME NEW l \in Loop, NEW at \in Nat, NEW tries \in 0..(MaxAttempts - 1),
           NEW id \in Id \cup {None}
    PROVE  /\ GoOn(l, at, tries, id) \in LoopState
           /\ GoOn(l, at, tries, id).pc \in {"send", "sent"}
           /\ GoOn(l, at, tries, id).on = None
           /\ GoOn(l, at, tries, id).id \in {None, id}
           /\ GoOn(l, at, tries, id).pc = "send" => GoOn(l, at, tries, id).at < Chunks[l[1]]
  <1>1. CASE at < Chunks[l[1]]
    <2>1. RunAt("send", at, tries, id, None) \in LoopState
      BY RunType
    <2>2. QED
      BY <1>1, <2>1 DEF GoOn, RunAt
  <1>2. CASE ~(at < Chunks[l[1]])
    <2>1. RunAt("sent", 0, 0, None, None) \in LoopState
      BY RunType, NoTries
    <2>2. QED
      BY <1>2, <2>1 DEF GoOn, RunAt
  <1>3. QED
    BY <1>1, <1>2

-----------------------------------------------------------------------------
(* The ways a step moves runs and requests, and what each keeps.           *)

\* A run moves on without a request; the request it may have had goes on.
LEMMA RunMoves ==
    ASSUME RunsInv, NEW l \in Loop, NEW r \in LoopState,
           loop' = [loop EXCEPT ![l] = r],
           r.pc # "wait", r.on = None, r.id \in {None, loop[l].id},
           r.pc = "send" => r.at < Chunks[l[1]],
           UNCHANGED <<handler, minted>>
    PROVE  Runs'
  <1>1. \A m \in Loop : loop'[m] = IF m = l THEN r ELSE loop[m]
    BY DEF RunsInv, TypeOK
  <1>2. WaitsForItsOwn'
    BY <1>1 DEF RunsInv, Runs, WaitsForItsOwn, Waiting, Busy
  <1>3. InRange'
    BY <1>1 DEF RunsInv, Runs, InRange, Busy
  <1>4. QED
    BY <1>2, <1>3 DEF Runs

\* A run gets the answer it waited for, or learns that it is lost.
LEMMA RunAnswered ==
    ASSUME RunsInv, NEW l \in Loop, NEW r \in LoopState, Waiting(l),
           loop' = [loop EXCEPT ![l] = r],
           handler' = [handler EXCEPT ![loop[l].on] = Free],
           r.pc # "wait", r.on = None, r.id \in {None, loop[l].id, handler[loop[l].on].id},
           r.pc = "send" => r.at < Chunks[l[1]],
           UNCHANGED minted
    PROVE  Runs'
  <1>1. \A m \in Loop : loop'[m] = IF m = l THEN r ELSE loop[m]
    BY DEF RunsInv, TypeOK
  <1>2. loop[l].on \in Handler /\ Busy(loop[l].on)
    BY DEF RunsInv, Runs, WaitsForItsOwn
  <1>3. \A h \in Handler : handler'[h] = IF h = loop[l].on THEN Free ELSE handler[h]
    BY <1>2 DEF RunsInv, TypeOK
  <1>4. ~(Free.pc # "free")
    BY DEF Free, HandlerAt
  <1>5. \A m \in Loop : m # l /\ Waiting(m) => loop[m].on # loop[l].on
    BY DEF RunsInv, Runs, WaitsForItsOwn
  <1>6. WaitsForItsOwn'
    BY <1>1, <1>2, <1>3, <1>5 DEF RunsInv, Runs, WaitsForItsOwn, Waiting, Busy
  <1>7. InRange'
    BY <1>1, <1>2, <1>3, <1>4 DEF RunsInv, Runs, InRange, Busy
  <1>8. QED
    BY <1>6, <1>7 DEF Runs

\* A request goes on, for the same chunk of the same file.
LEMMA RequestMoves ==
    ASSUME RunsInv, NEW h \in Handler, Busy(h), NEW r \in HandlerState,
           handler' = [handler EXCEPT ![h] = r],
           r.pc # "free", r.file = handler[h].file, r.id = handler[h].id, r.at = handler[h].at,
           UNCHANGED <<loop, minted>>
    PROVE  Runs'
  <1>1. \A g \in Handler : handler'[g] = IF g = h THEN r ELSE handler[g]
    BY DEF RunsInv, TypeOK
  <1>2. WaitsForItsOwn'
    BY <1>1 DEF RunsInv, Runs, WaitsForItsOwn, Waiting, Busy
  <1>3. InRange'
    BY <1>1 DEF RunsInv, Runs, InRange, Busy
  <1>4. QED
    BY <1>2, <1>3 DEF Runs

-----------------------------------------------------------------------------
(* Types, and that runs and requests belong together.                      *)

LEMMA InitRuns == Init => RunsInv
  <1> SUFFICES ASSUME Init PROVE RunsInv
    OBVIOUS
  <1>1. 0 \in 0..(MaxAttempts - 1)
    OBVIOUS
  <1>2. /\ RunAt("queued", 0, 0, None, None) \in LoopState
        /\ NoRun \in LoopState
    BY <1>1, RunType DEF NoRun
  <1>3. loop \in [Loop -> LoopState]
    BY <1>2 DEF Init
  <1>4. /\ handler \in [Handler -> HandlerState]
        /\ tmp \in [Id -> Seq(Nat \cup {Torn})]
        /\ disk \in [Id -> Seq(Nat \cup {Torn})]
    BY FreeType DEF Init
  <1>5. TypeOK
    <2>1. batch \in Batches /\ kinds \in Faults /\ MaxFaults[<<batch, kinds>>] \in Nat
      BY FaultBound DEF Init
    <2>2. nas \in BOOLEAN /\ locked \in BOOLEAN
      BY ZenonT(20) DEF Init
    <2>3. progress \in [File -> {"queued", "sending", "done", "failed"}]
      BY DEF Init
    <2>4. page \in {"send", "combined", "edit"}
      BY KindAssumption DEF Init
    <2>5. list \subseteq batch /\ promised \subseteq batch
      BY DEF Init
    <2>6. minted \in 0..MaxId /\ faults \in 0..MaxFaults[<<batch, kinds>>]
      BY <2>1 DEF Init
    <2>7. row \in [Id -> File \cup {None}]
      BY DEF Init
    <2>8. QED
      BY <1>3, <1>4, <2>1, <2>2, <2>3, <2>4, <2>5, <2>6, <2>7 DEF TypeOK
  <1>6. \A l \in Loop : loop[l].pc \in {"queued", "idle"} /\ loop[l].on = None /\ loop[l].id = None
    BY DEF Init, RunAt, NoRun
  <1>7. \A h \in Handler : ~Busy(h)
    BY DEF Init, Busy, Free, HandlerAt
  <1>8. QED
    BY <1>5, <1>6, <1>7 DEF RunsInv, Runs, WaitsForItsOwn, InRange, Waiting

LEMMA BeginRuns ==
    ASSUME RunsInv, NEW l \in Loop, Begin(l)
    PROVE  RunsInv'
  <1> DEFINE r == RunAt("send", 0, 0, None, None)
  <1>1. r \in LoopState
    BY RunType, NoTries
  <1>2. r.pc = "send" /\ r.on = None /\ r.id = None /\ r.at = 0
    BY DEF RunAt
  <1>3. Chunks[l[1]] > 0
    BY LoopFile
  <1> HIDE DEF r
  <1>4. loop' = [loop EXCEPT ![l] = r] /\ UNCHANGED <<handler, minted>>
    BY DEF Begin, r, serverVars
  <1>5. Runs'
    BY <1>1, <1>2, <1>3, <1>4, RunMoves
  <1>a. progress' \in [File -> {"queued", "sending", "done", "failed"}]
    BY ShowType DEF Begin, TypeOK, RunsInv
  <1>6. TypeOK'
    BY <1>1, <1>4, <1>a DEF Begin, TypeOK, serverVars, RunsInv
  <1>7. QED
    BY <1>5, <1>6 DEF RunsInv

LEMMA ResumeRuns ==
    ASSUME RunsInv, NEW l \in Loop, Resume(l)
    PROVE  RunsInv'
  <1> DEFINE r == RunAt("send", 0, loop[l].tries, loop[l].id, None)
  <1>1. loop[l].tries \in 0..(MaxAttempts - 1) /\ loop[l].id \in Id \cup {None}
    BY DEF RunsInv, TypeOK, LoopState
  <1>2. r \in LoopState
    BY <1>1, RunType
  <1>3. r.pc = "send" /\ r.on = None /\ r.id = loop[l].id /\ r.at = 0
    BY DEF RunAt
  <1>4. Chunks[l[1]] > 0
    BY LoopFile
  <1> HIDE DEF r
  <1>5. loop' = [loop EXCEPT ![l] = r] /\ UNCHANGED <<handler, minted>>
    BY DEF Resume, r, serverVars
  <1>6. Runs'
    BY <1>2, <1>3, <1>4, <1>5, RunMoves
  <1>7. TypeOK'
    BY <1>2, <1>5 DEF Resume, TypeOK, serverVars, RunsInv
  <1>8. QED
    BY <1>6, <1>7 DEF RunsInv

LEMMA RetryRuns ==
    ASSUME RunsInv, NEW l \in Loop, RetryFile(l)
    PROVE  RunsInv'
  <1> DEFINE r == RunAt("queued", 0, 0, None, None)
  <1>1. r \in LoopState
    BY RunType, NoTries
  <1>2. r.pc = "queued" /\ r.on = None /\ r.id = None
    BY DEF RunAt
  <1> HIDE DEF r
  <1>3. loop' = [loop EXCEPT ![l] = r] /\ UNCHANGED <<handler, minted>>
    BY DEF RetryFile, r, serverVars
  <1>4. Runs'
    BY <1>1, <1>2, <1>3, RunMoves
  <1>5. TypeOK'
    BY <1>1, <1>3 DEF RetryFile, TypeOK, serverVars, RunsInv
  <1>6. QED
    BY <1>4, <1>5 DEF RunsInv

LEMMA AbandonRuns ==
    ASSUME RunsInv, NEW l \in Loop, Abandon(l)
    PROVE  RunsInv'
  <1> DEFINE r == Failed(l)
  <1>1. r \in LoopState /\ r.pc \in {"failed", "backoff"} /\ r.on = None
        /\ r.id \in {None, loop[l].id}
    BY FailedType DEF RunsInv
  <1>2. loop' = [loop EXCEPT ![l] = r] /\ UNCHANGED <<handler, minted>>
    BY DEF Abandon, RunFails, serverVars
  <1> HIDE DEF r
  <1>3. Runs'
    BY <1>1, <1>2, RunMoves
  <1>a. progress' \in [File -> {"queued", "sending", "done", "failed"}]
    BY ShowType DEF Abandon, RunFails, TypeOK, RunsInv
  <1>4. TypeOK'
    BY <1>1, <1>2, <1>a, FaultBound DEF Abandon, Fault, TypeOK, serverVars, RunsInv
  <1>5. QED
    BY <1>3, <1>4 DEF RunsInv

LEMMA LostRuns ==
    ASSUME RunsInv, NEW l \in Loop, AnswerLost(l)
    PROVE  RunsInv'
  <1> DEFINE r == Failed(l)
  <1>1. r \in LoopState /\ r.pc \in {"failed", "backoff"} /\ r.on = None
        /\ r.id \in {None, loop[l].id}
    BY FailedType DEF RunsInv
  <1>2. /\ Waiting(l)
        /\ loop' = [loop EXCEPT ![l] = r]
        /\ handler' = [handler EXCEPT ![loop[l].on] = Free]
        /\ UNCHANGED minted
    BY DEF AnswerLost, RunFails, Waiting
  <1> HIDE DEF r
  <1>3. Runs'
    BY <1>1, <1>2, RunAnswered
  <1>4. faults' \in 0..MaxFaults[<<batch, kinds>>]
    BY FaultBound DEF AnswerLost, Fault, TypeOK, RunsInv
  <1>5. /\ handler' \in [Handler -> HandlerState]
        /\ loop' \in [Loop -> LoopState]
    BY <1>1, <1>2, FreeType DEF TypeOK, RunsInv
  <1>8. progress' \in [File -> {"queued", "sending", "done", "failed"}]
    BY ShowType DEF AnswerLost, RunFails, TypeOK, RunsInv
  <1>6. TypeOK'
    BY <1>4, <1>5, <1>8 DEF AnswerLost, TypeOK, RunsInv
  <1>7. QED
    BY <1>3, <1>6 DEF RunsInv

LEMMA AnsweredRuns ==
    ASSUME RunsInv, NEW l \in Loop, Answered(l)
    PROVE  RunsInv'
  <1> DEFINE h == handler[loop[l].on]
  <1>1. /\ Waiting(l) /\ loop[l].on \in Handler /\ Busy(loop[l].on)
        /\ loop[l] \in LoopState /\ h \in HandlerState
    BY DEF Answered, Waiting, RunsInv, Runs, WaitsForItsOwn, TypeOK
  <1>2. /\ h.at \in Nat /\ h.expected \in Nat /\ h.id \in Id
        /\ loop[l].tries \in 0..(MaxAttempts - 1) /\ loop[l].id \in Id \cup {None}
        /\ 0 \in 0..(MaxAttempts - 1)
    BY <1>1 DEF LoopState, HandlerState, RunsInv, Runs, InRange
  <1>3. /\ handler' = [handler EXCEPT ![loop[l].on] = Free]
        /\ UNCHANGED <<batch, page, kinds, list, minted, nas, promised, tmp, disk, row, locked, faults>>
    BY DEF Answered
  <1>4. SUFFICES ASSUME NEW r \in LoopState,
                        loop' = [loop EXCEPT ![l] = r],
                        r.pc \in {"send", "sent", "failed", "backoff"}, r.on = None,
                        r.id \in {None, loop[l].id, h.id},
                        r.pc = "send" => r.at < Chunks[l[1]],
                        progress' \in [File -> {"queued", "sending", "done", "failed"}]
                 PROVE  RunsInv'
    <2>1. CASE h.answer = "ok"
      <3> DEFINE r == GoOn(l, h.at + 1, 0, h.id)
      <3>1. loop' = [loop EXCEPT ![l] = r]
        BY <2>1 DEF Answered
      <3>2. h.at + 1 \in Nat
        BY <1>2
      <3>3. r \in LoopState /\ r.pc \in {"send", "sent"} /\ r.on = None /\ r.id \in {None, h.id}
            /\ (r.pc = "send" => r.at < Chunks[l[1]])
        BY <1>2, <3>2, GoOnType
      <3>4. progress' \in [File -> {"queued", "sending", "done", "failed"}]
        <4>1. \E mark \in {"done", "sending"} : Show(l[1], mark)
          BY <2>1 DEF Answered
        <4>2. QED
          BY <4>1, ShowType DEF RunsInv, TypeOK
      <3> HIDE DEF r
      <3>5. QED
        BY <3>1, <3>3, <3>4, <1>4
    <2>2. CASE h.answer = "unexpected"
      <3> DEFINE r == GoOn(l, h.expected, loop[l].tries, loop[l].id)
      <3>1. loop' = [loop EXCEPT ![l] = r]
        BY <2>2 DEF Answered
      <3>2. r \in LoopState /\ r.pc \in {"send", "sent"} /\ r.on = None
            /\ r.id \in {None, loop[l].id}
            /\ (r.pc = "send" => r.at < Chunks[l[1]])
        BY <1>2, GoOnType
      <3>3. progress' \in [File -> {"queued", "sending", "done", "failed"}]
        BY <2>2 DEF Answered, RunsInv, TypeOK
      <3> HIDE DEF r
      <3>4. QED
        BY <3>1, <3>2, <3>3, <1>4
    <2>3. CASE h.answer \notin {"ok", "unexpected"}
      <3> DEFINE r == Failed(l)
      <3>1. loop' = [loop EXCEPT ![l] = r] /\ Show(l[1], "failed")
        BY <2>3 DEF Answered, RunFails
      <3>2. r \in LoopState /\ r.pc \in {"failed", "backoff"} /\ r.on = None
            /\ r.id \in {None, loop[l].id}
        BY FailedType DEF RunsInv
      <3>3. progress' \in [File -> {"queued", "sending", "done", "failed"}]
        BY <3>1, ShowType DEF RunsInv, TypeOK
      <3> HIDE DEF r
      <3>4. QED
        BY <3>1, <3>2, <3>3, <1>4
    <2>4. QED
      BY <2>1, <2>2, <2>3
  <1>5. Runs'
    BY <1>1, <1>3, <1>4, RunAnswered
  <1>6. TypeOK'
    BY <1>3, <1>4, FreeType DEF RunsInv, TypeOK
  <1>7. QED
    BY <1>5, <1>6 DEF RunsInv

LEMMA SendRuns ==
    ASSUME RunsInv, NEW l \in Loop, NEW h \in Handler, Send(l, h)
    PROVE  RunsInv'
  <1> DEFINE id == IF loop[l].id = None THEN minted + 1 ELSE loop[l].id
             r == RunAt("wait", loop[l].at, loop[l].tries, loop[l].id, h)
             q == HandlerAt("check", l[1], id, loop[l].at)
  <1>1. /\ id \in Id /\ minted' = (IF loop[l].id = None THEN id ELSE minted)
        /\ handler' = [handler EXCEPT ![h] = q]
        /\ loop' = [loop EXCEPT ![l] = r]
        /\ loop[l].pc = "send" /\ ~Busy(h)
        /\ UNCHANGED <<batch, page, kinds, list, progress, nas, promised, tmp, disk, row, locked, faults>>
    BY DEF Send, Busy
  <1>2. /\ loop[l].at \in Nat /\ loop[l].tries \in 0..(MaxAttempts - 1)
        /\ loop[l].id \in Id \cup {None} /\ minted \in 0..MaxId
    BY DEF RunsInv, TypeOK, LoopState
  <1>3. r \in LoopState /\ q \in HandlerState
    BY <1>1, <1>2, LoopFile, RunType, HandlerType
  <1>4. /\ r.pc = "wait" /\ r.on = h /\ r.id = loop[l].id
        /\ q.pc = "check" /\ q.file = l[1] /\ q.id = id /\ q.at = loop[l].at
    BY DEF RunAt, HandlerAt
  <1>5. /\ minted' \in 0..MaxId /\ id <= minted' /\ minted <= minted'
        /\ loop[l].id # None => id = loop[l].id
    BY <1>1, <1>2 DEF Id, RunsInv, Runs, InRange
  <1>6. loop[l].at < Chunks[l[1]]
    BY <1>1 DEF RunsInv, Runs, InRange
  <1> HIDE DEF id, r, q
  <1>7. \A m \in Loop : loop'[m] = IF m = l THEN r ELSE loop[m]
    BY <1>1 DEF RunsInv, TypeOK
  <1>8. \A g \in Handler : handler'[g] = IF g = h THEN q ELSE handler[g]
    BY <1>1 DEF RunsInv, TypeOK
  <1>9. TypeOK'
    BY <1>1, <1>3, <1>5 DEF RunsInv, TypeOK
  <1>10. WaitsForItsOwn'
    BY <1>1, <1>4, <1>5, <1>7, <1>8 DEF RunsInv, Runs, WaitsForItsOwn, Waiting, Busy
  <1>11. \A g \in Handler : Busy(g)' =>
             /\ handler'[g].file \in File /\ handler'[g].id \in Id
             /\ handler'[g].id <= minted' /\ handler'[g].at < Chunks[handler'[g].file]
    <2>1. ASSUME NEW g \in Handler, g # h, Busy(g)'
          PROVE  /\ handler'[g].file \in File /\ handler'[g].id \in Id
                 /\ handler'[g].id <= minted' /\ handler'[g].at < Chunks[handler'[g].file]
      <3>1. /\ handler[g].file \in File /\ handler[g].id \in Id
            /\ handler[g].id <= minted /\ handler[g].at < Chunks[handler[g].file]
        BY <1>8, <2>1 DEF RunsInv, Runs, InRange, Busy
      <3>2. QED
        BY <1>2, <1>5, <1>8, <2>1, <3>1 DEF Id
    <2>2. QED
      BY <2>1, <1>1, <1>4, <1>5, <1>6, <1>8, LoopFile
  <1>12. \A m \in Loop : /\ loop'[m].pc = "send" => loop'[m].at < Chunks[m[1]]
                         /\ loop'[m].id # None => loop'[m].id <= minted'
    <2>1. ASSUME NEW m \in Loop, loop[m].id # None
          PROVE  loop[m].id \in Id /\ loop[m].id <= minted'
      BY <1>2, <1>5, <2>1 DEF RunsInv, TypeOK, LoopState, Runs, InRange, Id
    <2>2. QED
      BY <2>1, <1>4, <1>7 DEF RunsInv, Runs, InRange
  <1>13. QED
    BY <1>9, <1>10, <1>11, <1>12 DEF RunsInv, Runs, InRange

\* A step of a request that goes on: what it does to the disk aside.
LEMMA RequestStepRuns ==
    ASSUME RunsInv, NEW h \in Handler, Busy(h), NEW r \in HandlerState,
           handler' = [handler EXCEPT ![h] = r],
           r.pc # "free", r.file = handler[h].file, r.id = handler[h].id, r.at = handler[h].at,
           UNCHANGED pageVars,
           tmp' \in [Id -> Seq(Nat \cup {Torn})], disk' \in [Id -> Seq(Nat \cup {Torn})],
           row' \in [Id -> File \cup {None}], UNCHANGED locked,
           faults' \in 0..MaxFaults[<<batch, kinds>>]
    PROVE  RunsInv'
  <1>1. Runs'
    BY RequestMoves DEF pageVars
  <1>2. TypeOK'
    BY DEF RunsInv, TypeOK, pageVars
  <1>3. QED
    BY <1>1, <1>2 DEF RunsInv

\* What At and Reply keep of the request.
LEMMA RequestKept ==
    ASSUME RunsInv, NEW h \in Handler, NEW r,
           \/ \E pc \in {"stat", "append", "move", "row"} : r = At(h, pc)
           \/ \E a \in {"ok", "unexpected", "error"}, e \in Nat : r = Reply(h, a, e)
    PROVE  /\ r \in HandlerState
           /\ r.pc # "free"
           /\ r.file = handler[h].file /\ r.id = handler[h].id /\ r.at = handler[h].at
  <1>1. CASE \E pc \in {"stat", "append", "move", "row"} : r = At(h, pc)
    <2>1. PICK pc \in {"stat", "append", "move", "row"} : r = At(h, pc)
      BY <1>1
    <2>2. r \in HandlerState
      BY <2>1, AtType DEF RunsInv
    <2>3. QED
      BY <2>1, <2>2 DEF At, HandlerAt
  <1>2. CASE \E a \in {"ok", "unexpected", "error"}, e \in Nat : r = Reply(h, a, e)
    <2>1. PICK a \in {"ok", "unexpected", "error"}, e \in Nat : r = Reply(h, a, e)
      BY <1>2
    <2>2. r \in HandlerState
      BY <2>1, ReplyType DEF RunsInv
    <2>3. QED
      BY <2>1, <2>2 DEF Reply
  <1>3. QED
    BY <1>1, <1>2

LEMMA CheckRuns ==
    ASSUME RunsInv, NEW h \in Handler, Check(h)
    PROVE  RunsInv'
  <1> DEFINE r == IF row[handler[h].id] # None \/ locked
                  THEN Reply(h, "error", 0) ELSE At(h, "stat")
  <1>1. /\ handler' = [handler EXCEPT ![h] = r] /\ Busy(h)
        /\ UNCHANGED <<tmp, disk, row, locked, faults, pageVars>>
    BY DEF Check, Busy
  <1>2. r = Reply(h, "error", 0) \/ r = At(h, "stat")
    OBVIOUS
  <1> HIDE DEF r
  <1>3. /\ r \in HandlerState /\ r.pc # "free"
        /\ r.file = handler[h].file /\ r.id = handler[h].id /\ r.at = handler[h].at
    BY <1>2, RequestKept
  <1>4. QED
    BY <1>1, <1>3, RequestStepRuns DEF RunsInv, TypeOK

LEMMA StatRuns ==
    ASSUME RunsInv, NEW h \in Handler, Stat(h)
    PROVE  RunsInv'
  <1> DEFINE n == Len(tmp[handler[h].id])
             r == IF n # handler[h].at THEN Reply(h, "unexpected", n) ELSE At(h, "append")
  <1>1. /\ handler' = [handler EXCEPT ![h] = r] /\ Busy(h)
        /\ UNCHANGED <<tmp, disk, row, locked, faults, pageVars>>
    BY DEF Stat, Busy
  <1>2. n \in Nat
    BY <1>1 DEF RunsInv, TypeOK, Runs, InRange
  <1> HIDE DEF n
  <1>3. r = Reply(h, "unexpected", n) \/ r = At(h, "append")
    OBVIOUS
  <1> HIDE DEF r
  <1>4. /\ r \in HandlerState /\ r.pc # "free"
        /\ r.file = handler[h].file /\ r.id = handler[h].id /\ r.at = handler[h].at
    BY <1>2, <1>3, RequestKept
  <1>5. QED
    BY <1>1, <1>4, RequestStepRuns DEF RunsInv, TypeOK

LEMMA AppendRuns ==
    ASSUME RunsInv, NEW h \in Handler, AppendChunk(h)
    PROVE  RunsInv'
  <1> DEFINE r == IF handler[h].at = LastChunk(handler[h].file)
                  THEN At(h, "move") ELSE Reply(h, "ok", 0)
             id == handler[h].id
  <1>1. /\ handler' = [handler EXCEPT ![h] = r] /\ Busy(h)
        /\ tmp' = [tmp EXCEPT ![id] = Append(tmp[id], handler[h].at)]
        /\ UNCHANGED <<disk, row, locked, faults, pageVars>>
    BY DEF AppendChunk, Busy
  <1>2. r = At(h, "move") \/ r = Reply(h, "ok", 0)
    OBVIOUS
  <1> HIDE DEF r
  <1>3. /\ r \in HandlerState /\ r.pc # "free"
        /\ r.file = handler[h].file /\ r.id = handler[h].id /\ r.at = handler[h].at
    BY <1>2, RequestKept
  <1>4. /\ id \in Id /\ handler[h].at \in Nat
    BY <1>1 DEF RunsInv, Runs, InRange, TypeOK, HandlerState
  <1>5. tmp' \in [Id -> Seq(Nat \cup {Torn})]
    BY <1>1, <1>4 DEF RunsInv, TypeOK
  <1>6. QED
    BY <1>1, <1>3, <1>5, RequestStepRuns DEF RunsInv, TypeOK

LEMMA TearRuns ==
    ASSUME RunsInv, NEW h \in Handler, Tear(h)
    PROVE  RunsInv'
  <1> DEFINE r == Reply(h, "error", 0)
             id == handler[h].id
  <1>1. /\ handler' = [handler EXCEPT ![h] = r] /\ Busy(h)
        /\ tmp' = [tmp EXCEPT ![id] = Append(tmp[id], Torn)]
        /\ UNCHANGED <<disk, row, locked, pageVars>>
    BY DEF Tear, Busy
  <1>2. /\ r \in HandlerState /\ r.pc # "free"
        /\ r.file = handler[h].file /\ r.id = handler[h].id /\ r.at = handler[h].at
    BY RequestKept
  <1> HIDE DEF r
  <1>3. id \in Id
    BY <1>1 DEF RunsInv, Runs, InRange
  <1>4. tmp' \in [Id -> Seq(Nat \cup {Torn})]
    BY <1>1, <1>3 DEF RunsInv, TypeOK
  <1>5. faults' \in 0..MaxFaults[<<batch, kinds>>]
    BY FaultBound DEF Tear, Fault, RunsInv, TypeOK
  <1>6. QED
    BY <1>1, <1>2, <1>4, <1>5, RequestStepRuns DEF RunsInv, TypeOK

LEMMA MoveRuns ==
    ASSUME RunsInv, NEW h \in Handler, Move(h)
    PROVE  RunsInv'
  <1> DEFINE id == handler[h].id
             r == IF tmp[id] = << >> THEN Reply(h, "error", 0) ELSE At(h, "row")
  <1>1. /\ handler' = [handler EXCEPT ![h] = r] /\ Busy(h)
        /\ \/ UNCHANGED <<tmp, disk>>
           \/ disk' = [disk EXCEPT ![id] = tmp[id]] /\ tmp' = [tmp EXCEPT ![id] = << >>]
        /\ UNCHANGED <<row, locked, faults, pageVars>>
    BY DEF Move, Busy
  <1>2. r = Reply(h, "error", 0) \/ r = At(h, "row")
    OBVIOUS
  <1> HIDE DEF r
  <1>3. /\ r \in HandlerState /\ r.pc # "free"
        /\ r.file = handler[h].file /\ r.id = handler[h].id /\ r.at = handler[h].at
    BY <1>2, RequestKept
  <1>4. id \in Id
    BY <1>1 DEF RunsInv, Runs, InRange
  <1>5. /\ tmp \in [Id -> Seq(Nat \cup {Torn})] /\ disk \in [Id -> Seq(Nat \cup {Torn})]
        /\ tmp[id] \in Seq(Nat \cup {Torn}) /\ << >> \in Seq(Nat \cup {Torn})
    BY <1>4 DEF RunsInv, TypeOK
  <1>6. tmp' \in [Id -> Seq(Nat \cup {Torn})]
    <2> DEFINE S == Seq(Nat \cup {Torn})
               e == << >>
    <2>1. tmp \in [Id -> S] /\ e \in S
      BY <1>5
    <2>2. tmp' = tmp \/ tmp' = [tmp EXCEPT ![id] = e]
      BY <1>1
    <2> HIDE DEF S, e
    <2>3. tmp' \in [Id -> S]
      BY <2>1, <2>2
    <2>4. QED
      BY <2>3 DEF S
  <1>7. disk' \in [Id -> Seq(Nat \cup {Torn})]
    BY <1>1, <1>5
  <1>8. QED
    BY <1>1, <1>3, <1>6, <1>7, RequestStepRuns DEF RunsInv, TypeOK

LEMMA CreateRowRuns ==
    ASSUME RunsInv, NEW h \in Handler, CreateRow(h)
    PROVE  RunsInv'
  <1> DEFINE id == handler[h].id
             r == IF row[id] # None THEN Reply(h, "error", 0) ELSE Reply(h, "ok", 0)
  <1>1. /\ handler' = [handler EXCEPT ![h] = r] /\ Busy(h)
        /\ UNCHANGED row \/ row' = [row EXCEPT ![id] = handler[h].file]
        /\ UNCHANGED <<tmp, disk, locked, faults, pageVars>>
    BY DEF CreateRow, Busy
  <1>2. r = Reply(h, "error", 0) \/ r = Reply(h, "ok", 0)
    OBVIOUS
  <1> HIDE DEF r
  <1>3. /\ r \in HandlerState /\ r.pc # "free"
        /\ r.file = handler[h].file /\ r.id = handler[h].id /\ r.at = handler[h].at
    BY <1>2, RequestKept
  <1>4. id \in Id /\ handler[h].file \in File
    BY <1>1 DEF RunsInv, Runs, InRange
  <1>5. row' \in [Id -> File \cup {None}]
    BY <1>1, <1>4 DEF RunsInv, TypeOK
  <1>6. QED
    BY <1>1, <1>3, <1>5, RequestStepRuns DEF RunsInv, TypeOK

LEMMA FailRuns ==
    ASSUME RunsInv, NEW h \in Handler, Fail(h)
    PROVE  RunsInv'
  <1> DEFINE r == Reply(h, "error", 0)
  <1>1. /\ handler' = [handler EXCEPT ![h] = r] /\ Busy(h)
        /\ UNCHANGED <<tmp, disk, row, locked, pageVars>>
    BY DEF Fail, Busy
  <1>2. /\ r \in HandlerState /\ r.pc # "free"
        /\ r.file = handler[h].file /\ r.id = handler[h].id /\ r.at = handler[h].at
    BY RequestKept
  <1> HIDE DEF r
  <1>3. faults' \in 0..MaxFaults[<<batch, kinds>>]
    BY FaultBound DEF Fail, Fault, RunsInv, TypeOK
  <1>4. QED
    BY <1>1, <1>2, <1>3, RequestStepRuns DEF RunsInv, TypeOK

LEMMA DiscardRuns ==
    ASSUME RunsInv, NEW h \in Handler, Discard(h)
    PROVE  RunsInv'
  <1>1. \A g \in Handler : handler'[g] = IF g = h THEN Free ELSE handler[g]
    BY DEF Discard, RunsInv, TypeOK
  <1>2. /\ \A l \in Loop : loop[l].on # h
        /\ UNCHANGED <<loop, minted>>
    BY DEF Discard, pageVars
  <1>3. WaitsForItsOwn'
    BY <1>1, <1>2 DEF RunsInv, Runs, WaitsForItsOwn, Waiting, Busy
  <1>4. ~(Free.pc # "free")
    BY DEF Free, HandlerAt
  <1>5. InRange'
    BY <1>1, <1>2, <1>4 DEF RunsInv, Runs, InRange, Busy
  <1>6. TypeOK'
    BY FreeType DEF Discard, RunsInv, TypeOK, pageVars
  <1>7. QED
    BY <1>3, <1>5, <1>6 DEF RunsInv, Runs

LEMMA CrashRuns ==
    ASSUME RunsInv, Crash
    PROVE  RunsInv'
  <1>1. \A g \in Handler : handler'[g] = IF ~Busy(g) THEN Free ELSE Reply(g, "error", 0)
    BY DEF Crash, Busy
  <1>2. /\ Free.pc = "free"
        /\ \A g \in Handler : LET r == Reply(g, "error", 0) IN
             r.pc = "reply" /\ r.file = handler[g].file
             /\ r.id = handler[g].id /\ r.at = handler[g].at
    BY DEF Free, HandlerAt, Reply
  <1>3. UNCHANGED <<loop, minted>>
    BY DEF Crash, pageVars
  <1>4. \A g \in Handler : /\ Busy(g)' <=> Busy(g)
                           /\ Busy(g) => /\ handler'[g].file = handler[g].file
                                         /\ handler'[g].id = handler[g].id
                                         /\ handler'[g].at = handler[g].at
    BY <1>1, <1>2 DEF Busy
  <1>5. WaitsForItsOwn'
    BY <1>3, <1>4 DEF RunsInv, Runs, WaitsForItsOwn, Waiting
  <1>6. InRange'
    BY <1>3, <1>4 DEF RunsInv, Runs, InRange
  <1>7. \A g \in Handler : Free \in HandlerState /\ Reply(g, "error", 0) \in HandlerState
    BY FreeType, ReplyType DEF RunsInv
  <1>8. handler' \in [Handler -> HandlerState]
    BY <1>7 DEF Crash
  <1>9. faults' \in 0..MaxFaults[<<batch, kinds>>]
    BY FaultBound DEF Crash, Fault, RunsInv, TypeOK
  <1>10. TypeOK'
    BY <1>8, <1>9 DEF Crash, RunsInv, TypeOK, pageVars
  <1>11. QED
    BY <1>5, <1>6, <1>10 DEF RunsInv, Runs

\* The steps of the page that send nothing.
LEMMA PageRuns ==
    ASSUME RunsInv, (\E f \in File : RemoveRow(f)) \/ Complete \/ NasSettled \/ Save
    PROVE  RunsInv'
  <1>1. UNCHANGED <<loop, handler, minted>>
    BY DEF RemoveRow, Complete, NasSettled, Save, serverVars
  <1>2. Runs'
    BY <1>1 DEF RunsInv, Runs, WaitsForItsOwn, InRange, Waiting, Busy
  <1>3. TypeOK'
    <2>1. CASE \E f \in File : RemoveRow(f)
      BY <2>1 DEF RemoveRow, serverVars, RunsInv, TypeOK
    <2>2. CASE Complete
      BY <2>2 DEF Complete, RunsInv, TypeOK
    <2>3. CASE NasSettled
      BY <2>3 DEF NasSettled, RunsInv, TypeOK
    <2>4. CASE Save
      BY <2>4 DEF Save, RunsInv, TypeOK
    <2>5. QED
      BY <2>1, <2>2, <2>3, <2>4
  <1>4. QED
    BY <1>2, <1>3 DEF RunsInv

LEMMA NextRuns == RunsInv /\ [Next]_vars => RunsInv'
  <1> SUFFICES ASSUME RunsInv, [Next]_vars PROVE RunsInv'
    OBVIOUS
  <1>1. CASE PageStep
    BY <1>1, BeginRuns, AnsweredRuns, ResumeRuns, SendRuns, PageRuns DEF PageStep
  <1>2. CASE Visitor
    BY <1>2, RetryRuns, PageRuns DEF Visitor
  <1>3. ASSUME NEW h \in Handler, HandlerStep(h) PROVE RunsInv'
    BY <1>3, CheckRuns, StatRuns, AppendRuns, MoveRuns, CreateRowRuns, DiscardRuns
       DEF HandlerStep
  <1>4. CASE Failure
    BY <1>4, LostRuns, AbandonRuns, FailRuns, TearRuns, CrashRuns DEF Failure
  <1>5. CASE UNCHANGED vars
    BY <1>5 DEF vars, RunsInv, TypeOK, Runs, WaitsForItsOwn, InRange, Waiting, Busy
  <1>6. QED
    BY <1>1, <1>2, <1>3, <1>4, <1>5 DEF Next

LEMMA RunsInvariant == Spec => []RunsInv
  BY InitRuns, NextRuns, PTL DEF Spec

\* Every reachable state is well-typed: a run gives up in time, and every
\* request speaks of a file and of an id that the page minted.
THEOREM UploadTypes == Spec => []TypeOK
  <1>1. RunsInv => TypeOK
    BY DEF RunsInv
  <1>2. QED
    BY <1>1, RunsInvariant, PTL

-----------------------------------------------------------------------------
(* What the page holds sent is stored, on the pages that do not also       *)
(* import from the NAS; and what stays as it was from the start.           *)

\* The page and the failures it may meet are those of the start.
LEMMA GivenStays ==
    ASSUME [Next]_vars
    PROVE  page' = page /\ kinds' = kinds
  <1>1. CASE PageStep
    BY <1>1 DEF PageStep, Begin, Answered, Resume, Send, Complete, NasSettled, Save
  <1>2. CASE Visitor
    BY <1>2 DEF Visitor, RetryFile, RemoveRow
  <1>3. ASSUME NEW h \in Handler, HandlerStep(h) PROVE UNCHANGED <<page, kinds>>
    BY <1>3 DEF HandlerStep, Check, Stat, AppendChunk, Move, CreateRow, Discard, pageVars
  <1>4. CASE Failure
    BY <1>4 DEF Failure, AnswerLost, Abandon, Fail, Tear, Crash, pageVars
  <1>5. CASE UNCHANGED vars
    BY <1>5 DEF vars
  <1>6. QED
    BY <1>1, <1>2, <1>3, <1>4, <1>5 DEF Next

HasRow(f) == \E i \in Id : row[i] = f

\* Every run still writes to the row of its own file: on the edit page, no row
\* has gone.
InPlace == page = "edit" => list = batch

\* A run sends a file that was submitted.
RunsSubmitted == \A l \in Loop : loop[l].pc # "idle" => l[1] \in batch

PromiseInv ==
    /\ page # "combined" => ~nas
    /\ InPlace => \A f \in File : progress[f] = "done" => HasRow(f)
    /\ RunsSubmitted
    /\ \A h \in Handler :
         /\ handler[h].pc = "reply"
         /\ handler[h].answer = "ok"
         /\ handler[h].at = LastChunk(handler[h].file)
         => row[handler[h].id] = handler[h].file
    /\ PromisedIsStored

\* Neither the page nor its visitor makes a row.
LEMMA PageMakesNoRow ==
    ASSUME PageStep \/ Visitor \/ UNCHANGED vars
    PROVE  UNCHANGED row
  <1>1. ASSUME NEW l \in Loop, Begin(l) \/ Answered(l) \/ Resume(l) \/ RetryFile(l)
        PROVE  UNCHANGED row
    BY <1>1 DEF Begin, Answered, Resume, RetryFile, serverVars
  <1>2. ASSUME NEW l \in Loop, NEW h \in Handler, Send(l, h) PROVE UNCHANGED row
    BY <1>2 DEF Send
  <1>3. CASE Complete \/ NasSettled \/ Save \/ \E f \in File : RemoveRow(f)
    BY <1>3 DEF Complete, NasSettled, Save, RemoveRow, serverVars
  <1>4. QED
    BY <1>1, <1>2, <1>3 DEF PageStep, Visitor, vars

\* A row stays, and only the request that found none creates one.
LEMMA RowsStay ==
    ASSUME RunsInv, [Next]_vars
    PROVE  \A i \in Id : row[i] # None => row'[i] = row[i]
  <1>1. \/ UNCHANGED row
        \/ \E h \in Handler : CreateRow(h)
    <2>1. ASSUME NEW h \in Handler, HandlerStep(h)
          PROVE  UNCHANGED row \/ CreateRow(h)
      BY <2>1 DEF HandlerStep, Check, Stat, AppendChunk, Move, Discard
    <2>2. CASE Failure
      BY <2>2 DEF Failure, AnswerLost, Abandon, Fail, Tear, Crash, serverVars
    <2>3. QED
      BY <2>1, <2>2, PageMakesNoRow DEF Next
  <1>2. ASSUME NEW h \in Handler, CreateRow(h), NEW i \in Id, row[i] # None
        PROVE  row'[i] = row[i]
    BY <1>2 DEF CreateRow, RunsInv, TypeOK
  <1>3. QED
    BY <1>1, <1>2

\* Who an accepted last chunk is reported for.
LEMMA RepliesTrue ==
    ASSUME RunsInv, PromiseInv, [Next]_vars
    PROVE  \A h \in Handler :
             /\ handler'[h].pc = "reply"
             /\ handler'[h].answer = "ok"
             /\ handler'[h].at = LastChunk(handler'[h].file)
             => row'[handler'[h].id] = handler'[h].file
  <1> DEFINE True(h) == /\ handler[h].pc = "reply"
                        /\ handler[h].answer = "ok"
                        /\ handler[h].at = LastChunk(handler[h].file)
                        => row[handler[h].id] = handler[h].file
  <1>1. \A h \in Handler : True(h)
    BY DEF PromiseInv
  <1>2. ASSUME NEW g \in Handler, handler'[g] = handler[g] PROVE True(g)'
    <2>1. CASE handler[g].pc = "reply"
      <3>1. handler[g].id \in Id /\ handler[g].file \in File
        BY <2>1 DEF RunsInv, Runs, InRange, Busy
      <3>2. QED
        BY <1>1, <1>2, <3>1, RowsStay
    <2>2. QED
      BY <1>2, <2>1
  <1>3. ASSUME NEW g \in Handler, handler'[g].pc # "reply" \/ handler'[g].answer # "ok"
        PROVE  True(g)'
    BY <1>3
  <1>4. Free.pc # "reply"
    BY DEF Free, HandlerAt
  <1>5. ASSUME NEW h \in Handler, NEW pc \in {"stat", "append", "move", "row"}
        PROVE  At(h, pc).pc # "reply"
    BY DEF At, HandlerAt
  <1>6. ASSUME NEW h \in Handler, NEW a, NEW e
        PROVE  /\ Reply(h, a, e).pc = "reply" /\ Reply(h, a, e).answer = a
               /\ Reply(h, a, e).at = handler[h].at /\ Reply(h, a, e).file = handler[h].file
               /\ Reply(h, a, e).id = handler[h].id
    BY DEF Reply
  <1>7. \A h, g \in Handler : \A r : handler' = [handler EXCEPT ![h] = r]
            => handler'[g] = IF g = h THEN r ELSE handler[g]
    BY DEF RunsInv, TypeOK
  <1>8. CASE UNCHANGED handler
    BY <1>2, <1>8
  <1>9. ASSUME NEW l \in Loop, Answered(l) \/ AnswerLost(l) PROVE \A g \in Handler : True(g)'
    <2>1. loop[l].on \in Handler /\ handler' = [handler EXCEPT ![loop[l].on] = Free]
      BY <1>9 DEF Answered, AnswerLost, RunsInv, Runs, WaitsForItsOwn, Waiting
    <2>2. \A g \in Handler : handler'[g] = handler[g] \/ handler'[g] = Free
      BY <1>7, <2>1
    <2>3. QED
      BY <1>2, <1>3, <1>4, <2>2
  <1>10. ASSUME NEW l \in Loop, NEW h \in Handler, Send(l, h) PROVE \A g \in Handler : True(g)'
    <2>1. \A g \in Handler : handler'[g] = handler[g] \/ handler'[g].pc = "check"
      BY <1>10 DEF Send, HandlerAt, RunsInv, TypeOK
    <2>2. QED
      BY <1>2, <1>3, <2>1
  <1>11. ASSUME NEW h \in Handler, NEW r, handler' = [handler EXCEPT ![h] = r],
                r.pc # "reply" \/ r.answer # "ok"
         PROVE  \A g \in Handler : True(g)'
    BY <1>2, <1>3, <1>7, <1>11
  <1>12. ASSUME NEW h \in Handler, HandlerStep(h) PROVE \A g \in Handler : True(g)'
    <2>1. CASE Check(h)
      <3>1. \/ handler' = [handler EXCEPT ![h] = Reply(h, "error", 0)]
            \/ handler' = [handler EXCEPT ![h] = At(h, "stat")]
        BY <2>1 DEF Check
      <3>2. QED
        BY <1>5, <1>6, <1>11, <3>1
    <2>2. CASE Stat(h)
      <3>1. \/ \E e : handler' = [handler EXCEPT ![h] = Reply(h, "unexpected", e)]
            \/ handler' = [handler EXCEPT ![h] = At(h, "append")]
        BY <2>2 DEF Stat
      <3>2. QED
        BY <1>5, <1>6, <1>11, <3>1
    <2>3. CASE AppendChunk(h)
      <3>1. CASE handler[h].at = LastChunk(handler[h].file)
        BY <1>5, <1>11, <2>3, <3>1 DEF AppendChunk
      <3>2. CASE handler[h].at # LastChunk(handler[h].file)
        <4>1. handler' = [handler EXCEPT ![h] = Reply(h, "ok", 0)]
          BY <2>3, <3>2 DEF AppendChunk
        <4>2. True(h)'
          BY <1>6, <1>7, <3>2, <4>1
        <4>3. QED
          BY <1>2, <1>7, <4>1, <4>2
      <3>3. QED
        BY <3>1, <3>2
    <2>4. CASE Move(h)
      <3>1. \/ handler' = [handler EXCEPT ![h] = Reply(h, "error", 0)]
            \/ handler' = [handler EXCEPT ![h] = At(h, "row")]
        BY <2>4 DEF Move
      <3>2. QED
        BY <1>5, <1>6, <1>11, <3>1
    <2>5. CASE CreateRow(h)
      <3> DEFINE id == handler[h].id
      <3>1. id \in Id
        BY <2>5 DEF CreateRow, RunsInv, Runs, InRange, Busy
      <3>2. CASE row[id] # None
        BY <1>6, <1>11, <2>5, <3>2 DEF CreateRow
      <3>3. CASE row[id] = None
        <4>1. handler' = [handler EXCEPT ![h] = Reply(h, "ok", 0)]
              /\ row'[id] = handler[h].file
          BY <2>5, <3>1, <3>3 DEF CreateRow, RunsInv, TypeOK
        <4>2. True(h)'
          BY <1>6, <1>7, <4>1
        <4>3. QED
          BY <1>2, <1>7, <4>1, <4>2
      <3>4. QED
        BY <3>2, <3>3
    <2>6. CASE Discard(h)
      BY <1>4, <1>11, <2>6 DEF Discard
    <2>7. QED
      BY <1>12, <2>1, <2>2, <2>3, <2>4, <2>5, <2>6 DEF HandlerStep
  <1>13. ASSUME NEW h \in Handler, Fail(h) \/ Tear(h) PROVE \A g \in Handler : True(g)'
    BY <1>6, <1>11, <1>13 DEF Fail, Tear
  <1>14. CASE Crash
    <2>1. \A g \in Handler : handler'[g] = Free \/ handler'[g] = Reply(g, "error", 0)
      BY <1>14 DEF Crash
    <2>2. QED
      BY <1>3, <1>4, <1>6, <2>1
  <1>15. \/ UNCHANGED handler
         \/ \E l \in Loop : Answered(l) \/ AnswerLost(l) \/ \E h \in Handler : Send(l, h)
         \/ \E h \in Handler : HandlerStep(h) \/ Fail(h) \/ Tear(h)
         \/ Crash
    <2>1. CASE PageStep
      BY <2>1 DEF PageStep, Begin, Resume, Complete, NasSettled, Save, serverVars
    <2>2. CASE Visitor
      BY <2>2 DEF Visitor, RetryFile, RemoveRow, serverVars
    <2>3. CASE Failure
      BY <2>3 DEF Failure, Abandon, serverVars
    <2>4. CASE UNCHANGED vars
      BY <2>4 DEF vars
    <2>5. QED
      BY <2>1, <2>2, <2>3, <2>4 DEF Next
  <1>16. CASE \E l \in Loop : Answered(l) \/ AnswerLost(l)
    BY <1>9, <1>16
  <1>17. CASE \E l \in Loop, h \in Handler : Send(l, h)
    BY <1>10, <1>17
  <1>18. CASE \E h \in Handler : HandlerStep(h)
    BY <1>12, <1>18
  <1>19. CASE \E h \in Handler : Fail(h) \/ Tear(h)
    BY <1>13, <1>19
  <1>20. QED
    BY <1>8, <1>14, <1>15, <1>16, <1>17, <1>18, <1>19

\* No two files of a set stand at the same place.
LEMMA PositionsDiffer ==
    ASSUME NEW rows \in SUBSET File, NEW f \in rows, NEW g \in rows,
           Position(f, rows) = Position(g, rows)
    PROVE  f = g
  <1> DEFINE Above(k) == {e \in rows : Order[e] < Order[k]}
  <1>1. IsFiniteSet(rows)
    BY LimitAssumption, FS_Subset
  <1>2. ASSUME NEW k \in rows, NEW m \in rows, Order[k] < Order[m]
        PROVE  Position(k, rows) # Position(m, rows)
    <2>1. Above(k) \cup {k} \subseteq Above(m) /\ k \notin Above(k)
      BY <1>2, OrderAssumption
    <2>2. IsFiniteSet(Above(k)) /\ IsFiniteSet(Above(m))
      BY <1>1, FS_Subset
    <2> HIDE DEF Above
    <2>3. Cardinality(Above(k) \cup {k}) = Cardinality(Above(k)) + 1
      BY <2>1, <2>2, FS_AddElement
    <2>4. Cardinality(Above(k) \cup {k}) <= Cardinality(Above(m))
      BY <2>1, <2>2, FS_Subset
    <2>5. Cardinality(Above(k)) \in Nat /\ Cardinality(Above(m)) \in Nat
      BY <2>2, FS_CardinalityType
    <2>6. Position(k, rows) = Cardinality(Above(k)) /\ Position(m, rows) = Cardinality(Above(m))
      BY DEF Above, Position
    <2>7. QED
      BY <2>3, <2>4, <2>5, <2>6
  <1>3. Order[f] = Order[g]
    BY <1>2, OrderAssumption
  <1>4. QED
    BY <1>3, OrderAssumption

\* With its rows in place, a page writes a progress to the file's own row.
LEMMA ShownIsOwn ==
    ASSUME RunsInv, InPlace, NEW f \in batch
    PROVE  Shown(f) \subseteq {f}
  <1>1. batch \subseteq File
    BY BatchFiles DEF RunsInv, TypeOK
  <1>2. ASSUME page = "edit", NEW g \in Shown(f)
        PROVE  g = f
    <2>1. g \in batch /\ Position(g, batch) = Position(f, batch)
      BY <1>2 DEF Shown, InPlace
    <2>2. QED
      BY <1>1, <2>1, PositionsDiffer
  <1>3. QED
    BY <1>2 DEF Shown

\* Rows that go do not come back.
LEMMA OutOfPlaceStays ==
    ASSUME RunsInv, [Next]_vars, InPlace'
    PROVE  InPlace
  <1>1. SUFFICES ASSUME page = "edit"
                 PROVE  list' \subseteq list /\ batch' = batch
    BY <1>1, GivenStays DEF InPlace, RunsInv, TypeOK
  <1>2. CASE PageStep
    BY <1>1, <1>2 DEF PageStep, Begin, Answered, Resume, Send, Complete, NasSettled, Save
  <1>3. CASE Visitor
    BY <1>3 DEF Visitor, RetryFile, RemoveRow
  <1>4. ASSUME NEW h \in Handler, HandlerStep(h) PROVE UNCHANGED <<list, batch>>
    BY <1>4 DEF HandlerStep, Check, Stat, AppendChunk, Move, CreateRow, Discard, pageVars
  <1>5. CASE Failure
    BY <1>5 DEF Failure, AnswerLost, Abandon, Fail, Tear, Crash, pageVars
  <1>6. CASE UNCHANGED vars
    BY <1>6 DEF vars
  <1>7. QED
    BY <1>2, <1>3, <1>4, <1>5, <1>6 DEF Next

\* A step starts runs only for files that were submitted.
LEMMA SubmittedStep ==
    ASSUME RunsInv, RunsSubmitted, [Next]_vars
    PROVE  RunsSubmitted'
  <1> SUFFICES ASSUME NEW l \in Loop, loop'[l].pc # "idle"
               PROVE  l[1] \in batch'
    BY DEF RunsSubmitted
  <1>0. loop \in [Loop -> LoopState] /\ list \subseteq batch
    BY DEF RunsInv, TypeOK
  <1>1. CASE UNCHANGED <<loop, batch>>
    BY <1>1 DEF RunsSubmitted
  <1>2. ASSUME NEW m \in Loop, NEW r, loop' = [loop EXCEPT ![m] = r],
               loop[m].pc # "idle" \/ m[1] \in batch, UNCHANGED batch
        PROVE  l[1] \in batch'
    BY <1>0, <1>2 DEF RunsSubmitted
  <1>3. ASSUME NEW m \in Loop, Begin(m) \/ Resume(m)
        PROVE  l[1] \in batch'
    <2>1. PICK r : loop' = [loop EXCEPT ![m] = r]
      BY <1>3 DEF Begin, Resume
    <2>2. QED
      BY <1>2, <1>3, <2>1 DEF Begin, Resume
  <1>4. ASSUME NEW m \in Loop, Answered(m)
        PROVE  l[1] \in batch'
    <2>1. PICK r : loop' = [loop EXCEPT ![m] = r]
      BY <1>4 DEF Answered, RunFails
    <2>2. QED
      BY <1>2, <1>4, <2>1 DEF Answered
  <1>5. ASSUME NEW m \in Loop, AnswerLost(m) \/ Abandon(m)
        PROVE  l[1] \in batch'
    <2>1. PICK r : loop' = [loop EXCEPT ![m] = r]
      BY <1>5 DEF AnswerLost, Abandon, RunFails
    <2>2. QED
      BY <1>2, <1>5, <2>1 DEF AnswerLost, Abandon
  <1>6. ASSUME NEW m \in Loop, NEW h \in Handler, Send(m, h)
        PROVE  l[1] \in batch'
    <2>1. PICK r : loop' = [loop EXCEPT ![m] = r]
      BY <1>6 DEF Send
    <2>2. QED
      BY <1>2, <1>6, <2>1 DEF Send
  <1>7. ASSUME NEW m \in Loop, RetryFile(m)
        PROVE  l[1] \in batch'
    <2>1. PICK r : loop' = [loop EXCEPT ![m] = r]
      BY <1>7 DEF RetryFile
    <2>2. m[1] \in batch
      BY <1>0, <1>7 DEF RetryFile
    <2>3. UNCHANGED batch
      BY <1>7 DEF RetryFile
    <2>4. QED
      BY <1>2, <2>1, <2>2, <2>3
  <1>8. CASE \/ Complete \/ NasSettled \/ Save \/ UNCHANGED vars
             \/ \E f \in File : RemoveRow(f)
             \/ \E h \in Handler : HandlerStep(h) \/ Fail(h) \/ Tear(h)
             \/ Crash
    <2>1. ASSUME NEW h \in Handler, HandlerStep(h) PROVE UNCHANGED <<loop, batch>>
      BY <2>1 DEF HandlerStep, Check, Stat, AppendChunk, Move, CreateRow, Discard, pageVars
    <2>2. UNCHANGED <<loop, batch>>
      BY <1>8, <2>1 DEF Complete, NasSettled, Save, RemoveRow, Fail, Tear, Crash, pageVars, vars
    <2>3. QED
      BY <1>1, <2>2
  <1>9. QED
    BY <1>3, <1>4, <1>5, <1>6, <1>7, <1>8 DEF Next, PageStep, Visitor, Failure

\* A file shown as sent has its row, as long as no row has moved.
LEMMA DoneIsStored ==
    ASSUME RunsInv, PromiseInv, [Next]_vars, InPlace'
    PROVE  \A f \in File : progress'[f] = "done" => HasRow(f)'
  <1>0. InPlace /\ \A f \in File : progress[f] = "done" => HasRow(f)
    BY OutOfPlaceStays DEF PromiseInv
  <1>1. \A f \in File : HasRow(f) => HasRow(f)'
    <2>1. SUFFICES ASSUME NEW f \in File, NEW i \in Id, row[i] = f PROVE HasRow(f)'
      BY DEF HasRow
    <2>2. row'[i] = f
      BY <2>1, RowsStay
    <2>3. QED
      BY <2>2 DEF HasRow
  <1>2. ASSUME NEW l \in Loop, Answered(l), NEW f \in File,
               progress'[f] = "done", progress[f] # "done"
        PROVE  HasRow(f)
    <2> DEFINE h == loop[l].on
    <2>1. /\ h \in Handler /\ handler[h].file = l[1] /\ handler[h].pc = "reply" /\ Busy(h)
      BY <1>2 DEF Answered, RunsInv, Runs, WaitsForItsOwn, Waiting, Busy
    <2>2. /\ f \in Shown(l[1]) /\ handler[h].answer = "ok" /\ handler[h].at = LastChunk(l[1])
      BY <1>2 DEF Answered, RunFails, Show, RunsInv, TypeOK
    <2>3. l[1] \in batch
      BY <1>2 DEF Answered, PromiseInv, RunsSubmitted
    <2>4. f = l[1]
      BY <1>0, <2>2, <2>3, ShownIsOwn
    <2>5. handler[h].id \in Id /\ row[handler[h].id] = f
      BY <2>1, <2>2, <2>4 DEF PromiseInv, RunsInv, Runs, InRange
    <2>6. QED
      BY <2>5 DEF HasRow
  <1>3. \/ \A f \in File : progress'[f] = "done" => progress[f] = "done"
        \/ \E l \in Loop : Answered(l)
    <2>1. ASSUME NEW l \in Loop,
                 Begin(l) \/ AnswerLost(l) \/ Abandon(l)
          PROVE  \A f \in File : progress'[f] = "done" => progress[f] = "done"
      BY <2>1 DEF Begin, AnswerLost, Abandon, RunFails, Show, RunsInv, TypeOK
    <2>2. CASE PageStep
      BY <2>1, <2>2 DEF PageStep, Resume, Send, Complete, NasSettled, Save
    <2>3. CASE Visitor
      BY <2>3 DEF Visitor, RetryFile, RemoveRow
    <2>4. ASSUME NEW h \in Handler, HandlerStep(h) PROVE UNCHANGED progress
      BY <2>4 DEF HandlerStep, Check, Stat, AppendChunk, Move, CreateRow, Discard, pageVars
    <2>5. CASE Failure
      BY <2>1, <2>5 DEF Failure, Fail, Tear, Crash, pageVars
    <2>6. CASE UNCHANGED vars
      BY <2>6 DEF vars
    <2>7. QED
      BY <2>2, <2>3, <2>4, <2>5, <2>6 DEF Next
  <1>4. QED
    BY <1>0, <1>1, <1>2, <1>3

\* The server promises nothing, whether it answers or fails, nor does a visitor.
LEMMA OthersPromiseNothing ==
    ASSUME Visitor \/ Failure \/ UNCHANGED vars \/ \E h \in Handler : HandlerStep(h)
    PROVE  UNCHANGED <<nas, promised>>
  <1>1. ASSUME NEW h \in Handler, HandlerStep(h) PROVE UNCHANGED <<nas, promised>>
    BY <1>1 DEF HandlerStep, Check, Stat, AppendChunk, Move, CreateRow, Discard, pageVars
  <1>2. CASE Failure
    BY <1>2 DEF Failure, AnswerLost, Abandon, Fail, Tear, Crash, pageVars
  <1>3. CASE Visitor \/ UNCHANGED vars
    BY <1>3 DEF Visitor, RetryFile, RemoveRow, vars
  <1>4. QED
    BY <1>1, <1>2, <1>3

\* On a page that imports nothing from the NAS the promise stays kept.
LEMMA NextPromise ==
    ASSUME RunsInv, PromiseInv, [Next]_vars
    PROVE  PromiseInv'
  <1>1. page' = page
    BY GivenStays
  <1>2. page # "combined" => ~nas
    BY DEF PromiseInv
  <1>3. ASSUME page # "combined"
        PROVE  /\ nas' = nas
               /\ UNCHANGED promised \/ \A f \in promised' : f \in File /\ progress[f] = "done"
    <2>1. CASE PageStep
      <3>1. list \subseteq File
        BY BatchFiles DEF RunsInv, TypeOK
      <3>2. ~NasSettled
        BY <1>2, <1>3 DEF NasSettled
      <3>3. CASE Save
        BY <3>3, BatchFiles DEF Save, RunsInv, TypeOK
      <3>4. CASE Complete
        BY <3>1, <3>4 DEF Complete
      <3>5. QED
        BY <2>1, <3>2, <3>3, <3>4 DEF PageStep, Begin, Answered, Resume, Send
    <2>2. QED
      BY <2>1, OthersPromiseNothing DEF Next
  <1>4. page # "combined" /\ InPlace => \A f \in promised' : HasRow(f)
    BY <1>3 DEF PromiseInv, PromisedIsStored, InPlace, HasRow
  <1>5. PromisedIsStored'
    <2>1. SUFFICES ASSUME page # "combined", InPlace', NEW f \in promised'
                   PROVE  \E i \in Id : row'[i] = f
      BY <1>1 DEF PromisedIsStored, InPlace
    <2>2. PICK i \in Id : row[i] = f
      BY <1>4, <2>1, OutOfPlaceStays DEF HasRow
    <2>3. f # None
      <3>1. promised' \subseteq File
        BY NextRuns, BatchFiles DEF RunsInv, TypeOK
      <3>2. QED
        BY <3>1
    <2>4. QED
      BY <2>2, <2>3, RowsStay
  <1>6. QED
    <2>1. InPlace' => \A f \in File : progress'[f] = "done" => HasRow(f)'
      BY DoneIsStored
    <2>2. RunsSubmitted'
      BY SubmittedStep DEF PromiseInv
    <2>3. QED
      BY <1>1, <1>2, <1>3, <1>5, <2>1, <2>2, RepliesTrue DEF PromiseInv

\* When the page completes the transfer, every file it shows as sent is
\* among the transfer's files: for any files, chunks, losses, errors,
\* restarts, abandoned requests and torn chunks, on the pages that import
\* nothing from the NAS at the same time, and on the edit page while no row
\* has gone from under the ones below it.
THEOREM PromisesKept == Spec => []PromisedIsStored
  <1>1. Init => PromiseInv
    <2> SUFFICES ASSUME Init PROVE PromiseInv
      OBVIOUS
    <2>1. \A h \in Handler : handler[h].pc # "reply"
      BY DEF Init, Free, HandlerAt
    <2>2. \A f \in File : progress[f] # "done"
      BY DEF Init
    <2>3. promised = {} /\ (page # "combined" => ~nas)
      BY DEF Init
    <2>4. RunsSubmitted
      BY DEF Init, RunsSubmitted, NoRun, RunAt
    <2>5. QED
      BY <2>1, <2>2, <2>3, <2>4 DEF PromiseInv, PromisedIsStored
  <1>2. RunsInv /\ PromiseInv /\ [Next]_vars => PromiseInv'
    BY NextPromise
  <1>3. PromiseInv => PromisedIsStored
    BY DEF PromiseInv
  <1>4. QED
    BY <1>1, <1>2, <1>3, RunsInvariant, PTL DEF Spec

-----------------------------------------------------------------------------
(* A stored file is the visitor's file, as long as every request is either *)
(* answered or over, and every chunk is written whole or not at all.       *)

Intact == \A i \in Id : row[i] # None => Whole(row[i], disk[i])

\* The id a run's file has on the server, or will have.
IdOf(l) == IF Waiting(l) THEN handler[loop[l].on].id ELSE loop[l].id

\* Every request has somebody waiting for it, and no two runs share an id.
SoleInv ==
    /\ \A h \in Handler : Busy(h) => \E l \in Loop : Waiting(l) /\ loop[l].on = h
    /\ \A l, m \in Loop : l # m => IdOf(l) = None \/ IdOf(l) # IdOf(m)

Past(h) == handler[h].pc \in {"stat", "append", "move", "row"}

\* What is on the disk is a beginning of the file, and a request knows how
\* far it goes.
DiskInv ==
    /\ \A i \in Id : \A k \in 1..Len(tmp[i]) : tmp[i][k] = k - 1
    /\ \A h \in Handler :
         LET id == handler[h].id IN
         /\ handler[h].pc = "append" => handler[h].at = Len(tmp[id])
         /\ handler[h].pc = "move" => Len(tmp[id]) = Chunks[handler[h].file]
         /\ handler[h].pc = "row" => Whole(handler[h].file, disk[id])
         /\ Past(h) => row[id] = None
    /\ Intact

\* Two requests at work have different ids.
LEMMA IdsDiffer ==
    ASSUME RunsInv, SoleInv, NEW g \in Handler, NEW h \in Handler, g # h, Busy(g), Busy(h)
    PROVE  handler[g].id # handler[h].id
  <1>1. PICK l \in Loop : Waiting(l) /\ loop[l].on = g
    BY DEF SoleInv
  <1>2. PICK m \in Loop : Waiting(m) /\ loop[m].on = h
    BY DEF SoleInv
  <1>3. IdOf(l) = handler[g].id /\ IdOf(m) = handler[h].id /\ l # m
    BY <1>1, <1>2 DEF IdOf
  <1>4. handler[g].id \in Id
    BY DEF RunsInv, Runs, InRange
  <1>5. None \notin Id
    BY DEF Id
  <1>6. QED
    BY <1>3, <1>4, <1>5 DEF SoleInv

\* A run moves on without a request.
LEMMA SoleMoves ==
    ASSUME RunsInv, SoleInv, NEW l \in Loop, ~Waiting(l), NEW r,
           loop' = [loop EXCEPT ![l] = r], r.pc # "wait", r.id \in {None, loop[l].id},
           UNCHANGED handler
    PROVE  SoleInv'
  <1>1. \A m \in Loop : loop'[m] = IF m = l THEN r ELSE loop[m]
    BY DEF RunsInv, TypeOK
  <1>2. \A m \in Loop : IdOf(m)' = IF m = l THEN r.id ELSE IdOf(m)
    BY <1>1 DEF IdOf, Waiting
  <1>3. IdOf(l) = loop[l].id
    BY DEF IdOf
  <1>4. \A m, n \in Loop : m # n => IdOf(m)' = None \/ IdOf(m)' # IdOf(n)'
    BY <1>2, <1>3 DEF SoleInv
  <1>5. \A h \in Handler : Busy(h)' => \E m \in Loop : Waiting(m)' /\ loop'[m].on = h
    BY <1>1 DEF SoleInv, Waiting, Busy
  <1>6. QED
    BY <1>4, <1>5 DEF SoleInv

\* A run gets its answer, or learns that it is lost.
LEMMA SoleAnswered ==
    ASSUME RunsInv, SoleInv, NEW l \in Loop, Waiting(l), NEW r,
           loop' = [loop EXCEPT ![l] = r], r.pc # "wait",
           r.id \in {None, loop[l].id, handler[loop[l].on].id},
           handler' = [handler EXCEPT ![loop[l].on] = Free]
    PROVE  SoleInv'
  <1>1. \A m \in Loop : loop'[m] = IF m = l THEN r ELSE loop[m]
    BY DEF RunsInv, TypeOK
  <1>2. loop[l].on \in Handler /\ (loop[l].id # None => handler[loop[l].on].id = loop[l].id)
    BY DEF RunsInv, Runs, WaitsForItsOwn
  <1>3. \A h \in Handler : handler'[h] = IF h = loop[l].on THEN Free ELSE handler[h]
    BY <1>2 DEF RunsInv, TypeOK
  <1>4. \A m \in Loop : m # l /\ Waiting(m) => loop[m].on \in Handler /\ loop[m].on # loop[l].on
    BY DEF RunsInv, Runs, WaitsForItsOwn
  <1>5. \A m \in Loop : IdOf(m)' = IF m = l THEN r.id ELSE IdOf(m)
    BY <1>1, <1>3, <1>4 DEF IdOf, Waiting
  <1>6. r.id \in {None, IdOf(l)}
    BY <1>2 DEF IdOf
  <1>7. \A m, n \in Loop : m # n => IdOf(m)' = None \/ IdOf(m)' # IdOf(n)'
    BY <1>5, <1>6 DEF SoleInv
  <1>8. \A h \in Handler : Busy(h)' => \E m \in Loop : Waiting(m)' /\ loop'[m].on = h
    <2>1. Free.pc = "free"
      BY DEF Free, HandlerAt
    <2>2. SUFFICES ASSUME NEW h \in Handler, h # loop[l].on, Busy(h)
                   PROVE  \E m \in Loop : Waiting(m)' /\ loop'[m].on = h
      BY <1>3, <2>1 DEF Busy
    <2>3. PICK m \in Loop : Waiting(m) /\ loop[m].on = h
      BY <2>2 DEF SoleInv
    <2>4. QED
      BY <1>1, <2>2, <2>3 DEF Waiting
  <1>9. QED
    BY <1>7, <1>8 DEF SoleInv

\* Requests go on, each with its id.
LEMMA SoleRequests ==
    ASSUME RunsInv, SoleInv, UNCHANGED loop,
           \A g \in Handler : Busy(g)' => Busy(g),
           \A g \in Handler : Busy(g) => handler'[g].id = handler[g].id
    PROVE  SoleInv'
  <1>1. \A l \in Loop : Waiting(l) => loop[l].on \in Handler /\ Busy(loop[l].on)
    BY DEF RunsInv, Runs, WaitsForItsOwn
  <1>2. \A l \in Loop : IdOf(l)' = IdOf(l)
    BY <1>1 DEF IdOf, Waiting
  <1>3. QED
    BY <1>2 DEF SoleInv, Waiting

\* A request is sent under the run's id, or under one that is new.
LEMMA SoleSend ==
    ASSUME RunsInv, SoleInv, NEW l \in Loop, NEW h \in Handler, Send(l, h)
    PROVE  SoleInv'
  <1> DEFINE id == IF loop[l].id = None THEN minted + 1 ELSE loop[l].id
             r == RunAt("wait", loop[l].at, loop[l].tries, loop[l].id, h)
             q == HandlerAt("check", l[1], id, loop[l].at)
  <1>1. /\ handler' = [handler EXCEPT ![h] = q]
        /\ loop' = [loop EXCEPT ![l] = r]
        /\ ~Waiting(l) /\ ~Busy(h)
    BY DEF Send, Busy, Waiting
  <1>2. r.pc = "wait" /\ r.on = h /\ q.id = id
    BY DEF RunAt, HandlerAt
  <1>3. \A m \in Loop : IdOf(m) # None => IdOf(m) \in Id /\ IdOf(m) <= minted
    BY DEF IdOf, RunsInv, TypeOK, LoopState, Runs, WaitsForItsOwn, InRange
  <1>4. id = IdOf(l) \/ \A m \in Loop : IdOf(m) # id
    <2>1. CASE loop[l].id = None
      <3>1. minted \in 0..MaxId /\ None # minted + 1
        BY DEF RunsInv, TypeOK
      <3>2. ASSUME NEW m \in Loop PROVE IdOf(m) # minted + 1
        BY <1>3, <3>1 DEF Id
      <3>3. QED
        BY <2>1, <3>2
    <2>2. CASE loop[l].id # None
      BY <1>1, <2>2 DEF IdOf
    <2>3. QED
      BY <2>1, <2>2
  <1> HIDE DEF id, r, q
  <1>5. \A m \in Loop : loop'[m] = IF m = l THEN r ELSE loop[m]
    BY <1>1 DEF RunsInv, TypeOK
  <1>6. \A g \in Handler : handler'[g] = IF g = h THEN q ELSE handler[g]
    BY <1>1 DEF RunsInv, TypeOK
  <1>7. \A m \in Loop : m # l /\ Waiting(m) => loop[m].on \in Handler /\ loop[m].on # h
    BY <1>1 DEF RunsInv, Runs, WaitsForItsOwn
  <1>8. \A m \in Loop : IdOf(m)' = IF m = l THEN id ELSE IdOf(m)
    BY <1>2, <1>5, <1>6, <1>7 DEF IdOf, Waiting
  <1>9. \A m, n \in Loop : m # n => IdOf(m)' = None \/ IdOf(m)' # IdOf(n)'
    BY <1>4, <1>8 DEF SoleInv
  <1>10. \A g \in Handler : Busy(g)' => \E m \in Loop : Waiting(m)' /\ loop'[m].on = g
    <2>1. ASSUME NEW g \in Handler, g # h, Busy(g)'
          PROVE  \E m \in Loop : Waiting(m)' /\ loop'[m].on = g
      <3>1. PICK m \in Loop : Waiting(m) /\ loop[m].on = g
        BY <1>6, <2>1 DEF SoleInv, Busy
      <3>2. QED
        BY <1>1, <1>5, <3>1 DEF Waiting
    <2>2. Waiting(l)' /\ loop'[l].on = h
      BY <1>2, <1>5 DEF Waiting
    <2>3. QED
      BY <2>1, <2>2
  <1>11. QED
    BY <1>9, <1>10 DEF SoleInv

LEMMA NextSole ==
    ASSUME Orderly, RunsInv, SoleInv, [Next]_vars
    PROVE  SoleInv'
  <1>1. ASSUME NEW l \in Loop, Begin(l) \/ Resume(l) \/ RetryFile(l) PROVE SoleInv'
    <2>1. \/ loop' = [loop EXCEPT ![l] = RunAt("send", 0, 0, None, None)]
          \/ loop' = [loop EXCEPT ![l] = RunAt("send", 0, loop[l].tries, loop[l].id, None)]
          \/ loop' = [loop EXCEPT ![l] = RunAt("queued", 0, 0, None, None)]
      BY <1>1 DEF Begin, Resume, RetryFile
    <2>2. UNCHANGED handler /\ ~Waiting(l)
      BY <1>1 DEF Begin, Resume, RetryFile, serverVars, Waiting, Live
    <2>3. ASSUME NEW pc \in {"send", "queued"}, NEW t, NEW id \in {None, loop[l].id},
                 loop' = [loop EXCEPT ![l] = RunAt(pc, 0, t, id, None)]
          PROVE  SoleInv'
      <3> DEFINE r == RunAt(pc, 0, t, id, None)
      <3>1. r.pc # "wait" /\ r.id = id
        BY DEF RunAt
      <3>2. loop' = [loop EXCEPT ![l] = r]
        BY <2>3
      <3> HIDE DEF r
      <3>3. QED
        BY <2>2, <3>1, <3>2, SoleMoves
    <2>4. QED
      BY <2>1, <2>3
  <1>2. ASSUME NEW l \in Loop, Answered(l) \/ AnswerLost(l) PROVE SoleInv'
    <2> DEFINE h == handler[loop[l].on]
    <2>1. Waiting(l) /\ handler' = [handler EXCEPT ![loop[l].on] = Free]
      BY <1>2 DEF Answered, AnswerLost, Waiting
    <2>2. \E r : /\ loop' = [loop EXCEPT ![l] = r]
                 /\ r.pc # "wait" /\ r.id \in {None, loop[l].id, h.id}
      <3>1. \/ loop' = [loop EXCEPT ![l] = Failed(l)]
            \/ loop' = [loop EXCEPT ![l] = GoOn(l, h.at + 1, 0, h.id)]
            \/ loop' = [loop EXCEPT ![l] = GoOn(l, h.expected, loop[l].tries, loop[l].id)]
        BY <1>2 DEF Answered, AnswerLost, RunFails
      <3>2. Failed(l).pc # "wait" /\ Failed(l).id \in {None, loop[l].id}
        BY FailedType DEF RunsInv
      <3>3. \A at, t, i : GoOn(l, at, t, i).pc # "wait" /\ GoOn(l, at, t, i).id \in {None, i}
        BY DEF GoOn, RunAt
      <3>4. QED
        BY <3>1, <3>2, <3>3
    <2>3. QED
      BY <2>1, <2>2, SoleAnswered
  <1>3. ASSUME NEW h \in Handler, HandlerStep(h) \/ Fail(h) PROVE SoleInv'
    <2>1. ~Discard(h)
      BY DEF Discard, SoleInv, Busy
    <2>2. \E r : handler' = [handler EXCEPT ![h] = r] /\ r.id = handler[h].id
      BY <1>3, <2>1 DEF HandlerStep, Check, Stat, AppendChunk, Move, CreateRow, Fail,
                        At, HandlerAt, Reply
    <2>3. UNCHANGED loop /\ Busy(h)
      BY <1>3, <2>1 DEF HandlerStep, Check, Stat, AppendChunk, Move, CreateRow, Fail,
                        pageVars, Busy
    <2>4. \A g \in Handler : g # h => handler'[g] = handler[g]
      BY <2>2 DEF RunsInv, TypeOK
    <2>5. handler'[h].id = handler[h].id
      BY <2>2 DEF RunsInv, TypeOK
    <2>6. QED
      BY <2>3, <2>4, <2>5, SoleRequests DEF Busy
  <1>4. CASE Crash
    <2>1. UNCHANGED loop
      BY <1>4 DEF Crash, pageVars
    <2>2. \A g \in Handler : /\ Busy(g)' => Busy(g)
                             /\ Busy(g) => handler'[g].id = handler[g].id
      BY <1>4 DEF Crash, Busy, Free, HandlerAt, Reply
    <2>3. QED
      BY <2>1, <2>2, SoleRequests
  <1>5. CASE UNCHANGED <<loop, handler>>
    BY <1>5 DEF SoleInv, Waiting, Busy, IdOf
  <1>6. CASE PageStep
    BY <1>1, <1>2, <1>5, <1>6, SoleSend DEF PageStep, Complete, NasSettled, Save
  <1>7. CASE Visitor
    BY <1>1, <1>5, <1>7 DEF Visitor, RemoveRow, serverVars
  <1>8. CASE Failure
    BY <1>2, <1>3, <1>4, <1>8 DEF Failure, Abandon, Tear, Fault, Orderly
  <1>9. CASE UNCHANGED vars
    BY <1>5, <1>9 DEF vars
  <1>10. QED
    BY <1>3, <1>6, <1>7, <1>8, <1>9 DEF Next

\* Nothing on the disk changes, and no request is past its checks that was
\* not there before.
LEMMA DiskRests ==
    ASSUME DiskInv, UNCHANGED <<tmp, disk, row>>,
           \A g \in Handler : \/ handler'[g] = handler[g]
                              \/ handler'[g].pc \in {"free", "check", "reply"}
    PROVE  DiskInv'
  <1>1. Intact'
    BY DEF DiskInv, Intact
  <1>2. QED
    BY <1>1 DEF DiskInv, Past

\* What At makes of a request.
LEMMA AtFields ==
    ASSUME NEW h, NEW pc
    PROVE  /\ At(h, pc).pc = pc /\ At(h, pc).file = handler[h].file
           /\ At(h, pc).id = handler[h].id /\ At(h, pc).at = handler[h].at
  BY DEF At, HandlerAt

LEMMA CheckDisk ==
    ASSUME RunsInv, DiskInv, NEW h \in Handler, Check(h)
    PROVE  DiskInv'
  <1>1. CASE row[handler[h].id] # None \/ locked
    <2>1. handler' = [handler EXCEPT ![h] = Reply(h, "error", 0)] /\ UNCHANGED <<tmp, disk, row>>
      BY <1>1 DEF Check
    <2>2. Reply(h, "error", 0).pc = "reply"
      BY DEF Reply
    <2>3. QED
      BY <2>1, <2>2, DiskRests DEF RunsInv, TypeOK
  <1>2. CASE ~(row[handler[h].id] # None \/ locked)
    <2> DEFINE r == At(h, "stat")
    <2>1. handler' = [handler EXCEPT ![h] = r] /\ UNCHANGED <<tmp, disk, row>>
      BY <1>2 DEF Check
    <2>2. r.pc = "stat" /\ r.id = handler[h].id
      BY AtFields
    <2> HIDE DEF r
    <2>3. \A g \in Handler : handler'[g] = IF g = h THEN r ELSE handler[g]
      BY <2>1 DEF RunsInv, TypeOK
    <2>4. Intact'
      BY <2>1 DEF DiskInv, Intact
    <2>5. QED
      BY <1>2, <2>1, <2>2, <2>3, <2>4 DEF DiskInv, Past
  <1>3. QED
    BY <1>1, <1>2

LEMMA StatDisk ==
    ASSUME RunsInv, DiskInv, NEW h \in Handler, Stat(h)
    PROVE  DiskInv'
  <1> DEFINE n == Len(tmp[handler[h].id])
  <1>1. UNCHANGED <<tmp, disk, row>>
    BY DEF Stat
  <1>2. CASE n # handler[h].at
    <2>1. handler' = [handler EXCEPT ![h] = Reply(h, "unexpected", n)]
      BY <1>2 DEF Stat
    <2>2. Reply(h, "unexpected", n).pc = "reply"
      BY DEF Reply
    <2>3. QED
      BY <1>1, <2>1, <2>2, DiskRests DEF RunsInv, TypeOK
  <1>3. CASE n = handler[h].at
    <2>1. handler' = [handler EXCEPT ![h] = At(h, "append")]
      BY <1>3 DEF Stat
    <2>2. \A g \in Handler : handler'[g] = IF g = h THEN At(h, "append") ELSE handler[g]
      BY <2>1 DEF RunsInv, TypeOK
    <2>3. Intact'
      BY <1>1 DEF DiskInv, Intact
    <2>4. row[handler[h].id] = None
      BY DEF Stat, DiskInv, Past
    <2>5. QED
      BY <1>1, <1>3, <2>2, <2>3, <2>4, AtFields DEF DiskInv, Past
  <1>4. QED
    BY <1>2, <1>3

\* A sequence is the function of its places.
LEMMA SequenceOfPlaces ==
    ASSUME NEW S, NEW q \in Seq(S), NEW n, DOMAIN q = 1..n
    PROVE  q = [k \in 1..n |-> q[k]]
  OBVIOUS

LEMMA LongerByOne == ASSUME NEW S, NEW q \in Seq(S), NEW e \in S
                     PROVE  /\ Len(q) \in Nat
                            /\ Append(q, e) \in Seq(S)
                            /\ Len(Append(q, e)) = Len(q) + 1
                            /\ \A k \in 1..(Len(q) + 1) :
                                 Append(q, e)[k] = IF k = Len(q) + 1 THEN e ELSE q[k]
  OBVIOUS

\* A beginning of the file, one chunk longer.
LEMMA AppendedChunk ==
    ASSUME NEW q \in Seq(Nat \cup {Torn}), NEW e \in Nat, e = Len(q),
           \A k \in 1..Len(q) : q[k] = k - 1
    PROVE  \A k \in 1..Len(Append(q, e)) : Append(q, e)[k] = k - 1
  <1>1. Len(q) \in Nat
    OBVIOUS
  <1>2. /\ Len(Append(q, e)) = Len(q) + 1
        /\ \A k \in 1..(Len(q) + 1) : Append(q, e)[k] = IF k = Len(q) + 1 THEN e ELSE q[k]
    BY LongerByOne
  <1>3. QED
    BY <1>1, <1>2

LEMMA AppendDisk ==
    ASSUME RunsInv, SoleInv, DiskInv, NEW h \in Handler, AppendChunk(h)
    PROVE  DiskInv'
  <1> DEFINE id == handler[h].id
             at == handler[h].at
             f == handler[h].file
             r == IF at = LastChunk(f) THEN At(h, "move") ELSE Reply(h, "ok", 0)
  <1>1. /\ handler[h].pc = "append" /\ Busy(h)
        /\ handler' = [handler EXCEPT ![h] = r]
        /\ tmp' = [tmp EXCEPT ![id] = Append(tmp[id], at)]
        /\ UNCHANGED <<disk, row>>
    BY DEF AppendChunk, Busy
  <1>2. /\ id \in Id /\ at \in Nat /\ f \in File /\ at < Chunks[f]
        /\ tmp[id] \in Seq(Nat \cup {Torn})
    BY <1>1 DEF RunsInv, Runs, InRange, TypeOK, HandlerState
  <1>3. at = Len(tmp[id]) /\ row[id] = None
    BY <1>1 DEF DiskInv, Past
  <1>4. \A i \in Id : tmp'[i] = IF i = id THEN Append(tmp[id], at) ELSE tmp[i]
    BY <1>1 DEF RunsInv, TypeOK
  <1>5. \A g \in Handler : handler'[g] = IF g = h THEN r ELSE handler[g]
    BY <1>1 DEF RunsInv, TypeOK
  <1>6. \A g \in Handler : g # h /\ Busy(g) => handler[g].id \in Id /\ handler[g].id # id
    BY <1>1, IdsDiffer DEF RunsInv, Runs, InRange
  <1>7. r.pc \in {"move", "reply"} /\ r.file = f /\ r.id = id
        /\ (r.pc = "move" => at = LastChunk(f))
    BY DEF At, HandlerAt, Reply
  <1> HIDE DEF r
  <1>8. \A i \in Id : \A k \in 1..Len(tmp'[i]) : tmp'[i][k] = k - 1
    <2>1. \A k \in 1..Len(tmp[id]) : tmp[id][k] = k - 1
      BY <1>2 DEF DiskInv
    <2>2. at = Len(tmp[id])
      BY <1>3
    <2>3. \A k \in 1..Len(Append(tmp[id], at)) : Append(tmp[id], at)[k] = k - 1
      <3> HIDE DEF at
      <3>1. QED
        BY <1>2, <2>1, <2>2, AppendedChunk
    <2>4. ASSUME NEW i \in Id PROVE \A k \in 1..Len(tmp'[i]) : tmp'[i][k] = k - 1
      <3>1. CASE i = id
        BY <1>4, <2>3, <3>1
      <3>2. CASE i # id
        <4>1. tmp'[i] = tmp[i]
          BY <1>4, <3>2
        <4>2. QED
          BY <4>1 DEF DiskInv
      <3>3. QED
        BY <3>1, <3>2
    <2>5. QED
      BY <2>4
  <1>9. Len(tmp'[id]) = at + 1
    <2>1. Len(Append(tmp[id], at)) = Len(tmp[id]) + 1
      BY <1>2, LongerByOne
    <2>2. QED
      BY <1>2, <1>3, <1>4, <2>1
  <1>10. at = LastChunk(f) => Len(tmp'[id]) = Chunks[f]
    BY <1>2, <1>9 DEF LastChunk
  <1>11. ASSUME NEW g \in Handler
         PROVE  LET i == handler'[g].id IN
                /\ handler'[g].pc = "append" => handler'[g].at = Len(tmp'[i])
                /\ handler'[g].pc = "move" => Len(tmp'[i]) = Chunks[handler'[g].file]
                /\ handler'[g].pc = "row" => Whole(handler'[g].file, disk'[i])
                /\ Past(g)' => row'[i] = None
    <2>1. CASE g = h
      BY <1>1, <1>3, <1>5, <1>7, <1>10, <2>1 DEF Past
    <2>2. CASE g # h /\ Busy(g)
      <3>1. handler'[g] = handler[g] /\ tmp'[handler[g].id] = tmp[handler[g].id]
        BY <1>4, <1>5, <1>6, <2>2
      <3>2. QED
        BY <1>1, <3>1 DEF DiskInv, Past
    <2>3. CASE g # h /\ ~Busy(g)
      BY <1>5, <2>3 DEF Busy, Past
    <2>4. QED
      BY <2>1, <2>2, <2>3
  <1>12. Intact'
    BY <1>1 DEF DiskInv, Intact
  <1>13. QED
    BY <1>8, <1>11, <1>12 DEF DiskInv

LEMMA MoveDisk ==
    ASSUME RunsInv, SoleInv, DiskInv, NEW h \in Handler, Move(h)
    PROVE  DiskInv'
  <1> DEFINE id == handler[h].id
             f == handler[h].file
             r == At(h, "row")
  <1>1. handler[h].pc = "move" /\ Busy(h) /\ UNCHANGED row
    BY DEF Move, Busy
  <1>2. id \in Id /\ f \in File /\ tmp[id] \in Seq(Nat \cup {Torn})
    BY <1>1 DEF RunsInv, Runs, InRange, TypeOK
  <1>3. Len(tmp[id]) = Chunks[f] /\ row[id] = None
    BY <1>1 DEF DiskInv, Past
  <1>4. tmp[id] # << >> /\ Chunks[f] \in Nat
    BY <1>2, <1>3
  <1>5. /\ disk' = [disk EXCEPT ![id] = tmp[id]]
        /\ tmp' = [tmp EXCEPT ![id] = << >>]
        /\ handler' = [handler EXCEPT ![h] = r]
    BY <1>4 DEF Move
  <1>6. r.pc = "row" /\ r.file = f /\ r.id = id
    BY AtFields
  <1> HIDE DEF r
  <1>7. Whole(f, tmp[id])
    <2>1. DOMAIN tmp[id] = 1..Chunks[f] /\ \A k \in 1..Chunks[f] : tmp[id][k] = k - 1
      BY <1>2, <1>3, <1>4 DEF DiskInv
    <2>2. tmp[id] = [k \in 1..Chunks[f] |-> tmp[id][k]]
      BY <1>2, <2>1, SequenceOfPlaces
    <2>3. QED
      BY <2>1, <2>2 DEF Whole
  <1>8. \A i \in Id : /\ tmp'[i] = IF i = id THEN << >> ELSE tmp[i]
                      /\ disk'[i] = IF i = id THEN tmp[id] ELSE disk[i]
    BY <1>5 DEF RunsInv, TypeOK
  <1>9. \A g \in Handler : handler'[g] = IF g = h THEN r ELSE handler[g]
    BY <1>5 DEF RunsInv, TypeOK
  <1>10. \A g \in Handler : g # h /\ Busy(g) => handler[g].id \in Id /\ handler[g].id # id
    BY <1>1, IdsDiffer DEF RunsInv, Runs, InRange
  <1>11. \A i \in Id : \A k \in 1..Len(tmp'[i]) : tmp'[i][k] = k - 1
    BY <1>8 DEF DiskInv
  <1>12. ASSUME NEW g \in Handler
         PROVE  LET i == handler'[g].id IN
                /\ handler'[g].pc = "append" => handler'[g].at = Len(tmp'[i])
                /\ handler'[g].pc = "move" => Len(tmp'[i]) = Chunks[handler'[g].file]
                /\ handler'[g].pc = "row" => Whole(handler'[g].file, disk'[i])
                /\ Past(g)' => row'[i] = None
    <2>1. CASE g = h
      BY <1>1, <1>2, <1>3, <1>6, <1>7, <1>8, <1>9, <2>1 DEF Past
    <2>2. CASE g # h /\ Busy(g)
      <3>1. /\ handler'[g] = handler[g] /\ tmp'[handler[g].id] = tmp[handler[g].id]
            /\ disk'[handler[g].id] = disk[handler[g].id]
        BY <1>8, <1>9, <1>10, <2>2
      <3>2. QED
        BY <1>1, <3>1 DEF DiskInv, Past
    <2>3. CASE g # h /\ ~Busy(g)
      BY <1>9, <2>3 DEF Busy, Past
    <2>4. QED
      BY <2>1, <2>2, <2>3
  <1>13. Intact'
    BY <1>1, <1>3, <1>8 DEF DiskInv, Intact
  <1>14. QED
    BY <1>11, <1>12, <1>13 DEF DiskInv

LEMMA RowDisk ==
    ASSUME RunsInv, SoleInv, DiskInv, NEW h \in Handler, CreateRow(h)
    PROVE  DiskInv'
  <1> DEFINE id == handler[h].id
             f == handler[h].file
             r == Reply(h, "ok", 0)
  <1>1. handler[h].pc = "row" /\ Busy(h) /\ UNCHANGED <<tmp, disk>>
    BY DEF CreateRow, Busy
  <1>2. id \in Id
    BY <1>1 DEF RunsInv, Runs, InRange
  <1>3. row[id] = None /\ Whole(f, disk[id])
    BY <1>1 DEF DiskInv, Past
  <1>4. row' = [row EXCEPT ![id] = f] /\ handler' = [handler EXCEPT ![h] = r]
    BY <1>3 DEF CreateRow
  <1>5. r.pc = "reply"
    BY DEF Reply
  <1> HIDE DEF r
  <1>6. \A i \in Id : row'[i] = IF i = id THEN f ELSE row[i]
    BY <1>4 DEF RunsInv, TypeOK
  <1>7. \A g \in Handler : handler'[g] = IF g = h THEN r ELSE handler[g]
    BY <1>4 DEF RunsInv, TypeOK
  <1>8. \A g \in Handler : g # h /\ Busy(g) => handler[g].id \in Id /\ handler[g].id # id
    BY <1>1, IdsDiffer DEF RunsInv, Runs, InRange
  <1>9. ASSUME NEW g \in Handler
        PROVE  LET i == handler'[g].id IN
               /\ handler'[g].pc = "append" => handler'[g].at = Len(tmp'[i])
               /\ handler'[g].pc = "move" => Len(tmp'[i]) = Chunks[handler'[g].file]
               /\ handler'[g].pc = "row" => Whole(handler'[g].file, disk'[i])
               /\ Past(g)' => row'[i] = None
    <2>1. CASE g = h
      BY <1>5, <1>7, <2>1 DEF Past
    <2>2. CASE g # h /\ Busy(g)
      <3>1. handler'[g] = handler[g] /\ row'[handler[g].id] = row[handler[g].id]
        BY <1>6, <1>7, <1>8, <2>2
      <3>2. QED
        BY <1>1, <3>1 DEF DiskInv, Past
    <2>3. CASE g # h /\ ~Busy(g)
      BY <1>7, <2>3 DEF Busy, Past
    <2>4. QED
      BY <2>1, <2>2, <2>3
  <1>10. Intact'
    BY <1>1, <1>2, <1>3, <1>6 DEF DiskInv, Intact
  <1>11. QED
    BY <1>1, <1>9, <1>10 DEF DiskInv

\* A step that leaves the disk alone starts no request past its checks.
LEMMA NextDisk ==
    ASSUME Orderly, RunsInv, SoleInv, DiskInv, [Next]_vars
    PROVE  DiskInv'
  <1>1. Free.pc = "free" /\ \A h \in Handler : Reply(h, "error", 0).pc = "reply"
    BY DEF Free, HandlerAt, Reply
  <1>2. CASE UNCHANGED <<handler, tmp, disk, row>>
    BY <1>2, DiskRests
  <1>3. ASSUME NEW l \in Loop, Answered(l) \/ AnswerLost(l) PROVE DiskInv'
    <2>1. /\ handler' = [handler EXCEPT ![loop[l].on] = Free]
          /\ UNCHANGED <<tmp, disk, row>>
      BY <1>3 DEF Answered, AnswerLost
    <2>2. \A g \in Handler : handler'[g] = handler[g] \/ handler'[g] = Free
      BY <2>1 DEF RunsInv, TypeOK
    <2>3. QED
      BY <1>1, <2>1, <2>2, DiskRests
  <1>4. ASSUME NEW l \in Loop, NEW h \in Handler, Send(l, h) PROVE DiskInv'
    <2>1. \A g \in Handler : handler'[g] = handler[g] \/ handler'[g].pc = "check"
      BY <1>4 DEF Send, HandlerAt, RunsInv, TypeOK
    <2>2. UNCHANGED <<tmp, disk, row>>
      BY <1>4 DEF Send
    <2>3. QED
      BY <2>1, <2>2, DiskRests
  <1>5. ASSUME NEW h \in Handler, Fail(h) PROVE DiskInv'
    <2>1. \A g \in Handler : handler'[g] = handler[g] \/ handler'[g] = Reply(h, "error", 0)
      BY <1>5 DEF Fail, RunsInv, TypeOK
    <2>2. UNCHANGED <<tmp, disk, row>>
      BY <1>5 DEF Fail
    <2>3. QED
      BY <1>1, <2>1, <2>2, DiskRests
  <1>6. ASSUME NEW h \in Handler, HandlerStep(h) PROVE DiskInv'
    <2>1. ~Discard(h)
      BY DEF Discard, SoleInv, Busy
    <2>2. QED
      BY <1>6, <2>1, CheckDisk, StatDisk, AppendDisk, MoveDisk, RowDisk DEF HandlerStep
  <1>7. CASE Crash
    <2>1. \A g \in Handler : handler'[g] = Free \/ handler'[g] = Reply(g, "error", 0)
      BY <1>7 DEF Crash
    <2>2. UNCHANGED <<tmp, disk, row>>
      BY <1>7 DEF Crash
    <2>3. QED
      BY <1>1, <2>1, <2>2, DiskRests
  <1>8. CASE PageStep
    BY <1>2, <1>3, <1>4, <1>8
       DEF PageStep, Begin, Resume, Complete, NasSettled, Save, serverVars
  <1>9. CASE Visitor
    BY <1>2, <1>9 DEF Visitor, RetryFile, RemoveRow, serverVars
  <1>10. CASE Failure
    BY <1>3, <1>5, <1>7, <1>10 DEF Failure, Abandon, Tear, Fault, Orderly
  <1>11. CASE UNCHANGED vars
    BY <1>2, <1>11 DEF vars
  <1>12. QED
    BY <1>6, <1>8, <1>9, <1>10, <1>11 DEF Next

\* A file the transfer lists is on the disk every chunk once and in order,
\* for any number of attempts, resumptions, lost answers, errors and
\* restarts, while no request is abandoned half-way and no chunk is written
\* in part.
THEOREM StoredFilesIntact == Spec => []StoredIntact
  <1>1. Init => SoleInv /\ DiskInv
    <2> SUFFICES ASSUME Init PROVE SoleInv /\ DiskInv
      OBVIOUS
    <2>1. \A h \in Handler : handler[h].pc = "free"
      BY DEF Init, Free, HandlerAt
    <2>2. \A l \in Loop : ~Waiting(l) /\ IdOf(l) = None
      BY DEF Init, RunAt, NoRun, IdOf, Waiting
    <2>3. SoleInv
      BY <2>1, <2>2 DEF SoleInv, Busy
    <2>4. \A i \in Id : tmp[i] = << >> /\ row[i] = None
      BY DEF Init
    <2>5. \A i \in Id : \A k \in 1..Len(tmp[i]) : tmp[i][k] = k - 1
      BY <2>4
    <2>6. QED
      BY <2>1, <2>3, <2>4, <2>5 DEF DiskInv, Intact, Past
  <1>2. ASSUME RunsInv, Orderly => SoleInv /\ DiskInv, [Next]_vars
        PROVE  (Orderly => SoleInv /\ DiskInv)'
    <2>1. Orderly' => Orderly
      BY <1>2, GivenStays DEF Orderly
    <2>2. QED
      BY <1>2, <2>1, NextSole, NextDisk
  <1>3. (Orderly => SoleInv /\ DiskInv) => StoredIntact
    BY DEF DiskInv, StoredIntact, Intact
  <1>4. QED
    BY <1>1, <1>2, <1>3, RunsInvariant, PTL DEF Spec
=============================================================================
