---------------------------- MODULE VisitsProofs ------------------------------
(***************************************************************************)
(* What TLAPS proves of Visits, for any number of visitors, addresses,     *)
(* requests, transfers under one id, passwords and limits.                 *)
(***************************************************************************)
EXTENDS Visits, TLAPS

Coming == {"knocking", "looked", "entering", "admitted"}
Looking == {"looked", "entering", "admitted", "editing", "securing"}

\* What a request has read is of a transfer there was.
Known(q) ==
    /\ q.pc \in Coming => q.by \in Visitor
    /\ q.pc \in Looking => q.saw.made # 0
    /\ q.saw.made <= made

RestOK ==
    /\ now \in Nat /\ made \in Nat /\ passwords \in Nat /\ asked \in Nat /\ lone \in Nat
    /\ share \in ShareType /\ WellFormed(share) /\ share.made <= made
    /\ cookie \in [Visitor -> CookieType]
    /\ visits \subseteq Visitor \X Nat \X Nat

ReqOK == req \in [Request -> RequestType] /\ \A r \in Request : Known(req[r])

TypeInv == RestOK /\ ReqOK

LEMMA TypeInvTypes == TypeInv => TypeOK
  BY DEF TypeInv, RestOK, ReqOK, TypeOK

-----------------------------------------------------------------------------
(* Types.                                                                  *)

LEMMA OpenType == Open \in RuleType
  BY DEF Open, RuleType

LEMMA GoneType == Gone \in ShareType /\ WellFormed(Gone) /\ Gone.made = 0
  BY OpenType DEF Gone, ShareType, WellFormed, Never, Open

LEMMA NoCookieType == NoCookie \in CookieType /\ NoChange \in ChangeType
  BY DEF NoCookie, CookieType, NoChange, ChangeType, Never

LEMMA IdleType == Idle \in RequestType /\ Idle.pc = "idle" /\ Idle.saw = Gone
  BY GoneType, NoCookieType DEF Idle, RequestType

LEMMA InitTypes == Init => TypeInv
  BY IdleType, GoneType, NoCookieType
  DEF Init, TypeInv, RestOK, ReqOK, Known, Coming, Looking

\* One slot gets another request.
LEMMA SlotKeeps ==
    ASSUME TypeInv, NEW r \in Request, NEW q \in RequestType, Known(q),
           req' = [req EXCEPT ![r] = q], made' = made
    PROVE  ReqOK'
  <1>1. req' \in [Request -> RequestType]
    BY DEF TypeInv, ReqOK
  <1>2. \A s \in Request : req'[s] = IF s = r THEN q ELSE req[s]
    BY DEF TypeInv, ReqOK
  <1>3. \A s \in Request : Known(req[s])
    BY DEF TypeInv, ReqOK
  <1>4. \A s \in Request : Known(req[s])'
    BY <1>2, <1>3 DEF Known
  <1>5. QED
    BY <1>1, <1>4 DEF ReqOK

LEMMA EndKeeps ==
    ASSUME TypeInv, NEW r \in Request, End(r), made' = made
    PROVE  ReqOK'
  <1>1. Known(Idle)
    BY IdleType, GoneType DEF Known, Coming, Looking, TypeInv, RestOK
  <1>2. QED
    BY <1>1, IdleType, SlotKeeps DEF End

LEMMA GoToKeeps ==
    ASSUME TypeInv, NEW r \in Request, made' = made,
           \/ At(r, "entering") /\ GoTo(r, "admitted")
           \/ At(r, "editing") /\ GoTo(r, "securing")
    PROVE  ReqOK'
  <1> DEFINE pc == IF At(r, "entering") THEN "admitted" ELSE "securing"
             q == [req[r] EXCEPT !.pc = pc]
  <1>1. req[r] \in RequestType /\ Known(req[r])
    BY DEF TypeInv, ReqOK
  <1>2. q \in RequestType
    BY <1>1 DEF RequestType
  <1>3. req' = [req EXCEPT ![r] = q]
    BY DEF At, GoTo, TypeInv, ReqOK
  <1>4. /\ q.pc = pc /\ q.by = req[r].by /\ q.saw = req[r].saw
        /\ req[r].pc \in {"entering", "editing"}
        /\ At(r, "entering") <=> req[r].pc = "entering"
    BY <1>1 DEF RequestType, At
  <1>5. Known(q)
    BY <1>1, <1>4 DEF Known, Coming, Looking
  <1>6. QED
    BY <1>2, <1>3, <1>5, SlotKeeps

\* A request that begins, on the transfer there is.
LEMMA BeginKeeps ==
    ASSUME TypeInv, Exists, NEW r \in Request, NEW q \in RequestType, Begin(r, q), made' = made,
           q.pc \in Coming => q.by \in Visitor,
           q.pc \in Looking => q.saw.made = share.made,
           q.saw.made \in {0, share.made}
    PROVE  ReqOK' /\ asked' \in Nat
  <1>1. share.made \in Nat /\ share.made # 0 /\ share.made <= made /\ made \in Nat
    BY DEF TypeInv, RestOK, Exists, ShareType
  <1>2. Known(q)
    BY <1>1 DEF Known
  <1>3. ReqOK'
    BY <1>2, SlotKeeps DEF Begin
  <1>4. QED
    BY <1>3 DEF Begin, TypeInv, RestOK

LEMMA VisitTypes ==
    ASSUME TypeInv, NEW r \in Request,
           \/ \E v \in Visitor, offer \in 0 .. passwords : Knock(r, v, offer)
           \/ Look(r) \/ Count(r)
    PROVE  TypeInv'
  <1>1. ASSUME NEW v \in Visitor, NEW offer \in 0 .. passwords, Knock(r, v, offer)
        PROVE  TypeInv'
    <2> DEFINE q == [Idle EXCEPT !.pc = "knocking", !.by = v, !.offer = offer]
    <2>1. q \in RequestType /\ q.pc = "knocking" /\ q.by = v /\ q.saw = Gone
      <3>1. offer \in Nat
        BY DEF TypeInv, RestOK
      <3>2. QED
        BY <3>1, IdleType DEF RequestType, Idle
    <2>2. ReqOK' /\ asked' \in Nat
      BY <1>1, <2>1, BeginKeeps, GoneType DEF Knock, Looking
    <2>3. QED
      BY <1>1, <2>2 DEF Knock, TypeInv, RestOK, WellFormed
  <1>2. CASE Look(r)
    <2>1. CASE End(r)
      BY <1>2, <2>1, EndKeeps DEF Look, TypeInv, RestOK, WellFormed
    <2>2. CASE ~End(r)
      <3> DEFINE others == {q \in Request : At(q, "looked")}
      <3>1. /\ Exists /\ At(r, "knocking")
            /\ req' = [q \in Request |->
                    IF q = r
                    THEN [req[r] EXCEPT !.pc = "looked", !.saw = share,
                                        !.alone = (others = {})]
                    ELSE IF q \in others THEN [req[q] EXCEPT !.alone = FALSE]
                    ELSE req[q]]
        BY <1>2, <2>2 DEF Look
      <3>2. \A q \in Request : req[q] \in RequestType /\ Known(req[q])
        BY DEF TypeInv, ReqOK
      <3>3. \A q \in Request : req'[q] \in RequestType
        <4>1. share \in ShareType
          BY DEF TypeInv, RestOK
        <4>2. QED
          BY <3>1, <3>2, <4>1 DEF RequestType
      <3>4. \A q \in Request :
               IF q = r THEN req'[q].pc = "looked" /\ req'[q].saw = share /\ req'[q].by = req[q].by
               ELSE req'[q].pc = req[q].pc /\ req'[q].saw = req[q].saw /\ req'[q].by = req[q].by
        BY <3>1, <3>2 DEF RequestType
      <3>5. share.made # 0 /\ share.made <= made /\ made' = made /\ req[r].pc = "knocking"
        BY <1>2, <3>1 DEF TypeInv, RestOK, Exists, Look, At
      <3>6. \A q \in Request : Known(req[q])'
        BY <3>2, <3>4, <3>5 DEF Known, Coming, Looking
      <3>7. ReqOK'
        BY <3>1, <3>3, <3>6 DEF ReqOK
      <3>8. QED
        BY <1>2, <3>7 DEF Look, TypeInv, RestOK, WellFormed
    <2>3. QED
      BY <2>1, <2>2
  <1>3. CASE Count(r)
    <2> DEFINE q == req[r]
    <2>1. q \in RequestType /\ Known(q) /\ q.pc = "looked"
      BY <1>3 DEF Count, TypeInv, ReqOK, At
    <2>2. q.by \in Visitor /\ q.saw \in ShareType /\ q.offer \in Nat
      BY <2>1 DEF Known, Coming, RequestType
    <2>3. Counted(q) \in Nat /\ TokenFor(q.saw) \in CookieType
      BY <2>2 DEF Counted, TokenFor, CookieType, ShareType, RuleType, Never, Hour, TypeInv, RestOK
    <2>4. share' \in ShareType /\ WellFormed(share)' /\ share'.made = share.made
      <3>1. CASE share' = share
        BY <3>1 DEF TypeInv, RestOK, WellFormed
      <3>2. CASE Exists /\ share' = [share EXCEPT !.views = Counted(q)]
        BY <2>3, <3>2 DEF TypeInv, RestOK, WellFormed, ShareType, Exists
      <3>3. QED
        BY <1>3, <3>1, <3>2 DEF Count
    <2>5. cookie' \in [Visitor -> CookieType] /\ lone' \in Nat
      BY <1>3, <2>2, <2>3 DEF Count, TypeInv, RestOK
    <2>6. visits' \subseteq Visitor \X Nat \X Nat
      <3>1. q.saw.made \in Nat
        BY <2>2 DEF ShareType
      <3>2. QED
        BY <1>3, <2>2, <3>1 DEF Count, TypeInv, RestOK
    <2>7. QED
      BY <1>3, <2>4, <2>5, <2>6, EndKeeps DEF Count, TypeInv, RestOK
  <1>4. QED
    BY <1>1, <1>2, <1>3

LEMMA ReadTypes ==
    ASSUME TypeInv, NEW r \in Request,
           \/ \E v \in Visitor : Enter(r, v)
           \/ Admit(r) \/ Refuse(r) \/ Serve(r)
    PROVE  TypeInv'
  <1>1. ASSUME NEW v \in Visitor, Enter(r, v) PROVE TypeInv'
    <2> DEFINE saw == [share EXCEPT !.views = 0]
               q == [Idle EXCEPT !.pc = "entering", !.by = v, !.cookie = cookie[v], !.saw = saw]
    <2>1. saw \in ShareType /\ saw.made = share.made
      BY DEF TypeInv, RestOK, ShareType
    <2>2. cookie[v] \in CookieType
      BY DEF TypeInv, RestOK
    <2>3. q \in RequestType /\ q.pc = "entering" /\ q.by = v /\ q.saw = saw
      BY <2>1, <2>2, IdleType DEF RequestType, Idle
    <2>4. ReqOK' /\ asked' \in Nat
      BY <1>1, <2>1, <2>3, BeginKeeps DEF Enter
    <2>5. QED
      BY <1>1, <2>4 DEF Enter, TypeInv, RestOK, WellFormed
  <1>2. CASE Admit(r)
    <2>1. req[r].pc = "entering" /\ req[r].by \in Visitor /\ req[r].saw.made \in Nat
      BY <1>2 DEF Admit, TypeInv, ReqOK, Known, Coming, RequestType, ShareType
    <2>2. share' \in ShareType /\ WellFormed(share)' /\ share'.made = share.made
      <3>1. CASE share' = share
        BY <3>1 DEF TypeInv, RestOK, WellFormed
      <3>2. CASE /\ Exists
                 /\ share' = [share EXCEPT !.linked = @ \cup {req[r].by},
                                           !.crossed = @ \/ req[r].saw.made # share.made]
        BY <2>1, <3>2, VisitorAssumption DEF TypeInv, RestOK, WellFormed, ShareType, Exists
      <3>3. QED
        BY <1>2, <3>1, <3>2 DEF Admit
    <2>3. ReqOK'
      BY <1>2, GoToKeeps DEF Admit, At
    <2>4. QED
      BY <1>2, <2>2, <2>3 DEF Admit, TypeInv, RestOK
  <1>3. CASE Refuse(r) \/ Serve(r)
    BY <1>3, EndKeeps DEF Refuse, Serve, TypeInv, RestOK, WellFormed
  <1>4. QED
    BY <1>1, <1>2, <1>3

\* What updateSecurity writes is a row, or none.
LEMMA CarriedType ==
    ASSUME NEW q \in RequestType
    PROVE  /\ Carried(q) \in RuleType
           /\ ~Carried(q).row => Carried(q) = Open
           /\ q.saw.rule.restricted => Carried(q).restricted
  <1>1. q.saw.rule \in RuleType /\ q.change \in ChangeType
    BY DEF RequestType, ShareType
  <1>2. NextRule(q) \in RuleType
    BY <1>1 DEF NextRule, RuleType, ChangeType
  <1>3. NextRule(q).row /\ NextRule(q).restricted = q.saw.rule.restricted
    BY DEF NextRule
  <1>4. QED
    BY <1>2, <1>3, OpenType DEF Carried, CarriesNothing, Open

LEMMA CreateTypes ==
    ASSUME TypeInv, NEW ends \in Ends, NEW secret \in BOOLEAN, NEW restricted \in BOOLEAN,
           NEW limit \in Limits, NEW named \in Guests,
           Create(ends, secret, limit, restricted, named)
    PROVE  TypeInv'
  <1> DEFINE password == IF secret THEN passwords + 1 ELSE 0
             rule == IF secret \/ limit # 0 \/ restricted
                     THEN [row |-> TRUE, password |-> password,
                           limit |-> limit, restricted |-> restricted]
                     ELSE Open
  <1>1. ends \in Nat /\ limit \in Nat /\ named \subseteq Address /\ password \in Nat /\ made \in Nat
    BY LimitsAssumption, GuestsAssumption DEF TypeInv, RestOK
  <1>2. rule \in RuleType /\ (~rule.row => rule = Open)
    BY <1>1, OpenType DEF RuleType
  <1>3. share' = [Gone EXCEPT !.made = made + 1, !.ends = ends, !.recipients = named,
                              !.vow = restricted, !.rule = rule]
    BY DEF Create
  <1> HIDE DEF rule, password
  <1>4. share' \in ShareType /\ share'.made = made + 1 /\ share'.rule = rule
    <2>1. made + 1 \in Nat
      BY <1>1
    <2>2. QED
      BY <1>1, <1>2, <1>3, <2>1 DEF ShareType, Gone, Never
  <1>5. WellFormed(share)'
    BY <1>1, <1>2, <1>4 DEF WellFormed
  <1>6. made' = made + 1 /\ passwords' \in Nat /\ lone' = 0
    BY <1>1 DEF Create, TypeInv, RestOK
  <1>7. ReqOK'
    <2>1. \A r \in Request : req[r] \in RequestType /\ Known(req[r]) /\ req[r].saw.made \in Nat
      BY DEF TypeInv, ReqOK, RequestType, ShareType
    <2>2. \A r \in Request : Known(req[r])'
      BY <1>1, <1>6, <2>1 DEF Known, Create
    <2>3. QED
      BY <2>2 DEF ReqOK, Create, TypeInv
  <1>8. QED
    BY <1>1, <1>4, <1>5, <1>6, <1>7 DEF TypeInv, RestOK, Create

LEMMA EditTypes ==
    ASSUME TypeInv, NEW r \in Request, NEW change \in Changes, Edit(r, change)
    PROVE  TypeInv'
  <1> DEFINE saw == [Gone EXCEPT !.made = share.made, !.rule = share.rule]
             q == [Idle EXCEPT !.pc = "editing", !.change = change, !.saw = saw]
  <1>1. change \in ChangeType
    <2>1. /\ change.touches \in Touches
          /\ change.ends \in Nat /\ change.limit \in Nat /\ change.password \in Nat
      <3>0. Limits \subseteq Nat /\ Ends \cup {Never} \subseteq Nat
        BY LimitsAssumption DEF Never
      <3>1. /\ change.touches \in Touches /\ change.ends \in Ends \cup {Never}
            /\ change.password \in {0, passwords + 1} /\ change.limit \in Limits
        BY DEF Changes
      <3>2. passwords + 1 \in Nat
        BY DEF TypeInv, RestOK
      <3>3. change.ends \in Nat /\ change.limit \in Nat
        BY <3>0, <3>1
      <3>4. change.password \in Nat
        BY <3>1, <3>2
      <3>5. QED
        BY <3>1, <3>3, <3>4
    <2>2. change.touches \subseteq {"ends", "security", "password", "limit"}
      BY <2>1 DEF Touches
    <2>3. change = [touches |-> change.touches, ends |-> change.ends,
                    password |-> change.password, limit |-> change.limit]
      BY DEF Changes
    <2>4. QED
      BY <2>1, <2>2, <2>3 DEF ChangeType
  <1>2. saw \in ShareType /\ saw.made = share.made
    BY GoneType DEF TypeInv, RestOK, ShareType, Gone
  <1>3. q \in RequestType /\ q.pc = "editing" /\ q.saw = saw
    BY <1>1, <1>2, IdleType DEF RequestType, Idle
  <1>4. ReqOK' /\ asked' \in Nat
    BY <1>2, <1>3, BeginKeeps DEF Edit, Coming
  <1>5. passwords' \in Nat
    BY <1>1 DEF Edit, ChangeType, TypeInv, RestOK
  <1>6. QED
    BY <1>4, <1>5 DEF Edit, TypeInv, RestOK, WellFormed

LEMMA OwnerTypes ==
    ASSUME TypeInv, NEW r \in Request,
           UpdateRow(r) \/ Secure(r) \/ Remove(r) \/ DropRow(r)
    PROVE  TypeInv'
  <1>0. req[r] \in RequestType /\ Known(req[r])
    BY DEF TypeInv, ReqOK
  <1>1. CASE UpdateRow(r)
    <2>1. share' \in ShareType /\ WellFormed(share)' /\ share'.made = share.made
      <3>1. req[r].change.ends \in Nat
        BY <1>0 DEF RequestType, ChangeType
      <3>2. CASE share' = share
        BY <3>2 DEF TypeInv, RestOK, WellFormed
      <3>3. CASE Exists /\ share' = [share EXCEPT !.ends = req[r].change.ends]
        BY <3>1, <3>3 DEF TypeInv, RestOK, WellFormed, ShareType, Exists
      <3>4. QED
        BY <1>1, <3>2, <3>3 DEF UpdateRow
    <2>2. ReqOK'
      BY <1>1, EndKeeps, GoToKeeps DEF UpdateRow
    <2>3. QED
      BY <1>1, <2>1, <2>2 DEF UpdateRow, TypeInv, RestOK
  <1>2. CASE Secure(r)
    <2>1. share' \in ShareType /\ WellFormed(share)' /\ share'.made = share.made
      <3>1. CASE share' = share
        BY <3>1 DEF TypeInv, RestOK, WellFormed
      <3>2. CASE /\ Exists
                 /\ share' = [share EXCEPT !.rule = Carried(req[r]),
                                           !.crossed = @ \/ req[r].saw.made # share.made]
        BY <1>0, <3>2, CarriedType DEF TypeInv, RestOK, WellFormed, ShareType, Exists
      <3>3. QED
        BY <1>2, <3>1, <3>2 DEF Secure
    <2>2. QED
      BY <1>2, <2>1, EndKeeps DEF Secure, TypeInv, RestOK
  <1>3. CASE Remove(r)
    <2> DEFINE q == [Idle EXCEPT !.pc = "removing"]
    <2>1. q \in RequestType /\ q.pc = "removing" /\ q.saw = Gone
      BY IdleType DEF RequestType, Idle
    <2>2. ReqOK' /\ asked' \in Nat
      BY <1>3, <2>1, GoneType, BeginKeeps DEF Remove, Coming, Looking
    <2>3. QED
      BY <1>3, <2>2 DEF Remove, TypeInv, RestOK, WellFormed
  <1>4. CASE DropRow(r)
    BY <1>4, GoneType, EndKeeps DEF DropRow, TypeInv, RestOK, WellFormed
  <1>5. QED
    BY <1>1, <1>2, <1>3, <1>4

LEMMA TypesKeep == TypeInv /\ [Next]_vars => TypeInv'
  <1> SUFFICES ASSUME TypeInv, [Next]_vars PROVE TypeInv'
    OBVIOUS
  <1>1. CASE UNCHANGED vars
    BY <1>1 DEF vars, TypeInv, RestOK, ReqOK, Known, WellFormed
  <1>2. CASE Expire \/ Tick
    <2>1. CASE Tick
      BY <2>1 DEF Tick, TypeInv, RestOK, ReqOK, Known, WellFormed
    <2>2. CASE Expire
      <3>1. share' \in ShareType /\ WellFormed(share)' /\ share'.made = share.made
        BY <2>2 DEF Expire, TypeInv, RestOK, WellFormed, ShareType, Exists
      <3>2. ReqOK'
        BY <2>2 DEF Expire, TypeInv, ReqOK, Known
      <3>3. QED
        BY <2>2, <3>1, <3>2 DEF Expire, TypeInv, RestOK
    <2>3. QED
      BY <1>2, <2>1, <2>2
  <1>3. QED
    BY <1>1, <1>2, CreateTypes, VisitTypes, ReadTypes, EditTypes, OwnerTypes DEF Next

LEMMA TypeInvariance == Spec => []TypeInv
  <1>1. QED
    BY InitTypes, TypesKeep, PTL DEF Spec

\* Rows, cookies and requests keep their types: a security row goes as a whole,
\* and a request that reads is of a visitor and a transfer there was.
THEOREM VisitTypesCorrect == Spec => []TypeOK
  BY TypeInvariance, TypeInvTypes, PTL

-----------------------------------------------------------------------------
(* Steps, seen from one slot and from the row.                             *)

\* All that a request has learnt stays, but that it was alone.
Same(r) ==
    /\ req'[r].pc = req[r].pc /\ req'[r].by = req[r].by /\ req'[r].offer = req[r].offer
    /\ req'[r].cookie = req[r].cookie /\ req'[r].saw = req[r].saw
    /\ req'[r].change = req[r].change /\ (req'[r].alone => req[r].alone)

Moves(r) ==
    \/ \E v \in Visitor :
          \/ \E offer \in 0 .. passwords : Knock(r, v, offer)
          \/ Enter(r, v)
    \/ Look(r) \/ Count(r) \/ Admit(r) \/ Refuse(r) \/ Serve(r)
    \/ \E change \in Changes : Edit(r, change)
    \/ UpdateRow(r) \/ Secure(r) \/ Remove(r) \/ DropRow(r)

LEMMA OthersStay ==
    ASSUME TypeInv, NEW q \in Request, Moves(q), NEW r \in Request, r # q
    PROVE  Same(r)
  <1>1. CASE Look(q)
    <2>1. req[r] \in RequestType
      BY DEF TypeInv, ReqOK
    <2>2. CASE End(q)
      BY <2>2 DEF End, Same, TypeInv, ReqOK
    <2>3. CASE ~End(q)
      <3>1. req'[r] = IF At(r, "looked") THEN [req[r] EXCEPT !.alone = FALSE] ELSE req[r]
        BY <1>1, <2>3 DEF Look
      <3>2. QED
        BY <2>1, <3>1 DEF Same, RequestType
    <2>4. QED
      BY <2>2, <2>3
  <1>2. CASE ~Look(q)
    <2>1. \E x \in RequestType \cup {Idle, req'[q]} : req' = [req EXCEPT ![q] = x]
      BY <1>2 DEF Moves, Knock, Enter, Count, Admit, Refuse, Serve, Edit, UpdateRow, Secure,
         Remove, DropRow, Begin, End, GoTo, TypeInv, ReqOK
    <2>2. req'[r] = req[r]
      BY <2>1 DEF TypeInv, ReqOK
    <2>3. QED
      BY <2>2 DEF Same
  <1>3. QED
    BY <1>1, <1>2

LEMMA Slots ==
    ASSUME TypeInv, [Next]_vars, NEW r \in Request
    PROVE  Same(r) \/ Moves(r)
  <1>1. CASE UNCHANGED req
    BY <1>1 DEF Same
  <1>2. CASE \E q \in Request : Moves(q)
    BY <1>2, OthersStay
  <1>3. QED
    BY <1>1, <1>2 DEF Next, Moves, Create, Expire, Tick, vars

\* Where a slot may go.
LEMMA Points ==
    ASSUME TypeInv, NEW r \in Request, Moves(r)
    PROVE  /\ req'[r].pc = "looked" => Look(r) /\ req'[r].saw = share /\ Exists
           /\ req'[r].pc = "entering" => \E v \in Visitor : Enter(r, v)
           /\ req'[r].pc = "admitted" => Admit(r)
           /\ req'[r].pc = "editing" => \E change \in Changes : Edit(r, change)
           /\ req'[r].pc = "securing" => UpdateRow(r) /\ At(r, "editing") /\ req'[r].saw = req[r].saw
  <1>0. req[r] \in RequestType /\ r \in DOMAIN req
    BY DEF TypeInv, ReqOK
  <1>1. CASE Look(r)
    <2>1. CASE End(r)
      BY <1>0, <2>1, IdleType DEF End
    <2>2. CASE ~End(r)
      <3>1. Exists /\ req'[r] = [req[r] EXCEPT !.pc = "looked", !.saw = share,
                                   !.alone = ({q \in Request : At(q, "looked")} = {})]
        BY <1>1, <2>2 DEF Look
      <3>2. QED
        BY <1>0, <1>1, <3>1 DEF RequestType
    <2>3. QED
      BY <2>1, <2>2
  <1>2. CASE Count(r) \/ Refuse(r) \/ Serve(r) \/ Secure(r) \/ DropRow(r)
    <2>1. End(r)
      BY <1>2 DEF Count, Refuse, Serve, Secure, DropRow
    <2>2. QED
      BY <1>0, <2>1, IdleType DEF End
  <1>3. ASSUME NEW v \in Visitor, NEW offer \in 0 .. passwords, Knock(r, v, offer)
        PROVE  req'[r].pc = "knocking"
    BY <1>0, <1>3 DEF Knock, Begin, Idle
  <1>4. ASSUME NEW v \in Visitor, Enter(r, v) PROVE req'[r].pc = "entering"
    BY <1>0, <1>4 DEF Enter, Begin, Idle
  <1>5. ASSUME Admit(r) PROVE req'[r].pc = "admitted"
    BY <1>0, <1>5 DEF Admit, GoTo, RequestType
  <1>6. ASSUME NEW change \in Changes, Edit(r, change) PROVE req'[r].pc = "editing"
    BY <1>0, <1>6 DEF Edit, Begin, Idle
  <1>7. ASSUME UpdateRow(r)
        PROVE  req'[r].pc = "idle" \/ (req'[r].pc = "securing" /\ At(r, "editing") /\ req'[r].saw = req[r].saw)
    BY <1>0, <1>7, IdleType DEF UpdateRow, GoTo, End, RequestType
  <1>8. ASSUME Remove(r) PROVE req'[r].pc = "removing"
    BY <1>0, <1>8 DEF Remove, Begin, Idle
  <1>9. QED
    BY <1>1, <1>2, <1>3, <1>4, <1>5, <1>6, <1>7, <1>8 DEF Moves

-----------------------------------------------------------------------------
(* Who is let through.                                                      *)

Earned(v, c) ==
    \E visit \in visits :
       /\ visit[1] = v /\ visit[2] = c.made
       /\ c.password = 0 \/ visit[3] = c.password

\* A cookie goes back to a visit that presented the password it is signed with.
CookiesEarned ==
    /\ \A v \in Visitor : cookie[v] # NoCookie => Earned(v, cookie[v])
    /\ \A r \in Request :
          At(r, "entering") /\ req[r].cookie # NoCookie => Earned(req[r].by, req[r].cookie)

LEMMA VisitsGrow ==
    ASSUME TypeInv, [Next]_vars
    PROVE  /\ visits \subseteq visits'
           /\ \A v \in Visitor : cookie'[v] # cookie[v] =>
                 \E r \in Request : Count(r) /\ req[r].by = v /\ cookie' # cookie
  <1>1. CASE UNCHANGED <<visits, cookie>>
    BY <1>1
  <1>2. ASSUME NEW r \in Request, Count(r)
        PROVE  /\ visits \subseteq visits'
               /\ \A v \in Visitor : cookie'[v] # cookie[v] => req[r].by = v /\ cookie' # cookie
    BY <1>2 DEF Count, TypeInv, RestOK
  <1>3. (\E r \in Request : Count(r)) \/ UNCHANGED <<visits, cookie>>
    BY DEF Next, Create, Knock, Enter, Look, Admit, Refuse, Serve, Edit, UpdateRow, Secure,
       Remove, DropRow, Expire, Tick, vars
  <1>4. QED
    BY <1>1, <1>2, <1>3

\* getShareToken signs what it verified.
LEMMA TokenEarned ==
    ASSUME TypeInv, NEW v \in Visitor, NEW r \in Request, Count(r), req[r].by = v,
           cookie' # cookie
    PROVE  Earned(v, cookie[v])'
  <1> DEFINE q == req[r]
  <1>1. /\ RightPassword(q)
        /\ cookie' = [cookie EXCEPT ![v] = TokenFor(q.saw)]
        /\ <<v, q.saw.made, q.offer>> \in visits'
    BY DEF Count
  <1>2. cookie'[v] = TokenFor(q.saw)
    BY <1>1 DEF TypeInv, RestOK
  <1>3. cookie'[v].made = q.saw.made /\ cookie'[v].password = q.saw.rule.password
    BY <1>2 DEF TokenFor
  <1>4. q.saw.rule.password = 0 \/ q.offer = q.saw.rule.password
    BY <1>1 DEF RightPassword
  <1> DEFINE visit == <<v, q.saw.made, q.offer>>
  <1>5. visit[1] = v /\ visit[2] = q.saw.made /\ visit[3] = q.offer
    OBVIOUS
  <1>6. visit \in visits'
    BY <1>1
  <1> HIDE DEF visit
  <1>7. /\ visit[1] = v /\ visit[2] = cookie'[v].made
        /\ cookie'[v].password = 0 \/ visit[3] = cookie'[v].password
    BY <1>3, <1>4, <1>5
  <1>8. QED
    BY <1>6, <1>7 DEF Earned

\* The guard's third way in: verifyShareToken.
LEMMA AdmitByVisit ==
    ASSUME TypeInv, CookiesEarned, [Next]_vars, NEW r \in Request, Admit(r), ~Invited(req[r])
    PROVE  \E visit \in visits' :
              /\ visit[1] = req[r].by /\ visit[2] = req[r].saw.made
              /\ req[r].saw.rule.password = 0 \/ visit[3] = req[r].saw.rule.password
  <1> DEFINE q == req[r]
  <1>1. At(r, "entering") /\ Valid(q.cookie, q.saw)
    BY DEF Admit, Invited, At
  <1>2. Earned(q.by, q.cookie)
    BY <1>1 DEF CookiesEarned, Valid
  <1>3. PICK visit \in visits :
           /\ visit[1] = q.by /\ visit[2] = q.cookie.made
           /\ q.cookie.password = 0 \/ visit[3] = q.cookie.password
    BY <1>2 DEF Earned
  <1>4. visit \in visits'
    BY VisitsGrow
  <1>5. q.cookie.made = q.saw.made
    BY <1>1 DEF Valid
  <1>6. q.saw.rule.password = 0 \/ q.cookie.password = q.saw.rule.password
    BY <1>1 DEF Valid
  <1>7. QED
    BY <1>3, <1>4, <1>5, <1>6

LEMMA AdmittedSame ==
    ASSUME TypeInv, NEW r \in Request, Admit(r)
    PROVE  /\ req'[r].by = req[r].by /\ req'[r].saw = req[r].saw
           /\ Invited(req[r])' <=> Invited(req[r])
  <1>1. req'[r] = [req[r] EXCEPT !.pc = "admitted"] /\ req[r] \in RequestType
    BY DEF Admit, GoTo, TypeInv, ReqOK
  <1>2. req'[r].by = req[r].by /\ req'[r].saw = req[r].saw
    BY <1>1 DEF RequestType
  <1>3. QED
    BY <1>2 DEF Invited, IsLinked, IsNamed

LEMMA VisitStep ==
    ASSUME TypeInv, CookiesEarned, AdmittedByVisit, [Next]_vars
    PROVE  CookiesEarned' /\ AdmittedByVisit'
  <1>1. ASSUME NEW v \in Visitor, cookie'[v] # NoCookie PROVE Earned(v, cookie[v])'
    <2>1. CASE cookie'[v] = cookie[v]
      <3>1. Earned(v, cookie[v])
        BY <1>1, <2>1 DEF CookiesEarned
      <3>2. QED
        BY <3>1, <2>1, VisitsGrow DEF Earned
    <2>2. CASE cookie'[v] # cookie[v]
      BY <2>2, VisitsGrow, TokenEarned
    <2>3. QED
      BY <2>1, <2>2
  <1>2. ASSUME NEW r \in Request, At(r, "entering")', req'[r].cookie # NoCookie
        PROVE  Earned(req[r].by, req[r].cookie)'
    <2>1. CASE Same(r)
      <3>1. /\ At(r, "entering") /\ req'[r].by = req[r].by
            /\ req'[r].cookie = req[r].cookie
        BY <1>2, <2>1 DEF Same, At
      <3>2. Earned(req[r].by, req[r].cookie)
        BY <1>2, <3>1 DEF CookiesEarned
      <3>3. QED
        BY <3>1, <3>2, VisitsGrow DEF Earned
    <2>2. CASE Moves(r)
      <3>1. PICK v \in Visitor : Enter(r, v)
        BY <1>2, <2>2, Points DEF At
      <3>2. req'[r].by = v /\ req'[r].cookie = cookie[v] /\ visits' = visits
        BY <3>1 DEF Enter, Begin, Idle, TypeInv, ReqOK
      <3>3. Earned(v, cookie[v])
        BY <1>2, <3>2 DEF CookiesEarned
      <3>4. QED
        BY <3>2, <3>3 DEF Earned
    <2>3. QED
      BY <2>1, <2>2, Slots
  <1>3. ASSUME NEW r \in Request, req'[r].pc = "admitted", ~Invited(req[r])'
        PROVE  \E visit \in visits' :
                  /\ visit[1] = req'[r].by /\ visit[2] = req'[r].saw.made
                  /\ req'[r].saw.rule.password = 0 \/ visit[3] = req'[r].saw.rule.password
    <2>1. CASE Same(r)
      <3>1. /\ req[r].pc = "admitted" /\ req'[r].by = req[r].by /\ req'[r].saw = req[r].saw
        BY <1>3, <2>1 DEF Same
      <3>2. ~Invited(req[r])
        BY <1>3, <3>1 DEF Invited, IsLinked, IsNamed
      <3>3. \E visit \in visits :
                  /\ visit[1] = req[r].by /\ visit[2] = req[r].saw.made
                  /\ req[r].saw.rule.password = 0 \/ visit[3] = req[r].saw.rule.password
        BY <3>1, <3>2 DEF AdmittedByVisit
      <3>4. QED
        BY <3>1, <3>3, VisitsGrow
    <2>2. CASE Moves(r)
      <3>1. Admit(r)
        BY <1>3, <2>2, Points
      <3>2. QED
        BY <1>3, <3>1, AdmittedSame, AdmitByVisit
    <2>3. QED
      BY <2>1, <2>2, Slots
  <1>4. CookiesEarned'
    BY <1>1, <1>2 DEF CookiesEarned
  <1>5. AdmittedByVisit'
    BY <1>3 DEF AdmittedByVisit
  <1>6. QED
    BY <1>4, <1>5

\* A cookie opens the transfer it was given for, under the password that was
\* presented for it, whatever its owner does meanwhile.
THEOREM CookiesProveAVisit == Spec => []AdmittedByVisit
  <1>1. Init => CookiesEarned /\ AdmittedByVisit
    BY IdleType DEF Init, CookiesEarned, AdmittedByVisit, At
  <1>2. TypeInv /\ CookiesEarned /\ AdmittedByVisit /\ [Next]_vars
          => CookiesEarned' /\ AdmittedByVisit'
    BY VisitStep
  <1>3. QED
    BY <1>1, <1>2, TypeInvariance, PTL DEF Spec

-----------------------------------------------------------------------------
(* Who a restriction lets in.                                               *)

Vowed(s) == s.vow /\ ~s.crossed => s.rule.restricted
Invites(s) == ~s.crossed => s.linked \subseteq s.recipients

\* The row keeps its restriction, and everybody who read it since saw it.
Restrained ==
    /\ Vowed(share) /\ Invites(share)
    /\ \A r \in Request :
          LET q == req[r] IN
          /\ q.pc = "entering" => Vowed(q.saw) /\ Invites(q.saw)
          /\ q.pc = "entering" /\ q.saw.made = share.made => q.saw.recipients = share.recipients
          /\ q.pc \in {"editing", "securing"} /\ q.saw.made = share.made /\ share.vow /\ ~share.crossed
                => q.saw.rule.restricted

\* What no step changes while the transfer lives, and what a new one is.
LEMMA RowLives ==
    ASSUME TypeInv, [Next]_vars
    PROVE  \/ share'.made = 0
           \/ share'.made = made + 1
           \/ /\ share'.made = share.made
              /\ share'.recipients = share.recipients /\ share'.vow = share.vow
              /\ share.crossed => share'.crossed
  <1>0. share \in ShareType
    BY DEF TypeInv, RestOK
  <1>1. ASSUME NEW ends \in Ends, NEW secret \in BOOLEAN, NEW restricted \in BOOLEAN,
               NEW limit \in Limits, NEW named \in Guests,
               Create(ends, secret, limit, restricted, named)
        PROVE  share'.made = made + 1
    BY <1>1 DEF Create, Gone
  <1>2. ASSUME NEW r \in Request, DropRow(r) PROVE share'.made = 0
    BY <1>2, GoneType DEF DropRow
  <1>3. CASE share' = share
    BY <1>3
  <1>4. ASSUME NEW r \in Request, Count(r) \/ Admit(r) \/ UpdateRow(r) \/ Secure(r)
        PROVE  /\ share'.made = share.made
               /\ share'.recipients = share.recipients /\ share'.vow = share.vow
               /\ share.crossed => share'.crossed
    BY <1>0, <1>4 DEF Count, Admit, UpdateRow, Secure, ShareType
  <1>5. ASSUME Expire
        PROVE  /\ share'.made = share.made
               /\ share'.recipients = share.recipients /\ share'.vow = share.vow
               /\ share.crossed => share'.crossed
    BY <1>0, <1>5 DEF Expire, ShareType
  <1>6. QED
    BY <1>1, <1>2, <1>3, <1>4, <1>5
    DEF Next, Knock, Enter, Look, Refuse, Serve, Edit, Remove, Tick, vars

\* No path of the code takes the restriction away, or makes a guest of somebody
\* the transfer does not name.
LEMMA RowRestrained ==
    ASSUME TypeInv, Restrained, [Next]_vars
    PROVE  Vowed(share)' /\ Invites(share)'
  <1>0. share \in ShareType
    BY DEF TypeInv, RestOK
  <1>1. CASE share' = share
    BY <1>1 DEF Restrained, Vowed, Invites
  <1>2. ASSUME NEW ends \in Ends, NEW secret \in BOOLEAN, NEW restricted \in BOOLEAN,
               NEW limit \in Limits, NEW named \in Guests,
               Create(ends, secret, limit, restricted, named)
        PROVE  Vowed(share)' /\ Invites(share)'
    <2>1. /\ share'.vow = restricted /\ share'.linked = {}
          /\ restricted => share'.rule.restricted
      BY <1>2 DEF Create, Gone
    <2>2. QED
      BY <2>1 DEF Vowed, Invites
  <1>3. ASSUME NEW r \in Request, DropRow(r) PROVE Vowed(share)' /\ Invites(share)'
    BY <1>3 DEF DropRow, Gone, Vowed, Invites
  <1>4. ASSUME NEW r \in Request, Count(r) \/ UpdateRow(r) PROVE Vowed(share)' /\ Invites(share)'
    <2>1. /\ share'.rule = share.rule /\ share'.vow = share.vow /\ share'.crossed = share.crossed
          /\ share'.linked = share.linked /\ share'.recipients = share.recipients
      BY <1>0, <1>4 DEF Count, UpdateRow, ShareType
    <2>2. QED
      BY <2>1 DEF Restrained, Vowed, Invites
  <1>5. ASSUME Expire PROVE Vowed(share)' /\ Invites(share)'
    <2>1. /\ share'.rule = share.rule /\ share'.vow = share.vow /\ share'.crossed = share.crossed
          /\ share'.linked = share.linked /\ share'.recipients = share.recipients
      BY <1>0, <1>5 DEF Expire, ShareType
    <2>2. QED
      BY <2>1 DEF Restrained, Vowed, Invites
  <1>6. ASSUME NEW r \in Request, Admit(r) PROVE Vowed(share)' /\ Invites(share)'
    <2> DEFINE q == req[r]
    <2>1. CASE share' = share
      BY <2>1 DEF Restrained, Vowed, Invites
    <2>2. CASE /\ IsNamed(q)
               /\ share' = [share EXCEPT !.linked = @ \cup {q.by},
                                         !.crossed = @ \/ q.saw.made # share.made]
      <3>1. /\ share'.rule = share.rule /\ share'.vow = share.vow
            /\ share'.crossed = (share.crossed \/ q.saw.made # share.made)
            /\ share'.linked = share.linked \cup {q.by} /\ share'.recipients = share.recipients
        BY <1>0, <2>2 DEF ShareType
      <3>2. Vowed(share)'
        BY <3>1 DEF Restrained, Vowed
      <3>3. ASSUME ~share'.crossed PROVE share'.linked \subseteq share'.recipients
        <4>1. ~share.crossed /\ q.saw.made = share.made
          BY <3>1, <3>3
        <4>2. q.saw.recipients = share.recipients /\ share.linked \subseteq share.recipients
          BY <1>6, <4>1 DEF Restrained, Invites, Admit
        <4>3. QED
          BY <2>2, <3>1, <4>2 DEF IsNamed
      <3>4. QED
        BY <3>2, <3>3 DEF Invites
    <2>3. QED
      BY <1>6, <2>1, <2>2 DEF Admit
  <1>7. ASSUME NEW r \in Request, Secure(r) PROVE Vowed(share)' /\ Invites(share)'
    <2> DEFINE q == req[r]
    <2>1. CASE share' = share
      BY <2>1 DEF Restrained, Vowed, Invites
    <2>2. CASE share' = [share EXCEPT !.rule = Carried(q),
                                      !.crossed = @ \/ q.saw.made # share.made]
      <3>1. /\ share'.rule = Carried(q) /\ share'.vow = share.vow
            /\ share'.crossed = (share.crossed \/ q.saw.made # share.made)
            /\ share'.linked = share.linked /\ share'.recipients = share.recipients
        BY <1>0, <2>2 DEF ShareType
      <3>2. ASSUME share'.vow, ~share'.crossed PROVE share'.rule.restricted
        <4>1. q.saw.rule.restricted
          BY <1>7, <3>1, <3>2 DEF Restrained, Secure
        <4>2. QED
          BY <3>1, <4>1, CarriedType DEF TypeInv, ReqOK
      <3>3. QED
        BY <3>1, <3>2 DEF Restrained, Vowed, Invites
    <2>3. QED
      BY <1>7, <2>1, <2>2 DEF Secure
  <1>8. QED
    BY <1>1, <1>2, <1>3, <1>4, <1>5, <1>6, <1>7
    DEF Next, Knock, Enter, Look, Refuse, Serve, Edit, Remove, Tick, vars

LEMMA RestrainedStep ==
    ASSUME TypeInv, Restrained, [Next]_vars
    PROVE  Restrained'
  <1> SUFFICES ASSUME NEW r \in Request
               PROVE  LET q == req'[r] IN
                      /\ q.pc = "entering" => Vowed(q.saw) /\ Invites(q.saw)
                      /\ q.pc = "entering" /\ q.saw.made = share'.made
                            => q.saw.recipients = share'.recipients
                      /\ q.pc \in {"editing", "securing"} /\ q.saw.made = share'.made /\ share'.vow /\ ~share'.crossed
                            => q.saw.rule.restricted
    BY RowRestrained DEF Restrained, Vowed, Invites
  <1> DEFINE q == req[r]
             p == req'[r]
  <1>0. q \in RequestType /\ Known(q) /\ share \in ShareType /\ made \in Nat
    BY DEF TypeInv, ReqOK, RestOK
  <1>1. CASE Same(r)
    <2>1. p.pc = q.pc /\ p.saw = q.saw
      BY <1>1 DEF Same
    <2>2. ASSUME p.pc \in {"entering", "editing", "securing"}, p.saw.made = share'.made
          PROVE  /\ q.saw.made = share.made
                 /\ share'.recipients = share.recipients /\ share'.vow = share.vow
                 /\ share.crossed => share'.crossed
      <3>1. q.saw.made # 0 /\ q.saw.made <= made /\ q.saw.made \in Nat
        BY <1>0, <2>1, <2>2 DEF Known, Looking, RequestType, ShareType
      <3>2. share'.made # 0 /\ share'.made # made + 1
        BY <1>0, <2>1, <2>2, <3>1
      <3>3. QED
        BY <2>1, <2>2, <3>2, RowLives
    <2>3. p.pc = "entering" => Vowed(p.saw) /\ Invites(p.saw)
      BY <2>1 DEF Restrained
    <2>4. p.pc = "entering" /\ p.saw.made = share'.made => p.saw.recipients = share'.recipients
      BY <2>1, <2>2 DEF Restrained
    <2>5. ASSUME p.pc \in {"editing", "securing"}, p.saw.made = share'.made,
                 share'.vow, ~share'.crossed
          PROVE  p.saw.rule.restricted
      <3>1. q.saw.made = share.made /\ share.vow /\ ~share.crossed
        BY <2>2, <2>5
      <3>2. q.saw.rule.restricted
        BY <2>1, <2>5, <3>1 DEF Restrained
      <3>3. QED
        BY <2>1, <3>2
    <2>6. QED
      BY <2>3, <2>4, <2>5
  <1>2. CASE Moves(r)
    <2>1. ASSUME NEW v \in Visitor, Enter(r, v)
          PROVE  /\ p.saw = [share EXCEPT !.views = 0] /\ share' = share /\ p.pc = "entering"
      BY <2>1 DEF Enter, Begin, Idle, TypeInv, ReqOK
    <2>2. ASSUME p.pc = "entering"
          PROVE  /\ Vowed(p.saw) /\ Invites(p.saw)
                 /\ p.saw.recipients = share'.recipients
      <3>1. p.saw = [share EXCEPT !.views = 0] /\ share' = share
        BY <1>2, <2>1, <2>2, Points
      <3>2. /\ p.saw.vow = share.vow /\ p.saw.crossed = share.crossed /\ p.saw.rule = share.rule
            /\ p.saw.linked = share.linked /\ p.saw.recipients = share.recipients
        BY <1>0, <3>1 DEF ShareType
      <3>3. QED
        BY <3>1, <3>2 DEF Restrained, Vowed, Invites
    <2>3. ASSUME p.pc = "editing", share'.vow, ~share'.crossed PROVE p.saw.rule.restricted
      <3>1. PICK change \in Changes : Edit(r, change)
        BY <1>2, <2>3, Points
      <3>2. p.saw = [Gone EXCEPT !.made = share.made, !.rule = share.rule] /\ share' = share
        BY <3>1 DEF Edit, Begin, Idle, TypeInv, ReqOK
      <3>3. p.saw.rule = share.rule
        BY <3>2 DEF Gone
      <3>4. QED
        BY <2>3, <3>2, <3>3 DEF Restrained, Vowed
    <2>4. ASSUME p.pc = "securing", p.saw.made = share'.made, share'.vow, ~share'.crossed
          PROVE  p.saw.rule.restricted
      <3>1. UpdateRow(r) /\ q.pc = "editing" /\ p.saw = q.saw
        BY <1>2, <2>4, Points DEF At
      <3>2. share'.made = share.made /\ share'.vow = share.vow /\ share'.crossed = share.crossed
        BY <1>0, <3>1 DEF UpdateRow, ShareType
      <3>3. q.saw.made = share.made /\ share.vow /\ ~share.crossed
        BY <2>4, <3>1, <3>2
      <3>4. q.saw.rule.restricted
        BY <3>1, <3>3 DEF Restrained
      <3>5. QED
        BY <3>1, <3>4
    <2>5. QED
      BY <2>2, <2>3, <2>4
  <1>3. QED
    BY <1>1, <1>2, Slots

LEMMA NamedStep ==
    ASSUME TypeInv, Restrained, OnlyTheNamed, [Next]_vars
    PROVE  OnlyTheNamed'
  <1> SUFFICES ASSUME NEW r \in Request, req'[r].pc = "admitted",
                      req'[r].saw.vow, ~req'[r].saw.crossed
               PROVE  req'[r].by \in req'[r].saw.recipients
    BY DEF OnlyTheNamed
  <1>1. CASE Same(r)
    BY <1>1 DEF Same, OnlyTheNamed
  <1>2. CASE Moves(r)
    <2>1. Admit(r) /\ req'[r].by = req[r].by /\ req'[r].saw = req[r].saw
      BY <1>2, Points, AdmittedSame
    <2>2. req[r].saw.rule.restricted /\ req[r].saw.linked \subseteq req[r].saw.recipients
      BY <2>1 DEF Restrained, Vowed, Invites, Admit
    <2>3. IsLinked(req[r]) \/ IsNamed(req[r])
      BY <2>1, <2>2 DEF Admit
    <2>4. QED
      BY <2>1, <2>2, <2>3 DEF IsLinked, IsNamed
  <1>3. QED
    BY <1>1, <1>2, Slots

\* A transfer that is restricted stays so through every edit and is read by
\* those it names, for any number of edits and readers.
THEOREM RestrictionStays == Spec => []OnlyTheNamed
  <1>1. Init => Restrained /\ OnlyTheNamed
    BY IdleType DEF Init, Restrained, OnlyTheNamed, Vowed, Invites, Gone
  <1>2. TypeInv /\ Restrained /\ OnlyTheNamed /\ [Next]_vars => Restrained' /\ OnlyTheNamed'
    BY RestrainedStep, NamedStep
  <1>3. QED
    BY <1>1, <1>2, TypeInvariance, PTL DEF Spec

-----------------------------------------------------------------------------
(* What a limit counts.                                                     *)

\* Nobody who looks has missed a visit that met no other.
Counts ==
    /\ Exists => lone <= share.views
    /\ ~Exists => lone = 0
    /\ \A r \in Request : At(r, "looked") => lone <= req[r].saw.views
    /\ \A r, q \in Request : At(r, "looked") /\ At(q, "looked") /\ r # q => ~req[r].alone

\* A slot that is looked already was, or looks at the row of now.
LEMMA LookedBefore ==
    ASSUME TypeInv, [Next]_vars, NEW r \in Request, At(r, "looked")'
    PROVE  \/ Same(r) /\ At(r, "looked")
           \/ Look(r) /\ req'[r].saw = share /\ Exists
  BY Slots, Points DEF Same, At

LEMMA LoneMoves ==
    ASSUME TypeInv, [Next]_vars
    PROVE  \/ lone' = lone
           \/ lone' = 0
           \/ /\ lone' = lone + 1
              /\ \E r \in Request : Count(r) /\ req[r].alone /\ RightPassword(req[r])
                                    /\ ViewsLeft(req[r].saw) /\ Exists
  BY DEF Next, Create, Knock, Enter, Look, Count, Admit, Refuse, Serve, Edit, UpdateRow, Secure,
     Remove, DropRow, Expire, Tick, vars

LEMMA LoneStep ==
    ASSUME TypeInv, Counts, [Next]_vars
    PROVE  \A r \in Request : At(r, "looked")' => lone' <= req'[r].saw.views
  <1> SUFFICES ASSUME NEW r \in Request, At(r, "looked")' PROVE lone' <= req'[r].saw.views
    OBVIOUS
  <1>0. /\ req[r] \in RequestType /\ lone \in Nat /\ share \in ShareType
        /\ req[r].saw.views \in Nat /\ share.views \in Nat
    BY DEF TypeInv, ReqOK, RestOK, RequestType, ShareType
  <1>1. CASE Same(r) /\ At(r, "looked")
    <2>1. req'[r].saw = req[r].saw /\ lone <= req[r].saw.views
      BY <1>1 DEF Same, Counts
    <2>2. CASE lone' = lone \/ lone' = 0
      BY <1>0, <2>1, <2>2
    <2>3. ASSUME NEW q \in Request, Count(q), req[q].alone PROVE FALSE
      <3>1. CASE q = r
        <4>1. req'[r] = Idle
          BY <2>3, <3>1 DEF Count, End, TypeInv, ReqOK
        <4>2. QED
          BY <4>1, IdleType DEF At
      <3>2. CASE q # r
        BY <1>1, <2>3, <3>2 DEF Count, Counts
      <3>3. QED
        BY <3>1, <3>2
    <2>4. QED
      BY <2>2, <2>3, LoneMoves
  <1>2. CASE Look(r) /\ req'[r].saw = share /\ Exists
    <2>1. lone' = lone
      BY <1>2 DEF Look
    <2>2. QED
      BY <1>0, <1>2, <2>1 DEF Counts
  <1>3. QED
    BY <1>1, <1>2, LookedBefore

LEMMA AloneStep ==
    ASSUME TypeInv, Counts, [Next]_vars, NEW r \in Request, NEW q \in Request,
           At(r, "looked")', At(q, "looked")', r # q
    PROVE  ~req'[r].alone
  <1> DEFINE others == {y \in Request : At(y, "looked")}
  <1>0. req \in [Request -> RequestType]
    BY DEF TypeInv, ReqOK
  <1>1. ASSUME NEW s \in Request, Look(s), At(s, "looked")'
        PROVE  req' = [x \in Request |->
                    IF x = s
                    THEN [req[s] EXCEPT !.pc = "looked", !.saw = share,
                                        !.alone = (others = {})]
                    ELSE IF x \in others THEN [req[x] EXCEPT !.alone = FALSE]
                    ELSE req[x]]
    <2>1. ~End(s)
      BY <1>0, <1>1, IdleType DEF End, At
    <2>2. QED
      BY <1>1, <2>1 DEF Look
  <1>2. CASE Look(r)
    <2>1. Same(q) /\ At(q, "looked")
      BY <1>2, OthersStay, LookedBefore DEF Moves, Same, At
    <2>2. others # {}
      BY <2>1
    <2> HIDE DEF others
    <2>3. req'[r] = [req[r] EXCEPT !.pc = "looked", !.saw = share, !.alone = (others = {})]
      BY <1>1, <1>2
    <2>4. req'[r] = [req[r] EXCEPT !.pc = "looked", !.saw = share, !.alone = FALSE]
      BY <2>2, <2>3
    <2>5. QED
      BY <1>0, <2>4 DEF RequestType
  <1>3. CASE Look(q)
    <2>1. Same(r) /\ At(r, "looked")
      BY <1>3, OthersStay DEF Moves, Same, At
    <2>2. req'[r] = [req[r] EXCEPT !.alone = FALSE]
      BY <1>1, <1>3, <2>1
    <2>3. QED
      BY <1>0, <2>2 DEF RequestType
  <1>4. CASE ~Look(r) /\ ~Look(q)
    <2>1. Same(r) /\ At(r, "looked") /\ At(q, "looked")
      BY <1>4, LookedBefore
    <2>2. QED
      BY <2>1 DEF Same, Counts
  <1>5. QED
    BY <1>2, <1>3, <1>4

\* A view that is counted covers every lone visit before it.
LEMMA ViewsCover ==
    ASSUME TypeInv, Counts, NEW r \in Request, Count(r)
    PROVE  /\ Exists' => lone' <= share'.views
           /\ ~Exists' => lone' = 0
           /\ lone' > lone =>
                 /\ lone' <= share'.views
                 /\ At(r, "looked")
                 /\ req[r].saw.rule.limit = 0 \/ lone' <= req[r].saw.rule.limit
  <1> DEFINE q == req[r]
  <1>0. /\ q \in RequestType /\ At(r, "looked") /\ lone \in Nat /\ share \in ShareType
        /\ q.saw.views \in Nat /\ q.saw.rule.limit \in Nat
    BY DEF TypeInv, ReqOK, RestOK, RequestType, ShareType, RuleType, Count
  <1>1. lone <= q.saw.views
    BY <1>0 DEF Counts
  <1>2. CASE RightPassword(q) /\ ViewsLeft(q.saw) /\ Exists
    <2>1. share' = [share EXCEPT !.views = q.saw.views + 1] /\ lone' \in {lone, lone + 1}
      BY <1>2 DEF Count, Counted
    <2>2. share'.views = q.saw.views + 1 /\ share'.made = share.made
      BY <1>0, <2>1 DEF ShareType
    <2>3. q.saw.rule.limit = 0 \/ q.saw.views < q.saw.rule.limit
      BY <1>2 DEF ViewsLeft
    <2>4. QED
      BY <1>0, <1>1, <1>2, <2>1, <2>2, <2>3 DEF Exists
  <1>3. CASE ~(RightPassword(q) /\ ViewsLeft(q.saw) /\ Exists)
    <2>1. share' = share /\ lone' = lone
      BY <1>3 DEF Count
    <2>2. QED
      BY <1>0, <2>1 DEF Counts, Exists
  <1>4. QED
    BY <1>2, <1>3

LEMMA CountsStep ==
    ASSUME TypeInv, Counts, [Next]_vars
    PROVE  Counts'
  <1>0. share \in ShareType
    BY DEF TypeInv, RestOK
  <1>1. (Exists => lone <= share.views)' /\ (~Exists => lone = 0)'
    <2>1. CASE UNCHANGED <<share, lone>>
      BY <2>1 DEF Counts, Exists
    <2>2. ASSUME NEW r \in Request, Count(r)
          PROVE  (Exists => lone <= share.views)' /\ (~Exists => lone = 0)'
      BY <2>2, ViewsCover
    <2>3. ASSUME NEW ends \in Ends, NEW secret \in BOOLEAN, NEW restricted \in BOOLEAN,
                 NEW limit \in Limits, NEW named \in Guests,
                 Create(ends, secret, limit, restricted, named)
          PROVE  (Exists => lone <= share.views)' /\ (~Exists => lone = 0)'
      BY <2>3 DEF Create, Gone
    <2>4. ASSUME NEW r \in Request, DropRow(r)
          PROVE  (Exists => lone <= share.views)' /\ (~Exists => lone = 0)'
      BY <2>4, GoneType DEF DropRow, Exists
    <2>5. ASSUME NEW r \in Request, Admit(r) \/ UpdateRow(r) \/ Secure(r) \/ Expire
          PROVE  (Exists => lone <= share.views)' /\ (~Exists => lone = 0)'
      <3>1. share'.views = share.views /\ share'.made = share.made /\ lone' = lone
        BY <1>0, <2>5 DEF Admit, UpdateRow, Secure, Expire, ShareType
      <3>2. QED
        BY <3>1 DEF Counts, Exists
    <2>6. ASSUME Expire
          PROVE  (Exists => lone <= share.views)' /\ (~Exists => lone = 0)'
      <3>1. share'.views = share.views /\ share'.made = share.made /\ lone' = lone
        BY <1>0, <2>6 DEF Expire, ShareType
      <3>2. QED
        BY <3>1 DEF Counts, Exists
    <2>7. QED
      BY <2>1, <2>2, <2>3, <2>4, <2>5, <2>6
      DEF Next, Knock, Enter, Look, Refuse, Serve, Edit, Remove, Tick, vars
  <1>2. QED
    BY <1>1, LoneStep, AloneStep DEF Counts, At

\* However visits, edits and deletions fall, a visit that met no other is
\* counted, and counted against the limit.
THEOREM LimitsHold == Spec => LimitHolds
  <1>1. Init => Counts
    BY IdleType, GoneType DEF Init, Counts, Exists, At
  <1>2. TypeInv /\ Counts /\ [Next]_vars => Counts'
    BY CountsStep
  <1>3. TypeInv /\ Counts /\ [Next]_vars =>
          [ lone' > lone =>
               /\ lone' <= share'.views
               /\ \E r \in Request :
                     /\ At(r, "looked")
                     /\ req[r].saw.rule.limit = 0 \/ lone' <= req[r].saw.rule.limit ]_vars
    <2>1. ASSUME TypeInv, Counts, [Next]_vars, lone' > lone
          PROVE  /\ lone' <= share'.views
                 /\ \E r \in Request :
                       /\ At(r, "looked")
                       /\ req[r].saw.rule.limit = 0 \/ lone' <= req[r].saw.rule.limit
      <3>1. lone \in Nat
        BY <2>1 DEF TypeInv, RestOK
      <3>2. PICK r \in Request : Count(r)
        BY <2>1, <3>1, LoneMoves
      <3>3. QED
        BY <2>1, <3>2, ViewsCover
    <2>2. QED
      BY <2>1
  <1>4. QED
    BY <1>1, <1>2, <1>3, TypeInvariance, PTL DEF Spec, LimitHolds
=============================================================================
