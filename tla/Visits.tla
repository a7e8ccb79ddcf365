------------------------------- MODULE Visits -------------------------------
(***************************************************************************)
(* One transfer as its visitors meet it (share/share.service.ts,          *)
(* share/guard/shareSecurity.guard.ts, shareTokenSecurity.guard.ts,       *)
(* shareOwner.guard.ts).                                                   *)
(*                                                                         *)
(* A visitor posts to /token, with a password if there is one, is counted *)
(* against the limit of views and gets a cookie; the guard of every read  *)
(* asks for that cookie, unless the transfer names its visitor.           *)
(* Meanwhile the owner changes the end, the password and the limit, from  *)
(* what the guard of the edit read, ends the transfer, or deletes it and  *)
(* creates another one with the same id.                                   *)
(*                                                                         *)
(* A request is what it has read and where it is: every action is a       *)
(* handler from one await to the next.  A transfer has a signed-in        *)
(* creator, share.enableUserRecipients is on, and what payments decide is *)
(* in PaidAccess.  The creator and the administrators, whom the guard     *)
(* lets through, are left out.  An id is not given twice in one second.   *)
(* A restart is requests that take no further step.                       *)
(***************************************************************************)
EXTENDS Naturals, FiniteSets

CONSTANTS
    Address,            \* whom a transfer may name
    Visitor,            \* those who come, each signed in with its address
    NoOne,
    Guests,             \* whom the owner may name: sets of addresses
    Limits,             \* values of maxViews, 0 for none
    Ends,               \* expirations, 0 (the epoch) for never; any date is taken
    Request,            \* slots for requests in flight
    MaxTime,
    MaxMade,            \* bounds how often the transfer is created
    MaxPasswords,       \* and how many passwords are set
    MaxRequests         \* and what is asked for

ASSUME VisitorAssumption == Visitor \subseteq Address /\ NoOne \notin Address
ASSUME GuestsAssumption == Guests \subseteq SUBSET Address
ASSUME LimitsAssumption == Limits \subseteq Nat /\ Ends \subseteq Nat
ASSUME BoundsAssumption == {MaxTime, MaxMade, MaxPasswords, MaxRequests} \subseteq Nat

VARIABLES
    now,
    share,              \* the Share row with its security row and recipients
    cookie,             \* the cookie share_<id>_token of each browser
    req,                \* the requests in flight
    made,               \* transfers created under this id
    passwords,          \* passwords set so far: a password is its number
    asked,
    visits,             \* history: visits counted, with the password presented
    lone                \* history: visits to this transfer that met no other

vars == <<now, share, cookie, req, made, passwords, asked, visits, lone>>

Never == 0
Hour == 1

\* No ShareSecurity row: nothing is asked of anybody.
Open == [row |-> FALSE, password |-> 0, limit |-> 0, restricted |-> FALSE]
\* No Share row.  vow and crossed are history: whether the transfer was
\* restricted when it was created, and whether an edit or a visit of an earlier
\* transfer has written to this one.
Gone == [made |-> 0, ends |-> Never, views |-> 0, rule |-> Open,
         recipients |-> {}, linked |-> {}, vow |-> FALSE, crossed |-> FALSE]

NoCookie == [made |-> 0, password |-> 0, until |-> Never]
NoChange == [touches |-> {}, ends |-> Never, password |-> 0, limit |-> 0]
Idle == [pc |-> "idle", by |-> NoOne, offer |-> 0, cookie |-> NoCookie,
         saw |-> Gone, change |-> NoChange, alone |-> FALSE]

Exists == share.made # 0

\* moment().isAfter(expiration) && !moment(expiration).isSame(0)
Over(s) == now > s.ends /\ s.ends # Never

At(r, pc) == req[r].pc = pc
End(r) == req' = [req EXCEPT ![r] = Idle]
GoTo(r, pc) == req' = [req EXCEPT ![r].pc = pc]

Begin(r, request) ==
    /\ At(r, "idle") /\ asked < MaxRequests
    /\ asked' = asked + 1
    /\ req' = [req EXCEPT ![r] = request]

Init ==
    /\ now = 1 /\ share = Gone /\ made = 0 /\ passwords = 0 /\ asked = 0
    /\ cookie = [v \in Visitor |-> NoCookie]
    /\ req = [r \in Request |-> Idle]
    /\ visits = {} /\ lone = 0

-----------------------------------------------------------------------------
(* A visit: POST /shares/:id/token.                                        *)

\* ShareTokenSecurity.
Knock(r, v, offer) ==
    /\ Begin(r, [Idle EXCEPT !.pc = "knocking", !.by = v, !.offer = offer])
    /\ Exists /\ ~Over(share)
    /\ UNCHANGED <<now, share, cookie, made, passwords, visits, lone>>

\* The first lines of getShareToken, up to argon.verify.
Look(r) ==
    /\ At(r, "knocking")
    /\ IF ~Exists \/ (share.rule.password # 0 /\ req[r].offer = 0) THEN End(r)
       ELSE LET others == {q \in Request : At(q, "looked")}
            IN  req' = [q \in Request |->
                    IF q = r
                    THEN [req[r] EXCEPT !.pc = "looked", !.saw = share,
                                        !.alone = (others = {})]
                    ELSE IF q \in others THEN [req[q] EXCEPT !.alone = FALSE]
                    ELSE req[q]]
    /\ UNCHANGED <<now, share, cookie, made, passwords, asked, visits, lone>>

RightPassword(q) == q.saw.rule.password = 0 \/ q.offer = q.saw.rule.password

ViewsLeft(s) == s.rule.limit = 0 \/ s.views < s.rule.limit

\* A slip: the number from before (views++ for ++views).
CountedBefore(q) == q.saw.views

\* increaseViewCount: what was read, plus one.
Counted(q) == q.saw.views + 1

\* generateShareToken; without exp for a transfer that never ends.
TokenFor(s) ==
    [made |-> s.made, password |-> s.rule.password,
     until |-> IF s.ends = Never THEN Never
               ELSE IF s.ends > now THEN s.ends ELSE now + Hour]

\* The rest of getShareToken.  The count is written to whatever row has the id
\* now, and the request fails if none has.
Count(r) ==
    /\ At(r, "looked")
    /\ IF RightPassword(req[r]) /\ ViewsLeft(req[r].saw) /\ Exists
       THEN /\ share' = [share EXCEPT !.views = Counted(req[r])]
            /\ cookie' = [cookie EXCEPT ![req[r].by] = TokenFor(req[r].saw)]
            /\ visits' = visits \cup {<<req[r].by, req[r].saw.made, req[r].offer>>}
            /\ lone' = IF req[r].alone THEN lone + 1 ELSE lone
       ELSE UNCHANGED <<share, cookie, visits, lone>>
    /\ End(r)
    /\ UNCHANGED <<now, made, passwords, asked>>

-----------------------------------------------------------------------------
(* A read or a download: ShareSecurityGuard, which reads the row once and  *)
(* does not look at the number of views.                                   *)

Enter(r, v) ==
    /\ Begin(r, [Idle EXCEPT !.pc = "entering", !.by = v, !.cookie = cookie[v],
                             !.saw = [share EXCEPT !.views = 0]])
    /\ Exists
    /\ UNCHANGED <<now, share, cookie, made, passwords, visits, lone>>

\* A slip: a token goes on opening a transfer whose password has changed.
ValidWhateverPassword(c, s) ==
    /\ c # NoCookie
    /\ s.ends = Never \/ c.until = Never \/ now < c.until
    /\ c.made = s.made

\* verifyShareToken.
Valid(c, s) ==
    /\ c # NoCookie
    /\ s.ends = Never \/ c.until = Never \/ now < c.until
    /\ c.made = s.made
    /\ s.rule.password = 0 \/ c.password = s.rule.password

\* isRecipient, for an account whose address the transfer names.
IsLinked(q) == q.by \in q.saw.linked
IsNamed(q) == q.by \in q.saw.recipients

\* The user is known: the guard decides on what it read.
Admit(r) ==
    LET q == req[r] IN
    /\ q.pc = "entering"
    /\ ~Over(q.saw)
    /\ \/ IsLinked(q) /\ UNCHANGED share
       \/ /\ ~IsLinked(q) /\ IsNamed(q) /\ Exists
          /\ share' = [share EXCEPT !.linked = @ \cup {q.by},
                                    !.crossed = @ \/ q.saw.made # share.made]
       \/ /\ ~IsLinked(q) /\ ~IsNamed(q)
          /\ ~q.saw.rule.restricted /\ Valid(q.cookie, q.saw)
          /\ UNCHANGED share
    /\ GoTo(r, "admitted")
    /\ UNCHANGED <<now, cookie, made, passwords, asked, visits, lone>>

Refuse(r) ==
    LET q == req[r] IN
    /\ q.pc = "entering"
    /\ \/ Over(q.saw)
       \/ ~IsLinked(q) /\ IsNamed(q) /\ ~Exists
       \/ /\ ~IsLinked(q) /\ ~IsNamed(q)
          /\ q.saw.rule.restricted \/ ~Valid(q.cookie, q.saw)
    /\ End(r)
    /\ UNCHANGED <<now, share, cookie, made, passwords, asked, visits, lone>>

\* The handler answers.
Serve(r) ==
    /\ At(r, "admitted") /\ End(r)
    /\ UNCHANGED <<now, share, cookie, made, passwords, asked, visits, lone>>

-----------------------------------------------------------------------------
(* The owner.                                                               *)

\* create: a password and a restriction exclude each other, and a restriction
\* needs somebody who is named.  The links that complete makes are in Transfer.
Create(ends, secret, limit, restricted, named) ==
    LET password == IF secret THEN passwords + 1 ELSE 0 IN
    /\ ~Exists /\ made < MaxMade /\ password <= MaxPasswords
    /\ ~(restricted /\ secret)
    /\ restricted => named # {}
    /\ made' = made + 1
    /\ passwords' = IF secret THEN password ELSE passwords
    /\ share' = [Gone EXCEPT
                    !.made = made + 1, !.ends = ends, !.recipients = named,
                    !.vow = restricted,
                    !.rule = IF secret \/ limit # 0 \/ restricted
                             THEN [row |-> TRUE, password |-> password,
                                   limit |-> limit, restricted |-> restricted]
                             ELSE Open]
    /\ lone' = 0
    /\ UNCHANGED <<now, cookie, req, asked, visits>>

\* UpdateShareDTO: which fields are given.
Touches == {{"ends"}, {"security"}, {"security", "password"}, {"security", "limit"}}
Changes == [touches : Touches, ends : Ends \cup {Never},
            password : {0, passwords + 1}, limit : Limits]

\* PATCH /shares/:id.  ShareOwnerGuard hands the row it read to the handler,
\* which uses its security row only.
Edit(r, change) ==
    /\ change.password <= MaxPasswords
    /\ "ends" \notin change.touches => change.ends = Never
    /\ "password" \notin change.touches => change.password = 0
    /\ "limit" \notin change.touches => change.limit = 0
    /\ Begin(r, [Idle EXCEPT !.pc = "editing", !.change = change,
                             !.saw = [Gone EXCEPT !.made = share.made, !.rule = share.rule]])
    /\ Exists
    /\ passwords' = IF change.password = 0 THEN passwords ELSE change.password
    /\ UNCHANGED <<now, share, cookie, made, visits, lone>>

\* update: the row first.
UpdateRow(r) ==
    /\ At(r, "editing")
    /\ IF ~Exists THEN End(r) /\ UNCHANGED share
       ELSE /\ share' = IF "ends" \in req[r].change.touches
                        THEN [share EXCEPT !.ends = req[r].change.ends] ELSE share
            /\ IF "security" \in req[r].change.touches THEN GoTo(r, "securing") ELSE End(r)
    /\ UNCHANGED <<now, cookie, made, passwords, asked, visits, lone>>

\* updateSecurity: what the change does not touch is carried from the row that
\* the guard read.
NextRule(q) ==
    [row |-> TRUE,
     password |-> IF "password" \in q.change.touches THEN q.change.password ELSE q.saw.rule.password,
     limit |-> IF "limit" \in q.change.touches THEN q.change.limit ELSE q.saw.rule.limit,
     restricted |-> q.saw.rule.restricted]

\* A slip: the restriction does not count.
CarriesNoSecret(rule) == rule.password = 0 /\ rule.limit = 0

\* A row that carries nothing has no reason to exist.
CarriesNothing(rule) == rule.password = 0 /\ rule.limit = 0 /\ ~rule.restricted

\* A slip: the row goes and its limit stays.
CarriedHalf(q) ==
    IF CarriesNothing(NextRule(q)) THEN [q.saw.rule EXCEPT !.row = FALSE] ELSE NextRule(q)

Carried(q) == IF CarriesNothing(NextRule(q)) THEN Open ELSE NextRule(q)

\* Deleting a row that is not there fails, and so does an upsert without its
\* transfer; an edit that carries nothing and read no row does nothing.
Secure(r) ==
    LET q == req[r]
        writes == Exists /\ (Carried(q).row \/ (q.saw.rule.row /\ share.rule.row))
    IN
    /\ q.pc = "securing"
    /\ share' = IF writes
                THEN [share EXCEPT !.rule = Carried(q),
                                   !.crossed = @ \/ q.saw.made # share.made]
                ELSE share
    /\ End(r)
    /\ UNCHANGED <<now, cookie, made, passwords, asked, visits, lone>>

\* POST /shares/:id/expire.
Expire ==
    /\ Exists /\ asked < MaxRequests /\ asked' = asked + 1
    /\ share' = [share EXCEPT !.ends = now]
    /\ UNCHANGED <<now, cookie, req, made, passwords, visits, lone>>

\* DELETE /shares/:id, while the files are deleted.
Remove(r) ==
    /\ Begin(r, [Idle EXCEPT !.pc = "removing"])
    /\ Exists
    /\ UNCHANGED <<now, share, cookie, made, passwords, visits, lone>>

\* The row goes with everything that hangs on it, unless it is gone already.
DropRow(r) ==
    /\ At(r, "removing")
    /\ share' = Gone
    /\ lone' = 0
    /\ End(r)
    /\ UNCHANGED <<now, cookie, made, passwords, asked, visits>>

-----------------------------------------------------------------------------

Tick ==
    /\ now < MaxTime /\ now' = now + 1
    /\ UNCHANGED <<share, cookie, req, made, passwords, asked, visits, lone>>

Next ==
    \/ \E ends \in Ends, secret, restricted \in BOOLEAN, limit \in Limits, named \in Guests :
          Create(ends, secret, limit, restricted, named)
    \/ \E r \in Request :
          \/ \E v \in Visitor :
                \/ \E offer \in 0 .. passwords : Knock(r, v, offer)
                \/ Enter(r, v)
          \/ Look(r) \/ Count(r)
          \/ Admit(r) \/ Refuse(r) \/ Serve(r)
          \/ \E change \in Changes : Edit(r, change)
          \/ UpdateRow(r) \/ Secure(r)
          \/ Remove(r) \/ DropRow(r)
    \/ Expire \/ Tick

Spec == Init /\ [][Next]_vars

-----------------------------------------------------------------------------
(* Properties.                                                              *)

RuleType ==
    [row : BOOLEAN, password : Nat, limit : Nat, restricted : BOOLEAN]
ShareType ==
    [made : Nat, ends : Nat, views : Nat, rule : RuleType,
     recipients : SUBSET Address, linked : SUBSET Address,
     vow : BOOLEAN, crossed : BOOLEAN]
CookieType == [made : Nat, password : Nat, until : Nat]
ChangeType ==
    [touches : SUBSET {"ends", "security", "password", "limit"},
     ends : Nat, password : Nat, limit : Nat]
RequestType ==
    [pc : {"idle", "knocking", "looked", "entering", "admitted", "editing", "securing", "removing"},
     by : Visitor \cup {NoOne}, offer : Nat, cookie : CookieType, saw : ShareType,
     change : ChangeType, alone : BOOLEAN]

\* A transfer without a security row asks nothing, and one that is gone is
\* nobody's.
WellFormed(s) ==
    /\ ~s.rule.row => s.rule = Open
    /\ s.made = 0 => s = Gone

\* The types of the rows, the cookies and the requests (schema.prisma; the
\* claims of generateShareToken).
TypeOK ==
    /\ now \in Nat /\ made \in Nat /\ passwords \in Nat /\ asked \in Nat /\ lone \in Nat
    /\ share \in ShareType /\ WellFormed(share) /\ share.made <= made
    /\ cookie \in [Visitor -> CookieType]
    /\ req \in [Request -> RequestType]
    /\ visits \subseteq Visitor \X Nat \X Nat

Invited(q) == IsLinked(q) \/ IsNamed(q)

\* Whoever the guard lets through on a cookie (shareSecurity.guard.ts:146) has
\* been counted as a visitor of this very transfer, and if a password was in
\* force when the guard read the row, presented that one: a cookie outlives
\* neither the password nor the transfer it was given for.
AdmittedByVisit ==
    \A r \in Request :
        LET q == req[r]
            word == q.saw.rule.password
        IN  q.pc = "admitted" /\ ~Invited(q) =>
               \E visit \in visits :
                  /\ visit[1] = q.by /\ visit[2] = q.saw.made
                  /\ word = 0 \/ visit[3] = word

\* A transfer that was restricted when it was created is read by those it names
\* and nobody else, through any edits of its owner ("no edit path can set or
\* clear the restriction", share.service.ts:653): unless a request that began
\* before it was created, on a transfer of the same id, has written to it.
OnlyTheNamed ==
    \A r \in Request :
        LET q == req[r]
        IN  q.pc = "admitted" /\ q.saw.vow /\ ~q.saw.crossed => q.by \in q.saw.recipients

\* Views are written as the number that was read plus one
\* (increaseViewCount, share.service.ts:772), so visits at the same time count
\* as one.  A visit that met no other is never lost to that: it is counted beside
\* those like it that came before, and let in only under a limit they all respect.
LimitHolds ==
    [][ lone' > lone =>
           /\ lone' <= share'.views
           /\ \E r \in Request :
                 /\ At(r, "looked")
                 /\ req[r].saw.rule.limit = 0 \/ lone' <= req[r].saw.rule.limit ]_vars

=============================================================================
