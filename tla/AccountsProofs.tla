---------------------------- MODULE AccountsProofs ----------------------------
(***************************************************************************)
(* What TLAPS proves of Accounts, for any number of accounts, providers,   *)
(* requests and settings saved at once.                                    *)
(***************************************************************************)
EXTENDS Accounts, TLAPS

\* What is said of the rows.
RowsOK ==
    /\ present \subseteq User /\ given \subseteq User
    /\ admins \subseteq present /\ active \subseteq present
    /\ local \subseteq present /\ ldap \subseteq present
    /\ known \subseteq local
    /\ links \subseteq present \X Provider

\* A password nobody knows is one of an account of the directory.
Unknown == local \ known \subseteq ldap

\* What a request has found out before it goes on.
Informed(q) ==
    /\ q.pc \in {"signUp", "register", "insert"} => q.user \in User
    /\ q.pc \in {"register", "linkRow"} => q.provider \in Provider
    /\ q.pc = "drop" => q.provider \notin q.doors /\ (q.seen \/ q.doors # {})
    /\ q.pc = "write" /\ q.view # {} =>
         \E a \in q.view : HasAnySignInMethod(a[2], a[3], q.plan)

ReqOK == req \in [Request -> Records] /\ \A r \in Request : Informed(req[r])

RestOK ==
    /\ ops \in Explored /\ settings \in Settings
    /\ asked \in 0..MaxAsked[ops] /\ restarts \in 0..MaxRestarts

Inv == RowsOK /\ Unknown /\ ReqOK /\ RestOK

LEMMA InvTypes == Inv => TypeOK
  BY DEF Inv, RowsOK, ReqOK, RestOK, TypeOK

LEMMA NoPlan == [k \in Key |-> FALSE] \in Settings
  BY DEF Settings

LEMMA IdleType == Idle \in Records /\ Idle.pc = "idle"
  BY NoPlan DEF Idle, Records, Points, Informed

LEMMA InitInv == Init => Inv
  <1> SUFFICES ASSUME Init PROVE Inv
    OBVIOUS
  <1>1. RowsOK /\ Unknown
    BY UserAssumption DEF Init, RowsOK, Unknown
  <1>2. ReqOK
    BY IdleType DEF Init, ReqOK, Informed
  <1>3. ops \in Explored /\ asked = 0 /\ restarts = 0 /\ settings \in Settings
    <2>1. PICK start \in Starts[ops] : settings = start.settings
      BY DEF Init
    <2>2. start \in [settings : Settings, links : SUBSET (User \X Provider)]
      BY <2>1, ExploredAssumption DEF Init
    <2>3. QED
      BY <2>1, <2>2 DEF Init
  <1>4. MaxAsked[ops] \in Nat /\ MaxRestarts \in Nat
    BY <1>3, ExploredAssumption
  <1>5. QED
    BY <1>1, <1>2, <1>3, <1>4 DEF Inv, RestOK

-----------------------------------------------------------------------------
(* The ways a step moves a request.                                        *)

LEMMA RequestSet ==
    ASSUME ReqOK, NEW r \in Request, NEW q \in Records, Informed(q),
           req' = [req EXCEPT ![r] = q]
    PROVE  ReqOK'
  <1>1. \A s \in Request : req'[s] = IF s = r THEN q ELSE req[s]
    BY DEF ReqOK
  <1>2. req' \in [Request -> Records]
    BY DEF ReqOK
  <1>3. ASSUME NEW s \in Request PROVE Informed(req'[s])
    BY <1>1 DEF ReqOK
  <1>4. QED
    BY <1>2, <1>3 DEF ReqOK, Informed, HasAnySignInMethod

LEMMA RequestEnds ==
    ASSUME ReqOK, NEW r \in Request, End(r)
    PROVE  ReqOK'
  <1>1. Informed(Idle)
    BY IdleType DEF Informed
  <1>2. QED
    BY <1>1, IdleType, RequestSet DEF End

LEMMA RequestGoes ==
    ASSUME ReqOK, NEW r \in Request, NEW pc \in {"row", "others"}, GoTo(r, pc)
    PROVE  ReqOK'
  <1> DEFINE q == [req[r] EXCEPT !.pc = pc]
  <1>1. req[r] \in Records
    BY DEF ReqOK
  <1>2. q \in Records /\ q.pc = pc
    BY <1>1 DEF Records, Points
  <1>3. Informed(q)
    BY <1>2 DEF Informed
  <1>4. req' = [req EXCEPT ![r] = q]
    BY DEF GoTo
  <1> HIDE DEF q
  <1>5. QED
    BY <1>2, <1>3, <1>4, RequestSet

\* A request begins: its first point is none where something was found out.
LEMMA RequestBegins ==
    ASSUME Inv, NEW r \in Request, NEW op, Asks(r, op), NEW q \in Records,
           Informed(q),
           req' = [req EXCEPT ![r] = q],
           UNCHANGED <<ops, settings, restarts>>
    PROVE  ReqOK' /\ RestOK'
  <1>2. ReqOK'
    BY RequestSet DEF Inv
  <1>3. MaxAsked[ops] \in Nat
    BY ExploredAssumption DEF Inv, RestOK
  <1>4. RestOK'
    BY <1>3 DEF Inv, RestOK, Asks
  <1>5. QED
    BY <1>2, <1>4

LEMMA RestStays ==
    ASSUME Inv, UNCHANGED <<ops, settings, asked, restarts>>
    PROVE  RestOK'
  BY DEF Inv, RestOK

LEMMA RowsStay ==
    ASSUME Inv, UNCHANGED rows, given \subseteq given', given' \subseteq User
    PROVE  RowsOK' /\ Unknown'
  BY DEF Inv, RowsOK, Unknown, rows

LEMMA AccountDrops ==
    ASSUME Inv, NEW u \in User, DropAccount(u), UNCHANGED given
    PROVE  RowsOK' /\ Unknown'
  <1>1. links' \subseteq present' \X Provider
    <2>1. ASSUME NEW l \in links' PROVE l \in present' \X Provider
      <3>1. l \in links /\ l[1] # u
        BY <2>1 DEF DropAccount
      <3>2. l \in present \X Provider
        BY <3>1 DEF Inv, RowsOK
      <3>3. QED
        BY <3>1, <3>2 DEF DropAccount
    <2>2. QED
      BY <2>1
  <1>2. QED
    BY <1>1 DEF DropAccount, Inv, RowsOK, Unknown
-----------------------------------------------------------------------------
(* The requests that begin.                                                *)

LEMMA SignUpInv ==
    ASSUME Inv, NEW r \in Request, NEW u \in User, SignUp(r, u)
    PROVE  Inv'
  <1> DEFINE q == [Idle EXCEPT !.pc = "signUp", !.user = u, !.seen = (present = {})]
  <1>1. q \in Records /\ Informed(q)
    BY NoPlan DEF Idle, Records, Points, Informed
  <1>2. req' = [req EXCEPT ![r] = q] /\ UNCHANGED <<ops, rows, settings, restarts>>
    BY DEF SignUp
  <1> HIDE DEF q
  <1>3. PICK op : Asks(r, op)
    BY DEF SignUp
  <1>4. ReqOK' /\ RestOK'
    BY <1>1, <1>2, <1>3, RequestBegins
  <1>5. RowsOK' /\ Unknown'
    BY <1>2, RowsStay DEF SignUp, Inv, RowsOK
  <1>6. QED
    BY <1>4, <1>5 DEF Inv

LEMMA RegisterInv ==
    ASSUME Inv, NEW r \in Request, NEW u \in User, NEW p \in Provider,
           NEW want \in Role, Register(r, u, p, want)
    PROVE  Inv'
  <1> DEFINE q == [Idle EXCEPT !.pc = "register", !.user = u, !.provider = p,
                              !.want = want, !.seen = (present = {})]
  <1>1. q \in Records /\ Informed(q)
    BY NoPlan DEF Idle, Records, Points, Informed, Role
  <1>2. req' = [req EXCEPT ![r] = q] /\ UNCHANGED <<ops, rows, settings, restarts>>
    BY DEF Register
  <1> HIDE DEF q
  <1>3. PICK op : Asks(r, op)
    BY DEF Register
  <1>4. ReqOK' /\ RestOK'
    BY <1>1, <1>2, <1>3, RequestBegins
  <1>5. RowsOK' /\ Unknown'
    BY <1>2, RowsStay DEF Register, Inv, RowsOK
  <1>6. QED
    BY <1>4, <1>5 DEF Inv

LEMMA CreateInv ==
    ASSUME Inv, NEW r \in Request, NEW u \in User, NEW want \in {"yes", "no"}, Create(r, u, want)
    PROVE  Inv'
  <1> DEFINE q == [Idle EXCEPT !.pc = "insert", !.user = u, !.want = want]
  <1>1. q \in Records /\ Informed(q)
    BY NoPlan DEF Idle, Records, Points, Informed
  <1>2. req' = [req EXCEPT ![r] = q] /\ UNCHANGED <<ops, rows, settings, restarts>>
    BY DEF Create
  <1> HIDE DEF q
  <1>3. PICK op : Asks(r, op)
    BY DEF Create
  <1>4. ReqOK' /\ RestOK'
    BY <1>1, <1>2, <1>3, RequestBegins
  <1>5. RowsOK' /\ Unknown'
    BY <1>2, RowsStay DEF Create, Inv, RowsOK
  <1>6. QED
    BY <1>4, <1>5 DEF Inv

LEMMA SignInWithProviderInv ==
    ASSUME Inv, NEW r \in Request, NEW u \in User, NEW p \in Provider,
           NEW want \in Role, SignInWithProvider(r, u, p, want)
    PROVE  Inv'
  <1> DEFINE q == [Idle EXCEPT !.pc = "role", !.user = u, !.want = want]
  <1>1. q \in Records /\ Informed(q)
    BY NoPlan DEF Idle, Records, Points, Informed, Role
  <1>2. req' = [req EXCEPT ![r] = q] /\ UNCHANGED <<ops, rows, settings, restarts>>
    BY DEF SignInWithProvider
  <1> HIDE DEF q
  <1>3. PICK op : Asks(r, op)
    BY DEF SignInWithProvider
  <1>4. ReqOK' /\ RestOK'
    BY <1>1, <1>2, <1>3, RequestBegins
  <1>5. RowsOK' /\ Unknown'
    BY <1>2, RowsStay DEF SignInWithProvider, Inv, RowsOK
  <1>6. QED
    BY <1>4, <1>5 DEF Inv

LEMMA SignInWithDirectoryInv ==
    ASSUME Inv, NEW r \in Request, NEW u \in User \cup {NoUser},
           NEW want \in {"yes", "no"}, SignInWithDirectory(r, u, want)
    PROVE  Inv'
  <1> DEFINE q == [Idle EXCEPT !.pc = "upsert", !.user = u, !.want = want]
  <1>1. q \in Records /\ Informed(q)
    BY NoPlan DEF Idle, Records, Points, Informed
  <1>2. req' = [req EXCEPT ![r] = q] /\ UNCHANGED <<ops, rows, settings, restarts>>
    BY DEF SignInWithDirectory
  <1> HIDE DEF q
  <1>3. PICK op : Asks(r, op)
    BY DEF SignInWithDirectory
  <1>4. ReqOK' /\ RestOK'
    BY <1>1, <1>2, <1>3, RequestBegins
  <1>5. RowsOK' /\ Unknown'
    BY <1>2, RowsStay DEF SignInWithDirectory, Inv, RowsOK
  <1>6. QED
    BY <1>4, <1>5 DEF Inv

LEMMA UpdateInv ==
    ASSUME Inv, NEW r \in Request, NEW u \in User,
           NEW want \in {"yes", "no", "password", "passwordless"}, Update(r, u, want)
    PROVE  Inv'
  <1> DEFINE q == [Idle EXCEPT !.pc = "update", !.user = u, !.want = want]
  <1>1. q \in Records /\ Informed(q)
    BY NoPlan DEF Idle, Records, Points, Informed
  <1>2. req' = [req EXCEPT ![r] = q] /\ UNCHANGED <<ops, rows, settings, restarts>>
    BY DEF Update
  <1> HIDE DEF q
  <1>3. PICK op : Asks(r, op)
    BY DEF Update
  <1>4. ReqOK' /\ RestOK'
    BY <1>1, <1>2, <1>3, RequestBegins
  <1>5. RowsOK' /\ Unknown'
    BY <1>2, RowsStay DEF Update, Inv, RowsOK
  <1>6. QED
    BY <1>4, <1>5 DEF Inv

LEMMA DeleteInv ==
    ASSUME Inv, NEW r \in Request, NEW u \in User, Delete(r, u)
    PROVE  Inv'
  <1> DEFINE b == (u \in admins)
             q == [Idle EXCEPT !.pc = "count", !.user = u, !.seen = b]
  <1>0. b \in BOOLEAN
    BY SMT
  <1>1. q \in Records /\ Informed(q)
    <2> HIDE DEF b
    <2>1. QED
      BY <1>0, NoPlan DEF Idle, Records, Points, Informed
  <1>2. req' = [req EXCEPT ![r] = q] /\ UNCHANGED <<ops, rows, settings, restarts>>
    BY DEF Delete
  <1> HIDE DEF q
  <1>3. PICK op : Asks(r, op)
    BY DEF Delete
  <1>4. ReqOK' /\ RestOK'
    BY <1>1, <1>2, <1>3, RequestBegins
  <1>5. RowsOK' /\ Unknown'
    BY <1>2, RowsStay DEF Delete, Inv, RowsOK
  <1>6. QED
    BY <1>4, <1>5 DEF Inv

LEMMA SweepInv ==
    ASSUME Inv, NEW r \in Request, NEW list \in SUBSET User, Sweep(r, list)
    PROVE  Inv'
  <1> DEFINE q == [Idle EXCEPT !.pc = "sweep", !.list = list]
  <1>1. q \in Records /\ Informed(q)
    BY NoPlan DEF Idle, Records, Points, Informed
  <1>2. req' = [req EXCEPT ![r] = q] /\ UNCHANGED <<ops, rows, settings, restarts>>
    BY DEF Sweep
  <1> HIDE DEF q
  <1>3. PICK op : Asks(r, op)
    BY DEF Sweep
  <1>4. ReqOK' /\ RestOK'
    BY <1>1, <1>2, <1>3, RequestBegins
  <1>5. RowsOK' /\ Unknown'
    BY <1>2, RowsStay DEF Sweep, Inv, RowsOK
  <1>6. QED
    BY <1>4, <1>5 DEF Inv

LEMMA LinkInv ==
    ASSUME Inv, NEW r \in Request, NEW u \in User, NEW p \in Provider, Link(r, u, p)
    PROVE  Inv'
  <1> DEFINE q == [Idle EXCEPT !.pc = "linkRow", !.user = u, !.provider = p]
  <1>1. q \in Records /\ Informed(q)
    BY NoPlan DEF Idle, Records, Points, Informed
  <1>2. req' = [req EXCEPT ![r] = q] /\ UNCHANGED <<ops, rows, settings, restarts>>
    BY DEF Link
  <1> HIDE DEF q
  <1>3. PICK op : Asks(r, op)
    BY DEF Link
  <1>4. ReqOK' /\ RestOK'
    BY <1>1, <1>2, <1>3, RequestBegins
  <1>5. RowsOK' /\ Unknown'
    BY <1>2, RowsStay DEF Link, Inv, RowsOK
  <1>6. QED
    BY <1>4, <1>5 DEF Inv

LEMMA UnlinkInv ==
    ASSUME Inv, NEW r \in Request, NEW u \in User, NEW p \in Provider, Unlink(r, u, p)
    PROVE  Inv'
  <1> DEFINE b == Form(u)
             q == [Idle EXCEPT !.pc = "find", !.user = u, !.provider = p, !.seen = b]
  <1>0. b \in BOOLEAN
    BY SMT DEF Form
  <1>1. q \in Records /\ Informed(q)
    <2> HIDE DEF b
    <2>1. QED
      BY <1>0, NoPlan DEF Idle, Records, Points, Informed
  <1>2. req' = [req EXCEPT ![r] = q] /\ UNCHANGED <<ops, rows, settings, restarts>>
    BY DEF Unlink
  <1> HIDE DEF q
  <1>3. PICK op : Asks(r, op)
    BY DEF Unlink
  <1>4. ReqOK' /\ RestOK'
    BY <1>1, <1>2, <1>3, RequestBegins
  <1>5. RowsOK' /\ Unknown'
    BY <1>2, RowsStay DEF Unlink, Inv, RowsOK
  <1>6. QED
    BY <1>4, <1>5 DEF Inv

LEMMA ChangeSettingsInv ==
    ASSUME Inv, NEW r \in Request, NEW keys \in Batches, NEW values \in [keys -> BOOLEAN],
           ChangeSettings(r, keys, values)
    PROVE  Inv'
  <1> DEFINE pc == IF keys \subseteq {"ldap"} THEN "write" ELSE "judge"
             plan == [k \in Key |-> IF k \in keys THEN values[k] ELSE settings[k]]
             q == [Idle EXCEPT !.pc = pc, !.todo = keys, !.plan = plan]
  <1>1. plan \in Settings
    BY DEF Inv, RestOK, Settings
  <1>2. keys \subseteq Key /\ pc \in {"write", "judge"}
    BY ExploredAssumption
  <1>3. req' = [req EXCEPT ![r] = q] /\ UNCHANGED <<ops, rows, settings, given, restarts>>
        /\ Asks(r, "settings")
    BY DEF ChangeSettings
  <1> HIDE DEF pc, plan
  <1>4. q \in Records /\ q.view = {} /\ q.pc = pc
    BY <1>1, <1>2, NoPlan DEF Idle, Records, Points
  <1> HIDE DEF q
  <1>5. Informed(q)
    BY <1>2, <1>4 DEF Informed
  <1>6. ReqOK'
    BY <1>3, <1>4, <1>5, RequestSet DEF Inv
  <1>7. RestOK'
    <2>1. MaxAsked[ops] \in Nat
      BY ExploredAssumption DEF Inv, RestOK
    <2>2. QED
      BY <1>3, <2>1 DEF Inv, RestOK, Asks
  <1>8. RowsOK' /\ Unknown'
    BY <1>3, RowsStay DEF Inv, RowsOK
  <1>9. QED
    BY <1>6, <1>7, <1>8 DEF Inv

-----------------------------------------------------------------------------
(* The requests that go on.                                                *)

LEMMA UserOf ==
    ASSUME ReqOK, NEW r \in Request, req[r].user # NoUser
    PROVE  req[r].user \in User
  BY DEF ReqOK, Records

LEMMA RefusedInv ==
    ASSUME Inv, NEW r \in Request, Refused(r), UNCHANGED <<ops, settings, asked, restarts>>
    PROVE  Inv'
  BY RequestEnds, RestStays, RowsStay DEF Refused, Inv, RowsOK

\* A row is added to the table.
LEMMA AccountAdds ==
    ASSUME Inv, NEW u \in User, given' \subseteq User,
           NEW b, NEW c, NEW e,
           present' = present \cup {u},
           admins' = Add(admins, u, b),
           active' = Add(active, u, c),
           \/ local' = local \cup {u} /\ known' = known \cup {u} /\ UNCHANGED ldap
           \/ local' = local \cup {u} /\ ldap' = ldap \cup {u} /\ UNCHANGED known
           \/ UNCHANGED <<local, known, ldap>>,
           UNCHANGED links
    PROVE  RowsOK' /\ Unknown'
  <1>1. admins' \subseteq admins \cup {u} /\ active' \subseteq active \cup {u}
    BY DEF Add
  <1>2. links' \subseteq present' \X Provider
    BY DEF Inv, RowsOK
  <1>3. QED
    BY <1>1, <1>2 DEF Inv, RowsOK, Unknown


LEMMA Held ==
    ASSUME Inv, NEW r \in Request
    PROVE  /\ req[r] \in Records /\ Informed(req[r])
           /\ req[r].pc \in {"signUp", "register", "insert"} => req[r].user \in User
           /\ req[r].pc \in {"register", "linkRow"} => req[r].provider \in Provider
  <1>1. req[r] \in Records /\ Informed(req[r])
    BY DEF Inv, ReqOK
  <1>2. QED
    BY <1>1 DEF Informed

LEMMA CreateAccountInv ==
    ASSUME Inv, NEW r \in Request, CreateAccount(r)
    PROVE  Inv'
  <1> DEFINE u == req[r].user
  <1>1. u \in User /\ UNCHANGED <<ops, settings, asked, restarts>>
    BY Held DEF CreateAccount, At
  <1>2. CASE Refused(r)
    BY <1>1, <1>2, RefusedInv
  <1>3. CASE ~Refused(r)
    <2>1. /\ present' = present \cup {u} /\ admins' = Add(admins, u, req[r].seen)
          /\ local' = local \cup {u} /\ known' = known \cup {u}
          /\ End(r) /\ UNCHANGED <<ldap, links, given>>
      BY <1>3 DEF CreateAccount
    <2>2. PICK verified \in BOOLEAN : active' = Add(active, u, req[r].seen \/ ~verified)
      BY <1>3 DEF CreateAccount
    <2> HIDE DEF u
    <2>3. RowsOK' /\ Unknown'
      BY <1>1, <2>1, <2>2, AccountAdds DEF Inv, RowsOK
    <2>4. QED
      BY <1>1, <2>1, <2>3, RequestEnds, RestStays DEF Inv
  <1>4. QED
    BY <1>2, <1>3

LEMMA CreateRegisteredInv ==
    ASSUME Inv, NEW r \in Request, CreateRegistered(r)
    PROVE  Inv'
  <1> DEFINE u == req[r].user
             b == req[r].want = "yes" \/ (req[r].want = "unsaid" /\ req[r].seen)
  <1>1. u \in User /\ req[r].provider \in Provider /\ req[r] \in Records
        /\ UNCHANGED <<ops, settings, asked, restarts>>
    BY Held DEF CreateRegistered, At
  <1>2. CASE Refused(r)
    BY <1>1, <1>2, RefusedInv
  <1>3. CASE ~Refused(r)
    <2>1. /\ present' = present \cup {u} /\ admins' = Add(admins, u, b)
          /\ active' = active \cup {u}
          /\ GoTo(r, "linkRow") /\ UNCHANGED <<local, known, ldap, links, given>>
      BY <1>3 DEF CreateRegistered
    <2>2. active' = Add(active, u, TRUE)
      BY <2>1 DEF Add
    <2> HIDE DEF b
    <2>3. RowsOK' /\ Unknown'
      <3> HIDE DEF u
      <3>1. QED
        BY <1>1, <2>1, <2>2, AccountAdds DEF Inv, RowsOK
    <2>4. ReqOK'
      <3> DEFINE q == [req[r] EXCEPT !.pc = "linkRow"]
      <3>1. q \in Records /\ Informed(q)
        BY <1>1 DEF Records, Points, Informed
      <3>2. req' = [req EXCEPT ![r] = q]
        BY <2>1 DEF GoTo
      <3> HIDE DEF q
      <3>3. QED
        BY <3>1, <3>2, RequestSet DEF Inv
    <2>5. QED
      BY <1>1, <2>3, <2>4, RestStays DEF Inv
  <1>4. QED
    BY <1>2, <1>3

LEMMA CreateLinkInv ==
    ASSUME Inv, NEW r \in Request, CreateLink(r)
    PROVE  Inv'
  <1>1. req[r].provider \in Provider
    BY Held DEF CreateLink, At
  <1>2. RowsOK' /\ Unknown'
    BY <1>1 DEF CreateLink, Inv, RowsOK, Unknown
  <1>3. QED
    BY <1>2, RequestEnds, RestStays DEF CreateLink, Inv

LEMMA InsertInv ==
    ASSUME Inv, NEW r \in Request, Insert(r)
    PROVE  Inv'
  <1> DEFINE u == req[r].user
  <1>1. u \in User /\ UNCHANGED <<ops, settings, asked, restarts>>
    BY Held DEF Insert, At
  <1>2. CASE Refused(r)
    BY <1>1, <1>2, RefusedInv
  <1>3. CASE ~Refused(r)
    <2>1. /\ present' = present \cup {u} /\ admins' = Add(admins, u, req[r].want = "yes")
          /\ active' = active \cup {u}
          /\ local' = local \cup {u} /\ known' = known \cup {u}
          /\ End(r) /\ UNCHANGED <<ldap, links, given>>
      BY <1>3 DEF Insert
    <2>2. active' = Add(active, u, TRUE)
      BY <2>1 DEF Add
    <2> HIDE DEF u
    <2>3. RowsOK' /\ Unknown'
      BY <1>1, <2>1, <2>2, AccountAdds DEF Inv, RowsOK
    <2>4. QED
      BY <1>1, <2>1, <2>3, RequestEnds, RestStays DEF Inv
  <1>4. QED
    BY <1>2, <1>3

LEMMA UpdateIsAdminInv ==
    ASSUME Inv, NEW r \in Request, UpdateIsAdmin(r)
    PROVE  Inv'
  <1>1. RowsOK' /\ Unknown'
    BY DEF UpdateIsAdmin, Put, Inv, RowsOK, Unknown
  <1>2. QED
    BY <1>1, RequestEnds, RestStays DEF UpdateIsAdmin, Inv

LEMMA FindOrCreateFromLDAPInv ==
    ASSUME Inv, NEW r \in Request, FindOrCreateFromLDAP(r)
    PROVE  Inv'
  <1> DEFINE role == req[r].want = "yes"
  <1>1. End(r) /\ UNCHANGED <<ops, links, settings, asked, restarts>>
    BY DEF FindOrCreateFromLDAP
  <1>2. CASE req[r].user \in ldap
    <2>1. RowsOK' /\ Unknown'
      BY <1>2 DEF FindOrCreateFromLDAP, Put, Inv, RowsOK, Unknown
    <2>2. QED
      BY <1>1, <2>1, RequestEnds, RestStays DEF Inv
  <1>3. CASE req[r].user \notin ldap
    <2>1. PICK v \in User \ given :
            /\ given' = given \cup {v} /\ present' = present \cup {v}
            /\ admins' = Add(admins, v, role)
            /\ active' = active \cup {v} /\ local' = local \cup {v} /\ ldap' = ldap \cup {v}
            /\ UNCHANGED known
      BY <1>3 DEF FindOrCreateFromLDAP
    <2>2. active' = Add(active, v, TRUE) /\ given' \subseteq User
      BY <2>1 DEF Add, Inv, RowsOK
    <2> HIDE DEF role
    <2>3. RowsOK' /\ Unknown'
      BY <1>1, <2>1, <2>2, AccountAdds
    <2>4. QED
      BY <1>1, <2>3, RequestEnds, RestStays DEF Inv
  <1>4. QED
    BY <1>2, <1>3

LEMMA ApplyUpdateInv ==
    ASSUME Inv, NEW r \in Request, ApplyUpdate(r)
    PROVE  Inv'
  <1> DEFINE u == req[r].user
             want == req[r].want
  <1>1. End(r) /\ UNCHANGED <<ops, settings, given, asked, restarts>>
    BY DEF ApplyUpdate
  <1>2. CASE UNCHANGED rows
    BY <1>1, <1>2, RequestEnds, RestStays, RowsStay DEF Inv, RowsOK
  <1>3. CASE ~UNCHANGED rows
    <2>1. /\ u \in present
          /\ admins' = IF want \in {"yes", "no"} THEN Put(admins, u, want = "yes") ELSE admins
          /\ \/ local' = local \cup {u} /\ known' = known \cup {u}
             \/ local' = local \ {u} /\ known' = known \ {u}
             \/ local' = local /\ known' = known
          /\ UNCHANGED <<present, active, ldap, links>>
      BY <1>3 DEF ApplyUpdate
    <2>2. admins' \subseteq present'
      BY <2>1 DEF Put, Inv, RowsOK
    <2>3. RowsOK' /\ Unknown'
      <3> HIDE DEF u, want
      <3>1. QED
        BY <1>1, <2>1, <2>2 DEF Inv, RowsOK, Unknown
    <2>4. QED
      BY <1>1, <2>3, RequestEnds, RestStays DEF Inv
  <1>4. QED
    BY <1>2, <1>3

LEMMA CountAdminsInv ==
    ASSUME Inv, NEW r \in Request, CountAdmins(r)
    PROVE  Inv'
  <1>1. ReqOK'
    BY RequestEnds, RequestGoes DEF CountAdmins, Inv
  <1>2. QED
    BY <1>1, RestStays, RowsStay DEF CountAdmins, Inv, RowsOK

LEMMA DeleteRowInv ==
    ASSUME Inv, NEW r \in Request, DeleteRow(r)
    PROVE  Inv'
  <1> DEFINE u == req[r].user
  <1>1. End(r) /\ UNCHANGED <<ops, settings, given, asked, restarts>>
    BY DEF DeleteRow
  <1>2. UNCHANGED rows \/ (u \in present /\ DropAccount(u))
    BY DEF DeleteRow
  <1>3. RowsOK' /\ Unknown'
    <2>1. CASE UNCHANGED rows
      BY <1>1, <2>1, RowsStay DEF Inv, RowsOK
    <2>2. CASE u \in present /\ DropAccount(u)
      BY <1>1, <2>2, AccountDrops DEF Inv, RowsOK
    <2>3. QED
      BY <1>2, <2>1, <2>2
  <1>4. QED
    BY <1>1, <1>3, RequestEnds, RestStays DEF Inv

LEMMA SweepNextInv ==
    ASSUME Inv, NEW r \in Request, SweepNext(r)
    PROVE  Inv'
  <1>1. UNCHANGED <<ops, settings, given, asked, restarts>> /\ req[r] \in Records
        /\ req[r].pc = "sweep"
    BY Held DEF SweepNext, At
  <1>2. PICK u \in req[r].list :
          \/ End(r) /\ UNCHANGED rows
          \/ u \in present /\ DropAccount(u) /\ End(r)
          \/ u \in present /\ DropAccount(u) /\ req' = [req EXCEPT ![r].list = @ \ {u}]
    BY DEF SweepNext
  <1>3. RowsOK' /\ Unknown'
    <2>1. CASE UNCHANGED rows
      BY <1>1, <2>1, RowsStay DEF Inv, RowsOK
    <2>2. CASE u \in present /\ DropAccount(u)
      BY <1>1, <2>2, AccountDrops DEF Inv, RowsOK
    <2>3. QED
      BY <1>2, <2>1, <2>2
  <1>4. ReqOK'
    <2>1. CASE End(r)
      BY <2>1, RequestEnds DEF Inv
    <2>2. CASE req' = [req EXCEPT ![r].list = @ \ {u}]
      <3> DEFINE q == [req[r] EXCEPT !.list = @ \ {u}]
      <3>1. q \in Records /\ Informed(q)
        BY <1>1 DEF Records, Informed
      <3>2. req' = [req EXCEPT ![r] = q]
        BY <2>2
      <3> HIDE DEF q
      <3>3. QED
        BY <3>1, <3>2, RequestSet DEF Inv
    <2>3. QED
      BY <1>2, <2>1, <2>2
  <1>5. QED
    BY <1>1, <1>3, <1>4, RestStays DEF Inv

LEMMA FindLinkInv ==
    ASSUME Inv, NEW r \in Request, FindLink(r)
    PROVE  Inv'
  <1>1. ReqOK'
    BY RequestEnds, RequestGoes DEF FindLink, Inv
  <1>2. QED
    BY <1>1, RestStays, RowsStay DEF FindLink, Inv, RowsOK

LEMMA CountDoorsInv ==
    ASSUME Inv, NEW r \in Request, CountDoors(r)
    PROVE  Inv'
  <1> DEFINE linked == LinksOf(req[r].user) \ {req[r].provider}
             q == Counting(req[r], linked)
  <1>1. /\ linked \subseteq Provider /\ req[r].provider \notin linked /\ req[r] \in Records
        /\ settings["disablePassword"] \in BOOLEAN
    BY Held DEF LinksOf, Inv, RestOK, Settings, Key
  <1>2. \/ End(r)
        \/ /\ HasAnySignInMethod(req[r].seen, linked, settings)
           /\ req' = [req EXCEPT ![r] = q]
    BY DEF CountDoors
  <1> HIDE DEF linked
  <1>3. /\ q \in Records /\ q.pc = "drop" /\ q.provider = req[r].provider
        /\ q.seen = (req[r].seen /\ ~settings["disablePassword"])
        /\ q.doors = {p \in linked : settings[p]}
    BY <1>1 DEF Counting, Records, Points
  <1> HIDE DEF q
  <1>4. HasAnySignInMethod(req[r].seen, linked, settings) => Informed(q)
    BY <1>1, <1>3 DEF HasAnySignInMethod, Informed
  <1>5. ReqOK'
    BY <1>2, <1>3, <1>4, RequestEnds, RequestSet DEF Inv
  <1>6. QED
    BY <1>5, RestStays, RowsStay DEF CountDoors, Inv, RowsOK

LEMMA DropLinkInv ==
    ASSUME Inv, NEW r \in Request, DropLink(r)
    PROVE  Inv'
  <1>1. RowsOK' /\ Unknown'
    BY DEF DropLink, Inv, RowsOK, Unknown
  <1>2. QED
    BY <1>1, RequestEnds, RestStays DEF DropLink, Inv

LEMMA JudgeInv ==
    ASSUME Inv, NEW r \in Request, Judge(r)
    PROVE  Inv'
  <1> DEFINE q == [req[r] EXCEPT !.pc = "write", !.view = AdminView]
  <1>1. \/ End(r)
        \/ /\ req' = [req EXCEPT ![r] = q]
           /\ AdminView # {} =>
                \E a \in AdminView : HasAnySignInMethod(a[2], a[3], req[r].plan)
    BY DEF Judge
  <1>2. AdminView \in SUBSET (User \X BOOLEAN \X SUBSET Provider)
    <2>1. ASSUME NEW a \in admins
          PROVE  <<a, Form(a), LinksOf(a)>> \in User \X BOOLEAN \X SUBSET Provider
      <3>1. a \in User /\ LinksOf(a) \subseteq Provider
        BY DEF Inv, RowsOK, LinksOf
      <3>2. Form(a) \in BOOLEAN
        BY SMT DEF Form
      <3>3. QED
        BY <3>1, <3>2
    <2>2. QED
      BY <2>1 DEF AdminView
  <1>3. req[r] \in Records
    BY Held
  <1>4. ReqOK'
    <2>1. CASE End(r)
      BY <2>1, RequestEnds DEF Inv
    <2>2. CASE ~End(r)
      <3>1. q \in Records /\ q.view = AdminView /\ q.plan = req[r].plan /\ q.pc = "write"
        BY <1>2, <1>3 DEF Records, Points
      <3>2. req' = [req EXCEPT ![r] = q]
        BY <1>1, <2>2
      <3>3. AdminView # {} => \E a \in AdminView : HasAnySignInMethod(a[2], a[3], req[r].plan)
        BY <1>1, <2>2
      <3> HIDE DEF q
      <3>4. Informed(q)
        BY <3>1, <3>3 DEF Informed
      <3>5. QED
        BY <3>1, <3>2, <3>4, RequestSet DEF Inv
    <2>3. QED
      BY <2>1, <2>2
  <1>5. QED
    BY <1>4, RestStays, RowsStay DEF Judge, Inv, RowsOK

LEMMA WriteSettingInv ==
    ASSUME Inv, NEW r \in Request, WriteSetting(r)
    PROVE  Inv'
  <1>1. req[r] \in Records /\ Informed(req[r]) /\ req[r].pc = "write"
    BY Held DEF WriteSetting, At
  <1>2. PICK k \in req[r].todo :
          /\ settings' = [settings EXCEPT ![k] = req[r].plan[k]]
          /\ End(r) \/ req' = [req EXCEPT ![r].todo = @ \ {k}]
    BY DEF WriteSetting
  <1>3. settings' \in Settings
    <2>1. req[r].plan \in Settings /\ k \in Key
      BY <1>1 DEF Records
    <2>2. QED
      BY <1>2, <2>1 DEF Inv, RestOK, Settings
  <1>4. ReqOK'
    <2>1. CASE End(r)
      BY <2>1, RequestEnds DEF Inv
    <2>2. CASE req' = [req EXCEPT ![r].todo = @ \ {k}]
      <3> DEFINE q == [req[r] EXCEPT !.todo = @ \ {k}]
      <3>1. q \in Records /\ q.pc = "write" /\ q.view = req[r].view /\ q.plan = req[r].plan
        BY <1>1 DEF Records
      <3>2. req' = [req EXCEPT ![r] = q]
        BY <2>2
      <3> HIDE DEF q
      <3>3. Informed(q)
        BY <1>1, <3>1 DEF Informed
      <3>4. QED
        BY <3>1, <3>2, <3>3, RequestSet DEF Inv
    <2>3. QED
      BY <1>2, <2>1, <2>2
  <1>5. RestOK'
    BY <1>3 DEF WriteSetting, Inv, RestOK
  <1>6. QED
    BY <1>4, <1>5, RowsStay DEF WriteSetting, Inv, RowsOK

LEMMA ActivateInv ==
    ASSUME Inv, NEW u \in User, Activate(u)
    PROVE  Inv'
  BY DEF Activate, Inv, RowsOK, Unknown, ReqOK, RestOK, Informed, HasAnySignInMethod

LEMMA RestartInv == Inv /\ Restart => Inv'
  <1> SUFFICES ASSUME Inv, Restart PROVE Inv'
    OBVIOUS
  <1>1. ReqOK'
    BY IdleType DEF Restart, ReqOK, Informed
  <1>2. RestOK'
    BY ExploredAssumption DEF Restart, Inv, RestOK
  <1>3. QED
    BY <1>1, <1>2, RowsStay DEF Restart, Inv, RowsOK

-----------------------------------------------------------------------------
(* Every step.                                                             *)

LEMMA BeginInv ==
    ASSUME Inv, NEW r \in Request, Begin(r)
    PROVE  Inv'
  BY SignUpInv, RegisterInv, CreateInv, SignInWithProviderInv, SignInWithDirectoryInv,
     UpdateInv, DeleteInv, SweepInv, LinkInv, UnlinkInv, ChangeSettingsInv DEF Begin

LEMMA ContinueInv ==
    ASSUME Inv, NEW r \in Request, Continue(r)
    PROVE  Inv'
  BY CreateAccountInv, CreateRegisteredInv, CreateLinkInv, InsertInv, UpdateIsAdminInv,
     FindOrCreateFromLDAPInv, ApplyUpdateInv, CountAdminsInv, DeleteRowInv, SweepNextInv,
     FindLinkInv, CountDoorsInv, DropLinkInv, JudgeInv, WriteSettingInv DEF Continue

LEMMA StutterInv == Inv /\ UNCHANGED vars => Inv'
  BY DEF vars, rows, Inv, RowsOK, Unknown, ReqOK, RestOK, Informed, HasAnySignInMethod

LEMMA NextInv == Inv /\ [Next]_vars => Inv'
  BY BeginInv, ContinueInv, ActivateInv, RestartInv, StutterInv DEF Next

LEMMA Invariance == Spec => []Inv
  BY InitInv, NextInv, PTL DEF Spec

\* Every state a server reaches has the shape the tables and the requests
\* are given.
THEOREM AccountTypes == Spec => []TypeOK
  BY Invariance, InvTypes, PTL

-----------------------------------------------------------------------------
(* Who moves.                                                              *)

LEMMA BeginRows ==
    ASSUME NEW r \in Request, Begin(r)
    PROVE  UNCHANGED rows /\ At(r, "idle") /\ \E q : req' = [req EXCEPT ![r] = q]
  BY DEF Begin, SignUp, Register, Create, SignInWithProvider, SignInWithDirectory, Update,
         Delete, Sweep, Link, Unlink, ChangeSettings, Asks, At

LEMMA ContinueOne ==
    ASSUME NEW r \in Request, Continue(r)
    PROVE  \E q : req' = [req EXCEPT ![r] = q]
  BY DEF Continue, CreateAccount, CreateRegistered, CreateLink, Insert, UpdateIsAdmin,
         FindOrCreateFromLDAP, ApplyUpdate, CountAdmins, DeleteRow, SweepNext, FindLink,
         CountDoors, DropLink, Judge, WriteSetting, Refused, End, GoTo

LEMMA Mover ==
    ASSUME Inv, NEW r \in Request, [Next]_vars, req'[r] # req[r]
    PROVE  Begin(r) \/ Continue(r) \/ Restart
  <1>1. ASSUME NEW s \in Request, s # r, Begin(s) \/ Continue(s)
        PROVE  FALSE
    <2>1. PICK q : req' = [req EXCEPT ![s] = q]
      BY <1>1, BeginRows, ContinueOne
    <2>2. QED
      BY <1>1, <2>1 DEF Inv, ReqOK
  <1>2. CASE UNCHANGED vars
    BY <1>2 DEF vars
  <1>3. CASE \E u \in User : Activate(u)
    BY <1>3 DEF Activate
  <1>4. QED
    BY <1>1, <1>2, <1>3 DEF Next

LEMMA Ended ==
    ASSUME Inv, NEW r \in Request, End(r), req[r].pc # "idle"
    PROVE  req'[r] # req[r]
  BY IdleType DEF End, Inv, ReqOK

LEMMA Went ==
    ASSUME Inv, NEW r \in Request, NEW pc, GoTo(r, pc), req[r].pc # pc
    PROVE  req'[r] # req[r]
  <1>1. req[r] \in Records
    BY DEF Inv, ReqOK
  <1>2. req'[r].pc = pc
    BY <1>1 DEF GoTo, Inv, ReqOK, Records
  <1>3. QED
    BY <1>2

-----------------------------------------------------------------------------
(* An administrator remains.                                               *)

Spared == \E r \in Request : Unaware(r) \/ Imposed(r) \/ Late(r)

\* What the rows may not come to.
Orphaned == present' # {} /\ (present = {} \/ admins # {}) /\ admins' = {}

LEMMA RowsKeep ==
    ASSUME UNCHANGED <<present, admins>>
    PROVE  ~Orphaned
  BY DEF Orphaned

LEMMA CreateAccountKeeps ==
    ASSUME Inv, NEW r \in Request, CreateAccount(r), Orphaned
    PROVE  Spared
  <1>1. ~Refused(r)
    BY RowsKeep DEF Refused, rows
  <1>2. End(r) /\ req[r].pc = "signUp" /\ admins' = Add(admins, req[r].user, req[r].seen)
    BY <1>1 DEF CreateAccount, At
  <1>3. ~req[r].seen /\ present = {}
    BY <1>2 DEF Orphaned, Add
  <1>4. Late(r)
    BY <1>2, <1>3, Ended DEF Late, Moves, At
  <1>5. QED
    BY <1>4 DEF Spared

LEMMA CreateRegisteredKeeps ==
    ASSUME Inv, NEW r \in Request, CreateRegistered(r), Orphaned
    PROVE  Spared
  <1>1. ~Refused(r)
    BY RowsKeep DEF Refused, rows
  <1>2. GoTo(r, "linkRow") /\ req[r].pc = "register"
    BY <1>1 DEF CreateRegistered, At
  <1>3. Imposed(r)
    BY <1>2, Went DEF Imposed, Moves, At
  <1>4. QED
    BY <1>3 DEF Spared

LEMMA InsertKeeps ==
    ASSUME Inv, NEW r \in Request, Insert(r), Orphaned
    PROVE  Spared
  <1>1. ~Refused(r)
    BY RowsKeep DEF Refused, rows
  <1>2. End(r) /\ req[r].pc = "insert" /\ admins' = Add(admins, req[r].user, req[r].want = "yes")
    BY <1>1 DEF Insert, At
  <1>3. present = {}
    BY <1>2 DEF Orphaned, Add
  <1>4. Late(r)
    BY <1>2, <1>3, Ended DEF Late, Moves, At
  <1>5. QED
    BY <1>4 DEF Spared

LEMMA ImposedKeeps ==
    ASSUME Inv, NEW r \in Request, UpdateIsAdmin(r) \/ FindOrCreateFromLDAP(r)
    PROVE  Spared
  <1>1. End(r) /\ req[r].pc \in {"role", "upsert"}
    BY DEF UpdateIsAdmin, FindOrCreateFromLDAP, At
  <1>2. Imposed(r)
    BY <1>1, Ended DEF Imposed, Moves, At
  <1>3. QED
    BY <1>2 DEF Spared

LEMMA ApplyUpdateKeeps ==
    ASSUME Inv, NEW r \in Request, ApplyUpdate(r)
    PROVE  ~Orphaned
  <1> SUFFICES ASSUME Orphaned PROVE FALSE
    OBVIOUS
  <1>1. /\ req[r].user \in present /\ present' = present
        /\ req[r].want = "no" => Others(req[r].user) # {}
        /\ admins' = IF req[r].want \in {"yes", "no"}
                     THEN Put(admins, req[r].user, req[r].want = "yes") ELSE admins
    BY RowsKeep DEF ApplyUpdate, rows
  <1>2. QED
    BY <1>1 DEF Orphaned, Others, Put

LEMMA DeleteRowKeeps ==
    ASSUME Inv, NEW r \in Request, DeleteRow(r), Orphaned
    PROVE  Spared
  <1>1. /\ End(r) /\ req[r].pc = "row"
        /\ req[r].seen => Others(req[r].user) # {}
        /\ admins' = admins \ {req[r].user}
    BY RowsKeep DEF DeleteRow, DropAccount, At, rows
  <1>2. ~req[r].seen
    BY <1>1 DEF Orphaned, Others
  <1>3. Unaware(r)
    BY <1>1, <1>2, Ended DEF Unaware, Moves, At
  <1>4. QED
    BY <1>3 DEF Spared

LEMMA SweepNextKeeps ==
    ASSUME Inv, NEW r \in Request, SweepNext(r)
    PROVE  Spared
  <1>1. req[r].pc = "sweep" /\ req[r] \in Records
    BY Held DEF SweepNext, At
  <1>2. req'[r] # req[r]
    <2>1. CASE End(r)
      BY <1>1, <2>1, Ended
    <2>2. CASE ~End(r)
      <3>1. PICK u \in req[r].list : req' = [req EXCEPT ![r].list = @ \ {u}]
        BY <2>2 DEF SweepNext
      <3>2. req'[r].list = req[r].list \ {u}
        BY <1>1, <3>1 DEF Inv, ReqOK, Records
      <3>3. QED
        BY <3>2
    <2>3. QED
      BY <2>1, <2>2
  <1>3. Unaware(r)
    BY <1>1, <1>2 DEF Unaware, Moves, At
  <1>4. QED
    BY <1>3 DEF Spared

LEMMA RemainsStep == Inv /\ [Next]_vars /\ Orphaned => Spared
  <1> SUFFICES ASSUME Inv, [Next]_vars, Orphaned PROVE Spared
    OBVIOUS
  <1>1. ASSUME NEW r \in Request, Begin(r) PROVE Spared
    BY <1>1, BeginRows, RowsKeep DEF rows
  <1>2. ASSUME NEW r \in Request, Continue(r) PROVE Spared
    <2>1. CASE CreateLink(r) \/ DropLink(r)
      BY <2>1, RowsKeep DEF CreateLink, DropLink
    <2>2. CASE CountAdmins(r) \/ FindLink(r) \/ CountDoors(r) \/ Judge(r) \/ WriteSetting(r)
      BY <2>2, RowsKeep DEF CountAdmins, FindLink, CountDoors, Judge, WriteSetting, rows
    <2>3. QED
      BY <1>2, <2>1, <2>2, CreateAccountKeeps, CreateRegisteredKeeps, InsertKeeps,
         ImposedKeeps, ApplyUpdateKeeps, DeleteRowKeeps, SweepNextKeeps DEF Continue
  <1>3. CASE (\E u \in User : Activate(u)) \/ Restart \/ UNCHANGED vars
    BY <1>3, RowsKeep DEF Activate, Restart, vars, rows
  <1>4. QED
    BY <1>1, <1>2, <1>3 DEF Next

\* Whatever the requests of an instance do to each other, the only steps that
\* leave accounts and no administrator are those AdministratorRemains names.
THEOREM AnAdministratorRemains == Spec => AdministratorRemains
  <1>1. Inv /\ [Next]_vars =>
          [present' # {} /\ (present = {} \/ admins # {}) =>
             admins' # {} \/ \E r \in Request : Unaware(r) \/ Imposed(r) \/ Late(r)]_vars
    BY RemainsStep DEF Orphaned, Spared
  <1>2. QED
    BY <1>1, Invariance, PTL DEF Spec, AdministratorRemains

-----------------------------------------------------------------------------
(* A way in.                                                               *)

\* A password that counts, of an account the directory does not know, is one
\* that somebody knows.
LEMMA FormIsKnown ==
    ASSUME Inv, NEW u, u \notin ldap, Form(u)
    PROVE  u \in known
  BY DEF Form, Inv, Unknown

LEMMA AtDrop ==
    ASSUME Inv, NEW r \in Request, [Next]_vars, Moves(r, "drop")
    PROVE  DropLink(r) \/ UNCHANGED <<rows, settings>>
  <1>1. Begin(r) \/ Continue(r) \/ Restart
    BY Mover DEF Moves
  <1>2. ~Begin(r)
    BY DEF Begin, SignUp, Delete, Create, Update, Link, Unlink, Register, SignInWithProvider,
       SignInWithDirectory, Sweep, ChangeSettings, Asks, Moves, At
  <1>3. Restart => UNCHANGED <<rows, settings>>
    BY DEF Restart
  <1>4. QED
    BY <1>1, <1>2, <1>3 DEF Continue, CreateAccount, CreateRegistered, CreateLink, Insert,
       UpdateIsAdmin, FindOrCreateFromLDAP, ApplyUpdate, CountAdmins, DeleteRow, SweepNext,
       FindLink, CountDoors, Judge, WriteSetting, Moves, At

\* The refusal left a door, which is not the link that goes: it is open still, or
\* others have closed it.
LEMMA DoorStep ==
    ASSUME Inv, [Next]_vars, NEW r \in Request, NEW u \in active \ ldap,
           Moves(r, "drop"), req[r].user = u, CanSignIn(u)
    PROVE  CanSignIn(u)' \/ OvertakenByOthers(r)
  <1>1. CASE UNCHANGED <<rows, settings>>
    BY <1>1 DEF rows, CanSignIn, LinksOf
  <1>2. CASE DropLink(r)
    <2>1. /\ links' = links \ {<<u, req[r].provider>>}
          /\ UNCHANGED <<known, active, ldap, settings>>
      BY <1>2 DEF DropLink
    <2>2. req[r].provider \notin req[r].doors /\ (req[r].seen \/ req[r].doors # {})
      BY Held DEF Informed, Moves, At
    <2>3. CASE Form(u) /\ ~settings["disablePassword"]
      BY <2>1, <2>3, FormIsKnown DEF CanSignIn
    <2>4. ASSUME NEW p \in req[r].doors \cap LinksOf(u), settings[p]
          PROVE  CanSignIn(u)'
      <3>1. p \in LinksOf(u)'
        BY <2>1, <2>2 DEF LinksOf
      <3>2. QED
        BY <2>1, <2>4, <3>1 DEF CanSignIn
    <2>5. QED
      BY <2>2, <2>3, <2>4 DEF OvertakenByOthers
  <1>3. QED
    BY <1>1, <1>2, AtDrop

\* Nobody unlinks the last way back into their account, unless others closed every
\* door it was counted on (oauth.service.ts:155).
THEOREM UnlinkingKeepsADoor == Spec => UnlinkKeepsADoor
  <1>1. Inv /\ [Next]_vars =>
          [\A r \in Request, u \in active \ ldap :
             Moves(r, "drop") /\ req[r].user = u /\ CanSignIn(u)
             => CanSignIn(u)' \/ OvertakenByOthers(r)]_vars
    BY DoorStep
  <1>2. QED
    BY <1>1, Invariance, PTL DEF Spec, UnlinkKeepsADoor

LEMMA SettingsStep ==
    ASSUME Inv, [Next]_vars, NEW r \in Request,
           Moves(r, "write"), settings' = req[r].plan, req[r].view = AdminView,
           admins # {}, admins \subseteq active \ ldap
    PROVE  \E a \in admins : CanSignIn(a)'
  <1>1. UNCHANGED rows
    <2>1. Begin(r) \/ Continue(r) \/ Restart
      BY Mover DEF Moves
    <2>2. QED
      BY <2>1, BeginRows DEF Continue, CreateAccount, CreateRegistered, CreateLink, Insert,
         UpdateIsAdmin, FindOrCreateFromLDAP, ApplyUpdate, CountAdmins, DeleteRow, SweepNext,
         FindLink, CountDoors, DropLink, Judge, WriteSetting, Restart, Moves, At
  <1>2. \E v \in req[r].view : HasAnySignInMethod(v[2], v[3], req[r].plan)
    <2>1. req[r].view # {}
      BY DEF AdminView
    <2>2. QED
      BY <2>1, Held DEF Informed, Moves, At
  <1>3. PICK a \in admins : HasAnySignInMethod(Form(a), LinksOf(a), settings')
    BY <1>2 DEF AdminView
  <1>4. CanSignIn(a)'
    <2>1. LinksOf(a)' = LinksOf(a) /\ known' = known /\ active' = active /\ a \in active \ ldap
      BY <1>1 DEF LinksOf, rows
    <2>2. QED
      BY <1>3, <2>1, FormIsKnown DEF CanSignIn, HasAnySignInMethod
  <1>5. QED
    BY <1>4

\* A batch of settings, once written as it was judged, leaves an
\* administrator a way in.
THEOREM SettingsKeepTheDoor == Spec => SettingsKeepADoor
  <1>1. Inv /\ [Next]_vars =>
          [\A r \in Request :
             /\ Moves(r, "write") /\ req'[r].pc = "idle" /\ settings' = req[r].plan
             /\ req[r].view = AdminView /\ admins # {} /\ admins \subseteq active \ ldap
             => \E a \in admins : CanSignIn(a)']_vars
    <2> SUFFICES ASSUME Inv, [Next]_vars, NEW r \in Request,
                        Moves(r, "write"), settings' = req[r].plan, req[r].view = AdminView,
                        admins # {}, admins \subseteq active \ ldap
                 PROVE  \E a \in admins : CanSignIn(a)'
      OBVIOUS
    <2>1. QED
      BY SettingsStep
  <1>2. QED
    BY <1>1, Invariance, PTL DEF Spec, SettingsKeepADoor
=============================================================================
