------------------------------- MODULE Accounts -------------------------------
(***************************************************************************)
(* The accounts of an instance and the doors they come in by               *)
(* (user/user.service.ts, auth/auth.service.ts, oauth/oauth.service.ts,    *)
(* config/config.service.ts, jobs/jobs.service.ts), under concurrent       *)
(* requests.                                                               *)
(*                                                                         *)
(* Two things may not be lost: an administrator, and an administrator's    *)
(* way to sign in.  Every operation that could lose one looks first and    *)
(* acts later; only some look again when they act.                         *)
(*                                                                         *)
(* A step is what a request does between two awaits, a transaction being   *)
(* one step.  A user stands for the id of a row, which is never given      *)
(* twice; e-mail addresses and names are left out: a request that meets    *)
(* one in use is refused.  Sessions and passwords are in Credentials.      *)
(***************************************************************************)
EXTENDS Naturals, FiniteSets

CONSTANTS
    User,         \* ids of User rows
    NoUser,
    Established,  \* the accounts of an instance that is in use
    Provider,     \* OAuth providers that are configured
    NoProvider,
    Request,      \* requests the process works on at a time
    Explored,     \* the sets of operations that are explored together
    Batches,      \* the sets of settings an administrator saves at once
    Starts,       \* bound: the settings and the links each is explored from
    MaxAsked,     \* bound: the requests of a history
    MaxRestarts

Operation == {"signUp", "register", "provider", "directory", "create", "update", "delete",
              "sweep", "link", "unlink", "settings"}

\* oauth.disablePassword, ldap.enabled and oauth.<provider>-enabled.
Key == {"disablePassword", "ldap"} \cup Provider
Settings == [Key -> BOOLEAN]

ASSUME UserAssumption == Established \subseteq User /\ NoUser \notin User
ASSUME ProviderAssumption ==
    NoProvider \notin Provider /\ {"disablePassword", "ldap"} \cap Provider = {}
ASSUME ExploredAssumption ==
    /\ Explored \subseteq SUBSET Operation
    /\ Batches \subseteq (SUBSET Key) \ {{}}
    /\ Starts \in [Explored -> SUBSET [settings : Settings, links : SUBSET (User \X Provider)]]
    /\ MaxAsked \in [Explored -> Nat] /\ MaxRestarts \in Nat

VARIABLES
    ops,       \* the operations of this history
    present,   \* the rows of the User table,
    admins,    \* those with isAdmin,
    active,    \* with isActivated,
    local,     \* with a password,
    known,     \* with a password somebody knows,
    ldap,      \* with an ldapDN
    links,     \* OAuthUser rows: an account and a provider
    settings,  \* the settings that open and close doors
    given,     \* ids given so far
    req,       \* the requests under way
    asked, restarts

rows == <<present, admins, active, local, known, ldap, links>>
vars == <<ops, rows, settings, given, req, asked, restarts>>

Points == {"idle", "signUp", "register", "linkRow", "role", "upsert", "insert", "update",
           "count", "row", "sweep", "find", "others", "drop", "judge", "write"}

Records == [pc : Points, user : User \cup {NoUser}, provider : Provider \cup {NoProvider},
            want : {"yes", "no", "unsaid", "password", "passwordless"}, seen : BOOLEAN,
            doors : SUBSET Provider, list : SUBSET User, plan : Settings, todo : SUBSET Key,
            view : SUBSET (User \X BOOLEAN \X SUBSET Provider)]

Idle == [pc |-> "idle", user |-> NoUser, provider |-> NoProvider, want |-> "unsaid",
         seen |-> FALSE, doors |-> {}, list |-> {}, plan |-> [k \in Key |-> FALSE],
         todo |-> {}, view |-> {}]

TypeOK ==
    /\ ops \in Explored
    /\ present \subseteq User /\ given \subseteq User
    /\ admins \cup active \cup local \cup ldap \subseteq present
    /\ known \subseteq local
    /\ links \subseteq present \X Provider
    /\ settings \in Settings
    /\ req \in [Request -> Records]
    /\ asked \in 0..MaxAsked[ops]
    /\ restarts \in 0..MaxRestarts

\* An instance nobody has signed up to yet, or one in use: it has an
\* administrator, an account of the directory has a password nobody knows,
\* and one that is not activated has just signed up.
Init ==
    /\ ops \in Explored
    /\ present \in {{}, Established}
    /\ admins \in SUBSET present /\ (present = {} \/ admins # {})
    /\ active \in SUBSET present /\ admins \subseteq active
    /\ ldap \in SUBSET active
    /\ known \in SUBSET (present \ ldap) /\ present \ active \subseteq known
    /\ local = known \cup ldap
    /\ \E start \in Starts[ops] :
         /\ links = start.links \cap (present \X Provider)
         /\ settings = start.settings
    /\ given = present
    /\ req = [r \in Request |-> Idle]
    /\ asked = 0
    /\ restarts = 0

Put(S, u, in) == IF in THEN S \cup {u} ELSE S \ {u}
Add(S, u, in) == IF in THEN S \cup {u} ELSE S

Asks(r, op) ==
    /\ op \in ops
    /\ req[r].pc = "idle"
    /\ asked < MaxAsked[ops]
    /\ asked' = asked + 1

At(r, pc)   == req[r].pc = pc
GoTo(r, pc) == req' = [req EXCEPT ![r].pc = pc]
End(r)      == req' = [req EXCEPT ![r] = Idle]

\* What a refusal leaves: everything but the request.
Refused(r) == End(r) /\ UNCHANGED <<rows, given>>

\* prisma.user.delete: the links of the account go with it.
DropAccount(u) ==
    /\ present' = present \ {u} /\ admins' = admins \ {u} /\ active' = active \ {u}
    /\ local' = local \ {u} /\ known' = known \ {u} /\ ldap' = ldap \ {u}
    /\ links' = {l \in links : l[1] # u}

-----------------------------------------------------------------------------
(* The rule, and the doors it is about.                                    *)

\* hasAnySignInMethod.
HasAnySignInMethod(form, linked, s) ==
    \/ ~s["disablePassword"] /\ form
    \/ \E p \in linked : s[p]

LinksOf(u) == {p \in Provider : <<u, p>> \in links}
Form(u)    == u \in local \cup ldap

\* What signIn and the provider routes let in.
CanSignIn(u) ==
    \/ u \in known \cap active /\ ~settings["disablePassword"]
    \/ u \in ldap /\ settings["ldap"]
    \/ \E p \in LinksOf(u) : settings[p]

-----------------------------------------------------------------------------
(* New accounts.                                                           *)

\* AuthService.signUp counts the accounts ...
SignUp(r, u) ==
    /\ Asks(r, "signUp")
    /\ u \in User \ given /\ given' = given \cup {u}
    /\ req' = [req EXCEPT ![r] = [Idle EXCEPT !.pc = "signUp", !.user = u,
                                              !.seen = (present = {})]]
    /\ UNCHANGED <<ops, rows, settings, restarts>>

\* ... and makes the first an administrator.
CreateAccount(r) ==
    LET u == req[r].user IN
    /\ At(r, "signUp")
    /\ \/ Refused(r)
       \/ /\ present' = present \cup {u}
          /\ admins' = Add(admins, u, req[r].seen)
          /\ \E verified \in BOOLEAN : active' = Add(active, u, req[r].seen \/ ~verified)
          /\ local' = local \cup {u} /\ known' = known \cup {u}
          /\ End(r)
          /\ UNCHANGED <<ldap, links, given>>
    /\ UNCHANGED <<ops, settings, asked, restarts>>

\* OAuthService.signUp goes the same way, without a password; the provider
\* may say who is an administrator.
Register(r, u, p, want) ==
    /\ Asks(r, "register")
    /\ settings[p]
    /\ u \in User \ given /\ given' = given \cup {u}
    /\ req' = [req EXCEPT ![r] = [Idle EXCEPT !.pc = "register", !.user = u, !.provider = p,
                                              !.want = want, !.seen = (present = {})]]
    /\ UNCHANGED <<ops, rows, settings, restarts>>

CreateRegistered(r) ==
    LET u == req[r].user
        want == req[r].want
    IN
    /\ At(r, "register")
    /\ \/ Refused(r)
       \/ /\ present' = present \cup {u}
          /\ admins' = Add(admins, u, want = "yes" \/ (want = "unsaid" /\ req[r].seen))
          /\ active' = active \cup {u}
          /\ GoTo(r, "linkRow")
          /\ UNCHANGED <<local, known, ldap, links, given>>
    /\ UNCHANGED <<ops, settings, asked, restarts>>

\* A slip: the row does not need its account.
CreateLinkAnyway(r) ==
    /\ At(r, "linkRow")
    /\ links' = links \cup {<<req[r].user, req[r].provider>>}
    /\ End(r)
    /\ UNCHANGED <<ops, present, admins, active, local, known, ldap, settings, given, asked, restarts>>

\* The OAuthUser row, of a new account or of one that links a provider.
CreateLink(r) ==
    LET u == req[r].user IN
    /\ At(r, "linkRow")
    /\ links' = IF u \in present THEN links \cup {<<u, req[r].provider>>} ELSE links
    /\ End(r)
    /\ UNCHANGED <<ops, present, admins, active, local, known, ldap, settings, given, asked, restarts>>

\* UserSevice.create, for an administrator; a password that is not given is
\* mailed.
Create(r, u, want) ==
    /\ Asks(r, "create")
    /\ admins # {}
    /\ u \in User \ given /\ given' = given \cup {u}
    /\ req' = [req EXCEPT ![r] = [Idle EXCEPT !.pc = "insert", !.user = u, !.want = want]]
    /\ UNCHANGED <<ops, rows, settings, restarts>>

Insert(r) ==
    LET u == req[r].user IN
    /\ At(r, "insert")
    /\ \/ Refused(r)
       \/ /\ present' = present \cup {u}
          /\ admins' = Add(admins, u, req[r].want = "yes")
          /\ active' = active \cup {u}
          /\ local' = local \cup {u} /\ known' = known \cup {u}
          /\ End(r)
          /\ UNCHANGED <<ldap, links, given>>
    /\ UNCHANGED <<ops, settings, asked, restarts>>

\* verifyAccount and verifyAccountByCode, given the code.
Activate(u) ==
    /\ u \in present \ active
    /\ active' = active \cup {u}
    /\ UNCHANGED <<ops, present, admins, local, known, ldap, links, settings, given, req,
                   asked, restarts>>

-----------------------------------------------------------------------------
(* Sign-ins that set the role.                                             *)

\* OAuthService.signIn finds the link, updateIsAdmin writes what the
\* provider said.
SignInWithProvider(r, u, p, want) ==
    /\ Asks(r, "provider")
    /\ settings[p]
    /\ <<u, p>> \in links
    /\ req' = [req EXCEPT ![r] = [Idle EXCEPT !.pc = "role", !.user = u, !.want = want]]
    /\ UNCHANGED <<ops, rows, settings, given, restarts>>

UpdateIsAdmin(r) ==
    LET u == req[r].user IN
    /\ At(r, "role")
    /\ admins' = IF u \notin present \/ req[r].want = "unsaid" THEN admins
                 ELSE Put(admins, u, req[r].want = "yes")
    /\ End(r)
    /\ UNCHANGED <<ops, present, active, local, known, ldap, links, settings, given, asked, restarts>>

\* The directory has let the user in ...
SignInWithDirectory(r, u, want) ==
    /\ Asks(r, "directory")
    /\ settings["ldap"]
    /\ u \in ldap \cup {NoUser}
    /\ req' = [req EXCEPT ![r] = [Idle EXCEPT !.pc = "upsert", !.user = u, !.want = want]]
    /\ UNCHANGED <<ops, rows, settings, given, restarts>>

\* ... and findOrCreateFromLDAP updates or makes the account, whose password
\* nobody is told.
FindOrCreateFromLDAP(r) ==
    LET u == req[r].user
        role == req[r].want = "yes"
    IN
    /\ At(r, "upsert")
    /\ IF u \in ldap
       THEN /\ admins' = Put(admins, u, role)
            /\ UNCHANGED <<present, active, local, known, ldap, given>>
       ELSE \E v \in User \ given :
            /\ given' = given \cup {v}
            /\ present' = present \cup {v}
            /\ admins' = Add(admins, v, role)
            /\ active' = active \cup {v} /\ local' = local \cup {v} /\ ldap' = ldap \cup {v}
            /\ UNCHANGED known
    /\ End(r)
    /\ UNCHANGED <<ops, links, settings, asked, restarts>>

-----------------------------------------------------------------------------
(* Changing and deleting accounts.                                         *)

\* The guard of the route has seen an administrator.
Update(r, u, want) ==
    /\ Asks(r, "update")
    /\ admins # {}
    /\ req' = [req EXCEPT ![r] = [Idle EXCEPT !.pc = "update", !.user = u, !.want = want]]
    /\ UNCHANGED <<ops, rows, settings, given, restarts>>

Others(u) == admins \ {u}

\* UserSevice.update: the count and the write share one transaction.
ApplyUpdate(r) ==
    LET u == req[r].user
        want == req[r].want
    IN
    /\ At(r, "update")
    /\ IF u \notin present \/ (want = "no" /\ Others(u) = {})
       THEN UNCHANGED rows
       ELSE /\ admins' = IF want \in {"yes", "no"} THEN Put(admins, u, want = "yes") ELSE admins
            /\ local' = CASE want = "password" -> local \cup {u}
                          [] want = "passwordless" -> local \ {u}
                          [] OTHER -> local
            /\ known' = CASE want = "password" -> known \cup {u}
                          [] want = "passwordless" -> known \ {u}
                          [] OTHER -> known
            /\ UNCHANGED <<present, active, ldap, links>>
    /\ End(r)
    /\ UNCHANGED <<ops, settings, given, asked, restarts>>

\* UserSevice.delete reads the account, its role included, ...
Delete(r, u) ==
    /\ Asks(r, "delete")
    /\ u \in present
    /\ req' = [req EXCEPT ![r] = [Idle EXCEPT !.pc = "count", !.user = u,
                                              !.seen = (u \in admins)]]
    /\ UNCHANGED <<ops, rows, settings, given, restarts>>

\* ... counts the other administrators, removes the files ...
CountAdmins(r) ==
    /\ At(r, "count")
    /\ IF req[r].seen /\ Others(req[r].user) = {} THEN End(r) ELSE GoTo(r, "row")
    /\ UNCHANGED <<ops, rows, settings, given, asked, restarts>>

\* A slip: the count before the files is thought to be enough.
DeleteRowUnchecked(r) ==
    LET u == req[r].user IN
    /\ At(r, "row")
    /\ IF u \notin present THEN UNCHANGED rows ELSE DropAccount(u)
    /\ End(r)
    /\ UNCHANGED <<ops, settings, given, asked, restarts>>

\* ... and counts again in the transaction that deletes the row, if it was
\* an administrator's when it was read.
DeleteRow(r) ==
    LET u == req[r].user IN
    /\ At(r, "row")
    /\ IF u \notin present \/ (req[r].seen /\ Others(u) = {})
       THEN UNCHANGED rows
       ELSE DropAccount(u)
    /\ End(r)
    /\ UNCHANGED <<ops, settings, given, asked, restarts>>

\* deleteUnactivatedUsers: the list is read once ...
Sweep(r, list) ==
    /\ Asks(r, "sweep")
    /\ list \in SUBSET (present \ (active \cup admins)) \ {{}}
    /\ req' = [req EXCEPT ![r] = [Idle EXCEPT !.pc = "sweep", !.list = list]]
    /\ UNCHANGED <<ops, rows, settings, given, restarts>>

\* ... and each of its accounts deleted; one that is gone ends the run.
SweepNext(r) ==
    /\ At(r, "sweep")
    /\ \E u \in req[r].list :
         IF u \in present
         THEN /\ DropAccount(u)
              /\ IF req[r].list = {u} THEN End(r)
                 ELSE req' = [req EXCEPT ![r].list = @ \ {u}]
         ELSE End(r) /\ UNCHANGED rows
    /\ UNCHANGED <<ops, settings, given, asked, restarts>>

-----------------------------------------------------------------------------
(* Opening and closing doors.                                              *)

\* OAuthService.link, for an identity no account is linked to.
Link(r, u, p) ==
    /\ Asks(r, "link")
    /\ settings[p]
    /\ u \in present /\ <<u, p>> \notin links
    /\ req' = [req EXCEPT ![r] = [Idle EXCEPT !.pc = "linkRow", !.user = u, !.provider = p]]
    /\ UNCHANGED <<ops, rows, settings, given, restarts>>

\* OAuthService.unlink is handed the account as the guard has read it, ...
Unlink(r, u, p) ==
    /\ Asks(r, "unlink")
    /\ settings[p]
    /\ u \in present
    /\ req' = [req EXCEPT ![r] = [Idle EXCEPT !.pc = "find", !.user = u, !.provider = p,
                                              !.seen = Form(u)]]
    /\ UNCHANGED <<ops, rows, settings, given, restarts>>

\* ... finds the link, ...
FindLink(r) ==
    /\ At(r, "find")
    /\ IF <<req[r].user, req[r].provider>> \in links THEN GoTo(r, "others") ELSE End(r)
    /\ UNCHANGED <<ops, rows, settings, given, asked, restarts>>

\* What it goes on with: the doors that were open when they were counted.
Counting(q, linked) ==
    [q EXCEPT !.pc = "drop",
              !.seen = @ /\ ~settings["disablePassword"],
              !.doors = {p \in linked : settings[p]}]

\* A slip: the link that goes is counted too.
CountDoorsAll(r) ==
    LET linked == LinksOf(req[r].user) IN
    /\ At(r, "others")
    /\ IF HasAnySignInMethod(req[r].seen, linked, settings)
       THEN req' = [req EXCEPT ![r] = Counting(@, linked)]
       ELSE End(r)
    /\ UNCHANGED <<ops, rows, settings, given, asked, restarts>>

\* ... counts the doors that will be left, and refuses when none is open ...
CountDoors(r) ==
    LET linked == LinksOf(req[r].user) \ {req[r].provider} IN
    /\ At(r, "others")
    /\ IF HasAnySignInMethod(req[r].seen, linked, settings)
       THEN req' = [req EXCEPT ![r] = Counting(@, linked)]
       ELSE End(r)
    /\ UNCHANGED <<ops, rows, settings, given, asked, restarts>>

\* ... and deletes the row.
DropLink(r) ==
    /\ At(r, "drop")
    /\ links' = links \ {<<req[r].user, req[r].provider>>}
    /\ End(r)
    /\ UNCHANGED <<ops, present, admins, active, local, known, ldap, settings, given, asked, restarts>>

\* ConfigService.updateMany: a batch that touches a door is judged before it
\* is written, on the settings as they would become.
ChangeSettings(r, keys, values) ==
    /\ Asks(r, "settings")
    /\ admins # {}
    /\ req' = [req EXCEPT ![r] =
         [Idle EXCEPT !.pc = IF keys \subseteq {"ldap"} THEN "write" ELSE "judge",
                      !.todo = keys,
                      !.plan = [k \in Key |-> IF k \in keys THEN values[k] ELSE settings[k]]]]
    /\ UNCHANGED <<ops, rows, settings, given, restarts>>

\* What is read of the administrators.
AdminView == {<<a, Form(a), LinksOf(a)>> : a \in admins}

\* A slip: the settings as they are, not as they would become.
JudgePresent(r) ==
    /\ At(r, "judge")
    /\ IF AdminView = {} \/ \E a \in AdminView : HasAnySignInMethod(a[2], a[3], settings)
       THEN req' = [req EXCEPT ![r].pc = "write", ![r].view = AdminView]
       ELSE End(r)
    /\ UNCHANGED <<ops, rows, settings, given, asked, restarts>>

\* assertAdminsKeepASignInMethod, once it has read the administrators.
Judge(r) ==
    /\ At(r, "judge")
    /\ IF AdminView = {} \/ \E a \in AdminView : HasAnySignInMethod(a[2], a[3], req[r].plan)
       THEN req' = [req EXCEPT ![r].pc = "write", ![r].view = AdminView]
       ELSE End(r)
    /\ UNCHANGED <<ops, rows, settings, given, asked, restarts>>

\* The settings of the batch are written one by one.
WriteSetting(r) ==
    /\ At(r, "write")
    /\ \E k \in req[r].todo :
         /\ settings' = [settings EXCEPT ![k] = req[r].plan[k]]
         /\ IF req[r].todo = {k} THEN End(r) ELSE req' = [req EXCEPT ![r].todo = @ \ {k}]
    /\ UNCHANGED <<ops, rows, given, asked, restarts>>

\* The process restarts: what its requests had not done is not done.
Restart ==
    /\ restarts < MaxRestarts
    /\ restarts' = restarts + 1
    /\ req' = [r \in Request |-> Idle]
    /\ UNCHANGED <<ops, rows, settings, given, asked>>

-----------------------------------------------------------------------------
Role == {"yes", "no", "unsaid"}

Begin(r) ==
    \/ \E u \in User : \/ SignUp(r, u) \/ Delete(r, u)
                       \/ \E want \in {"yes", "no"} : Create(r, u, want)
                       \/ \E want \in {"yes", "no", "password", "passwordless"} :
                            Update(r, u, want)
    \/ \E u \in User, p \in Provider :
         \/ Link(r, u, p) \/ Unlink(r, u, p)
         \/ \E want \in Role : Register(r, u, p, want) \/ SignInWithProvider(r, u, p, want)
    \/ \E u \in User \cup {NoUser}, want \in {"yes", "no"} : SignInWithDirectory(r, u, want)
    \/ \E list \in SUBSET User : Sweep(r, list)
    \/ \E keys \in Batches : \E values \in [keys -> BOOLEAN] : ChangeSettings(r, keys, values)

Continue(r) ==
    \/ CreateAccount(r) \/ CreateRegistered(r) \/ CreateLink(r) \/ Insert(r)
    \/ UpdateIsAdmin(r) \/ FindOrCreateFromLDAP(r)
    \/ ApplyUpdate(r) \/ CountAdmins(r) \/ DeleteRow(r) \/ SweepNext(r)
    \/ FindLink(r) \/ CountDoors(r) \/ DropLink(r)
    \/ Judge(r) \/ WriteSetting(r)

Next ==
    \/ \E r \in Request : Begin(r) \/ Continue(r)
    \/ \E u \in User : Activate(u)
    \/ Restart

Spec == Init /\ [][Next]_vars

-----------------------------------------------------------------------------
(* Properties                                                              *)

Moves(r, pc) == At(r, pc) /\ req'[r] # req[r]

\* A deletion that does not count: its account was no administrator when it
\* was read.
Unaware(r) == (Moves(r, "row") /\ ~req[r].seen) \/ Moves(r, "sweep")

\* A role that a directory or a provider sets.
Imposed(r) == Moves(r, "role") \/ Moves(r, "upsert") \/ Moves(r, "register")

\* A sign-up that counted an account, or one that an administrator makes,
\* when there is none left.
Late(r) == present = {} /\ ((Moves(r, "signUp") /\ ~req[r].seen) \/ Moves(r, "insert"))

\* "The instance must never be left without an administrator"
\* (user.service.ts:110): the first account is one, and no step of any
\* request, whatever ran in between, takes the last away, but for the sign-in
\* that is told so by a directory, for the deletion of an account that became
\* one after it was read, which no count guards, and for a new account that
\* relies on others that are gone.
AdministratorRemains ==
    [][present' # {} /\ (present = {} \/ admins # {}) =>
         admins' # {} \/ \E r \in Request : Unaware(r) \/ Imposed(r) \/ Late(r)]_vars

\* Doors were open when this unlinking counted them, and others have closed
\* every one of them before it deletes its row.
OvertakenByOthers(r) ==
    LET u == req[r].user IN
    /\ req[r].seen \/ req[r].doors # {}
    /\ ~(req[r].seen /\ Form(u) /\ ~settings["disablePassword"])
    /\ \A p \in req[r].doors \cap LinksOf(u) : ~settings[p]

\* Nobody unlinks the last way back into their account: who could sign in before
\* the link goes can sign in after it, by what the sign-in routes do let through
\* (oauth.service.ts:155).  The links are counted and deleted in two steps: the
\* exception is an unlinking that counted on doors all of which others closed
\* meanwhile, as two that each count on the other's link do.
UnlinkKeepsADoor ==
    [][\A r \in Request, u \in active \ ldap :
         Moves(r, "drop") /\ req[r].user = u /\ CanSignIn(u)
         => CanSignIn(u)' \/ OvertakenByOthers(r)]_vars

\* Once a batch of settings is written, an administrator can sign in: if no
\* other batch was written in between and the administrators are those it
\* was judged on, none of them of the directory
\* (ConfigService.assertAdminsKeepASignInMethod).
SettingsKeepADoor ==
    [][\A r \in Request :
         /\ Moves(r, "write") /\ req'[r].pc = "idle" /\ settings' = req[r].plan
         /\ req[r].view = AdminView /\ admins # {} /\ admins \subseteq active \ ldap
         => \E a \in admins : CanSignIn(a)']_vars
=============================================================================
