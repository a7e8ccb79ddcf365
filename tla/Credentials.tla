----------------------------- MODULE Credentials -----------------------------
(***************************************************************************)
(* One account: its password, its second factor, and the rows that stand   *)
(* for a proof of them (sessions, trusted devices, login tokens, reset     *)
(* tokens), under concurrent sign-ins, password changes and TOTP changes.  *)
(*                                                                         *)
(* withUserCredentialsLock is the guard Free of a queued request: that the *)
(* promise chain of AsyncLock gives it is shown of LockedCredentials.      *)
(* Every other step is one statement.                                      *)
(***************************************************************************)
EXTENDS Integers

CONSTANTS
    Tokens,      \* tokens of every kind: uuids, never issued twice
    NoToken,
    Requests,    \* requests the node process may have in flight at once
    Served,      \* the kinds of request that are made
    MaxVersion,  \* bound on password changes
    MaxCrashes   \* bound on restarts of the process

None == 0                   \* no password: an account without a local one
Versions == 0..MaxVersion   \* the n-th password the account has had

Kinds == {"signIn", "federated", "totp", "trusted", "update", "admin", "reset",
          "requestReset", "enable", "verify", "disable", "resetTotp"}

ASSUME TokenAssumption == NoToken \notin Tokens
ASSUME ServedAssumption == Served \subseteq Kinds
ASSUME VersionAssumption == MaxVersion \in Nat \ {0} /\ MaxCrashes \in Nat

VARIABLES
    password,   \* the current password, or None
    version,    \* how many times the password was set
    secret,     \* totpSecret is not null
    verified,   \* totpVerified
    sessions,   \* RefreshToken rows
    devices,    \* TrustedDevice rows
    logins,     \* LoginToken rows ...
    spent,      \* ... and those of them marked used
    resets,     \* ResetPasswordToken rows
    issued,     \* tokens of any kind issued so far
    request,    \* the requests in flight
    crashes,
    proof,      \* history: the password version a token was issued on
    redeemed,   \* history: sessions issued for a login token
    torn        \* history: a restart cut a change off before its last delete

vars == <<password, version, secret, verified, sessions, devices, logins, spent, resets,
          issued, request, crashes, proof, redeemed, torn>>

account == <<password, version, secret, verified>>
tokens  == <<sessions, devices, logins, spent, resets, issued, proof, redeemed>>

-----------------------------------------------------------------------------
\* Phases a request holds the user's lock in (a federated sign-in never does).
LockedPhases == {"issue", "session", "redeem", "commit", "wipeSessions", "wipeDevices",
                 "wipeLogins"}

\* A change whose deletes are not all done.
WipePhases == {"wipeSessions", "wipeDevices", "wipeLogins"}

Phases == LockedPhases \cup {"idle", "queued", "hash", "replace", "store", "confirm", "forget",
                             "clear", "drop"}

Records == [kind : Kinds, phase : Phases, token : Tokens \cup {NoToken}, proof : Versions,
            remember : BOOLEAN, gated : BOOLEAN]

Idle == [kind |-> "signIn", phase |-> "idle", token |-> NoToken, proof |-> None,
         remember |-> FALSE, gated |-> FALSE]

TypeOK ==
    /\ password \in Versions
    /\ version \in Versions
    /\ secret \in BOOLEAN
    /\ verified \in BOOLEAN
    /\ sessions \subseteq Tokens
    /\ devices \subseteq Tokens
    /\ logins \subseteq Tokens
    /\ spent \subseteq Tokens
    /\ resets \subseteq Tokens
    /\ issued \subseteq Tokens
    /\ request \in [Requests -> Records]
    /\ crashes \in 0..MaxCrashes
    /\ proof \in [Tokens -> Versions]
    /\ redeemed \in [Tokens -> Nat]
    /\ torn \in BOOLEAN

\* An account that has signed up with its first password.
Init ==
    /\ password = 1
    /\ version = 1
    /\ secret = FALSE
    /\ verified = FALSE
    /\ sessions = {} /\ devices = {} /\ logins = {} /\ spent = {} /\ resets = {} /\ issued = {}
    /\ request = [r \in Requests |-> Idle]
    /\ crashes = 0
    /\ proof = [t \in Tokens |-> None]
    /\ redeemed = [t \in Tokens |-> 0]
    /\ torn = FALSE

\* The lock of this user, as withUserCredentialsLock gives it.
Holds(r) == request[r].phase \in LockedPhases /\ request[r].kind # "federated"
Free == \A r \in Requests : ~Holds(r)

Start(r, kind, phase, t, p, remember) ==
    /\ kind \in Served
    /\ request[r].phase = "idle"
    /\ request' = [request EXCEPT ![r] =
         [kind |-> kind, phase |-> phase, token |-> t, proof |-> p,
          remember |-> remember, gated |-> FALSE]]
    /\ UNCHANGED <<account, tokens, crashes, torn>>

Goto(r, phase) == request' = [request EXCEPT ![r].phase = phase]
End(r) == request' = [request EXCEPT ![r] = Idle]

\* Issuing a token on the strength of the request's proof.
Issue(r, t) ==
    /\ t \notin issued
    /\ issued' = issued \cup {t}
    /\ proof' = [proof EXCEPT ![t] = request[r].proof]

-----------------------------------------------------------------------------
(* Signing in. *)

\* signIn: the unlocked check has let password p through.
SignIn(r, p, remember) ==
    /\ p # None /\ p = password
    /\ Start(r, "signIn", "queued", NoToken, p, remember)

\* signInWithPassword, in the lock: the user is read again, and with it whether
\* a code is required; argon.verify runs on what was read.
VerifyPassword(r) ==
    /\ request[r].kind = "signIn" /\ request[r].phase = "queued"
    /\ IF password = request[r].proof
       THEN request' = [request EXCEPT ![r].phase = "issue", ![r].gated = verified]
       ELSE End(r)
    /\ UNCHANGED <<account, tokens, crashes, torn>>

\* An LDAP or OAuth sign-in: no local password, no lock.  Only LDAP passes
\* rememberDevice on; only OAuth may lift the second factor (oauth.ignoreTotp).
Federated(r, remember, gated) ==
    /\ "federated" \in Served
    /\ request[r].phase = "idle"
    /\ gated = verified \/ (~gated /\ ~remember)
    /\ request' = [request EXCEPT ![r] =
         [kind |-> "federated", phase |-> "issue", token |-> NoToken, proof |-> None,
          remember |-> remember, gated |-> gated]]
    /\ UNCHANGED <<account, tokens, crashes, torn>>

\* generateToken, a code is required: only a login token is issued.
IssueLogin(r, t) ==
    /\ request[r].phase = "issue" /\ request[r].gated
    /\ Issue(r, t)
    /\ logins' = logins \cup {t}
    /\ End(r)
    /\ UNCHANGED <<account, sessions, devices, spent, resets, redeemed, crashes, torn>>

\* setTrustedDeviceCookie, when the browser asked to be remembered.
IssueDevice(r, t) ==
    /\ request[r].phase = "issue" /\ ~request[r].gated /\ request[r].remember
    /\ Issue(r, t)
    /\ devices' = devices \cup {t}
    /\ Goto(r, "session")
    /\ UNCHANGED <<account, sessions, logins, spent, resets, redeemed, crashes, torn>>

\* createRefreshToken: the session itself, and the request's last statement.
IssueSession(r, t) ==
    /\ \/ request[r].phase = "session"
       \/ request[r].phase = "issue" /\ ~request[r].gated /\ ~request[r].remember
    /\ Issue(r, t)
    /\ sessions' = sessions \cup {t}
    /\ redeemed' = IF request[r].kind = "totp"
                   THEN [redeemed EXCEPT ![request[r].token] = @ + 1]
                   ELSE redeemed
    /\ End(r)
    /\ UNCHANGED <<account, devices, logins, spent, resets, crashes, torn>>

\* signInTotp: the login token is looked up only to know whose lock to take.
SignInTotp(r, t, remember) ==
    /\ t \in logins
    /\ Start(r, "totp", "queued", t, None, remember)

\* In the lock the token is read again; a used or missing token, a second factor
\* that is off, or a wrong code or an expired token ends the request.
CheckCode(r) ==
    /\ request[r].kind = "totp" /\ request[r].phase = "queued"
    /\ LET t == request[r].token IN
       \/ /\ t \in logins \ spent /\ secret
          /\ request' = [request EXCEPT ![r].phase = "redeem", ![r].proof = proof[t]]
       \/ End(r)
    /\ UNCHANGED <<account, tokens, crashes, torn>>

\* The token is marked used, unless its row went away: the update then throws.
Redeem(r) ==
    /\ request[r].phase = "redeem"
    /\ IF request[r].token \in logins
       THEN spent' = spent \cup {request[r].token} /\ Goto(r, "issue")
       ELSE UNCHANGED spent /\ End(r)
    /\ UNCHANGED <<account, sessions, devices, logins, resets, issued, proof, redeemed,
                   crashes, torn>>

\* signInTrusted: the device is looked up only to know whose lock to take ...
SignInTrusted(r, t) ==
    /\ t \in devices
    /\ Start(r, "trusted", "queued", t, None, FALSE)

\* A slip: the device read before the lock is trusted inside it.
CheckDeviceStale(r) ==
    /\ request[r].kind = "trusted" /\ request[r].phase = "queued"
    /\ request' = [request EXCEPT ![r].phase = "issue", ![r].proof = proof[request[r].token]]
    /\ UNCHANGED <<account, tokens, crashes, torn>>

\* ... and read again in the lock, with its expiry; generateToken then skips the
\* code.
CheckDevice(r) ==
    /\ request[r].kind = "trusted" /\ request[r].phase = "queued"
    /\ \/ /\ request[r].token \in devices
          /\ request' = [request EXCEPT ![r].phase = "issue",
                                         ![r].proof = proof[request[r].token]]
       \/ End(r)
    /\ UNCHANGED <<account, tokens, crashes, torn>>

-----------------------------------------------------------------------------
(* Changing the password. *)

\* updatePassword, with any password the account has had typed as the old one.
UpdatePassword(r, p) ==
    /\ p <= version
    /\ Start(r, "update", "queued", NoToken, p, FALSE)

\* A slip: the old password is compared with the copy the request came with.
CheckOldPasswordStale(r) ==
    /\ request[r].kind = "update" /\ request[r].phase = "queued"
    /\ Goto(r, "commit")
    /\ UNCHANGED <<account, tokens, crashes, torn>>

\* In the lock: the old password is compared with the one read there, unless the
\* account has none.
CheckOldPassword(r) ==
    /\ request[r].kind = "update" /\ request[r].phase = "queued"
    /\ IF password \in {None, request[r].proof} THEN Goto(r, "commit") ELSE End(r)
    /\ UNCHANGED <<account, tokens, crashes, torn>>

\* UserService.update with a password in it, from the admin console.
AdminUpdate(r) == Start(r, "admin", "queued", NoToken, None, FALSE)

\* requestResetPassword: the user is read with the reset token it has, if any.
RequestResetPassword(r) ==
    \E t \in IF resets = {} THEN {NoToken} ELSE resets :
        Start(r, "requestReset", "replace", t, None, FALSE)

\* A slip: the token read is left in the table.
ReplaceResetTokenKeeping(r, t) ==
    /\ request[r].phase = "replace"
    /\ Issue(r, t)
    /\ resets' = {t, request[r].token}
    /\ End(r)
    /\ UNCHANGED <<account, sessions, devices, logins, spent, redeemed, crashes, torn>>

\* Its transaction: the token read is deleted, a new one made.  It rolls back if
\* that token is gone or the user has got another one meanwhile.
ReplaceResetToken(r, t) ==
    /\ request[r].phase = "replace"
    /\ IF resets = {request[r].token} \ {NoToken}
       THEN /\ Issue(r, t)
            /\ resets' = {t}
       ELSE UNCHANGED <<resets, issued, proof>>
    /\ End(r)
    /\ UNCHANGED <<account, sessions, devices, logins, spent, redeemed, crashes, torn>>

\* resetPassword: a live token names the user; then the new hash is computed.
ResetPassword(r, t) ==
    /\ t \in resets
    /\ Start(r, "reset", "hash", t, None, FALSE)

\* A slip: a reset token that is gone is not missed.
UseResetTokenTolerant(r) ==
    /\ request[r].phase = "hash"
    /\ resets' = resets \ {request[r].token}
    /\ Goto(r, "queued")
    /\ UNCHANGED <<account, sessions, devices, logins, spent, issued, proof, redeemed,
                   crashes, torn>>

\* The token is deleted before the lock is asked for; the delete throws if a
\* concurrent reset used it first.
UseResetToken(r) ==
    /\ request[r].phase = "hash"
    /\ IF request[r].token \in resets
       THEN resets' = resets \ {request[r].token} /\ Goto(r, "queued")
       ELSE UNCHANGED resets /\ End(r)
    /\ UNCHANGED <<account, sessions, devices, logins, spent, issued, proof, redeemed,
                   crashes, torn>>

\* The new hash is written, in the lock.  Only an administrator may write none.
Commit(r) ==
    /\ \/ request[r].phase = "commit"
       \/ request[r].kind \in {"reset", "admin"} /\ request[r].phase = "queued"
    /\ version < MaxVersion
    /\ version' = version + 1
    /\ \/ password' = version + 1
       \/ password' = None /\ request[r].kind = "admin"
    /\ Goto(r, "wipeSessions")
    /\ UNCHANGED <<secret, verified, tokens, crashes, torn>>

\* The three deletes that follow, still in the lock.
WipeSessions(r) ==
    /\ request[r].phase = "wipeSessions"
    /\ sessions' = {}
    /\ Goto(r, "wipeDevices")
    /\ UNCHANGED <<account, devices, logins, spent, resets, issued, proof, redeemed,
                   crashes, torn>>

WipeDevices(r) ==
    /\ request[r].phase = "wipeDevices"
    /\ devices' = {}
    /\ Goto(r, "wipeLogins")
    /\ UNCHANGED <<account, sessions, logins, spent, resets, issued, proof, redeemed,
                   crashes, torn>>

\* Only updatePassword goes on, to a session of its own.
WipeLogins(r) ==
    /\ request[r].phase = "wipeLogins"
    /\ logins' = {}
    /\ torn' = FALSE
    /\ IF request[r].kind = "update"
       THEN request' = [request EXCEPT ![r].phase = "session", ![r].proof = version]
       ELSE End(r)
    /\ UNCHANGED <<account, sessions, devices, spent, resets, issued, proof, redeemed,
                   crashes>>

-----------------------------------------------------------------------------
(* The second factor.  None of it takes the lock. *)

EnableTotp(r) == ~verified /\ Start(r, "enable", "store", NoToken, None, FALSE)

StoreSecret(r) ==
    /\ request[r].phase = "store"
    /\ secret' = TRUE
    /\ End(r)
    /\ UNCHANGED <<password, version, verified, tokens, crashes, torn>>

\* verifyTotp: the secret is read and the code is right for it; t is the trusted
\* device cookie of the browser that asks.
VerifyTotp(r, t) == secret /\ Start(r, "verify", "confirm", t, None, FALSE)

ConfirmTotp(r) ==
    /\ request[r].phase = "confirm"
    /\ verified' = TRUE
    /\ Goto(r, "forget")
    /\ UNCHANGED <<password, version, secret, tokens, crashes, torn>>

\* clearTrustedDeviceCookie: this browser's row, and no other.
ForgetDevice(r) ==
    /\ request[r].phase = "forget"
    /\ devices' = devices \ {request[r].token}
    /\ End(r)
    /\ UNCHANGED <<account, sessions, logins, spent, resets, issued, proof, redeemed,
                   crashes, torn>>

\* disableTotp and resetTotpForUser: the secret is read, then all is cleared.
DisableTotp(r) == secret /\ Start(r, "disable", "clear", NoToken, None, FALSE)
ResetTotpForUser(r) == secret /\ Start(r, "resetTotp", "clear", NoToken, None, FALSE)

ClearTotp(r) ==
    /\ request[r].phase = "clear"
    /\ secret' = FALSE
    /\ verified' = FALSE
    /\ IF request[r].kind = "resetTotp" THEN Goto(r, "drop") ELSE End(r)
    /\ UNCHANGED <<password, version, tokens, crashes, torn>>

\* An administrator's reset also drops the sign-ins that wait for a code.
DropLogins(r) ==
    /\ request[r].phase = "drop"
    /\ logins' = {}
    /\ End(r)
    /\ UNCHANGED <<account, sessions, devices, spent, resets, issued, proof, redeemed,
                   crashes, torn>>

-----------------------------------------------------------------------------
(* Rows that go away on their own. *)

\* signOut, and the jobs that delete expired rows.
DeleteSession(t) ==
    /\ t \in sessions
    /\ sessions' = sessions \ {t}
    /\ UNCHANGED <<account, devices, logins, spent, resets, issued, proof, redeemed,
                   request, crashes, torn>>

DeleteExpired(t) ==
    /\ t \in logins \cup resets \cup devices
    /\ logins' = logins \ {t}
    /\ resets' = resets \ {t}
    /\ devices' = devices \ {t}
    /\ UNCHANGED <<account, sessions, spent, issued, proof, redeemed, request, crashes,
                   torn>>

\* revokeTrustedDevices, from the account page or the admin console.
RevokeTrustedDevices ==
    /\ devices # {}
    /\ devices' = {}
    /\ UNCHANGED <<account, sessions, logins, spent, resets, issued, proof, redeemed,
                   request, crashes, torn>>

\* The process restarts: requests and the locks they hold are gone.
Crash ==
    /\ crashes < MaxCrashes
    /\ crashes' = crashes + 1
    /\ request' = [r \in Requests |-> Idle]
    /\ torn' = (torn \/ \E r \in Requests : request[r].phase \in WipePhases)
    /\ UNCHANGED <<account, tokens>>

Step(r) ==
    \/ \E b \in BOOLEAN :
        \/ \E p \in Versions : SignIn(r, p, b)
        \/ \E g \in BOOLEAN : Federated(r, b, g)
        \/ \E t \in Tokens : SignInTotp(r, t, b)
    \/ \E t \in Tokens :
        \/ IssueLogin(r, t) \/ IssueDevice(r, t) \/ IssueSession(r, t)
        \/ SignInTrusted(r, t) \/ ReplaceResetToken(r, t) \/ ResetPassword(r, t)
    \/ VerifyPassword(r) \/ CheckCode(r) \/ Redeem(r) \/ CheckDevice(r)
    \/ \E p \in Versions : UpdatePassword(r, p)
    \/ CheckOldPassword(r) \/ AdminUpdate(r) \/ RequestResetPassword(r) \/ UseResetToken(r)
    \/ Commit(r) \/ WipeSessions(r) \/ WipeDevices(r) \/ WipeLogins(r)
    \/ EnableTotp(r) \/ StoreSecret(r) \/ ConfirmTotp(r) \/ ForgetDevice(r)
    \/ \E t \in devices \cup {NoToken} : VerifyTotp(r, t)
    \/ DisableTotp(r) \/ ResetTotpForUser(r) \/ ClearTotp(r) \/ DropLogins(r)

\* What is queued for the lock goes on when the lock is free.
Handle(r) == Step(r) /\ (request[r].phase = "queued" => Free)

Delete(t) == DeleteSession(t) \/ DeleteExpired(t)

Next ==
    \/ \E r \in Requests : Handle(r)
    \/ \E t \in Tokens : Delete(t)
    \/ RevokeTrustedDevices
    \/ Crash

Spec == Init /\ [][Next]_vars

-----------------------------------------------------------------------------
(* What must hold. *)

Wiping(phases) == \E r \in Requests : request[r].phase \in phases

\* A proof that no password change has superseded.
Standing(p) == p \in {None, version}

\* No session, trusted device or half-done sign-in outlives the password it was
\* issued on: a change in the lock is still about to delete it, or a restart cut
\* that change off.
NoSupersededAccess ==
    ~torn =>
        /\ \A t \in sessions :
              Standing(proof[t]) \/ Wiping({"wipeSessions"})
        /\ \A t \in devices :
              Standing(proof[t]) \/ Wiping({"wipeSessions", "wipeDevices"})
        /\ \A t \in logins :
              Standing(proof[t]) \/ Wiping(WipePhases)

\* The password a request has verified is still the current one when the request
\* acts on it: no change is undone with a superseded password, and no sign-in
\* ends on one (auth.service.ts, updatePassword and signInWithPassword).
VerifiedIsCurrent ==
    \A r \in Requests :
        /\ request[r].kind = "update" /\ request[r].phase = "commit"
              => password \in {None, request[r].proof}
        /\ request[r].kind = "signIn" /\ request[r].phase \in {"issue", "session"}
              => password = request[r].proof

\* A login token lets at most one sign-in through, however many present it.
RedeemedOnce == \A t \in Tokens : redeemed[t] <= 1

\* A reset token lets at most one reset through: once one is past it, the token
\* is gone and nobody else is past it.
ResetOnce ==
    \A r \in Requests :
        request[r].kind = "reset" /\ request[r].phase \notin {"idle", "hash"} =>
            /\ request[r].token \notin resets
            /\ \A q \in Requests \ {r} :
                  request[q].kind = "reset" /\ request[q].phase \notin {"idle", "hash"}
                      => request[q].token # request[r].token

\* However many requests present a mailed or issued token, it works for one of
\* them: a login token for one sign-in (authTotp.service.ts, signInTotp), a reset
\* token for one reset (auth.service.ts, resetPassword).
TokensWorkOnce == RedeemedOnce /\ ResetOnce

\* Requests that hold the lock do so one at a time.
OneHolder == \A r, q \in Requests : Holds(r) /\ Holds(q) => r = q

\* What a request in flight may be: which kinds reach which phases, on which
\* proof, and with which token.
RequestOK(m) ==
    /\ m.phase \in WipePhases => m.kind \in {"update", "admin", "reset"}
    /\ m.phase = "commit" => m.kind = "update" /\ password \in {None, m.proof}
    /\ m.phase = "redeem" => m.kind = "totp" /\ m.token \notin spent
    /\ m.phase = "hash" => m.kind = "reset"
    /\ m.phase \in {"queued", "hash"} => m.kind # "federated"
    /\ m.phase \in {"redeem", "issue", "session"} => torn \/ Standing(m.proof)
    /\ m.kind = "federated" => m.proof = None
    /\ m.kind \in {"totp", "trusted", "reset"} /\ m.phase # "idle" => m.token \in issued
    /\ m.phase \in {"issue", "session"} =>
          /\ m.kind \notin {"admin", "reset"}
          /\ m.kind = "signIn" => password = m.proof
          /\ m.kind = "totp" => m.token \in spent /\ redeemed[m.token] = 0

RequestsOK == \A r \in Requests : RequestOK(request[r])

\* A row's token has been issued, so no other row gets it; a login token that let
\* a sign-in through stays used.
RowsIssued ==
    /\ sessions \cup devices \cup logins \cup resets \cup spent \subseteq issued
    /\ \A t \in Tokens : redeemed[t] # 0 => t \in spent

\* What a change has deleted under the lock stays deleted until it is done.
WipedStaysWiped ==
    \A r \in Requests :
        /\ request[r].phase \in {"wipeDevices", "wipeLogins"} =>
              \A t \in sessions : Standing(proof[t])
        /\ request[r].phase = "wipeLogins" =>
              \A t \in devices : Standing(proof[t])

\* The inductive invariant.
AccessInv ==
    /\ Standing(password)
    /\ OneHolder
    /\ RequestsOK
    /\ RowsIssued
    /\ NoSupersededAccess
    /\ WipedStaysWiped
    /\ RedeemedOnce
    /\ ResetOnce
=============================================================================
