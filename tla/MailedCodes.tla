------------------------------ MODULE MailedCodes ------------------------------
(***************************************************************************)
(* The six digits that are mailed to an address and prove it when they     *)
(* come back: to change the address of an account (user/user.service.ts),  *)
(* to activate a new one (auth/auth.service.ts), to send without an        *)
(* account (verification/verification.service.ts).                         *)
(*                                                                         *)
(* A step is what a request does between two awaits.  A code is the number *)
(* it was minted with: one that collides with another account's is minted  *)
(* again, and nobody guesses one, so a guess is a code that was mailed or  *)
(* NoCode, a wrong one.                                                    *)
(***************************************************************************)
EXTENDS Naturals, FiniteSets, Sequences

CONSTANTS
    Account,
    Newcomer,     \* the one that has just signed up, with code 1
    Address,
    NoAddress,
    Initially,    \* [Account -> Address], the addresses they have
    Request,      \* requests the process works on at a time
    MaxAttempts,  \* wrong guesses after which a code is refused
    Explored,     \* the sets of operations that are explored together
    MaxAsked,     \* [Explored -> Nat], bound: the requests of a history
    MaxCodes      \* bound: the codes of a history

Operation == {"change", "resend", "confirm", "cancel", "administer",
              "requestCode", "verify", "renew", "activate", "link"}

ASSUME AccountAssumption ==
    /\ Newcomer \in Account /\ NoAddress \notin Address
    /\ Initially \in [Account -> Address]
    /\ \A a, b \in Account : a # b => Initially[a] # Initially[b]
ASSUME BoundAssumption ==
    /\ MaxAttempts \in Nat \ {0} /\ MaxCodes \in Nat \ {0}
    /\ Explored \subseteq SUBSET Operation
    /\ MaxAsked \in [Explored -> Nat]
ASSUME RequestAssumption == IsFiniteSet(Request)

NoCode == 0
Code == 1..MaxCodes

VARIABLES
    ops,         \* the operations of this history
    email,       \* [Account -> Address]
    pending,     \* [Account -> pendingEmail, its token, whether that has not expired,
                 \*  whether it was sent less than a minute ago]
    activation,  \* [Account -> isActivated, activationToken, whether that has not expired,
                 \*  activationAttempts]
    rows,        \* AnonymousShareVerification, in the order of createdAt
    minted,      \* codes generated so far
    mails,       \* what arrived where: an address and a code
    proved,      \* the addresses a visitor holds a cookie for
    req,         \* the requests under way
    limited,     \* [Code -> guesses compared with it where they are limited: by verifyCode
                 \*  and verifyAccountByCode]
    crossed,     \* accounts where a code was sent again over a newer request
    asked

account == <<email, pending, activation>>
vars == <<ops, account, rows, minted, mails, proved, req, limited, crossed, asked>>

NoChange == [address |-> NoAddress, code |-> NoCode, valid |-> FALSE, recent |-> FALSE]

Changes == [address : Address \cup {NoAddress}, code : Code \cup {NoCode},
            valid : BOOLEAN, recent : BOOLEAN]

Activations == [active : BOOLEAN, code : Code \cup {NoCode}, valid : BOOLEAN, attempts : Nat]

Activated == [active |-> TRUE, code |-> NoCode, valid |-> FALSE, attempts |-> 0]

Rows == [address : Address, code : Code, attempts : Nat, consumed : BOOLEAN, valid : BOOLEAN]

Idle == [pc |-> "idle", account |-> Newcomer, address |-> NoAddress, code |-> NoCode,
         row |-> 0, right |-> FALSE]

Records ==
    [pc : {"idle", "taken", "hold", "rewrite", "mail", "stillFree", "apply", "judged",
           "renew", "guessed"},
     account : Account, address : Address \cup {NoAddress}, code : Code \cup {NoCode},
     row : Nat, right : BOOLEAN]

\* The columns, and what the database keeps unique.
TypeOK ==
    /\ ops \in Explored
    /\ email \in [Account -> Address]
    /\ \A a, b \in Account : a # b => email[a] # email[b]
    /\ pending \in [Account -> Changes]
    /\ \A a, b \in Account : a # b => pending[a].code = NoCode \/ pending[a].code # pending[b].code
    /\ activation \in [Account -> Activations]
    /\ rows \in Seq(Rows)
    /\ minted \in 0..MaxCodes
    /\ mails \subseteq Address \X (1..minted)
    /\ proved \subseteq Address
    /\ req \in [Request -> Records]
    /\ limited \in [Code -> Nat]
    /\ crossed \subseteq Account
    /\ asked \in 0..MaxAsked[ops]

Init ==
    /\ ops \in Explored
    /\ email = Initially
    /\ pending = [a \in Account |-> NoChange]
    /\ activation = [a \in Account |->
         IF a = Newcomer THEN [active |-> FALSE, code |-> 1, valid |-> TRUE, attempts |-> 0]
                         ELSE Activated]
    /\ rows = << >>
    /\ minted = 1 /\ mails = {<<email[Newcomer], 1>>}
    /\ proved = {}
    /\ req = [r \in Request |-> Idle]
    /\ limited = [c \in Code |-> 0]
    /\ crossed = {}
    /\ asked = 0

Asks(r, op) ==
    /\ op \in ops
    /\ req[r].pc = "idle"
    /\ asked < MaxAsked[ops]
    /\ asked' = asked + 1

At(r, pc)   == req[r].pc = pc
GoTo(r, pc) == req' = [req EXCEPT ![r].pc = pc]
End(r)      == req' = [req EXCEPT ![r] = Idle]

\* crypto.randomInt.
Fresh == minted + 1
Mints == Fresh \in Code /\ minted' = Fresh

\* What may be typed in: a code that arrived somewhere, or any other.
Typed == {m[2] : m \in mails} \cup {NoCode}

Taken(x) == \E a \in Account : email[a] = x

\* The mail with the code of the request arrives, or is refused.
Mail(r) ==
    /\ At(r, "mail")
    /\ mails' \in {mails, mails \cup {<<req[r].address, req[r].code>>}}
    /\ End(r)
    /\ UNCHANGED <<ops, account, rows, minted, proved, limited, crossed, asked>>

-----------------------------------------------------------------------------
(* A new address for an account.                                           *)

\* requestEmailChange, for another address than the account's, ...
RequestEmailChange(r, a, x) ==
    /\ Asks(r, "change")
    /\ x # email[a]
    /\ req' = [req EXCEPT ![r] = [Idle EXCEPT !.pc = "taken", !.account = a, !.address = x]]
    /\ UNCHANGED <<ops, account, rows, minted, mails, proved, limited, crossed>>

\* ... that nobody has, when it is asked for and again when it is confirmed, ...
CheckTaken(r) ==
    /\ At(r, "taken") \/ At(r, "stillFree")
    /\ IF Taken(req[r].address) THEN End(r)
       ELSE GoTo(r, IF At(r, "taken") THEN "hold" ELSE "apply")
    /\ UNCHANGED <<ops, account, rows, minted, mails, proved, limited, crossed, asked>>

\* A slip: the code that is still valid serves the new address too.
HoldAddressKeeping(r) ==
    LET a == req[r].account
        code == IF pending[a].valid THEN pending[a].code ELSE Fresh
    IN
    /\ At(r, "hold")
    /\ Mints
    /\ pending' = [pending EXCEPT ![a] = [address |-> req[r].address, code |-> code,
                                          valid |-> TRUE, recent |-> TRUE]]
    /\ req' = [req EXCEPT ![r].pc = "mail", ![r].code = code]
    /\ UNCHANGED <<ops, email, activation, rows, mails, proved, limited, crossed, asked>>

\* ... holds it aside with a code that is mailed to it.
HoldAddress(r) ==
    /\ At(r, "hold")
    /\ Mints
    /\ pending' = [pending EXCEPT ![req[r].account] =
         [address |-> req[r].address, code |-> Fresh, valid |-> TRUE, recent |-> TRUE]]
    /\ req' = [req EXCEPT ![r].pc = "mail", ![r].code = Fresh]
    /\ UNCHANGED <<ops, email, activation, rows, mails, proved, limited, crossed, asked>>

\* resendEmailChangeCode reads what is held aside, a minute after it was sent, ...
ResendEmailChangeCode(r, a) ==
    LET held == pending[a] IN
    /\ Asks(r, "resend")
    /\ held.address # NoAddress /\ ~held.recent
    /\ req' = [req EXCEPT ![r] =
         [Idle EXCEPT !.pc = "rewrite", !.account = a, !.address = held.address,
                      !.code = IF held.valid THEN held.code ELSE NoCode]]
    /\ UNCHANGED <<ops, account, rows, minted, mails, proved, limited, crossed>>

\* ... and writes its code back, or a new one when it has expired: over
\* whatever is held aside by now.
RewriteCode(r) ==
    LET a == req[r].account
        code == IF req[r].code = NoCode THEN Fresh ELSE req[r].code
    IN
    /\ At(r, "rewrite")
    /\ IF req[r].code = NoCode THEN Mints ELSE UNCHANGED minted
    /\ pending' = [pending EXCEPT ![a].code = code, ![a].valid = TRUE, ![a].recent = TRUE]
    /\ req' = [req EXCEPT ![r].pc = "mail", ![r].code = code]
    /\ crossed' = IF pending[a].address \in {req[r].address, NoAddress} THEN crossed
                  ELSE crossed \cup {a}
    /\ UNCHANGED <<ops, email, activation, rows, mails, proved, limited, asked>>

\* confirmEmailChange reads what is held aside; a wrong guess is refused, and
\* there is no limit to them, ...
ConfirmEmailChange(r, a, c) ==
    LET held == pending[a] IN
    /\ Asks(r, "confirm")
    /\ IF held.address # NoAddress /\ held.code = c /\ held.valid
       THEN req' = [req EXCEPT ![r] = [Idle EXCEPT !.pc = "stillFree", !.account = a,
                                                  !.address = held.address, !.code = c]]
       ELSE UNCHANGED req
    /\ UNCHANGED <<ops, account, rows, minted, mails, proved, limited, crossed>>

\* A slip: the check a moment ago is thought to be enough.
ApplyUnchecked(r) ==
    LET a == req[r].account IN
    /\ At(r, "apply")
    /\ email' = [email EXCEPT ![a] = req[r].address]
    /\ pending' = [pending EXCEPT ![a] = NoChange]
    /\ End(r)
    /\ UNCHANGED <<ops, activation, rows, minted, mails, proved, limited, crossed, asked>>

\* ... checks that it is free (CheckTaken), and applies it, unless the
\* database knows the address by now.
Apply(r) ==
    LET a == req[r].account IN
    /\ At(r, "apply")
    /\ IF Taken(req[r].address) /\ email[a] # req[r].address
       THEN UNCHANGED <<email, pending>>
       ELSE /\ email' = [email EXCEPT ![a] = req[r].address]
            /\ pending' = [pending EXCEPT ![a] = NoChange]
    /\ End(r)
    /\ UNCHANGED <<ops, activation, rows, minted, mails, proved, limited, crossed, asked>>

CancelEmailChange(r, a) ==
    /\ Asks(r, "cancel")
    /\ pending' = [pending EXCEPT ![a] = NoChange]
    /\ UNCHANGED <<ops, email, activation, rows, minted, mails, proved, req, limited, crossed>>

\* UserSevice.update, for an administrator: at once, and without a code.
AdminUpdate(r, a, x) ==
    /\ Asks(r, "administer")
    /\ ~Taken(x)
    /\ email' = [email EXCEPT ![a] = x]
    /\ UNCHANGED <<ops, pending, activation, rows, minted, mails, proved, req, limited, crossed>>

-----------------------------------------------------------------------------
(* A visitor without an account.                                           *)

\* requestCode: a row, and its code in the mail.
RequestCode(r, x) ==
    /\ Asks(r, "requestCode")
    /\ Mints
    /\ rows' = Append(rows, [address |-> x, code |-> Fresh, attempts |-> 0,
                             consumed |-> FALSE, valid |-> TRUE])
    /\ req' = [req EXCEPT ![r] = [Idle EXCEPT !.pc = "mail", !.address = x, !.code = Fresh]]
    /\ UNCHANGED <<ops, account, mails, proved, limited, crossed>>

\* The rows an address may still use, of which the last one counts.
Usable(x) == {i \in DOMAIN rows : rows[i].address = x /\ ~rows[i].consumed /\ rows[i].valid}
Last(S) == CHOOSE i \in S : \A j \in S : j <= i

\* verifyCode finds the row and compares, ...
VerifyCode(r, x, c) ==
    LET i == Last(Usable(x)) IN
    /\ Asks(r, "verify")
    /\ Usable(x) # {} /\ rows[i].attempts < MaxAttempts
    /\ limited' = [limited EXCEPT ![rows[i].code] = @ + 1]
    /\ req' = [req EXCEPT ![r] = [Idle EXCEPT !.pc = "judged", !.address = x, !.row = i,
                                              !.right = (rows[i].code = c)]]
    /\ UNCHANGED <<ops, account, rows, minted, mails, proved, crossed>>

\* ... and writes what came of it.
Judged(r) ==
    LET i == req[r].row IN
    /\ At(r, "judged")
    /\ IF req[r].right
       THEN /\ rows' = [rows EXCEPT ![i].consumed = TRUE]
            /\ proved' = proved \cup {req[r].address}
       ELSE /\ rows' = [rows EXCEPT ![i].attempts = @ + 1]
            /\ UNCHANGED proved
    /\ End(r)
    /\ UNCHANGED <<ops, account, minted, mails, limited, crossed, asked>>

-----------------------------------------------------------------------------
(* A new account.                                                          *)

\* resendVerification: in one transaction a code with a fresh budget, and
\* its mail; a mail that is refused or late takes the transaction back.
ResendVerification(r, a) ==
    /\ Asks(r, "renew")
    /\ ~activation[a].active
    /\ req' = [req EXCEPT ![r] = [Idle EXCEPT !.pc = "renew", !.account = a,
                                              !.address = email[a]]]
    /\ UNCHANGED <<ops, account, rows, minted, mails, proved, limited, crossed>>

Renew(r) ==
    LET a == req[r].account
        sent == mails' = mails \cup {<<req[r].address, Fresh>>}
    IN
    /\ At(r, "renew")
    /\ Mints
    /\ \/ /\ sent
          /\ activation' = [activation EXCEPT ![a].code = Fresh, ![a].valid = TRUE,
                                                  ![a].attempts = 0]
       \/ /\ sent \/ UNCHANGED mails
          /\ UNCHANGED activation
    /\ End(r)
    /\ UNCHANGED <<ops, email, pending, rows, proved, limited, crossed, asked>>

\* A slip: the guess is counted on what was read.
CountGuessRead(r) ==
    LET a == req[r].account IN
    /\ At(r, "guessed")
    /\ activation' = [activation EXCEPT ![a] =
         IF req[r].right THEN Activated ELSE [activation[a] EXCEPT !.attempts = req[r].row + 1]]
    /\ End(r)
    /\ UNCHANGED <<ops, email, pending, rows, minted, mails, proved, limited, crossed, asked>>

\* verifyAccountByCode reads the account and compares, ...
VerifyAccountByCode(r, a, c) ==
    LET held == activation[a] IN
    /\ Asks(r, "activate")
    /\ ~held.active /\ held.code # NoCode /\ held.valid /\ held.attempts < MaxAttempts
    /\ limited' = [limited EXCEPT ![held.code] = @ + 1]
    /\ req' = [req EXCEPT ![r] = [Idle EXCEPT !.pc = "guessed", !.account = a, !.code = c,
                                  !.row = held.attempts, !.right = (held.code = c)]]
    /\ UNCHANGED <<ops, account, rows, minted, mails, proved, crossed>>

\* verifyAccount looks for a guess among the codes of all accounts, as often as
\* it is asked to: no account counts the wrong ones.
VerifyAccount(r, c) ==
    LET found == {a \in Account : activation[a].code = c /\ c # NoCode /\ activation[a].valid} IN
    /\ Asks(r, "link")
    /\ \/ \E a \in found :
             req' = [req EXCEPT ![r] = [Idle EXCEPT !.pc = "guessed", !.account = a, !.code = c,
                                                    !.right = TRUE]]
       \/ found = {} /\ UNCHANGED req
    /\ UNCHANGED <<ops, account, rows, minted, mails, proved, limited, crossed>>

\* ... and counts a wrong guess on the account, or activates it.
CountGuess(r) ==
    LET a == req[r].account IN
    /\ At(r, "guessed")
    /\ activation' = [activation EXCEPT ![a] =
         IF req[r].right THEN Activated ELSE [activation[a] EXCEPT !.attempts = @ + 1]]
    /\ End(r)
    /\ UNCHANGED <<ops, email, pending, rows, minted, mails, proved, limited, crossed, asked>>

-----------------------------------------------------------------------------
\* Time passes, in which no request is under way: the minute after a code was
\* sent, or the life of the codes.
Quiet == \A r \in Request : At(r, "idle")

MinutePasses ==
    /\ Quiet
    /\ \E a \in Account : pending[a].recent
    /\ pending' = [a \in Account |-> [pending[a] EXCEPT !.recent = FALSE]]
    /\ UNCHANGED <<ops, email, activation, rows, minted, mails, proved, req, limited,
                   crossed, asked>>

CodesExpire ==
    /\ Quiet
    /\ pending' = [a \in Account |-> [pending[a] EXCEPT !.valid = FALSE, !.recent = FALSE]]
    /\ rows' = [i \in DOMAIN rows |-> [rows[i] EXCEPT !.valid = FALSE]]
    /\ activation' = [a \in Account |-> [activation[a] EXCEPT !.valid = FALSE]]
    /\ <<pending, rows, activation>>' # <<pending, rows, activation>>
    /\ UNCHANGED <<ops, email, minted, mails, proved, req, limited, crossed, asked>>

Begin(r) ==
    \/ \E a \in Account :
         \/ ResendEmailChangeCode(r, a) \/ CancelEmailChange(r, a) \/ ResendVerification(r, a)
         \/ \E x \in Address : RequestEmailChange(r, a, x) \/ AdminUpdate(r, a, x)
         \/ \E c \in Typed : ConfirmEmailChange(r, a, c) \/ VerifyAccountByCode(r, a, c)
    \/ \E c \in Typed : VerifyAccount(r, c)
    \/ \E x \in Address : RequestCode(r, x) \/ \E c \in Typed : VerifyCode(r, x, c)

Continue(r) ==
    \/ Mail(r) \/ CheckTaken(r) \/ HoldAddress(r) \/ RewriteCode(r) \/ Apply(r)
    \/ Judged(r) \/ Renew(r) \/ CountGuess(r)

Next == (\E r \in Request : Begin(r) \/ Continue(r)) \/ MinutePasses \/ CodesExpire

Spec == Init /\ [][Next]_vars

-----------------------------------------------------------------------------
(* Properties                                                              *)

\* "the account keeps its current one until a code sent to the new address
\* comes back" (user.service.ts:205): an address is only ever applied with a
\* code that arrived there, whatever other changes, cancellations and
\* expirations came in between; one case is known to break it, a code sent
\* again over a newer request (crossed).
EmailProved ==
    [][\A r \in Request :
         At(r, "apply") /\ email' # email /\ req'[r] # req[r]
         => <<req[r].address, req[r].code>> \in mails \/ req[r].account \in crossed]_vars

\* Where guesses are limited they are: the code a visitor or a new account types in
\* with its address is compared with no more guesses than are allowed, and one for
\* each other request that was already past the count (verification.service.ts:53,
\* auth.service.ts:513).  The two other routes have no limit of their own, and are
\* not in this: the link (auth.service.ts:491) and the confirmation of a new address
\* (user.service.ts:338).
GuessesBounded ==
    \A c \in Code : limited[c] < MaxAttempts + Cardinality(Request)
=============================================================================
