# Transfer: a verification of its core

This directory holds TLA+ specifications of the parts of Transfer (its backend,
`src/backend/src`, and the upload pages of its frontend) whose correctness depends
on the order in which concurrent requests, background work, scheduled jobs, lost
answers and restarts happen, with small instances for the model checker TLC and
proofs for TLAPS.

* [The system](#the-system)
* [The modules](#the-modules)
* [How the models follow the code](#how-the-models-follow-the-code)
* [What is checked](#what-is-checked)
* [What is proved](#what-is-proved)
* [Where the code disagrees with its own words](#where-the-code-disagrees-with-its-own-words)
* [What is not modelled](#what-is-not-modelled)
* [Plan](#plan)

To run everything: `tlc -config MCPaidAccess_owner.cfg MCPaidAccess` (and so on for
each row of the table of runs), `tlapm PaidAccessProofs.tla` (for each
proof module). `PROJECT.json` maps every definition to the lines it stands for,
lists the hazards with the properties that cover them, and gives for every
checked property a mutation of the model, of the kind a plausible bug would
be, that breaks it. The mutated forms stand in the modules as definitions whose
comment begins with "A slip"; no specification uses them.

## The system

Transfer is a file transfer service: one Node process (NestJS) over one SQLite
database (Prisma), a directory per transfer on disk (or S3), Stripe for transfers
that are sold, ClamAV for uploads, and a Next.js frontend. **One process, one
thread**: concurrency is the interleaving of handlers at their `await`s, of
promises nobody awaits (scans and archive rebuilds), and of cron jobs with all
of them. What is in memory (locks, promise chains, requests) dies with the
process; rows and files stay. There is no outbox and almost no retry: where the
code relies on a retry it is Stripe's.

| Component | State | Operations | Hard because |
|---|---|---|---|
| **Payments** (`payment/`) | `SharePayment` rows, keyed by Stripe's checkout session; `Share.expiration` | `createSession`, the webhook (`checkout.session.completed`, `charge.refunded`), `confirmSession` from the return page, `revokePayment`, receipts | events arrive twice, late, in any order, next to the return page; the answer may be lost; the transfer may be gone |
| **Transfers** (`share/share.service.ts`) | `Share` rows, directories | `create`, `complete`, `revertComplete`, `update`, `expire`, `remove` | checks, then awaits, then writes; mails one by one before the lock; what a completion started goes on after it was undone |
| **Visits** (`share/guard/`, `getShareToken`, `updateSecurity`) | `ShareSecurity`, `ShareRecipient`, `ShareUserRecipient` rows, `Share.views`, the cookie of each browser | ask for a cookie, read on it, be let in by name; edit the password, the limit, the end | the count is read, compared and written apart; an edit carries what its guard read; a cookie outlives what it was given for |
| **Upload pages** (`components/upload/`) | the rows of the page's list, one chunk loop per file | send, retry, drop a row, complete, save an edit, combine with a NAS import | answers get lost, requests are given up on while the server works on them, three loops at once |
| **File storage** (`file/`) | `File` rows, bytes, chunks that wait for the rest | chunked upload, read, delete | the expected chunk is computed from a size that was read before; rows and bytes are written by different statements |
| **Scheduled jobs** (`jobs/`) | none of their own | `deleteExpiredShares`, `closeEndedCollections`, `deleteUnfinishedShares`, `deleteUnactivatedUsers`, reminders, expired tokens | work through a list that was true when it was read |
| **Collections** (`reverseShare/`, `share/contribution.*`) | `ReverseShare.remainingUses`, `ShareContribution` rows, the container `Share` | open a contribution, upload, close; stop collecting | several contributors at once over one container; a use is checked and taken by different requests |
| **Archive rebuilds** (`ShareService.createZip`) | `archive.zip`, `Share.isZipReady`, the chain of promises | rebuild after each closing and each completion | background work, one output file, the rows change during the rebuild |
| **Antivirus** (`clamscan/`) | quarantine or deletion of rows and files | scan a deposit or a transfer, remove it | its removal races the owner's deletions, uploads and rebuilds |
| **Credentials** (`auth/`) | password, TOTP secret and flag; `RefreshToken`, `TrustedDevice`, `LoginToken`, `ResetPasswordToken` rows | sign in (password, LDAP, OAuth, trusted device), second factor, change, reset and request a reset, sign out, enable/verify/disable TOTP | a token issued on an old password by a sign-in that started before the change; tokens redeemed twice |
| **Per-user lock** (`utils/asyncLock.util.ts`) | a map from key to the end of a chain of promises | `withLock(key, fn)` | functions reject; the map entry must be dropped exactly when nobody is behind it |
| **Accounts** (`user/`, `auth/`, `oauth/`) | `User` and `OAuthUser` rows | sign up, register with a provider, create, change role, delete, sweep; link and unlink a provider; directory sign-in | the last administrator; the last way in; every rule is checked before the write |
| **Settings** (`config/`) | `Config` rows, a copy in memory | `updateMany`: judged as a batch, written one by one | the judgement is about administrators who change meanwhile |
| **Mailed codes** (`user/`, `auth/`, `verification/`) | `pendingEmail*` and `activation*` columns, `AnonymousShareVerification` rows | ask for a change of address, send again, confirm, cancel; activate; a visitor's code | concurrent guesses; a code sent again over a newer request |
| **Around it** | brand slides, avatars, thumbnails, notices, e-mail texts, NAS import, the other pages | reads, single writes, rendering | nothing interleaves, or only one actor does |

How they interact: the payment code pushes a transfer's expiration back and
the removal paths look at payments before they delete; the cleanup job looks at
neither again once it has its list. Deleting a `Share` row detaches its payments
(`onDelete: SetNull`). Closing a contribution starts a job that calls the
antivirus, which deletes rows and files, then the archive rebuild, which
reads both. Every change of a password and every sign-in with one goes through the
per-user lock; the changes of the second factor, federated sign-ins and the
removals of single tokens do not. The upload pages and the backend share one rule,
the chunk the server expects next, and meet again at completion: the page decides
when to ask, the backend mails, scans, archives and locks. What an account may
lose is decided in four services (users, OAuth, LDAP, settings) by one pure
function, `hasAnySignInMethod`.

What makes each part correct:

* *Payments*: money that Stripe has taken is in the ledger, whatever happened to
  the transfer; a row is never lost, un-revoked or moved; one receipt at most; a
  refund ends a right; the expiration is the owner's or exactly one that a
  payment promised; a removal never takes a live right away that its check saw.
* *Lock*: one call per key at a time, in order; the map does not grow; a call that rejects
  holds nobody up.
* *Credentials*: nothing issued on a superseded password survives a completed
  change; what a request verified is still true when it acts; single-use tokens
  are used once.
* *Collections*: the link's uses bind; rebuilds do not overlap; an archive that is
  whole holds everything the scans let through and nothing they took away; one
  contributor's infected deposit costs nobody else a file.
* *Uploads*: a file the transfer lists is the visitor's, chunk by chunk; what the
  page shows as sent when it completes is stored; every run ends.
* *Transfers*: what can be read has been announced to everybody it was for; what was deleted
  or removed serves nothing; the archive keeps what the mails named; nothing stays half done.
* *Visits*: a cookie opens the transfer it was given for, under the password presented for it; a
  restriction survives every edit; a limit binds those who come one at a time.
* *Accounts and settings*: there is an administrator, and who had a way in keeps one.
* *Mailed codes*: an address is applied only when a code that arrived there comes back; guesses
  are bounded.

## The modules

| Module | What it is | Uses |
|---|---|---|
| `PaymentLedger` | what a ledger of charges, rights and receipts promises (abstract) | |
| `PaidAccess` | Stripe, webhook, return page, refunds, owner, cleanup job, restarts | instantiates `PaymentLedger` |
| `FifoLock` | what a per-key lock promises (abstract) | |
| `AsyncLock` | `withLock`'s chain of promises | instantiates `FifoLock` |
| `Credentials` | one account's password, second factor and tokens | the lock, as the guard `Free` |
| `LockedCredentials` | the requests of `Credentials` with the lock they really take, next to other users' calls | extends `Credentials` and `AsyncLock`, implements `Credentials` |
| `Collection` | contributors, uploads, scans, rebuilds, the owner, restarts | |
| `Upload` | the chunk loops of the pages, the network, the handlers that append chunks | |
| `Transfer` | one transfer: files, completion, mails, scan, archive, reopening, deletion, the sweep | an upload, as the one request `Upload` shows it to be |
| `Accounts` | accounts, roles, provider links, the settings that open and close doors | |
| `MailedCodes` | changes of address, activations, visitors' codes | |
| `Visits` | one transfer's visitors: cookies, views, the guard, the owner's edits, a second transfer with the same id | |
| `MCPaidAccess`, `MCAsyncLock`, `MCCredentials`, `MCCollection`, `MCUpload`, `MCTransfer`, `MCAccounts`, `MCMailedCodes`, `MCVisits` | instances for TLC; the `.cfg` files next to them give the constants | |
| `PaidAccessProofs` | types, the ledger invariant, the refinement, refunds one by one | |
| `CredentialsProofs` | the lock (types, invariant, refinement, no chain stops), what it guards, and that the two compose | |
| `CollectionProofs`, `UploadProofs`, `TransferProofs`, `AccountsProofs`, `MailedCodesProofs`, `VisitsProofs` | types, inductive invariants, the properties | |

Two pairs compose. `Credentials` does not repeat the chain of promises: a request that is
queued for the lock goes on when the lock is `Free` (no other request is inside).
`LockedCredentials` puts the chain in its place: a request that comes to the queue calls
`WithLock` with the key of its user and goes on when the chain runs its function, while other users' calls
and callbacks come in between and a restart empties the map. That this implements `Credentials` is a theorem
(`LockGrantsFree`), for any number of requests, users and calls, so what is checked and proved of `Credentials` with the
guard holds of it with the lock. `Collection` keeps the chain of rebuilds as a queue of its own,
because `createZip` is a chain of its own and not a `withLock`: it differs in
what happens to rejections, and its order with the scans matters. `Transfer` takes
an upload as the request of its last chunk: `Upload` is where the chunks before it are, and
shows that a row stands for a whole file.

## How the models follow the code

A step of a model is what a handler does between two awaits at which something
else may run: one statement to the database, one transaction, one file system
call, or one synchronous stretch. A handler's position is the `phase`, `pc` or
`stage` of the record that stands for it; what it has read and will use later is in
the same record. Reads that decide nothing are merged with the next step.

### PaidAccess

| Model | Code |
|---|---|
| `shares`, `expiration`, `stored` | `Share` rows, `Share.expiration` (0 is the epoch: never), directories |
| `payment` | `SharePayment` rows: `known` says whether the transfer was there when the row was made, `intent` whether `stripePaymentIntentId` is filled, `until` is `accessUntil`, `revoked` is `revokedAt` |
| `checkout`, `pending` | Stripe's side, from how the code uses it: a session is charged before its intent shows; an event stays deliverable until a 200 arrives |
| `worker` | webhook and return-page requests in flight |
| `owner`, `cleaner` | `remove`/`expire` in flight (with the payments the check saw), and a run of `deleteExpiredShares` with what is left of its list |
| `DeliverPaid`, `RecordPayment`, `SendReceipt`, `Answer` | `handleWebhook` for a completed session: `accessUntil` is computed before the transaction, the row is created or completed with the intent it lacked, the expiration is pushed from the *row's* promise, only a created row of a known transfer mails a receipt, then the 200, which may get lost |
| `ConfirmSession`, `RetrieveSession` | `confirmSession`: may see the session paid and its intent still missing |
| `RevokePayment`, `LookupRefund` | `revokePayment`: an `updateMany`, then, if nothing matched, a second statement that decides between 200 and an error |
| `Remove`/`RemoveFiles`/`RemoveRow`, `Expire`/`ExpireNow`, `Update` | the owner; the shared check is `AssertNoActivePaidAccess`; `update` looks at no payment |
| `SelectExpired`, `CleanFiles`, `CleanRow` | `deleteExpiredShares`: list, then directory and row of each; a row already gone makes the delete throw and the run stop |
| `Crash` | every request, owner call and job in flight is lost |

Time is a counter; `Window`, `RetryAge` and `Retention` are the access window a
payment buys, the age after which an unknown refund is given up on, and the time
an expired transfer is kept. `receipts`, `typed` and `gaveUp` are histories.

### AsyncLock

A call makes two promises, `result` and `settled`. `WithLock` attaches to the end
of the chain and becomes its end (one synchronous stretch); `Run`, `Finish`,
`Settle` and `Drop` are the callbacks the event loop runs, among which other
calls may arrive. `Finish` resolves or rejects. `Drop` forgets the key only if the
map still points to this call.

### Credentials

Passwords are numbered by the changes that set them (`None` for an account without
a local one), so "issued on an old password" can be said: `proof[t]` is the
password a token goes back to, through login tokens and trusted devices. Every
kind of request has its phases: `signIn` checks the password unlocked, then again in the lock
(`VerifyPassword`) and issues a login token, or a device cookie and
a session (`IssueLogin`, `IssueDevice`, `IssueSession`). `Commit` writes the new hash
and `WipeSessions`, `WipeDevices`, `WipeLogins` are the three deletes after it,
each a statement of its own. A reset token is deleted *before* the lock is asked for
(`UseResetToken`). The changes of the second factor take no lock: `StoreSecret`,
`ConfirmTotp`, `ForgetDevice`, `ClearTotp`, `DropLogins`. A restart while a change is between
its write and its last delete sets `torn`: the code has no transaction there,
and the properties say what holds otherwise.

### Collection

`contributions`, `files` (with the contribution they came from), `disk`,
`archive` and `isZipReady` are rows, bytes and flags; `req` and `jobs` are requests
and background jobs; `zipRebuilds` is the chain in which `createZip` runs rebuilds one
after the other.

* *Opening* reads the collection, takes a use with one conditional update
  (`Claim`) and creates the row (`CreateContribution`).
* *Uploading*: `UploadFile` passes the guard, `StoreFile` renames the bytes into
  place and creates the row, `Attribute` gives the row its contribution. The
  rename and the row are one step, because nothing looks at bytes that have no row; the
  row without a contribution is a state of its own, since a scan does not see it.
* *Closing*: `Complete` passes the guard, `StartJob` marks the archive stale and
  starts the job, `Close` marks the contribution closed. The request does not
  wait for the job.
* *The job*: `Scan` lists the rows of the deposit and finds what is infected;
  `RemoveFiles` and `DropRows` take the deposit away, or a fault of the disk or of the
  database stops them: what is left stays, with its rows, and the job goes on (`fault`);
  `CreateZip` joins the chain; `BuildZip` lists *all* rows, `OpenArchive` truncates the file and opens the sources,
  `FinishZip` or `FailZip` ends it, `Publish` sets `isZipReady`. A
  rejection is logged and goes no further (`main.ts:110`), and the next rebuild runs.
  A source file that is missing makes a rebuild reject or, depending on when the stream
  fails, ends the process: `OpenArchive`'s second branch and `Crash`.
* *The owner* deletes single files: bytes first (`Unlink`), then the row
  (`DropRow`); a file that is gone already ends the request.
* `StopCollecting` is `collectionEndsAt` passing or the link being removed.

`archive.state` is an observation: "writing" while a rebuild writes, "torn" after one that
failed or was cut off, "corrupt" if two ever write at once.

### Upload

| Model | Code |
|---|---|
| `list`, `progress` | the rows of the page's list and their `uploadingProgress`: 0 queued, 100 done, -1 failed |
| `Shown`, `Show`, `Position`, `Order` | `setFileProgress`: of the file's own row, wherever it is; on the edit page of the row that now stands where the file stood when its visitor saved |
| `loop` | a run of `uploadOneFile`, or of the edit page's loop; a file has at most two, since `retryFile` may start another |
| `Send`, `Answered` | one turn of the `for` loop. An id is minted per request until an answer brings one, so a retry of a first chunk starts another file; `unexpected_chunk_index` moves the loop without touching the progress |
| `Failed`, `Resume` | the `catch` and its pause: the file starts over from chunk 0, or the run gives up (never on the edit page) |
| `handler` | one request on the server: `Check` (the id has a row, the transfer is locked), `Stat` (the size decides the chunk that is expected), `AppendChunk`, `Move`, `CreateRow` |
| `tmp`, `disk`, `row` | `<id>.tmp-chunk`, `<id>`, the `File` row |
| `Complete`, `NasSettled`, `Save` | the three places that ask for the completion |
| `AnswerLost`, `Abandon`, `Fail`, `Tear`, `Crash` | the network; `withUploadInactivityTimeout`; a limit or an error; a full disk; a restart |

A chunk is its index, so "the visitor's file" is the sequence of all indices. `kinds` and `page` are
chosen at the start: a behaviour meets the failures of one set only, which the properties name.

### Transfer

A request is a slot with a `pc`; `scans` counts the runs of `checkAndRemove` at each of
their points, which is enough because a run carries nothing but its point; `zipRebuilds` is the chain of
`createZip`, `publishing` the rebuilds whose `then` has not written `isZipReady` yet. `Complete` reads,
`CheckCompleted` reads again whether it is completed and queues the rebuild, `Mail` sends one mail
or is refused, `LinkUser` upserts one account, `StartScan` starts the antivirus, `Lock` is
the last update. `RevertComplete`, `Remove` and the sweep do what they do wherever the rest is. `share.today`
is `updatedAt` within a day: every update refreshes it, `DayPasses` takes it away when no
request is under way. `promised` and `deleted` are histories: the files the last completion's mails named, and the ids
whose row was deleted at some time. `FileService.create` refuses an id only while some row has it, and so does
`UploadFile`: two requests with one id may both pass, and a deleted id may be sent again.

### Accounts

Sets of ids stand for the columns: `present`, `admins`, `active`, `local` (has a password), `ldap`. `known`
tells the passwords somebody knows from the one `findOrCreateFromLDAP` makes up. A request is a record
with what it read: `seen` is what its first statement found (first account, administrator, password), `doors` the links
an unlink counted as ways in, with their provider open, `plan` and `view` the settings and the administrators a batch was
judged on. A transaction is one step (`ApplyUpdate`, `DeleteRow`), everything else one step per
statement. `CanSignIn` is what the routes really let in, `HasAnySignInMethod` what the code counts.
`ops` splits the operations into sets that are explored together.

### MailedCodes

A code is the number it was minted with: two codes are the same only if they were minted together,
which is what `randomInt` and the unique columns make of it. `pending` and `activation` are the columns,
`rows` the table of visitors' codes, `mails` what arrived where. A guess is a code that arrived somewhere, or a wrong
one. Every route takes any guess; `limited` is a history of those that `verifyCode` and `verifyAccountByCode` compare,
the two routes that limit them. `crossed` is a history: accounts where `RewriteCode` wrote the code of an
address over the request for another.

### Visits

| Model | Code |
|---|---|
| `share` | the `Share` row with its security row (`rule`), the addresses it names (`recipients`) and the accounts linked to it (`linked`); `made` is `createdAt`, which a cookie is signed with |
| `cookie` | `share_<id>_token` of each browser: `made`, the password it is signed with, `exp` |
| `Knock`, `Look`, `Count` | `POST /token`: the guard, the read of the row up to `argon.verify`, and the rest: the limit, the cookie, the count as what was read plus one |
| `Enter`, `Admit`, `Refuse`, `Serve` | `ShareSecurityGuard` reads the row once, then waits for the user; it links an account whose address the transfer names, or verifies the cookie |
| `Edit`, `UpdateRow`, `Secure` | `PATCH`: `ShareOwnerGuard` reads the row, `update` writes the end, `updateSecurity` writes the security row from what the guard read and what the body touches, or deletes it when it carries nothing |
| `Create`, `Expire`, `Remove`, `DropRow` | the transfer comes and goes; an id is free again once its row is gone |

A password is the number it was set with, so an old one can be told from the one in force.
`visits` and `lone` are histories: who was counted with which password, and how many visits met no
other between their read and their write. `vow` remembers that the transfer was restricted
when it was created, `crossed` that a request begun on an earlier transfer of the same id has written to it.

## What is checked

| Run (`.cfg`) | Question | Properties |
|---|---|---|
| `ledger_delivery` (`MCPaidAccess_delivery`) | Two requests deliver, confirm and redeliver a payment and its refund while the process restarts and the owner removes the transfer, possibly to create it again | `TypeOK`, `MoneyTraced`, `ImplementsLedger` |
| `ledger_owner` (`MCPaidAccess_owner`) | The owner removes, expires and edits, and the cleanup job runs, around a payment and its refund | `ExpirationJustified`, `RemovalSparesSeenRights`, `RefundHonoured` |
| `ledger_liveness` (`MCPaidAccess_liveness`) | Does every charge reach the ledger, and is every refund settled, with two requests at a time, lost answers and a restart? | `PaidEventuallyRecorded`, `RefundEventuallySettled` |
| `lock` (`MCAsyncLock`) | Three calls, two keys, functions that reject | `NoLeak`, `ImplementsFifoLock`, `EveryCallEnds` |
| `credentials` (`MCCredentials`) | Sign-ins of every kind, changes and resets of the password, changes of the second factor and a restart, two requests at a time | `TypeOK`, `NoSupersededAccess`, `VerifiedIsCurrent`, `TokensWorkOnce` |
| `collection` (`MCCollection`) | Two contributors deposit and close at once while the owner deletes a file, a removal fails and the process restarts | `TypeOK`, `RemovedStaysOut`, `DepositInArchive`, `InfectedRemoved`, `OnlyOwnDepositRemoved` |
| `uploads` (`MCUpload`) | The three pages send files over a network that loses answers to a server that refuses, restarts and fills up | `TypeOK`, `StoredIntact`, `PromisedIsStored`, `EveryRunEnds` |
| `transfers` (`MCTransfer`) | Uploads, completions, reopenings, deletions, scans, rebuilds and the sweep over one transfer, with a restart | `TypeOK`, `LockedIsDelivered`, `GoneServesNothing`, `PromisedInArchive`, `EveryTransferSettles` |
| `accounts` (`MCAccounts`) | Can an instance lose its administrator, or an account its last way in? | `TypeOK`, `AdministratorRemains`, `UnlinkKeepsADoor`, `SettingsKeepADoor` |
| `mailed_codes` (`MCMailedCodes`) | Can an address be applied without a code that arrived there, and how often can a code be guessed at? | `TypeOK`, `GuessesBounded`, `EmailProved` |
| `visits` (`MCVisits`) | What do a cookie, a restriction and a limit still mean while the owner edits, deletes and creates again? | `TypeOK`, `AdmittedByVisit`, `OnlyTheNamed`, `LimitHolds` |

The runs reach 1.7, 2.0 and 0.36 million distinct states for the ledger, 20 thousand for the lock, 2.0 million for
credentials, 3.7 million for collections, 0.50 for uploads, 1.0 for transfers, 0.88
for accounts, 0.83 for mailed codes and 1.2 for visits (the longest, three minutes).

One more run, `refund_race`,
exhibits a disagreement [below](#where-the-code-disagrees-with-its-own-words). `CHECK_DEADLOCK FALSE` is in every
configuration, because each system may really rest: no request need arrive, and
every bounded supply (tokens, time, jobs, requests) can run out.

### What the properties say

*Payments.* `MoneyTraced` is about three pieces of state at three places (Stripe's
session, Stripe's list of events, the row): once Stripe stops announcing a charge, the row is
there, also when the transfer was deleted during the checkout or the
process died anywhere in the handler. `ExpirationJustified` says that a transfer's end is what its owner last
typed, or later and *exactly* the `accessUntil` of a payment: a replay computes
another end, and must not use it. `RemovalSparesSeenRights` is about the file
system calls between the check of `remove` and its delete: no right the check looked at comes
back to life meanwhile. (A right that the check could *not* see, because the payment
was recorded afterwards, is not spared; the property does not claim it.)
`RefundHonoured` holds for one
request at a time and is violated by two: both are runs. `RefundEventuallySettled` is checked with two, and excepts by name
(`Overtaken`) the same refund: one whose payment another request records between its two statements. `PaymentLedger` says the rest from the reader's
side: a right is granted for a charge and never without one, its end never moves, it is revoked for a refund and
stays so, and one receipt is mailed at most. (`ReceiptsOnce` and `LedgerMonotone` say the same of
the rows; they are proved.)

*Lock.* `ImplementsFifoLock` is one call per key at a time, in order. `NoLeak` is the other side of dropping
entries; `EveryCallEnds` includes calls behind rejected ones.

*Credentials.* `NoSupersededAccess`: a session, trusted device or half-done sign-in
that goes back to a superseded password exists only while the change that
superseded it is still about to delete it. It takes a sign-in, a
redemption, a trusted device and a change, interleaved, to violate. `VerifiedIsCurrent`:
between the verification and the write there are awaits. `TokensWorkOnce`
is single use of login tokens and reset tokens under concurrent presentation.

*Collections.* `RemovedStaysOut` and `DepositInArchive` are what a visitor of "tout télécharger"
relies on: after a closing has rebuilt the archive, no whole archive, from
whichever later rebuild, holds what its scan took away or misses what it
let through. `InfectedRemoved` is about a removal that meets files the owner is
deleting; it excepts a removal that the disk or the database failed, after which the job rebuilds the archive all the same
([below](#known-deviations)). `OnlyOwnDepositRemoved` watches every step that takes bytes away.

*Uploads.* `StoredIntact` spans the page and the server: a chunk whose answer was lost is
sent again, the server answers with the one it expects, and the loop goes on from there.
`PromisedIsStored` relates what the page believes to what the server holds at the moment of
the completion. It excepts the combined page, where a run that was answered past its last chunk counts as sent although
its file may not have a row (`importFromNas` looks at what the runs returned, not at the rows of
the list), and the edit page once a row has gone from its list, because its progress goes by position
([below](#known-deviations)). `EveryRunEnds` is about two loops that correct each other: refusals and corrections may not go on for
ever. It excepts the edit page, which has no last attempt.

*Transfers.* `LockedIsDelivered`: locking is the last statement of a completion, after every mail; it
takes a second completion, or a restart, to be wrong about it. `GoneServesNothing` needs every upload, rebuild and
scan in flight to find the folder gone and not make it again. `PromisedInArchive` is what
"tout télécharger" owes the recipients after a transfer was reopened while its first
rebuild was running: every file the mails named that nobody ever deleted. (One that was deleted and sent again under
its id may have come after the rebuild read the rows.) `EveryTransferSettles` is the reason `deleteUnfinishedShares` exists.

*Accounts.* `AdministratorRemains` lists the steps that may take the last administrator away, and there
are four of them: a directory or a provider that says so at a sign-in (`Imposed`), a deletion or a
sweep that read its account before it became one (`Unaware`), and an account that appears on an instance that
had lost all of its own meanwhile (`Late`). Everything else, two administrators who delete or demote
each other included, is refused. `UnlinkKeepsADoor` says it of ways in: whoever could sign in before an unlinking drops its row can
sign in after it, by what the sign-in routes let through. It fails without the refusal of `unlink`; what it excepts
(`OvertakenByOthers`) is an unlinking that counted open doors, *all* of which others closed before its delete.
`SettingsKeepADoor` says the same of a batch of settings, as far as the administrators it was judged on are still
those there are.

*Mailed codes.* `EmailProved` compares a code that arrived with the address it is applied to, across
requests, resends, cancellations and expiry. `GuessesBounded` says how far beyond the budget concurrent
guesses get where there is a budget: one for each request that was already past the count. The link of an
activation and the confirmation of an address have none ([below](#known-deviations)), and the property does not speak
of them.

*Visits.* `AdmittedByVisit` compares a reader who gets in on a cookie with the visits that were counted: some visit
of this reader to *this* transfer presented the password the guard found in force. A cookie
is checked long after it was given, so it takes an edit, a deletion or a new transfer in between to
be wrong. `OnlyTheNamed` is the promise of a restriction through any edits: the row that holds it is
rewritten, or deleted and made again, by edits that never mention it. It excepts what a
request begun on an earlier transfer of the same id writes (`crossed`). `LimitHolds` is
what is left of `maxViews` when the count is written as a number read before: overlapping visits count as
one and go past it (see [Known deviations](#known-deviations)), but a visit that met no other is
never lost, and lets nobody in past the limit.

### Bounds

* `ledger_delivery`: one session, one transfer id, two requests, one restart, three
  instants, a window of one, `RetryAge` 0. Sessions share nothing but the
  transfer's expiration; what goes wrong in a ledger goes wrong between two
  requests for *one* session. The id may be created again, which is how an old payment
  meets a new transfer. `Retention` 9 keeps the cleanup job out; the owner's
  removal is there.
* `ledger_owner`: one request at a time, so that time, the owner's three
  operations and the cleanup job fit: four instants, expirations never/1/3 around a window of one: a payment
  comes before, at and after the end, and pushes it or not.
* `ledger_liveness`: two requests, two instants, one restart; no owner, who takes nothing from the ledger (the runs before
  have him); no symmetry, since liveness is checked.
* `lock`: three calls for a key are a runner, one waiting on it and one waiting on a waiting
  call; the second key shows that keys do not wait on each other.
* `credentials`: two requests (every hazard here is of two), three tokens (the
  one that is old, the one that replaces it, and a login token on the way), three passwords, one
  restart; a third token, a third password and the restart are each explored without the other two
  (`OneBoundAtATime`).
* `collection`: two of everything, one deletion by the owner, one removal that fails, one restart (taken only while a
  job is under way: elsewhere it only forgets requests). Two uses for two contributions,
  so that the last use is contended for.

* `uploads`: two files, one of two chunks and one of one, and a second run for the first; two requests at
  a time. Two files meet on the sending page and on the edit page, in an order (`MCOrder`) in which the file with a second
  run stands below the other. A file alone meets two failures, two files meet one (none of the kinds that
  leave something behind). `MaxAttempts` is 2 (5 in the code). `MaxId` 4 covers a new id per attempt.
* `transfers`: two files that are there and an infected one that may come; one recipient with an account; two requests at
  a time, three in all, one reopening, one restart.
* `accounts`: two accounts and a third that may come, two providers, two requests at a time. The
  operations meet in five sets (arrivals, roles, imposed roles, links, settings), two or three requests of a set.
* `mailed_codes`: two accounts, three addresses (one free), two requests at a time, four in all (five for visitors), six
  codes, two guesses (five in the code) in three sets.
* `visits`: one visitor, who may be the one the transfer names, two requests at a time, four in all; limits none and one;
  a second transfer, a second password and a second instant are each explored without the
  other two (`OneAtATime`).

The bounds are constants (`MaxTime`, `MaxVersion`, `MaxCrashes`, `MaxRemovals`,
`MaxUseCount`, `MaxRequests`, `MaxReverts`, `MaxAsked`, `MaxRestarts`, `MaxFaults`, `MaxId`, `MaxCodes`,
`MaxMade`, `MaxPasswords`) or the sizes of sets. The proofs need none of them: they hold for
every value.

### Fairness

Safety is checked without fairness. Four specifications have it.

* `PaidAccess!FairSpec`. Weak fairness of `Settle`: Stripe attaches the intent and emits the event.
  *Strong* fairness of a delivery: Stripe redelivers an event until it is answered,
  and a delivery is enabled only while a request slot is free, again and again.
  Weak fairness of a request's own steps: the event loop goes on with
  it. Nothing is assumed of the buyer, of the return page, of the owner or of the clock.
  A refund may arrive first and be refused any number of times: it is settled once the
  payment has been delivered, or given up on for its age. (Stripe really stops after some days of
  failures; the code gives up after six hours, `DELAI_REMBOURSEMENT_ORPHELIN_MS`, to stay clear of that.)
* `AsyncLock!FairSpec`. Weak fairness of each call's callbacks: the event loop runs what is due, and
  the function passed to `withLock` ends.

* `Upload!FairSpec`. Weak fairness of each run's own steps and of each request's: both are callbacks of an
  event loop. Failures and the visitor owe nothing.
* `Transfer!FairSpec`. Weak fairness of the program as a whole: as long as something is due, something happens, be it a
  handler, a scan, a rebuild, the clock or cron. That is less than fairness of each part. The
  owner owes nothing.

No liveness is claimed of collections: a restart loses scans and rebuilds for
good, and no code takes them up again.

## What is proved

Every theorem below holds for all values of the constants, under the named
assumptions of the modules: the null values are not ids
(`NoShareAssumption`, `TokenAssumption`, `NoCallAssumption`, `NoContributionAssumption`, `NoFileAssumption`,
`UserAssumption`, `VisitorAssumption`); the bounds are naturals (`BoundsAssumption`, `BoundAssumption`, `LimitAssumption`,
`VersionAssumption`); a file has a chunk (`ChunksAssumption`); dates, limits, guests, kinds of
request and sets of operations are of the kind they should be (`ExpiryAssumption`, `LimitsAssumption`, `GuestsAssumption`, `OwnerOpsAssumption`,
`ServedAssumption`, `KindAssumption`, `ExploredAssumption`, `SubsetsAssumption`, `ProviderAssumption`); the rows of a page stand in an order (`OrderAssumption`);
and, where something is counted, the sets counted are
finite (`ContributionsAssumption`, `RequestsAssumption`, `RequestAssumption`, `RecipientsAssumption`,
`SubsetsAssumption`). TLC evaluates all of
them in the runs.

| Theorem | Module | Says |
|---|---|---|
| `TypeCorrect`, `LedgerInvariant` | `PaidAccessProofs` | types; `LedgerInv`, the inductive invariant |
| `MoneyAlwaysTraced`, `ExpirationAlwaysJustified`, `RemovalAlwaysSpares`, `ReceiptsMailedOnce` | `PaidAccessProofs` | the safety properties |
| `RowsOnlyGrow`, `ImplementsTheLedger` | `PaidAccessProofs` | `Spec => LedgerMonotone`; `Spec => Ledger!Spec`, the abstract ledger |
| `RefundsHonouredOneByOne` | `PaidAccessProofs` | `[]RefundHonoured` if there is one request slot (`OneByOne`) |
| `LockTypeCorrect`, `LockInvariant`, `LockExcludes`, `NothingLeaks`, `ChainsGoOn` | `CredentialsProofs` | types, `LockInv`, mutual exclusion, what the map holds, and that no chain stops (`NobodyStuck`) |
| `ChainImplementsLock` | `CredentialsProofs` | `LockSpec => Abstract!Spec`, the FIFO lock |
| `CredentialsTypeCorrect`, `AccessInvariant`, `SupersededAccessEnds`, `VerifiedStaysCurrent`, `TokensWorkOnlyOnce` | `CredentialsProofs` | types, `AccessInv` and what it implies |
| `LockGrantsFree`, `LockedAccessIsSafe` | `CredentialsProofs` | `LockedSpec => Spec` if the user has a key of his own, and the three safety properties of `LockedSpec` |
| `TypeCorrect`, `CollectionCorrect`, `RemovedStaysOutCorrect`, `DepositInArchiveCorrect`, `InfectedRemovedCorrect`, `OnlyOwnDepositRemovedCorrect` | `CollectionProofs` | types, `CollectionInv`, and the four properties of archives and removals |
| `UploadTypes`, `PromisesKept`, `StoredFilesIntact` | `UploadProofs` | types, `PromisedIsStored`, `StoredIntact` |
| `TransferTypes`, `DeliveredBeforeLocked`, `GoneForGood`, `ArchiveKeepsThePromise` | `TransferProofs` | types and the three safety properties of a transfer |
| `ProgramRunsOut` | `TransferProofs` | `WorkLeft` is a natural number that every step of the program lowers |
| `AccountTypes`, `AnAdministratorRemains`, `UnlinkingKeepsADoor`, `SettingsKeepTheDoor` | `AccountsProofs` | types and the three action properties |
| `MailedCodesTypes`, `AddressesAreProved`, `GuessesStayBounded` | `MailedCodesProofs` | types, `EmailProved`, `GuessesBounded` |
| `VisitTypesCorrect`, `CookiesProveAVisit`, `RestrictionStays`, `LimitsHold` | `VisitsProofs` | types, `AdmittedByVisit`, `OnlyTheNamed`, `LimitHolds` |

### The arguments

*Ledger.* None of the safety properties is inductive alone. `LedgerInv` adds
what links a handler in flight to the rows: a charge precedes its row and its
events (`ChargedFirst`, `RequestsCharged`); a row that is absent has no field set
(`EmptyRows`), which is what makes "the first recording" unambiguous; a receipt that is about to be
mailed is of a row that exists, whose receipt counter is 0, and is about to be
mailed by one request only (`ReceiptPending`), so the counter cannot reach 2;
an answer about to leave is for a recorded payment (`AnsweredIsTraced`), so an
event that is off the list is in the ledger; what an owner's check saw was
recorded (`SeenAreRecorded`), and recorded rows are never made live again, so
it stays not live while the clock only advances. `RecordPayment` is the step all of it
turns on: `RecordingFacts` says what it leaves for each case. For the refinement, each step maps to a step
of one session or stutters; `RowWriters` says that only three actions touch a row at all.

*Refunds.* With one request slot, what a refund has found (`RefundInv`: no live row with its intent when it comes to
the lookup, a revoked row or a refund given up on when it answers) stays true until
it acts, because the only other writers of payments are requests. The counterexample below is what breaks
when there are two.

*Lock.* With arrivals numbered, a waiting call's `prior` is the last call before it
of the same key (`PriorIsLast`), and the map's entry is the last call of the key
(`ChainEndsLast`). A call starts when its prior has settled; the prior started when nobody
was ahead of it; so nobody is ahead of the call (`StartedInTurn`), and two
running calls of one key would each be ahead of the other or be the same. That no chain stops is the part of `EveryCallEnds` that
is no matter of fairness: of the waiting calls of a key the one with the lowest ticket hangs on a call of that key that came before
(`PriorBefore`), which therefore is not waiting: it has settled, or its function is at work, or its outcome is about to be swallowed.

*Credentials.* `NoSupersededAccess` needs, beside itself: one request at a time in the lock
(`OneHolder`); that a request about to issue something has a standing proof
(`RequestsOK`); that tokens are never issued twice (`RowsIssued`); and that what a change has
already deleted is not issued again behind its back (`WipedStaysWiped`). The step
that matters is `Commit`: it makes every other proof superseded at once, and is
allowed because it is inside the lock, where no other request can be between its
check and its token. Federated sign-ins are outside the lock and carry no
password, so nothing can supersede them.

*The lock under its users.* `CallsOK` ties the two: a request in the lock has a call of its own with the user's key, no two share one,
and the call is running once the request is past the queue. A function that has been called and a request that holds the lock are
then two running calls of one key, which `LockInv` rules out (`Granted`). The rest is bookkeeping: only a queued request
gets into the lock (`StepEnters`), and no callback ends a call whose request is not through (`ChainKeepsCalls`). A restart is no step
of the lock; it takes it back to its first state.

*Collections.* `Inv` is `TypeOK /\ CollectionInv /\ ArchiveFits /\ InfectedRemoved`.
The archive properties are not inductive, because a finished archive is what a rebuild
wrote, what a rebuild writes is what it listed, and it listed it before other
closings finished. `EntriesFit` is about rebuilds in progress and `ArchiveFits`
(`CollectionProofs`) about the finished archive. Both say *fits every closing that ended*. When a
closing ends (`FinishZip`), it is the one whose rebuild is writing, and no other rebuild
is past its listing (`BuilderIsFirst`), so the new archive is its own;
when a later rebuild lists the rows, `RowsInv` says that removed files have no
row and that what a scan listed keeps its contribution. `UsesBounded` is an
inequality over cardinalities and uses the library's theorems on finite sets.

*Uploads.* The types need `RunsInv`: a run that waits has a request of its own on the server, about its
own file and id (`WaitsForItsOwn`), and chunk numbers stay in range (`InRange`).
`PromiseInv` follows a promise backwards: a row of the list is shown as sent only after an answer "ok" to its last
chunk, and such an answer is only ever for an id whose row is this file's; rows stay. On the edit page that takes the list
as it was saved (`InPlace`), where a position and a file are the same; rows only ever go, so a list that is whole was
never anything else. `StoredIntact` is proved of behaviours
without the failures it excepts: no request works without a run that waits for it, and no
two runs share an id (`SoleInv`), so an id has one writer at a time; so the size a request has read is the size it appends
to, and what is on the disk is a beginning of the file (`DiskInv`).

*Transfers.* `Known` says that what a completion read, and what the mails named, is still a row or was deleted: rows do not
go without a trace (`NoneLost`). `DeliveryInv`: whoever is not left to be mailed was mailed, and a completion at its lock has
mailed and linked everybody; mails and links are never taken back while the transfer exists. `FolderInv`: whoever is past the deletion of the
folder, or the rows of a removed transfer, implies the folder is gone, and no step makes it again. `ArchiveInv`: the
files that a completion under way, or the last that ended, has named are covered (`Covers`), but for those deleted at some
time, by the last rebuild that was asked for, be it queued, writing or done: what it has not read yet it will read from the
rows, and what is no row any more was deleted; one rebuild writes at a time
(`Writing`), and the last one asked for is the last to finish.

*Transfers run out of work.* `EveryTransferSettles` has a part that is no matter of fairness: between two acts of the owner
(or restarts) the program has only so many steps before it. `WorkLeft` counts them: what each request has yet to do and whom
it has yet to mail, the accounts to link, the rebuilds in the chain and those to publish, the scans at each of their points, the sweep
that is due, the date of change. A step of a request weighs six, because it may hand up to five on: a scan
(`StartScan`), a rebuild (`CheckCompleted`) or a new date (`Lock`). So weak fairness of the program brings it to where it has nothing left to do, and
a transfer that is there and not completed always leaves the sweep something to do: a count of three that only a completion or a
deletion takes away.

*Accounts.* `Inv` is `RowsOK /\ Unknown /\ ReqOK /\ RestOK`: the roles, links and passwords are those of
accounts, an unknown password is one of the directory, and each request is `Informed` of what its next
statement relies on (an unlink counted at least one open door, and never the link it drops; a batch left an administrator of its view a door).
`AdministratorRemains` then goes action by action: a step after which the last administrator is gone (`Orphaned`) is one of
those the property names (`Spared`). For `UnlinkKeepsADoor`, the door that was counted is still there and open when the
row goes, or all of them were closed by others, and a link that is not the one that goes stays.

*Mailed codes.* Two accounts never hold one code (`OneOwner`: held in a column or by a resend about to write it), and a code that an account holds
goes with one address, wherever the two appear together: a mail sent, a mail about to go, a column (`OneAddress`). A guess is a code that arrived somewhere, so
when it matches the column of an account, the mail it arrived in went to the column's address: from the match on, `Arrived`
says so of the request, until it applies the address. Accounts that are `crossed` are excepted, and a step that
could break the pairing of codes and addresses crosses its account. `GuessInv` counts, where guesses are limited: a code has been
compared at most as often as its row or its account says, plus one for each request that has compared and not written yet (`Counted`), and a code is in one place
only (`Apart`), so what a request still has to write is owed to one code. A comparison finds the counter below the
budget, and the request that makes it is not yet among those that owe a write: that leaves one for each *other* request.

*Visits.* A cookie goes back to a visit (`CookiesEarned`): `getShareToken` signs, from one read of the row, the
transfer and the password it verified, so `verifyShareToken`'s two comparisons name that visit. For `OnlyTheNamed`, `Restrained`
says that the row keeps its restriction, that nobody is linked whom it does not name, and that requests which read this transfer
saw as much; `made` tells this transfer from those before it. For `LimitHolds`, `Counts` says that no request that is looking has read
fewer views than there were lone visits, and that of two which look at once neither is alone, so a lone visit's write covers all lone
visits before it.

### What is only model-checked

* Liveness (`PaidEventuallyRecorded`, `RefundEventuallySettled`, `EveryCallEnds`, `EveryRunEnds`, `EveryTransferSettles`): the
  prover does not handle fairness and `ENABLED`. Of two of them the part that is a safety property is proved:
  `ChainsGoOn` for `EveryCallEnds`, `ProgramRunsOut` for `EveryTransferSettles`. For the other three no such
  measure is known: Stripe's deliveries repeat, and two runs that send one file under one id may send each other back to
  earlier chunks.
* The counterexample.

The inductive invariants themselves (`LedgerInv`, `LockInv`, `AccessInv`, `CollectionInv` and those of the proof modules) are
properties of no run: they are proved.

## Where the code disagrees with its own words

**A refund can be lost** (run `refund_race`, `payment.service.ts:304`). `revokePayment` updates the
rows that match, and, if none did, asks in a second statement whether the payment is
known. A payment recorded in between is known and live: the refund is answered
200 and never comes again, which the comments at `payment.service.ts:282-284` and `:302` rule out.

### Known deviations

States that the models reach and that a comment, or common sense, would not have. No run is spent on them; the
properties except them by name where they must.

* *A transfer that was just paid for can be deleted* (`jobs.service.ts:48`). `deleteExpiredShares` works through a list
  it read before the payment pushed the expiration back (`payment.controller.ts:48-49`, `paidWindow.util.ts:4-5`).
* *A device can be trusted without a code* (`auth.service.ts:343`, against `:862-864`). A browser remembered while the
  account had no second factor skips the code after another browser has turned it on.
* *A second factor nobody can lift* (`authTotp.service.ts:203`, against `:262-265`). A confirmation
  that read the secret before a reset cleared it sets `totpVerified` afterwards; the
  account then requires a code of a secret that is gone.
* *An archive may hold a file that is about to be removed* (`contribution.service.ts:117`, against `:109-110`). A rebuild
  waits for the scan of its own deposit only, and archives all rows. It heals when the other
  deposit's own rebuild has run (`RemovedStaysOut`, which holds, says when).
* *A removal that fails is logged, and the rebuild goes on* (`clamscan.service.ts:371`). An `rm`, `rename` or `deleteMany` that
  throws ends the removal where it stands and `checkAndRemove` returns; the job rebuilds the archive with the infected
  files that are left, as `contribution.service.ts:114-115` announces ("the rebuild runs either way") four lines after it
  says what the order is for ("keeps a file the scan is about to remove out of 'tout télécharger'"). Where some bytes went and the rows stayed, every later rebuild fails for want of them, and the
  owner's deletion of such a row fails on the missing file. `fault` in `InfectedRemoved`.
* *Two unlinkings that count on each other's link* (`oauth.service.ts:162`). Both read, both find the other link open, both
  delete: nothing opens that account. A settings batch that closes a provider in between does the same.
  `OvertakenByOthers` in `UnlinkKeepsADoor`.
* *Doors that are counted and lead nowhere* (`config.service.ts:590`, `signInMethod.util.ts:28`). Closing the directory is
  not judged, and its accounts have a password nobody knows.
* *A code can be applied to another address* (`user.service.ts:313`, against `:204-207`). A resend that read the old request
  writes its code over a newer one: `crossed` in `EmailProved`. One that a cancellation overtakes leaves a code without an
  address, which nothing can confirm.
* *Codes that can be guessed at without a budget* (`auth.service.ts:475`, `user.service.ts:338`). The link of an activation
  looks for the guess among the codes of all accounts, and the confirmation of an address compares it with the one held: neither counts
  the wrong ones. The comment at `auth.service.ts:491-495` says so of the link (whose route has the throttle of its address);
  nothing says so of the confirmation.
* *A file can have a chunk twice* (`upload.util.ts:21`). The page gives up on a request the server still works on, and
  its retry appends next to it: both pass `file.service.ts:67`, which looks at rows only; or a full disk tears a chunk whose size
  then counts. `StoredIntact` excepts both.
* *The edit page writes progress by position* (`EditableUpload.tsx:87`). A row that is removed while it saves moves the rows
  below it up: the last chunk of one file then marks another as sent, or marks nothing. `save` waits for every run, so it takes
  one more thing for the page to complete with a file it shows as sent and that is not stored: a run of that file which is answered past
  its last chunk (next item). `UploadPage.tsx:124-132` describes this very
  defect, which that page no longer has. `PromisedIsStored` excepts it (`list = batch`).
* *A run answered past its last chunk ends like one that sent its file*: on the combined page it counts as sent. The edit page
  asks for ever for an id that is taken.
* *An owner's date of a collection is overwritten* (`jobs.service.ts:90`, against `:60-65`). `closeEndedCollections`
  writes the computed date every hour over what `expire` and `update` set. (Dates of collections are not modelled.)
* *Visits at the same time count as one* (`share.service.ts:772`), so a transfer limited to one view may give several
  cookies; and a cookie goes on working after the limit, which only `/token` looks at.
* *An edit carries what its guard read* (`share.service.ts:648`): of two edits at once, one gives back the password or the
  limit the other has changed. An edit can give a restricted transfer a password, which `create` refuses (`:94`).
* *A request begun on a transfer may write to the next one of the same id* (`crossed` in `OnlyTheNamed`), and an archive may be
  served from it.
* *A comment that is out of date* (`user.service.ts:113-115`): it says that `delete` still has the race of two administrators,
  which `:415-421` have closed since (`AdministratorRemains`).

## What is not modelled

* *Left out of modelled components.* Payments: prices, currencies, addresses and the cookie that
  proves one. Credentials: access tokens (stateless, a quarter of an hour) and their renewal. Collections: names, quotas, e-mails to the owner, the container's
  dates, the owner's own uploads, mere detection, scans that fail (the job goes on to the
  rebuild as if nothing was found; removals that fail are modelled). Storage: thumbnails, ranges, direct uploads to S3 and S3 itself, cancelling an upload. Transfers: anonymous senders,
  the log of downloads, a removal of the whole folder that fails half-way. Visits: the ways in of the creator and of administrators. Accounts: quotas,
  avatars, the files of a deleted account. Jobs: `closeEndedCollections` and the reminders.
* *Left out altogether.* The creation of reverse shares (one row and one link in a transaction), brand slides, avatars, notices, contact,
  e-mail texts, the server's side of a NAS import: reads, single-row writes and rendering by one actor. The frontend but for the upload
  pages: pages over the API. More than half of the repository's lines are pages and their translations, which keep no state
  anybody else can change. OAuth, LDAP, Stripe, ClamAV and SMTP are external: what the backend can observe
  of them is modelled where it matters.
* *Abstractions to keep in mind.* A clock tick may come between any two statements.
  Passwords and codes are compared, not computed. A statement is atomic, as SQLite makes it. Prisma's
  `delete` and `update` of a missing row throw, and the handler ends there; `deleteMany` and
  `updateMany` do not.

## Plan

Done: payments, the lock, credentials, collections, uploads, the life of a transfer, accounts and settings, mailed codes,
visits, all with proofs of their safety properties; the lock and the credentials it guards together. Next, in this order:

1. Dates: `closeEndedCollections`, the reminders and the owner's `expire` and `update` of a collection's container. An
   owner's date is not overwritten by a computed one; a transfer is announced as ending once per end.
2. `Accounts` with `Transfer`: a refused deletion of an account has removed no file.
3. `Credentials`: which secret the second factor has, not only whether it has one (`enableTotp`
   against a confirmation); the renewal of access tokens.
4. `Collection`: scans that fail, the deletion of the container, the owner's uploads; an abstract
   specification of the archive (what a download may show), implemented by the chain of rebuilds.
5. S3: multipart uploads against the same abstract file as `Upload`.
