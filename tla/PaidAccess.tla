------------------------------ MODULE PaidAccess ------------------------------
(***************************************************************************)
(* A transfer that is sold: Stripe's checkout sessions and its unordered,  *)
(* repeated deliveries, the SharePayment ledger they write, the expiration *)
(* they push back, and the ways a transfer can go away meanwhile (remove,  *)
(* expire, update, the deleteExpiredShares job).                           *)
(*                                                                         *)
(* One step of this module is one statement or one transaction of the      *)
(* backend: between two awaits of a handler anything else may run.         *)
(***************************************************************************)
EXTENDS Integers

CONSTANTS
    Shares,        \* share ids; an id may be used again once its row is gone
    NoShare,       \* the null of SharePayment.shareId
    Sessions,      \* Stripe checkout sessions, each with its payment intent
    Workers,       \* requests the node process may have in flight at once
    OwnerOps,      \* what the owners do: a subset of {"remove","expire","update"}
    ExpiryChoices, \* the expirations an owner may type
    MaxTime,       \* bound on the clock
    Window,        \* share.paidAccessWindow
    RetryAge,      \* DELAI_REMBOURSEMENT_ORPHELIN_MS
    Retention,     \* share.fileRetentionPeriod
    MaxCrashes     \* bound on restarts of the process

Never == 0                          \* the epoch: "never expires"
Time  == 1..MaxTime
Dates == 0..(MaxTime + Window)

ASSUME NoShareAssumption == NoShare \notin Shares
ASSUME SessionsAssumption == Sessions # {}
ASSUME OwnerOpsAssumption == OwnerOps \subseteq {"remove", "expire", "update"}
ASSUME BoundsAssumption ==
    /\ MaxTime \in Nat \ {0}
    /\ Window \in Nat \ {0}
    /\ RetryAge \in Nat
    /\ Retention \in Nat
    /\ MaxCrashes \in Nat
ASSUME ExpiryAssumption == ExpiryChoices \subseteq Dates

VARIABLES
    now,         \* the clock
    shares,      \* ids of the Share rows
    expiration,  \* Share.expiration
    stored,      \* share directories on disk
    checkout,    \* Stripe's view of each session
    pending,     \* events Stripe will deliver (again): kind and session
    payment,     \* the SharePayment rows, keyed by stripeCheckoutSessionId
    worker,      \* the webhook and confirm requests in flight
    owner,       \* the owner's remove or expire in flight on each share
    cleaner,     \* the deleteExpiredShares run in flight
    crashes,
    receipts,    \* history: receipts mailed for each session
    typed,       \* history: the expiration the owner last gave each share
    gaveUp       \* history: refunds answered 200 because they were too old

vars == <<now, shares, expiration, stored, checkout, pending, payment, worker,
          owner, cleaner, crashes, receipts, typed, gaveUp>>

shareVars  == <<shares, expiration, stored, owner, cleaner, typed>>
stripeVars == <<checkout, pending>>

-----------------------------------------------------------------------------
Kinds  == {"webhook", "confirm", "refund"}
Phases == {"idle", "retrieve", "record", "receipt", "answer", "lookup"}

\* A session as Stripe knows it, a SharePayment row, a request in flight, and
\* an owner's removal or expiry in flight.
Charges == [state : {"none", "open", "paid", "settled", "refunded"},
            share : Shares \cup {NoShare}, refundedAt : Dates]
Rows == [state : {"none", "live", "revoked"}, share : Shares \cup {NoShare},
         known : BOOLEAN, intent : BOOLEAN, until : Dates]
Requests == [phase : Phases, kind : Kinds, session : Sessions, intent : BOOLEAN, until : Dates]
Calls == [phase : {"idle", "wipe", "delete", "expire"}, seen : SUBSET Sessions]

Idle == [phase |-> "idle", kind |-> "webhook",
         session |-> CHOOSE s \in Sessions : TRUE, intent |-> FALSE, until |-> Never]

NoRow == [state |-> "none", share |-> NoShare, known |-> FALSE,
          intent |-> FALSE, until |-> Never]

Quiet == [phase |-> "idle", seen |-> {}]
Asleep == [todo |-> {}, current |-> NoShare]

TypeOK ==
    /\ now \in Time
    /\ shares \subseteq Shares
    /\ expiration \in [Shares -> Dates]
    /\ stored \subseteq Shares
    /\ checkout \in [Sessions -> Charges]
    /\ pending \subseteq ({"paid", "refund"} \X Sessions)
    /\ payment \in [Sessions -> Rows]
    /\ worker \in [Workers -> Requests]
    /\ owner \in [Shares -> Calls]
    /\ cleaner \in [todo : SUBSET Shares, current : Shares \cup {NoShare}]
    /\ crashes \in 0..MaxCrashes
    /\ receipts \in [Sessions -> Nat]
    /\ typed \in [Shares -> Dates]
    /\ gaveUp \subseteq Sessions

Init ==
    /\ now = 1
    /\ shares = {}
    /\ expiration = [h \in Shares |-> Never]
    /\ stored = {}
    /\ checkout = [s \in Sessions |-> [state |-> "none", share |-> NoShare, refundedAt |-> 0]]
    /\ pending = {}
    /\ payment = [s \in Sessions |-> NoRow]
    /\ worker = [w \in Workers |-> Idle]
    /\ owner = [h \in Shares |-> Quiet]
    /\ cleaner = Asleep
    /\ crashes = 0
    /\ receipts = [s \in Sessions |-> 0]
    /\ typed = [h \in Shares |-> Never]
    /\ gaveUp = {}

-----------------------------------------------------------------------------
\* A payment that still entitles its buyer.
Live(s) == payment[s].state = "live" /\ payment[s].until > now

\* ShareSecurityGuard's own test: the epoch never passes.
Expired(h) == expiration[h] # Never /\ now > expiration[h]

\* A slip: the window is added to the expiration instead of bounding it below.
NextExpirationAdds(d, u) == IF d = Never THEN d ELSE d + u

\* nextExpiration: what the row of a share becomes when a payment promises
\* access until u.  Never shortened, never given to a share that never ends.
NextExpiration(d, u) == IF d = Never \/ d >= u THEN d ELSE u

\* Deleting a Share row: onDelete SetNull on every payment attached to it.
Detached(h) == [s \in Sessions |->
    IF payment[s].share = h THEN [payment[s] EXCEPT !.share = NoShare] ELSE payment[s]]

-----------------------------------------------------------------------------
(* Stripe, and the buyers.  Modelled from how the backend uses it. *)

\* POST shares/:id/payment/session: past ShareSecurityGuard, so the share is
\* there and has not expired.  A buyer who has proven no address yet is never
\* "already paid", so the isPaidFor refusal stops no session for good.
CreateSession(s, h) ==
    /\ checkout[s].state = "none"
    /\ h \in shares
    /\ ~Expired(h)
    /\ checkout' = [checkout EXCEPT ![s].state = "open", ![s].share = h]
    /\ UNCHANGED <<now, pending, payment, worker, crashes, receipts, gaveUp, shareVars>>

\* The buyer pays.  The session reads "paid" before its payment intent shows.
Pay(s) ==
    /\ checkout[s].state = "open"
    /\ checkout' = [checkout EXCEPT ![s].state = "paid"]
    /\ UNCHANGED <<now, pending, payment, worker, crashes, receipts, gaveUp, shareVars>>

\* The intent is attached and checkout.session.completed is emitted with it.
Settle(s) ==
    /\ checkout[s].state = "paid"
    /\ checkout' = [checkout EXCEPT ![s].state = "settled"]
    /\ pending' = pending \cup {<<"paid", s>>}
    /\ UNCHANGED <<now, payment, worker, crashes, receipts, gaveUp, shareVars>>

\* The seller refunds: charge.refunded is emitted, whatever was delivered yet.
Refund(s) ==
    /\ checkout[s].state = "settled"
    /\ checkout' = [checkout EXCEPT ![s].state = "refunded", ![s].refundedAt = now]
    /\ pending' = pending \cup {<<"refund", s>>}
    /\ UNCHANGED <<now, payment, worker, crashes, receipts, gaveUp, shareVars>>

-----------------------------------------------------------------------------
(* The webhook and the return page. *)

\* A slip: the event is taken off Stripe's list before it is applied.
DeliverPaidAcksFirst(w, s) ==
    /\ worker[w].phase = "idle"
    /\ <<"paid", s>> \in pending
    /\ pending' = pending \ {<<"paid", s>>}
    /\ worker' = [worker EXCEPT ![w] =
         [phase |-> "record", kind |-> "webhook", session |-> s,
          intent |-> TRUE, until |-> now + Window]]
    /\ UNCHANGED <<now, checkout, payment, crashes, receipts, gaveUp, shareVars>>

\* checkout.session.completed arrives: the event carries the intent, and
\* recordPayment computes paidAt and accessUntil before its transaction opens.
DeliverPaid(w, s) ==
    /\ worker[w].phase = "idle"
    /\ <<"paid", s>> \in pending
    /\ worker' = [worker EXCEPT ![w] =
         [phase |-> "record", kind |-> "webhook", session |-> s,
          intent |-> TRUE, until |-> now + Window]]
    /\ UNCHANGED <<now, payment, crashes, receipts, gaveUp, shareVars, stripeVars>>

\* POST payment/confirm: refused when the transfer is gone, else Stripe is asked.
ConfirmSession(w, s) ==
    /\ worker[w].phase = "idle"
    /\ checkout[s].state # "none"
    /\ checkout[s].share \in shares
    /\ worker' = [worker EXCEPT ![w] =
         [phase |-> "retrieve", kind |-> "confirm", session |-> s,
          intent |-> FALSE, until |-> Never]]
    /\ UNCHANGED <<now, payment, crashes, receipts, gaveUp, shareVars, stripeVars>>

\* A slip: the return page is believed, payment_status is not looked at.
RetrieveSessionTrusting(w) ==
    /\ worker[w].phase = "retrieve"
    /\ worker' = [worker EXCEPT ![w].phase = "record", ![w].until = now + Window]
    /\ UNCHANGED <<now, payment, crashes, receipts, gaveUp, shareVars, stripeVars>>

\* Stripe answers with the session as it is now; unpaid sessions end here.
RetrieveSession(w) ==
    /\ worker[w].phase = "retrieve"
    /\ LET c == checkout[worker[w].session].state IN
       worker' = [worker EXCEPT ![w] =
         IF c = "open" THEN Idle
         ELSE [@ EXCEPT !.phase = "record", !.intent = (c # "paid"), !.until = now + Window]]
    /\ UNCHANGED <<now, payment, crashes, receipts, gaveUp, shareVars, stripeVars>>

\* A slip: a payment for a transfer that is gone is answered and not written.
RecordedIfShared(r, s) ==
    IF payment[s].state # "none" THEN [payment[s] EXCEPT !.intent = @ \/ r.intent]
    ELSE IF checkout[s].share \notin shares THEN NoRow
    ELSE [state |-> "live", share |-> checkout[s].share, known |-> TRUE,
          intent |-> r.intent, until |-> r.until]

\* The row recordPayment leaves: created, completed with the intent it lacked,
\* or returned as it stands.
Recorded(r, s) ==
    LET known == checkout[s].share \in shares IN
    IF payment[s].state = "none"
    THEN [state |-> "live", share |-> IF known THEN checkout[s].share ELSE NoShare,
          known |-> known, intent |-> r.intent, until |-> r.until]
    ELSE [payment[s] EXCEPT !.intent = @ \/ r.intent]

\* A slip: the end of access is computed anew by every replay.
PromisedUntilLocal(r, s) == r.until

\* The end of access the expiration is pushed to: the row's, not the caller's.
PromisedUntil(r, s) == Recorded(r, s).until

\* Only the recording that created the row of a known transfer mails a receipt.
MailsReceipt(s) == payment[s].state = "none" /\ checkout[s].share \in shares

\* The one transaction of recordPayment: read the share and the row, create or
\* complete the row, push the expiration from the row's own promise.
RecordPayment(w) ==
    /\ worker[w].phase = "record"
    /\ LET r == worker[w]
           s == r.session
           h == checkout[s].share
       IN /\ payment' = [payment EXCEPT ![s] = Recorded(r, s)]
          /\ expiration' = IF h \in shares
                           THEN [expiration EXCEPT ![h] = NextExpiration(@, PromisedUntil(r, s))]
                           ELSE expiration
          /\ worker' = [worker EXCEPT ![w] =
               [@ EXCEPT !.phase = IF MailsReceipt(s) THEN "receipt" ELSE "answer",
                         !.intent = FALSE, !.until = Never]]
    /\ UNCHANGED <<now, shares, stored, owner, cleaner, typed, crashes, receipts, gaveUp,
                   stripeVars>>

\* After the transaction: the receipt is mailed, or its failure is swallowed.
SendReceipt(w) ==
    /\ worker[w].phase = "receipt"
    /\ worker' = [worker EXCEPT ![w].phase = "answer"]
    /\ \/ receipts' = [receipts EXCEPT ![worker[w].session] = @ + 1]
       \/ UNCHANGED receipts
    /\ UNCHANGED <<now, payment, crashes, gaveUp, shareVars, stripeVars>>

\* charge.refunded arrives: the updateMany of revokePayment, which matches a
\* row by its intent and only if it is not revoked yet.
RevokePayment(w, s) ==
    /\ worker[w].phase = "idle"
    /\ <<"refund", s>> \in pending
    /\ LET found == payment[s].state = "live" /\ payment[s].intent IN
       /\ payment' = IF found THEN [payment EXCEPT ![s].state = "revoked"] ELSE payment
       /\ worker' = [worker EXCEPT ![w] =
            [phase |-> IF found THEN "answer" ELSE "lookup", kind |-> "refund",
             session |-> s, intent |-> FALSE, until |-> Never]]
    /\ UNCHANGED <<now, crashes, receipts, gaveUp, shareVars, stripeVars>>

\* A slip: a refund that matches nothing is answered 200 and forgotten.
LookupRefundForgets(w) ==
    /\ worker[w].phase = "lookup"
    /\ worker' = [worker EXCEPT ![w].phase = "answer"]
    /\ UNCHANGED <<now, payment, crashes, receipts, gaveUp, shareVars, stripeVars>>

\* Nothing was updated: a second statement asks whether the payment is known.
\* Known or too old is answered 200; otherwise the delivery is refused.
LookupRefund(w) ==
    /\ worker[w].phase = "lookup"
    /\ LET s == worker[w].session
           known == payment[s].state # "none" /\ payment[s].intent
           tooOld == now - checkout[s].refundedAt > RetryAge
       IN /\ worker' = [worker EXCEPT ![w] =
                          IF known \/ tooOld THEN [@ EXCEPT !.phase = "answer"] ELSE Idle]
          /\ gaveUp' = IF ~known /\ tooOld THEN gaveUp \cup {s} ELSE gaveUp
    /\ UNCHANGED <<now, payment, crashes, receipts, shareVars, stripeVars>>

\* What a 200 takes off Stripe's list; the return page is not an event.
Acknowledged(r) ==
    CASE r.kind = "webhook" -> {<<"paid", r.session>>}
      [] r.kind = "refund"  -> {<<"refund", r.session>>}
      [] OTHER              -> {}

\* The answer leaves.  Stripe takes it, or misses it and will deliver again.
Answer(w) ==
    /\ worker[w].phase = "answer"
    /\ worker' = [worker EXCEPT ![w] = Idle]
    /\ \/ pending' = pending \ Acknowledged(worker[w])
       \/ UNCHANGED pending
    /\ UNCHANGED <<now, checkout, payment, crashes, receipts, gaveUp, shareVars>>

-----------------------------------------------------------------------------
(* The owner of the transfer, and the cleanup job. *)

CreateShare(h, d) ==
    /\ h \notin shares
    /\ shares' = shares \cup {h}
    /\ stored' = stored \cup {h}
    /\ expiration' = [expiration EXCEPT ![h] = d]
    /\ typed' = [typed EXCEPT ![h] = d]
    /\ UNCHANGED <<now, payment, worker, owner, cleaner, crashes, receipts, gaveUp, stripeVars>>

\* The payments assertNoActivePaidAccess looks at.
PaymentsOf(h) == {s \in Sessions : payment[s].share = h}

\* A slip: remove and expire look at no payment.
AssertNothing(h, next) ==
    /\ owner[h].phase = "idle"
    /\ h \in shares
    /\ owner' = [owner EXCEPT ![h] = [phase |-> next, seen |-> PaymentsOf(h)]]
    /\ UNCHANGED <<now, shares, expiration, stored, payment, worker, cleaner, crashes,
                   receipts, typed, gaveUp, stripeVars>>

\* The check remove and expire share; "seen" remembers what it looked at.
AssertNoActivePaidAccess(h, next) ==
    /\ owner[h].phase = "idle"
    /\ h \in shares
    /\ \A s \in PaymentsOf(h) : ~Live(s)
    /\ owner' = [owner EXCEPT ![h] = [phase |-> next, seen |-> PaymentsOf(h)]]
    /\ UNCHANGED <<now, shares, expiration, stored, payment, worker, cleaner, crashes,
                   receipts, typed, gaveUp, stripeVars>>

Remove(h) == "remove" \in OwnerOps /\ AssertNoActivePaidAccess(h, "wipe")

Expire(h) == "expire" \in OwnerOps /\ AssertNoActivePaidAccess(h, "expire")

\* remove, continued: deleteAllFiles ...
RemoveFiles(h) ==
    /\ owner[h].phase = "wipe"
    /\ stored' = stored \ {h}
    /\ owner' = [owner EXCEPT ![h].phase = "delete"]
    /\ UNCHANGED <<now, shares, expiration, payment, worker, cleaner, crashes, receipts,
                   typed, gaveUp, stripeVars>>

\* ... then the row, unless it went away meanwhile (the delete then fails).
RemoveRow(h) ==
    /\ owner[h].phase = "delete"
    /\ shares' = shares \ {h}
    /\ payment' = IF h \in shares THEN Detached(h) ELSE payment
    /\ owner' = [owner EXCEPT ![h] = Quiet]
    /\ UNCHANGED <<now, expiration, stored, worker, cleaner, crashes, receipts, typed,
                   gaveUp, stripeVars>>

\* expire, continued: the expiration becomes now.
ExpireNow(h) ==
    /\ owner[h].phase = "expire"
    /\ owner' = [owner EXCEPT ![h] = Quiet]
    /\ IF h \in shares
       THEN /\ expiration' = [expiration EXCEPT ![h] = now]
            /\ typed' = [typed EXCEPT ![h] = now]
       ELSE UNCHANGED <<expiration, typed>>
    /\ UNCHANGED <<now, shares, stored, payment, worker, cleaner, crashes, receipts, gaveUp,
                   stripeVars>>

\* update: any expiration the form lets through, with no look at payments.
Update(h, d) ==
    /\ "update" \in OwnerOps
    /\ h \in shares
    /\ expiration' = [expiration EXCEPT ![h] = d]
    /\ typed' = [typed EXCEPT ![h] = d]
    /\ UNCHANGED <<now, shares, stored, payment, worker, owner, cleaner, crashes, receipts,
                   gaveUp, stripeVars>>

\* The rows deleteExpiredShares selects.
ExpiredShares == {h \in shares : expiration[h] # Never /\ expiration[h] + Retention < now}

\* deleteExpiredShares: the list is read once ...
SelectExpired ==
    /\ cleaner = Asleep
    /\ ExpiredShares # {}
    /\ cleaner' = [todo |-> ExpiredShares, current |-> NoShare]
    /\ UNCHANGED <<now, shares, expiration, stored, payment, worker, owner, crashes,
                   receipts, typed, gaveUp, stripeVars>>

\* ... then, one share after the other, the directory goes ...
CleanFiles(h) ==
    /\ cleaner.current = NoShare
    /\ h \in cleaner.todo
    /\ stored' = stored \ {h}
    /\ cleaner' = [cleaner EXCEPT !.current = h]
    /\ UNCHANGED <<now, shares, expiration, payment, worker, owner, crashes, receipts,
                   typed, gaveUp, stripeVars>>

\* ... and the row.  A row already gone makes the delete throw: the run ends.
CleanRow ==
    /\ cleaner.current # NoShare
    /\ LET h == cleaner.current IN
       IF h \in shares
       THEN /\ shares' = shares \ {h}
            /\ payment' = Detached(h)
            /\ cleaner' = [todo |-> cleaner.todo \ {h}, current |-> NoShare]
       ELSE /\ cleaner' = Asleep
            /\ UNCHANGED <<shares, payment>>
    /\ UNCHANGED <<now, expiration, stored, worker, owner, crashes, receipts, typed, gaveUp,
                   stripeVars>>

-----------------------------------------------------------------------------
\* The process restarts: every request, owner call and job run in flight is lost.
Crash ==
    /\ crashes < MaxCrashes
    /\ crashes' = crashes + 1
    /\ worker' = [w \in Workers |-> Idle]
    /\ owner' = [h \in Shares |-> Quiet]
    /\ cleaner' = Asleep
    /\ UNCHANGED <<now, shares, expiration, stored, payment, receipts, typed, gaveUp,
                   stripeVars>>

Tick ==
    /\ now < MaxTime
    /\ now' = now + 1
    /\ UNCHANGED <<payment, worker, crashes, receipts, gaveUp, shareVars, stripeVars>>

Stripe(s) == (\E h \in Shares : CreateSession(s, h)) \/ Pay(s) \/ Settle(s) \/ Refund(s)

Request(w) ==
    \/ \E s \in Sessions : DeliverPaid(w, s) \/ ConfirmSession(w, s) \/ RevokePayment(w, s)
    \/ RetrieveSession(w) \/ RecordPayment(w) \/ SendReceipt(w) \/ LookupRefund(w) \/ Answer(w)

Owner(h) ==
    \/ \E d \in ExpiryChoices : CreateShare(h, d) \/ Update(h, d)
    \/ Remove(h) \/ RemoveFiles(h) \/ RemoveRow(h) \/ Expire(h) \/ ExpireNow(h)

Cleaner == SelectExpired \/ (\E h \in Shares : CleanFiles(h)) \/ CleanRow

Next ==
    \/ \E s \in Sessions : Stripe(s)
    \/ \E w \in Workers : Request(w)
    \/ \E h \in Shares : Owner(h)
    \/ Cleaner
    \/ Crash
    \/ Tick

Spec == Init /\ [][Next]_vars

\* Stripe emits and redelivers each event until it is answered; the process
\* carries on with the requests it has taken.
Fairness ==
    /\ \A s \in Sessions :
        /\ WF_vars(Settle(s))
        /\ SF_vars(\E w \in Workers : DeliverPaid(w, s))
        /\ SF_vars(\E w \in Workers : RevokePayment(w, s))
    /\ \A w \in Workers :
        WF_vars(RetrieveSession(w) \/ RecordPayment(w) \/ SendReceipt(w)
                \/ LookupRefund(w) \/ Answer(w))

FairSpec == Spec /\ Fairness
-----------------------------------------------------------------------------
(* What must hold. *)

\* A session's buyer gets at most one receipt, however often the webhook and
\* the return page record the same payment, and none for a payment that found
\* no transfer: the receipt links to it (payment.service.ts, recordPayment).
ReceiptsOnce ==
    \A s \in Sessions :
        /\ receipts[s] <= 1
        /\ receipts[s] = 1 => payment[s].known

\* Once Stripe stops delivering a completed session, its payment is in the
\* ledger, whether the transfer still exists or not and whatever crashed.
MoneyTraced ==
    \A s \in Sessions :
        checkout[s].state \in {"settled", "refunded"} /\ <<"paid", s>> \notin pending
            => payment[s].state # "none"

\* A transfer ends when its owner last said, or exactly when a payment for its
\* id promised, and then later than the owner said: replays of a payment never
\* push the expiration beyond the row's accessUntil.
ExpirationJustified ==
    \A h \in shares :
        expiration[h] # typed[h] =>
            /\ typed[h] # Never
            /\ expiration[h] > typed[h]
            /\ \E s \in Sessions :
                 /\ checkout[s].share = h
                 /\ payment[s].state # "none"
                 /\ payment[s].until = expiration[h]

\* A removal or expiry that is under way never catches a right its own check
\* looked at: rights do not come back to life between the check and the write.
RemovalSparesSeenRights ==
    \A h \in Shares : \A s \in owner[h].seen : ~Live(s)

\* Stripe has charged a session whose payment is recorded or announced.
ChargedFirst ==
    \A s \in Sessions :
        /\ payment[s].state # "none" => checkout[s].state \in {"paid", "settled", "refunded"}
        /\ payment[s].state = "revoked" => checkout[s].state = "refunded"
        /\ <<"paid", s>> \in pending => checkout[s].state \in {"settled", "refunded"}
        /\ <<"refund", s>> \in pending => checkout[s].state = "refunded"

\* Stripe knows every session it is asked about, and has charged every session
\* whose payment is being recorded.
RequestsCharged ==
    \A w \in Workers :
        LET c == checkout[worker[w].session].state IN
        /\ worker[w].phase = "retrieve" => c # "none"
        /\ worker[w].phase = "record" => c \in {"paid", "settled", "refunded"}

\* A session without a row has none of a row's fields.
EmptyRows == \A s \in Sessions : payment[s].state = "none" => payment[s] = NoRow

\* A receipt about to be mailed is the first one, of a payment for a known
\* transfer, and is about to be mailed once.
ReceiptPending ==
    \A w \in Workers : worker[w].phase = "receipt" =>
        LET s == worker[w].session IN
        /\ payment[s].state # "none"
        /\ payment[s].known
        /\ receipts[s] = 0
        /\ \A v \in Workers \ {w} : worker[v].phase = "receipt" => worker[v].session # s

\* A completed session is about to be answered 200 only when it is recorded;
\* only a refund is looked up.
AnsweredIsTraced ==
    \A w \in Workers :
        /\ worker[w].phase = "answer" /\ worker[w].kind = "webhook"
              => payment[worker[w].session].state # "none"
        /\ worker[w].phase = "lookup" => worker[w].kind = "refund"

\* What an owner's check looked at were recorded payments.
SeenAreRecorded ==
    \A h \in Shares : \A s \in owner[h].seen : payment[s].state # "none"

\* The inductive invariant the safety properties follow from.
LedgerInv ==
    /\ ChargedFirst
    /\ RequestsCharged
    /\ EmptyRows
    /\ ReceiptsOnce
    /\ ReceiptPending
    /\ MoneyTraced
    /\ AnsweredIsTraced
    /\ ExpirationJustified
    /\ SeenAreRecorded
    /\ RemovalSparesSeenRights

\* What no step may do to a recorded payment: drop it, move the end of its
\* access, erase its intent, undo its revocation, or move it to another share.
LedgerMonotone ==
    [][\A s \in Sessions : payment[s].state # "none" =>
        /\ payment'[s].state # "none"
        /\ payment[s].state = "revoked" => payment'[s].state = "revoked"
        /\ payment[s].intent => payment'[s].intent
        /\ payment'[s].until = payment[s].until
        /\ payment'[s].known = payment[s].known
        /\ payment'[s].share \in {payment[s].share, NoShare}]_vars

\* A refund Stripe no longer delivers has revoked its payment, unless it was
\* older than RetryAge when the backend gave up on it.
RefundHonoured ==
    \A s \in Sessions :
        checkout[s].state = "refunded" /\ <<"refund", s>> \notin pending
            => payment[s].state = "revoked" \/ s \in gaveUp

\* Every settled session ends up in the ledger, through lost answers,
\* restarts and deliveries in any order.
PaidEventuallyRecorded ==
    \A s \in Sessions :
        checkout[s].state = "settled" ~> payment[s].state # "none"

\* A refund in flight met no payment in its update, and meets a live one since:
\* its lookup will find, or has found, the payment known, and it answers 200.
Overtaken(s) ==
    \E w \in Workers :
        /\ worker[w].kind = "refund" /\ worker[w].phase \in {"lookup", "answer"}
        /\ worker[w].session = s
        /\ payment[s].state = "live" /\ payment[s].intent

\* Every refund Stripe still has to deliver, however late its payment is recorded
\* and whichever answers are lost, ends up revoking it or being given up on for
\* its age, unless the recording of the payment falls between the two statements
\* of the refund (payment.service.ts:304): that refund is lost, as RefundHonoured
\* shows.
RefundEventuallySettled ==
    \A s \in Sessions :
        <<"refund", s>> \in pending
            ~> payment[s].state = "revoked" \/ s \in gaveUp \/ Overtaken(s)

\* The ledger as its reader sees it: charges, rights and receipts.
Ledger == INSTANCE PaymentLedger WITH
    charge  <- [s \in Sessions |->
                  CASE checkout[s].state \in {"none", "open"} -> "unpaid"
                    [] checkout[s].state = "refunded"         -> "refunded"
                    [] OTHER                                  -> "paid"],
    right   <- [s \in Sessions |-> payment[s].state],
    until   <- [s \in Sessions |-> payment[s].until],
    receipt <- receipts

\* The webhook, the return page and the refunds implement the abstract ledger.
ImplementsLedger == Ledger!Spec
=============================================================================
