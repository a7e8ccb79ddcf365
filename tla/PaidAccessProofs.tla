--------------------------- MODULE PaidAccessProofs ---------------------------
(***************************************************************************)
(* What TLAPS proves of PaidAccess, for every value of its constants:      *)
(* types, the inductive invariant of the ledger and what follows from it,  *)
(* that it implements PaymentLedger, and what holds of refunds when        *)
(* requests do not overlap.                                                *)
(***************************************************************************)
EXTENDS PaidAccess, TLAPS

USE NoShareAssumption, SessionsAssumption, BoundsAssumption, ExpiryAssumption
    DEF Time, Dates, Never

\* The values requests, rows, owner calls and the job start from are well typed.
LEMMA RestingValues ==
    /\ Idle \in Requests
    /\ NoRow \in Rows
    /\ Quiet \in Calls
    /\ Asleep \in [todo : SUBSET Shares, current : Shares \cup {NoShare}]
  <1>1. (CHOOSE s \in Sessions : TRUE) \in Sessions
    OBVIOUS
  <1>2. QED
    BY <1>1 DEF Idle, NoRow, Quiet, Asleep, Requests, Rows, Calls, Phases, Kinds

\* Losing its transfer keeps a row well typed.
LEMMA DetachedType ==
    ASSUME TypeOK, NEW h \in Shares
    PROVE  Detached(h) \in [Sessions -> Rows]
  <1>1. ASSUME NEW r \in Rows PROVE [r EXCEPT !.share = NoShare] \in Rows
    BY DEF Rows
  <1>2. QED
    BY <1>1 DEF TypeOK, Detached

\* Recording leaves a well-typed row.
LEMMA RecordedType ==
    ASSUME TypeOK, NEW w \in Workers, NEW s \in Sessions
    PROVE  Recorded(worker[w], s) \in Rows
  <1>1. worker[w].intent \in BOOLEAN /\ worker[w].until \in Dates
    BY DEF TypeOK, Requests
  <1>2. checkout[s].share \in Shares \cup {NoShare}
    BY DEF TypeOK, Charges
  <1>3. ASSUME NEW r \in Rows, NEW b \in BOOLEAN PROVE [r EXCEPT !.intent = @ \/ b] \in Rows
    BY DEF Rows
  <1>4. QED
    BY <1>1, <1>2, <1>3 DEF TypeOK, Recorded, Rows

\* Moving a request on keeps it well typed.
LEMMA RequestUpdate ==
    ASSUME NEW r \in Requests, NEW p \in Phases, NEW b \in BOOLEAN, NEW u \in Dates
    PROVE  [r EXCEPT !.phase = p, !.intent = b, !.until = u] \in Requests
  <1>1. [r EXCEPT !.phase = p] \in Requests
    BY DEF Requests
  <1>2. ASSUME NEW q \in Requests PROVE [q EXCEPT !.intent = b] \in Requests
    BY DEF Requests
  <1>3. ASSUME NEW q \in Requests PROVE [q EXCEPT !.until = u] \in Requests
    BY DEF Requests
  <1>4. [r EXCEPT !.phase = p, !.intent = b, !.until = u]
          = [[[r EXCEPT !.phase = p] EXCEPT !.intent = b] EXCEPT !.until = u]
    OBVIOUS
  <1>5. QED
    BY <1>1, <1>2, <1>3, <1>4

\* Moving a session on keeps it well typed.
LEMMA ChargeUpdate ==
    ASSUME NEW c \in Charges
    PROVE  /\ \A h \in Shares : [c EXCEPT !.state = "open", !.share = h] \in Charges
           /\ \A d \in Dates : [c EXCEPT !.state = "refunded", !.refundedAt = d] \in Charges
  <1>1. ASSUME NEW b \in Charges, NEW t \in {"open", "refunded"}
        PROVE  [b EXCEPT !.state = t] \in Charges
    BY DEF Charges
  <1>2. ASSUME NEW h \in Shares PROVE [c EXCEPT !.state = "open", !.share = h] \in Charges
    <2>1. [[c EXCEPT !.state = "open"] EXCEPT !.share = h] \in Charges
      BY <1>1 DEF Charges
    <2>2. QED
      BY <2>1
  <1>3. ASSUME NEW d \in Dates
        PROVE  [c EXCEPT !.state = "refunded", !.refundedAt = d] \in Charges
    <2>1. [[c EXCEPT !.state = "refunded"] EXCEPT !.refundedAt = d] \in Charges
      BY <1>1 DEF Charges
    <2>2. QED
      BY <2>1
  <1>4. QED
    BY <1>2, <1>3

\* Every reachable state is well typed.
THEOREM TypeCorrect == Spec => []TypeOK
  <1>1. Init => TypeOK
    BY RestingValues DEF Init, TypeOK, Charges
  <1>2. TypeOK /\ [Next]_vars => TypeOK'
    <2> SUFFICES ASSUME TypeOK, [Next]_vars PROVE TypeOK'
      OBVIOUS
    <2> USE RestingValues DEF shareVars, stripeVars
    <2>1. ASSUME NEW s \in Sessions, Stripe(s) PROVE TypeOK'
      <3>0. checkout \in [Sessions -> Charges] /\ now \in Dates
        BY DEF TypeOK
      <3>1. checkout' \in [Sessions -> Charges]
        <4>1. ASSUME NEW h \in Shares, CreateSession(s, h) PROVE checkout' \in [Sessions -> Charges]
          <5>1. [checkout[s] EXCEPT !.state = "open", !.share = h] \in Charges
            BY <3>0, ChargeUpdate
          <5>2. checkout' = [checkout EXCEPT ![s] = [checkout[s] EXCEPT !.state = "open", !.share = h]]
            BY <4>1, <3>0 DEF CreateSession
          <5>3. QED
            BY <5>1, <5>2, <3>0
        <4>2. CASE Pay(s)
          BY <4>2, <3>0 DEF Pay, Charges
        <4>3. CASE Settle(s)
          BY <4>3, <3>0 DEF Settle, Charges
        <4>4. CASE Refund(s)
          <5>1. [checkout[s] EXCEPT !.state = "refunded", !.refundedAt = now] \in Charges
            BY <3>0, ChargeUpdate
          <5>2. checkout' = [checkout EXCEPT ![s] =
                               [checkout[s] EXCEPT !.state = "refunded", !.refundedAt = now]]
            BY <4>4, <3>0 DEF Refund
          <5>3. QED
            BY <5>1, <5>2, <3>0
        <4>5. QED
          BY <2>1, <4>1, <4>2, <4>3, <4>4 DEF Stripe
      <3>2. pending' \subseteq ({"paid", "refund"} \X Sessions)
        BY <2>1 DEF Stripe, CreateSession, Pay, Settle, Refund, TypeOK
      <3>3. UNCHANGED <<now, payment, worker, crashes, receipts, gaveUp, shareVars>>
        BY <2>1 DEF Stripe, CreateSession, Pay, Settle, Refund
      <3>4. QED
        BY <3>1, <3>2, <3>3 DEF TypeOK
    <2>2. ASSUME NEW w \in Workers, Request(w) PROVE TypeOK'
      <3>1. ASSUME NEW s \in Sessions, DeliverPaid(w, s) PROVE TypeOK'
        BY <3>1 DEF DeliverPaid, TypeOK, Requests, Phases, Kinds
      <3>2. ASSUME NEW s \in Sessions, ConfirmSession(w, s) PROVE TypeOK'
        BY <3>2 DEF ConfirmSession, TypeOK, Requests, Phases, Kinds
      <3>3. ASSUME NEW s \in Sessions, RevokePayment(w, s) PROVE TypeOK'
        <4>1. [payment EXCEPT ![s].state = "revoked"] \in [Sessions -> Rows]
          BY DEF TypeOK, Rows
        <4>2. payment' \in [Sessions -> Rows]
          BY <3>3, <4>1 DEF RevokePayment, TypeOK
        <4>3. worker' \in [Workers -> Requests]
          BY <3>3 DEF RevokePayment, TypeOK, Requests, Phases, Kinds
        <4>4. QED
          BY <3>3, <4>2, <4>3 DEF RevokePayment, TypeOK
      <3>4. CASE RetrieveSession(w)
        <4>1. ASSUME NEW b \in BOOLEAN
              PROVE  [worker[w] EXCEPT !.phase = "record", !.intent = b, !.until = now + Window]
                       \in Requests
          <5>1. worker[w] \in Requests /\ "record" \in Phases /\ now + Window \in Dates
            BY DEF TypeOK, Phases
          <5>2. QED
            BY <5>1, RequestUpdate, Zenon
        <4>2. worker' \in [Workers -> Requests]
          BY <3>4, <4>1 DEF RetrieveSession, TypeOK
        <4>3. QED
          BY <3>4, <4>2 DEF RetrieveSession, TypeOK
      <3>5. CASE RecordPayment(w)
        <4>1. worker[w].session \in Sessions
          BY DEF TypeOK, Requests
        <4>2. Recorded(worker[w], worker[w].session) \in Rows
          BY <4>1, RecordedType
        <4>3. payment' \in [Sessions -> Rows]
          BY <3>5, <4>2 DEF RecordPayment, TypeOK
        <4>4. expiration' \in [Shares -> Dates]
          <5>1. PromisedUntil(worker[w], worker[w].session) \in Dates
            BY <4>2 DEF PromisedUntil, Rows
          <5>2. QED
            BY <3>5, <5>1 DEF RecordPayment, TypeOK, NextExpiration
        <4>5. worker' \in [Workers -> Requests]
          <5>1. ASSUME NEW p \in {"receipt", "answer"}
                PROVE  [worker[w] EXCEPT !.phase = p, !.intent = FALSE, !.until = Never]
                         \in Requests
            <6>1. worker[w] \in Requests /\ p \in Phases /\ Never \in Dates
              BY DEF TypeOK, Phases
            <6>2. FALSE \in BOOLEAN
              OBVIOUS
            <6>3. QED
              BY <6>1, <6>2, RequestUpdate, Zenon
          <5>2. QED
            BY <3>5, <5>1 DEF RecordPayment, TypeOK
        <4>6. QED
          BY <3>5, <4>3, <4>4, <4>5 DEF RecordPayment, TypeOK
      <3>6. CASE SendReceipt(w)
        <4>1. worker' \in [Workers -> Requests]
          BY <3>6 DEF SendReceipt, TypeOK, Requests, Phases
        <4>2. worker[w].session \in Sessions
          BY DEF TypeOK, Requests
        <4>3. receipts' \in [Sessions -> Nat]
          BY <3>6, <4>2 DEF SendReceipt, TypeOK
        <4>4. QED
          BY <3>6, <4>1, <4>3 DEF SendReceipt, TypeOK
      <3>7. CASE LookupRefund(w)
        <4>1. [worker[w] EXCEPT !.phase = "answer"] \in Requests /\ worker[w].session \in Sessions
          BY DEF TypeOK, Requests, Phases
        <4>2. QED
          BY <3>7, <4>1 DEF LookupRefund, TypeOK
      <3>8. CASE Answer(w)
        BY <3>8 DEF Answer, TypeOK
      <3>9. QED
        BY <2>2, <3>1, <3>2, <3>3, <3>4, <3>5, <3>6, <3>7, <3>8 DEF Request
    <2>3. ASSUME NEW h \in Shares, Owner(h) PROVE TypeOK'
      <3>1. ASSUME NEW d \in ExpiryChoices, CreateShare(h, d) PROVE TypeOK'
        BY <3>1 DEF CreateShare, TypeOK
      <3>2. ASSUME NEW d \in ExpiryChoices, Update(h, d) PROVE TypeOK'
        BY <3>2 DEF Update, TypeOK
      <3>3. CASE Remove(h)
        BY <3>3 DEF Remove, AssertNoActivePaidAccess, PaymentsOf, TypeOK, Calls
      <3>4. CASE RemoveFiles(h)
        BY <3>4 DEF RemoveFiles, TypeOK, Calls
      <3>5. CASE RemoveRow(h)
        BY <3>5, DetachedType DEF RemoveRow, TypeOK
      <3>6. CASE Expire(h)
        BY <3>6 DEF Expire, AssertNoActivePaidAccess, PaymentsOf, TypeOK, Calls
      <3>7. CASE ExpireNow(h)
        BY <3>7 DEF ExpireNow, TypeOK
      <3>8. QED
        BY <2>3, <3>1, <3>2, <3>3, <3>4, <3>5, <3>6, <3>7 DEF Owner
    <2>4. CASE Cleaner
      <3>1. CASE SelectExpired
        BY <3>1 DEF SelectExpired, ExpiredShares, TypeOK
      <3>2. ASSUME NEW h \in Shares, CleanFiles(h) PROVE TypeOK'
        BY <3>2 DEF CleanFiles, TypeOK
      <3>3. CASE CleanRow
        BY <3>3, DetachedType DEF CleanRow, TypeOK
      <3>4. QED
        BY <2>4, <3>1, <3>2, <3>3 DEF Cleaner
    <2>5. CASE Crash
      BY <2>5 DEF Crash, TypeOK
    <2>6. CASE Tick
      BY <2>6 DEF Tick, TypeOK
    <2>7. CASE UNCHANGED vars
      BY <2>7 DEF vars, TypeOK
    <2>8. QED
      BY <2>1, <2>2, <2>3, <2>4, <2>5, <2>6, <2>7 DEF Next
  <1>3. QED
    BY <1>1, <1>2, PTL DEF Spec
-----------------------------------------------------------------------------
\* The events Stripe delivers are told apart by their kind.
LEMMA EventsDiffer ==
    \A s, z \in Sessions :
        /\ <<"paid", s>> # <<"refund", z>>
        /\ <<"paid", s>> = <<"paid", z>> <=> s = z
        /\ <<"refund", s>> = <<"refund", z>> <=> s = z
  OBVIOUS

\* Requests are about sessions.
LEMMA RequestSession == TypeOK => \A w \in Workers : worker[w].session \in Sessions
  BY DEF TypeOK, Requests

\* A step of Stripe or of a buyer keeps the invariant: payments have not begun
\* when a session is created, and every event is announced after its charge.
LEMMA StripeKeepsInv ==
    ASSUME TypeOK, LedgerInv, NEW s \in Sessions, Stripe(s)
    PROVE  LedgerInv'
  <1> USE DEF shareVars
  <1>1. ASSUME NEW h \in Shares, CreateSession(s, h) PROVE LedgerInv'
    <2>1. checkout[s].state = "none" /\ checkout'[s].state = "open"
      BY <1>1 DEF CreateSession, TypeOK, Charges
    <2>2. \A z \in Sessions : z # s => checkout'[z] = checkout[z]
      BY <1>1 DEF CreateSession, TypeOK
    <2>3. UNCHANGED <<now, pending, payment, worker, receipts, shares, expiration, typed, owner>>
      BY <1>1 DEF CreateSession
    <2>4. payment[s].state = "none"
      BY <2>1 DEF LedgerInv, ChargedFirst
    <2>5. ChargedFirst'
      BY <2>1, <2>2, <2>3 DEF LedgerInv, ChargedFirst
    <2>6. RequestsCharged'
      BY <2>1, <2>2, <2>3, RequestSession DEF LedgerInv, RequestsCharged
    <2>7. MoneyTraced'
      BY <2>1, <2>2, <2>3 DEF LedgerInv, MoneyTraced
    <2>8. ExpirationJustified'
      BY <2>2, <2>3, <2>4 DEF LedgerInv, ExpirationJustified
    <2>9. QED
      BY <2>3, <2>5, <2>6, <2>7, <2>8 DEF LedgerInv, EmptyRows, ReceiptsOnce, ReceiptPending,
         AnsweredIsTraced, SeenAreRecorded, RemovalSparesSeenRights, Live
  <1>2. ASSUME NEW c \in {"paid", "settled", "refunded"}, c = "paid" => checkout[s].state = "open",
               c # "paid" => checkout[s].state \in {"paid", "settled"},
               c = "refunded" => checkout[s].state = "settled",
               \A z \in Sessions : /\ checkout'[z].state = (IF z = s THEN c ELSE checkout[z].state)
                                   /\ checkout'[z].share = checkout[z].share,
               \A z \in Sessions : <<"paid", z>> \in pending' <=>
                                     <<"paid", z>> \in pending \/ (z = s /\ c = "settled"),
               \A z \in Sessions : <<"refund", z>> \in pending' <=>
                                     <<"refund", z>> \in pending \/ (z = s /\ c = "refunded"),
               UNCHANGED <<now, payment, worker, crashes, receipts, gaveUp, shareVars>>
        PROVE  LedgerInv'
    <2> USE <1>2
    <2>1. ChargedFirst'
      BY DEF LedgerInv, ChargedFirst
    <2>2. RequestsCharged'
      BY RequestSession DEF LedgerInv, RequestsCharged
    <2>3. MoneyTraced'
      BY DEF LedgerInv, MoneyTraced
    <2>4. ExpirationJustified'
      BY DEF LedgerInv, ExpirationJustified
    <2>5. QED
      BY <2>1, <2>2, <2>3, <2>4 DEF LedgerInv, EmptyRows, ReceiptsOnce, ReceiptPending,
         AnsweredIsTraced, SeenAreRecorded, RemovalSparesSeenRights, Live
  <1>3. CASE Pay(s)
    <2>1. \A z \in Sessions : /\ checkout'[z].state = (IF z = s THEN "paid" ELSE checkout[z].state)
                              /\ checkout'[z].share = checkout[z].share
      BY <1>3 DEF Pay, TypeOK, Charges
    <2>2. QED
      BY <1>2, <1>3, <2>1 DEF Pay
  <1>4. CASE Settle(s)
    <2>1. \A z \in Sessions : /\ checkout'[z].state = (IF z = s THEN "settled" ELSE checkout[z].state)
                              /\ checkout'[z].share = checkout[z].share
      BY <1>4 DEF Settle, TypeOK, Charges
    <2>2. QED
      BY <1>2, <1>4, <2>1, EventsDiffer DEF Settle
  <1>5. CASE Refund(s)
    <2>1. \A z \in Sessions : /\ checkout'[z].state = (IF z = s THEN "refunded" ELSE checkout[z].state)
                              /\ checkout'[z].share = checkout[z].share
      BY <1>5 DEF Refund, TypeOK, Charges
    <2>2. QED
      BY <1>2, <1>5, <2>1, EventsDiffer DEF Refund
  <1>6. QED
    BY <1>1, <1>3, <1>4, <1>5 DEF Stripe

\* A step that only moves one request on, or takes an answered event off
\* Stripe's list, keeps the invariant when the request's new phase is one it
\* may be in.
LEMMA RequestMoves ==
    ASSUME TypeOK, LedgerInv, NEW w \in Workers, MoneyTraced',
           UNCHANGED <<now, checkout, payment, receipts, shares, expiration, typed, owner>>,
           pending' \subseteq pending,
           \A v \in Workers : v # w => worker'[v] = worker[v],
           worker'[w].phase \notin {"receipt"},
           worker'[w].phase = "retrieve" => checkout[worker'[w].session].state # "none",
           worker'[w].phase = "record" =>
               checkout[worker'[w].session].state \in {"paid", "settled", "refunded"},
           worker'[w].phase = "answer" /\ worker'[w].kind = "webhook" =>
               payment[worker'[w].session].state # "none",
           worker'[w].phase = "lookup" => worker'[w].kind = "refund"
    PROVE  LedgerInv'
  <1>1. ChargedFirst'
    BY DEF LedgerInv, ChargedFirst
  <1>2. RequestsCharged'
    BY DEF LedgerInv, RequestsCharged
  <1>3. ReceiptPending'
    BY DEF LedgerInv, ReceiptPending
  <1>4. AnsweredIsTraced'
    BY DEF LedgerInv, AnsweredIsTraced
  <1>5. ExpirationJustified'
    BY DEF LedgerInv, ExpirationJustified
  <1>6. QED
    BY <1>1, <1>2, <1>3, <1>4, <1>5 DEF LedgerInv, EmptyRows, ReceiptsOnce,
       SeenAreRecorded, RemovalSparesSeenRights, Live

\* The request w is about to record: what it leaves in its session's row, and
\* what it leaves alone.
LEMMA RecordingFacts ==
    ASSUME TypeOK, LedgerInv, NEW w \in Workers, RecordPayment(w),
           NEW s \in Sessions, s = worker[w].session
    PROVE  /\ checkout[s].state \in {"paid", "settled", "refunded"}
           /\ \A z \in Sessions : z # s => payment'[z] = payment[z]
           /\ payment'[s].state = IF payment[s].state = "none" THEN "live" ELSE payment[s].state
           /\ payment[s].state # "none" =>
                  /\ payment'[s].until = payment[s].until
                  /\ payment'[s].known = payment[s].known
                  /\ payment'[s].share = payment[s].share
                  /\ payment[s].intent => payment'[s].intent
           /\ payment[s].state = "none" /\ checkout[s].share \in shares => payment'[s].known
           /\ payment'[s].until = PromisedUntil(worker[w], s)
           /\ payment' \in [Sessions -> Rows]
  <1>1. payment'[s] = Recorded(worker[w], s)
    BY DEF RecordPayment, TypeOK
  <1>2. \A z \in Sessions : z # s => payment'[z] = payment[z]
    BY DEF RecordPayment, TypeOK
  <1>3. Recorded(worker[w], s) \in Rows
    BY RecordedType
  <1>4. payment' \in [Sessions -> Rows]
    BY <1>3 DEF RecordPayment, TypeOK
  <1>5. worker[w].phase = "record"
    BY DEF RecordPayment
  <1>6. checkout[s].state \in {"paid", "settled", "refunded"}
    BY <1>5 DEF LedgerInv, RequestsCharged
  <1>7. ASSUME NEW r \in Rows, NEW b \in BOOLEAN
        PROVE  LET n == [r EXCEPT !.intent = @ \/ b] IN
               /\ n.state = r.state /\ n.until = r.until /\ n.known = r.known
               /\ n.share = r.share /\ (r.intent => n.intent)
    BY DEF Rows
  <1>8. payment[s] \in Rows /\ worker[w].intent \in BOOLEAN
    BY DEF TypeOK, Requests
  <1>9. payment'[s].until = PromisedUntil(worker[w], s)
    BY <1>1 DEF PromisedUntil
  <1>10. CASE payment[s].state = "none"
    <2>1. payment'[s].state = "live"
      BY <1>1, <1>10 DEF Recorded
    <2>2. checkout[s].share \in shares => payment'[s].known
      <3> DEFINE known == checkout[s].share \in shares
                 row == [state |-> "live", share |-> IF known THEN checkout[s].share ELSE NoShare,
                         known |-> known, intent |-> worker[w].intent, until |-> worker[w].until]
      <3>1. payment'[s] = row
        BY <1>1, <1>10 DEF Recorded
      <3>2. row.known = known
        BY Zenon
      <3> HIDE DEF row
      <3>3. QED
        BY <3>1, <3>2, Zenon
    <2>3. QED
      BY <1>2, <1>4, <1>6, <1>9, <1>10, <2>1, <2>2
  <1>11. CASE payment[s].state # "none"
    <2>1. payment'[s] = [payment[s] EXCEPT !.intent = @ \/ worker[w].intent]
      BY <1>1, <1>11 DEF Recorded
    <2>2. /\ payment'[s].state = payment[s].state
          /\ payment'[s].until = payment[s].until
          /\ payment'[s].known = payment[s].known
          /\ payment'[s].share = payment[s].share
          /\ payment[s].intent => payment'[s].intent
      BY <1>7, <1>8, <2>1
    <2>3. QED
      BY <1>2, <1>4, <1>6, <1>9, <1>11, <2>2
  <1>12. QED
    BY <1>10, <1>11

\* The transaction of recordPayment keeps the invariant.
LEMMA RecordPaymentKeepsInv ==
    ASSUME TypeOK, LedgerInv, NEW w \in Workers, RecordPayment(w)
    PROVE  LedgerInv'
  <1> DEFINE s == worker[w].session
             h == checkout[s].share
  <1>1. s \in Sessions
    BY RequestSession
  <1> HIDE DEF s
  <1>2. /\ checkout[s].state \in {"paid", "settled", "refunded"}
        /\ \A z \in Sessions : z # s => payment'[z] = payment[z]
        /\ payment'[s].state = IF payment[s].state = "none" THEN "live" ELSE payment[s].state
        /\ payment[s].state # "none" =>
               /\ payment'[s].until = payment[s].until
               /\ payment'[s].known = payment[s].known
        /\ payment[s].state = "none" /\ h \in shares => payment'[s].known
        /\ payment'[s].until = PromisedUntil(worker[w], s)
        /\ payment' \in [Sessions -> Rows]
    BY <1>1, RecordingFacts DEF s
  <1>3. UNCHANGED <<now, checkout, pending, receipts, shares, typed, owner>>
    BY DEF RecordPayment, stripeVars
  <1>4. \A v \in Workers : v # w => worker'[v] = worker[v]
    BY DEF RecordPayment, TypeOK
  <1>5. /\ worker'[w].session = s
        /\ worker'[w].phase = IF MailsReceipt(s) THEN "receipt" ELSE "answer"
    BY DEF RecordPayment, TypeOK, Requests, s
  <1>6. expiration' = IF h \in shares
                      THEN [expiration EXCEPT ![h] = NextExpiration(@, payment'[s].until)]
                      ELSE expiration
    BY <1>2 DEF RecordPayment, s
  <1>7. payment'[s].state # "none"
    BY <1>2
  <1>8. ChargedFirst'
    <2>1. ASSUME NEW z \in Sessions
          PROVE  /\ payment'[z].state # "none" => checkout[z].state \in {"paid", "settled", "refunded"}
                 /\ payment'[z].state = "revoked" => checkout[z].state = "refunded"
      BY <1>2 DEF LedgerInv, ChargedFirst
    <2>2. QED
      BY <2>1, <1>3 DEF LedgerInv, ChargedFirst
  <1>9. RequestsCharged'
    BY <1>3, <1>4, <1>5 DEF LedgerInv, RequestsCharged
  <1>10. EmptyRows'
    BY <1>2, <1>7 DEF LedgerInv, EmptyRows
  <1>11. ReceiptsOnce'
    <2>1. ASSUME NEW z \in Sessions, receipts[z] = 1 PROVE payment'[z].known
      <3>1. payment[z].known
        BY <2>1 DEF LedgerInv, ReceiptsOnce
      <3>2. z = s => payment[s].state # "none"
        BY <3>1, <1>1 DEF LedgerInv, EmptyRows, NoRow
      <3>3. QED
        BY <3>1, <3>2, <1>2
    <2>2. QED
      BY <2>1, <1>3 DEF LedgerInv, ReceiptsOnce
  <1>12. ReceiptPending'
    <2>1. MailsReceipt(s) => /\ payment[s].state = "none"
                             /\ payment'[s].known
                             /\ receipts[s] = 0
      <3>1. SUFFICES ASSUME MailsReceipt(s)
                     PROVE  payment[s].state = "none" /\ payment'[s].known /\ receipts[s] = 0
        OBVIOUS
      <3>2. payment[s].state = "none" /\ h \in shares
        BY <3>1 DEF MailsReceipt
      <3>3. ~payment[s].known
        BY <3>2, <1>1 DEF LedgerInv, EmptyRows, NoRow
      <3>4. receipts[s] \in Nat /\ receipts[s] <= 1 /\ receipts[s] # 1
        BY <3>3, <1>1 DEF LedgerInv, ReceiptsOnce, TypeOK
      <3>5. QED
        BY <3>2, <3>4, <1>2
    <2>2. ASSUME NEW v \in Workers, v # w, worker[v].phase = "receipt"
          PROVE  /\ payment'[worker[v].session].state # "none"
                 /\ payment'[worker[v].session].known
                 /\ receipts[worker[v].session] = 0
                 /\ \A u \in Workers \ {v} : worker[u].phase = "receipt" =>
                       worker[u].session # worker[v].session
                 /\ MailsReceipt(s) => worker[v].session # s
      BY <2>1, <2>2, <1>2, RequestSession DEF LedgerInv, ReceiptPending
    <2>3. QED
      BY <2>1, <2>2, <1>3, <1>4, <1>5, <1>7 DEF ReceiptPending
  <1>13. MoneyTraced'
    BY <1>2, <1>3 DEF LedgerInv, MoneyTraced
  <1>14. AnsweredIsTraced'
    <2>1. \A z \in Sessions : payment[z].state # "none" => payment'[z].state # "none"
      BY <1>2
    <2>2. QED
      BY <2>1, <1>4, <1>5, <1>7, RequestSession DEF LedgerInv, AnsweredIsTraced
  <1>15. ExpirationJustified'
    <2>1. ASSUME NEW g \in shares, expiration'[g] # typed[g]
          PROVE  /\ typed[g] # Never
                 /\ expiration'[g] > typed[g]
                 /\ \E z \in Sessions : /\ checkout[z].share = g
                                       /\ payment'[z].state # "none"
                                       /\ payment'[z].until = expiration'[g]
      <3>1. CASE expiration'[g] = expiration[g]
        BY <2>1, <3>1, <1>2, <1>7 DEF LedgerInv, ExpirationJustified
      <3>2. CASE expiration'[g] # expiration[g]
        <4>1. g = h /\ h \in shares /\ g \in Shares
          BY <3>2, <1>6 DEF TypeOK
        <4>2. expiration'[g] = NextExpiration(expiration[g], payment'[s].until)
          BY <4>1, <1>6 DEF TypeOK
        <4>3. payment'[s].until \in Nat /\ expiration[g] \in Nat /\ typed[g] \in Nat
          BY <4>1, <1>1, <1>2 DEF Rows, TypeOK
        <4>4. /\ expiration[g] # Never
              /\ payment'[s].until > expiration[g]
              /\ expiration'[g] = payment'[s].until
          BY <3>2, <4>2, <4>3 DEF NextExpiration
        <4>5. typed[g] # Never /\ typed[g] <= expiration[g]
          BY <4>4, <4>3 DEF LedgerInv, ExpirationJustified
        <4>6. QED
          BY <4>1, <4>3, <4>4, <4>5, <1>1, <1>7
      <3>3. QED
        BY <3>1, <3>2
    <2>2. QED
      BY <2>1, <1>3 DEF ExpirationJustified
  <1>16. SeenAreRecorded'
    <2>1. \A z \in Sessions : payment[z].state # "none" => payment'[z].state # "none"
      BY <1>2
    <2>2. QED
      BY <2>1, <1>3 DEF LedgerInv, SeenAreRecorded, TypeOK, Calls
  <1>17. RemovalSparesSeenRights'
    <2>1. ASSUME NEW g \in Shares, NEW z \in owner[g].seen PROVE ~Live(z)'
      <3>1. z \in Sessions /\ payment[z].state # "none" /\ ~Live(z)
        BY DEF LedgerInv, SeenAreRecorded, RemovalSparesSeenRights, TypeOK, Calls
      <3>2. payment'[z].state = payment[z].state /\ payment'[z].until = payment[z].until
        BY <3>1, <1>2
      <3>3. QED
        BY <3>1, <3>2, <1>3 DEF Live
    <2>2. QED
      BY <2>1, <1>3 DEF RemovalSparesSeenRights
  <1>18. QED
    BY <1>8, <1>9, <1>10, <1>11, <1>12, <1>13, <1>14, <1>15, <1>16, <1>17 DEF LedgerInv

\* The updateMany of revokePayment keeps the invariant.
LEMMA RevokePaymentKeepsInv ==
    ASSUME TypeOK, LedgerInv, NEW w \in Workers, NEW s \in Sessions, RevokePayment(w, s)
    PROVE  LedgerInv'
  <1>1. UNCHANGED <<now, checkout, pending, receipts, shares, expiration, typed, owner>>
    BY DEF RevokePayment, shareVars, stripeVars
  <1>2. \A v \in Workers : v # w => worker'[v] = worker[v]
    BY DEF RevokePayment, TypeOK
  <1>3. worker'[w].phase \in {"answer", "lookup"} /\ worker'[w].kind = "refund"
    BY DEF RevokePayment, TypeOK
  <1>4. \A z \in Sessions : /\ payment'[z].known = payment[z].known
                            /\ payment'[z].until = payment[z].until
                            /\ payment'[z].state # payment[z].state =>
                                  z = s /\ payment[z].state = "live" /\ payment'[z].state = "revoked"
                            /\ payment[z].state = "none" => payment'[z] = payment[z]
    BY DEF RevokePayment, TypeOK, Rows
  <1>5. checkout[s].state = "refunded"
    BY DEF RevokePayment, LedgerInv, ChargedFirst
  <1>6. \A z \in Sessions : payment[z].state # "none" <=> payment'[z].state # "none"
    BY <1>4
  <1>7. ChargedFirst'
    <2>1. ASSUME NEW z \in Sessions
          PROVE  /\ payment'[z].state # "none" => checkout[z].state \in {"paid", "settled", "refunded"}
                 /\ payment'[z].state = "revoked" => checkout[z].state = "refunded"
      BY <1>4, <1>5 DEF LedgerInv, ChargedFirst
    <2>2. QED
      BY <2>1, <1>1 DEF LedgerInv, ChargedFirst
  <1>8. RequestsCharged'
    BY <1>1, <1>2, <1>3 DEF LedgerInv, RequestsCharged
  <1>9. EmptyRows'
    BY <1>4, <1>6 DEF LedgerInv, EmptyRows
  <1>10. ReceiptsOnce'
    BY <1>1, <1>4 DEF LedgerInv, ReceiptsOnce
  <1>11. ReceiptPending'
    <2>1. ASSUME NEW v \in Workers, worker'[v].phase = "receipt"
          PROVE  v # w /\ worker'[v] = worker[v]
      BY <2>1, <1>2, <1>3
    <2>2. QED
      BY <2>1, <1>1, <1>4, <1>6, RequestSession DEF LedgerInv, ReceiptPending
  <1>12. MoneyTraced'
    BY <1>1, <1>6 DEF LedgerInv, MoneyTraced
  <1>13. AnsweredIsTraced'
    BY <1>2, <1>3, <1>6, RequestSession DEF LedgerInv, AnsweredIsTraced
  <1>14. ExpirationJustified'
    BY <1>1, <1>4, <1>6 DEF LedgerInv, ExpirationJustified
  <1>15. SeenAreRecorded'
    BY <1>1, <1>6 DEF LedgerInv, SeenAreRecorded, TypeOK, Calls
  <1>16. RemovalSparesSeenRights'
    <2>1. ASSUME NEW g \in Shares, NEW z \in owner[g].seen PROVE ~Live(z)'
      <3>1. z \in Sessions /\ ~Live(z)
        BY DEF LedgerInv, RemovalSparesSeenRights, TypeOK, Calls
      <3>2. QED
        BY <3>1, <1>1, <1>4 DEF Live
    <2>2. QED
      BY <2>1, <1>1 DEF RemovalSparesSeenRights
  <1>17. QED
    BY <1>7, <1>8, <1>9, <1>10, <1>11, <1>12, <1>13, <1>14, <1>15, <1>16 DEF LedgerInv

\* Mailing a receipt, or failing to, keeps the invariant.
LEMMA SendReceiptKeepsInv ==
    ASSUME TypeOK, LedgerInv, NEW w \in Workers, SendReceipt(w)
    PROVE  LedgerInv'
  <1>1. UNCHANGED <<now, checkout, pending, payment, shares, expiration, typed, owner>>
    BY DEF SendReceipt, shareVars, stripeVars
  <1>2. \A v \in Workers : v # w => worker'[v] = worker[v]
    BY DEF SendReceipt, TypeOK
  <1>3. /\ worker[w].phase = "receipt"
        /\ worker'[w].phase = "answer"
        /\ worker'[w].session = worker[w].session
    BY DEF SendReceipt, TypeOK, Requests
  <1>4. \A z \in Sessions : z # worker[w].session => receipts'[z] = receipts[z]
    BY DEF SendReceipt, TypeOK
  <1>5. receipts'[worker[w].session] \in {receipts[worker[w].session], receipts[worker[w].session] + 1}
    BY RequestSession DEF SendReceipt, TypeOK
  <1>6. /\ worker[w].session \in Sessions
        /\ payment[worker[w].session].state # "none"
        /\ payment[worker[w].session].known
        /\ receipts[worker[w].session] = 0
        /\ \A v \in Workers : v # w /\ worker[v].phase = "receipt"
                              => worker[v].session # worker[w].session
    BY <1>3, RequestSession DEF LedgerInv, ReceiptPending
  <1>7. RequestsCharged'
    BY <1>1, <1>2, <1>3 DEF LedgerInv, RequestsCharged
  <1>8. ReceiptsOnce'
    BY <1>1, <1>4, <1>5, <1>6 DEF LedgerInv, ReceiptsOnce
  <1>9. ReceiptPending'
    <2>1. ASSUME NEW v \in Workers, worker'[v].phase = "receipt"
          PROVE  /\ v # w
                 /\ worker'[v] = worker[v]
                 /\ worker[v].session # worker[w].session
      BY <2>1, <1>2, <1>3, <1>6
    <2>2. QED
      BY <2>1, <1>1, <1>4, RequestSession DEF LedgerInv, ReceiptPending
  <1>10. AnsweredIsTraced'
    BY <1>1, <1>2, <1>3, <1>6 DEF LedgerInv, AnsweredIsTraced
  <1>11. QED
    BY <1>1, <1>7, <1>8, <1>9, <1>10 DEF LedgerInv, ChargedFirst, EmptyRows, MoneyTraced,
       ExpirationJustified, SeenAreRecorded, RemovalSparesSeenRights, Live

\* A step of a request keeps the invariant.
LEMMA RequestKeepsInv ==
    ASSUME TypeOK, LedgerInv, NEW w \in Workers, Request(w)
    PROVE  LedgerInv'
  <1> USE DEF shareVars, stripeVars
  <1>1. ASSUME UNCHANGED <<checkout, pending, payment>> PROVE MoneyTraced'
    BY <1>1 DEF LedgerInv, MoneyTraced
  <1>2. ASSUME NEW s \in Sessions, DeliverPaid(w, s) PROVE LedgerInv'
    <2>1. worker'[w].phase = "record" /\ worker'[w].session = s
      BY <1>2 DEF DeliverPaid, TypeOK
    <2>2. checkout[s].state \in {"paid", "settled", "refunded"}
      BY <1>2 DEF DeliverPaid, LedgerInv, ChargedFirst
    <2>3. \A v \in Workers : v # w => worker'[v] = worker[v]
      BY <1>2 DEF DeliverPaid, TypeOK
    <2>4. QED
      BY <1>1, <1>2, <2>1, <2>2, <2>3, RequestMoves DEF DeliverPaid
  <1>3. ASSUME NEW s \in Sessions, ConfirmSession(w, s) PROVE LedgerInv'
    <2>1. worker'[w].phase = "retrieve" /\ worker'[w].session = s
      BY <1>3 DEF ConfirmSession, TypeOK
    <2>2. \A v \in Workers : v # w => worker'[v] = worker[v]
      BY <1>3 DEF ConfirmSession, TypeOK
    <2>3. QED
      BY <1>1, <1>3, <2>1, <2>2, RequestMoves DEF ConfirmSession
  <1>4. CASE RetrieveSession(w)
    <2>1. \/ worker'[w].phase = "idle"
          \/ /\ worker'[w].phase = "record"
             /\ worker'[w].session = worker[w].session
             /\ checkout[worker[w].session].state # "open"
      BY <1>4 DEF RetrieveSession, TypeOK, Requests, Idle
    <2>2. checkout[worker[w].session].state # "none"
      BY <1>4 DEF RetrieveSession, LedgerInv, RequestsCharged
    <2>3. checkout[worker[w].session].state # "open" =>
            checkout[worker[w].session].state \in {"paid", "settled", "refunded"}
      BY <2>2, RequestSession DEF TypeOK, Charges
    <2>4. \A v \in Workers : v # w => worker'[v] = worker[v]
      BY <1>4 DEF RetrieveSession, TypeOK
    <2>5. QED
      BY <1>1, <1>4, <2>1, <2>3, <2>4, RequestMoves DEF RetrieveSession
  <1>5. CASE LookupRefund(w)
    <2>1. \/ worker'[w].phase = "idle"
          \/ worker'[w].phase = "answer" /\ worker'[w].kind = worker[w].kind
      BY <1>5 DEF LookupRefund, TypeOK, Requests, Idle
    <2>2. worker[w].kind = "refund"
      BY <1>5 DEF LookupRefund, LedgerInv, AnsweredIsTraced
    <2>3. \A v \in Workers : v # w => worker'[v] = worker[v]
      BY <1>5 DEF LookupRefund, TypeOK
    <2>4. QED
      BY <1>1, <1>5, <2>1, <2>2, <2>3, RequestMoves DEF LookupRefund
  <1>6. CASE Answer(w)
    <2>1. worker'[w].phase = "idle"
      BY <1>6 DEF Answer, TypeOK, Idle
    <2>2. \A v \in Workers : v # w => worker'[v] = worker[v]
      BY <1>6 DEF Answer, TypeOK
    <2>3. pending' \subseteq pending
      BY <1>6 DEF Answer
    <2>4. ASSUME NEW s \in Sessions, <<"paid", s>> \in pending, <<"paid", s>> \notin pending'
          PROVE  payment[s].state # "none"
      <3>1. <<"paid", s>> \in Acknowledged(worker[w])
        BY <1>6, <2>4 DEF Answer
      <3>2. worker[w].kind = "webhook" /\ worker[w].session = s
        BY <3>1, EventsDiffer, RequestSession DEF Acknowledged
      <3>3. QED
        BY <1>6, <3>2 DEF Answer, LedgerInv, AnsweredIsTraced
    <2>5. MoneyTraced'
      BY <1>6, <2>4 DEF Answer, LedgerInv, MoneyTraced
    <2>6. QED
      BY <1>6, <2>1, <2>2, <2>3, <2>5, RequestMoves DEF Answer
  <1>7. QED
    BY <1>2, <1>3, <1>4, <1>5, <1>6, RevokePaymentKeepsInv, RecordPaymentKeepsInv,
       SendReceiptKeepsInv DEF Request

\* What losing its transfer does to a row: nothing but the share it names.
LEMMA DetachedRows ==
    ASSUME TypeOK, NEW h \in Shares, NEW s \in Sessions
    PROVE  /\ Detached(h)[s].state = payment[s].state
           /\ Detached(h)[s].until = payment[s].until
           /\ Detached(h)[s].known = payment[s].known
           /\ Detached(h)[s].intent = payment[s].intent
           /\ Detached(h)[s].share \in {payment[s].share, NoShare}
           /\ payment[s] = NoRow => Detached(h)[s] = NoRow
  <1>1. ASSUME NEW r \in Rows
        PROVE  LET n == [r EXCEPT !.share = NoShare] IN
               /\ n.state = r.state /\ n.until = r.until /\ n.known = r.known
               /\ n.intent = r.intent /\ n.share = NoShare
    BY DEF Rows
  <1>2. payment[s] \in Rows
    BY DEF TypeOK
  <1>3. CASE payment[s].share = h
    <2>1. Detached(h)[s] = [payment[s] EXCEPT !.share = NoShare]
      BY <1>3 DEF Detached
    <2>2. payment[s] # NoRow
      BY <1>3 DEF NoRow
    <2>3. QED
      BY <1>1, <1>2, <2>1, <2>2
  <1>4. CASE payment[s].share # h
    <2>1. Detached(h)[s] = payment[s]
      BY <1>4 DEF Detached
    <2>2. QED
      BY <2>1
  <1>5. QED
    BY <1>3, <1>4

\* A step of an owner or of the cleanup job keeps the invariant when it leaves
\* the rows' rights alone, when an expiration it changes is one the owner gave,
\* and when a check it passes looked at recorded payments that are not live.
LEMMA SharesMove ==
    ASSUME TypeOK, LedgerInv,
           UNCHANGED <<now, checkout, pending, worker, receipts>>,
           payment' = payment \/ \E h \in Shares : payment' = Detached(h),
           \A g \in shares' :
               \/ g \in shares /\ expiration'[g] = expiration[g] /\ typed'[g] = typed[g]
               \/ expiration'[g] = typed'[g],
           \A g \in Shares : \A z \in owner'[g].seen :
               \/ z \in owner[g].seen
               \/ z \in Sessions /\ payment[z].state # "none" /\ ~Live(z)
    PROVE  LedgerInv'
  <1>1. \A z \in Sessions : /\ payment'[z].state = payment[z].state
                            /\ payment'[z].until = payment[z].until
                            /\ payment'[z].known = payment[z].known
                            /\ payment[z] = NoRow => payment'[z] = NoRow
    BY DetachedRows
  <1>2. ChargedFirst'
    BY <1>1 DEF LedgerInv, ChargedFirst
  <1>3. RequestsCharged'
    BY DEF LedgerInv, RequestsCharged
  <1>4. EmptyRows'
    BY <1>1 DEF LedgerInv, EmptyRows
  <1>5. ReceiptsOnce'
    BY <1>1 DEF LedgerInv, ReceiptsOnce
  <1>6. ReceiptPending'
    BY <1>1, RequestSession DEF LedgerInv, ReceiptPending
  <1>7. MoneyTraced'
    BY <1>1 DEF LedgerInv, MoneyTraced
  <1>8. AnsweredIsTraced'
    BY <1>1, RequestSession DEF LedgerInv, AnsweredIsTraced
  <1>9. ExpirationJustified'
    BY <1>1 DEF LedgerInv, ExpirationJustified
  <1>10. ASSUME NEW g \in Shares, NEW z \in owner'[g].seen
         PROVE  z \in Sessions /\ payment[z].state # "none" /\ ~Live(z)
    BY DEF LedgerInv, SeenAreRecorded, RemovalSparesSeenRights, TypeOK, Calls
  <1>11. SeenAreRecorded'
    BY <1>1, <1>10 DEF SeenAreRecorded
  <1>12. RemovalSparesSeenRights'
    BY <1>1, <1>10 DEF RemovalSparesSeenRights, Live
  <1>13. QED
    BY <1>2, <1>3, <1>4, <1>5, <1>6, <1>7, <1>8, <1>9, <1>11, <1>12 DEF LedgerInv

\* A step of an owner keeps the invariant.
LEMMA OwnerKeepsInv ==
    ASSUME TypeOK, LedgerInv, NEW h \in Shares, Owner(h)
    PROVE  LedgerInv'
  <1> USE DEF stripeVars
  <1>1. ASSUME NEW d \in ExpiryChoices, CreateShare(h, d) PROVE LedgerInv'
    <2>1. \A g \in shares' : \/ g \in shares /\ expiration'[g] = expiration[g] /\ typed'[g] = typed[g]
                            \/ expiration'[g] = typed'[g]
      BY <1>1 DEF CreateShare, TypeOK
    <2>2. QED
      BY <1>1, <2>1, SharesMove DEF CreateShare
  <1>2. ASSUME NEW d \in ExpiryChoices, Update(h, d) PROVE LedgerInv'
    <2>1. \A g \in shares' : \/ g \in shares /\ expiration'[g] = expiration[g] /\ typed'[g] = typed[g]
                            \/ expiration'[g] = typed'[g]
      BY <1>2 DEF Update, TypeOK
    <2>2. QED
      BY <1>2, <2>1, SharesMove DEF Update
  <1>3. ASSUME NEW next \in {"wipe", "expire"}, AssertNoActivePaidAccess(h, next) PROVE LedgerInv'
    <2>1. ASSUME NEW g \in Shares, NEW z \in owner'[g].seen, z \notin owner[g].seen
          PROVE  z \in Sessions /\ payment[z].state # "none" /\ ~Live(z)
      <3>1. z \in PaymentsOf(h)
        BY <1>3, <2>1 DEF AssertNoActivePaidAccess, TypeOK
      <3>2. z \in Sessions /\ payment[z].share = h
        BY <3>1 DEF PaymentsOf
      <3>3. payment[z] # NoRow
        BY <3>2 DEF NoRow
      <3>4. QED
        BY <1>3, <3>1, <3>2, <3>3 DEF AssertNoActivePaidAccess, LedgerInv, EmptyRows
    <2>2. QED
      BY <1>3, <2>1, SharesMove DEF AssertNoActivePaidAccess
  <1>4. CASE RemoveFiles(h)
    <2>1. \A g \in Shares : owner'[g].seen = owner[g].seen
      BY <1>4 DEF RemoveFiles, TypeOK, Calls
    <2>2. QED
      BY <1>4, <2>1, SharesMove DEF RemoveFiles
  <1>5. CASE RemoveRow(h)
    <2>1. \A g \in Shares : owner'[g].seen \subseteq owner[g].seen
      BY <1>5 DEF RemoveRow, TypeOK, Calls, Quiet
    <2>2. QED
      BY <1>5, <2>1, SharesMove DEF RemoveRow
  <1>6. CASE ExpireNow(h)
    <2>1. \A g \in Shares : owner'[g].seen \subseteq owner[g].seen
      BY <1>6 DEF ExpireNow, TypeOK, Calls, Quiet
    <2>2. \A g \in shares' : \/ g \in shares /\ expiration'[g] = expiration[g] /\ typed'[g] = typed[g]
                            \/ expiration'[g] = typed'[g]
      BY <1>6 DEF ExpireNow, TypeOK
    <2>3. QED
      BY <1>6, <2>1, <2>2, SharesMove DEF ExpireNow
  <1>7. QED
    BY <1>1, <1>2, <1>3, <1>4, <1>5, <1>6 DEF Owner, Remove, Expire

\* A step of the cleanup job keeps the invariant.
LEMMA CleanerKeepsInv ==
    ASSUME TypeOK, LedgerInv, Cleaner
    PROVE  LedgerInv'
  <1> USE DEF stripeVars
  <1>1. CASE SelectExpired
    BY <1>1, SharesMove DEF SelectExpired
  <1>2. ASSUME NEW h \in Shares, CleanFiles(h) PROVE LedgerInv'
    BY <1>2, SharesMove DEF CleanFiles
  <1>3. CASE CleanRow
    <2>1. cleaner.current \in Shares
      BY <1>3 DEF CleanRow, TypeOK
    <2>2. payment' = payment \/ \E h \in Shares : payment' = Detached(h)
      BY <1>3, <2>1 DEF CleanRow
    <2>3. shares' \subseteq shares
      BY <1>3 DEF CleanRow
    <2>4. QED
      BY <1>3, <2>2, <2>3, SharesMove DEF CleanRow
  <1>4. QED
    BY <1>1, <1>2, <1>3 DEF Cleaner

\* The invariant holds of every reachable state.
THEOREM LedgerInvariant == Spec => []LedgerInv
  <1>1. Init => LedgerInv
    <2> SUFFICES ASSUME Init PROVE LedgerInv
      OBVIOUS
    <2>1. \A s \in Sessions : payment[s].state = "none" /\ ~payment[s].known /\ receipts[s] = 0
      BY DEF Init, NoRow
    <2>2. \A w \in Workers : worker[w].phase = "idle"
      BY DEF Init, Idle
    <2>3. \A h \in Shares : owner[h].seen = {}
      BY DEF Init, Quiet
    <2>4. QED
      BY <2>1, <2>2, <2>3 DEF Init, LedgerInv, ChargedFirst, RequestsCharged, EmptyRows,
         ReceiptsOnce, ReceiptPending, MoneyTraced, AnsweredIsTraced, ExpirationJustified,
         SeenAreRecorded, RemovalSparesSeenRights
  <1>2. TypeOK /\ LedgerInv /\ [Next]_vars => LedgerInv'
    <2> SUFFICES ASSUME TypeOK, LedgerInv, [Next]_vars PROVE LedgerInv'
      OBVIOUS
    <2>1. CASE Crash
      <3>1. \A w \in Workers : worker'[w].phase = "idle"
        BY <2>1 DEF Crash, Idle
      <3>2. \A h \in Shares : owner'[h].seen = {}
        BY <2>1 DEF Crash, Quiet
      <3>3. UNCHANGED <<now, checkout, pending, payment, receipts, shares, expiration, typed>>
        BY <2>1 DEF Crash, stripeVars
      <3>4. RequestsCharged' /\ ReceiptPending' /\ AnsweredIsTraced'
        BY <3>1 DEF RequestsCharged, ReceiptPending, AnsweredIsTraced
      <3>5. SeenAreRecorded' /\ RemovalSparesSeenRights'
        BY <3>2 DEF SeenAreRecorded, RemovalSparesSeenRights
      <3>6. QED
        BY <3>3, <3>4, <3>5 DEF LedgerInv, ChargedFirst, EmptyRows, ReceiptsOnce, MoneyTraced,
           ExpirationJustified
    <2>2. CASE Tick
      <3>1. UNCHANGED <<checkout, pending, payment, worker, owner, receipts, shares, expiration, typed>>
        BY <2>2 DEF Tick, shareVars, stripeVars
      <3>2. ASSUME NEW h \in Shares, NEW s \in owner[h].seen PROVE ~Live(s)'
        <4>1. s \in Sessions /\ ~Live(s)
          BY DEF LedgerInv, RemovalSparesSeenRights, TypeOK, Calls
        <4>2. now' > now /\ now \in Nat /\ now' \in Nat
          BY <2>2 DEF Tick, TypeOK
        <4>3. payment[s].until \in Nat
          BY <4>1 DEF TypeOK, Rows
        <4>4. QED
          BY <3>1, <4>1, <4>2, <4>3 DEF Live
      <3>3. RemovalSparesSeenRights'
        BY <3>1, <3>2 DEF RemovalSparesSeenRights
      <3>4. QED
        BY <3>1, <3>3 DEF LedgerInv, ChargedFirst, RequestsCharged, EmptyRows, ReceiptsOnce,
           ReceiptPending, MoneyTraced, AnsweredIsTraced, ExpirationJustified, SeenAreRecorded
    <2>3. CASE UNCHANGED vars
      BY <2>3 DEF vars, LedgerInv, ChargedFirst, RequestsCharged, EmptyRows, ReceiptsOnce,
         ReceiptPending, MoneyTraced, AnsweredIsTraced, ExpirationJustified, SeenAreRecorded,
         RemovalSparesSeenRights, Live
    <2>4. QED
      BY <2>1, <2>2, <2>3, StripeKeepsInv, RequestKeepsInv, OwnerKeepsInv, CleanerKeepsInv DEF Next
  <1>3. QED
    BY <1>1, <1>2, TypeCorrect, PTL DEF Spec

\* A buyer gets at most one receipt, whatever is replayed, interleaved or lost.
THEOREM ReceiptsMailedOnce == Spec => []ReceiptsOnce
  <1>1. LedgerInv => ReceiptsOnce
    BY DEF LedgerInv
  <1>2. QED
    BY <1>1, LedgerInvariant, PTL

\* No payment Stripe has stopped announcing is missing from the ledger.
THEOREM MoneyAlwaysTraced == Spec => []MoneyTraced
  <1>1. LedgerInv => MoneyTraced
    BY DEF LedgerInv
  <1>2. QED
    BY <1>1, LedgerInvariant, PTL

\* Replays never push an expiration beyond what a recorded payment promised.
THEOREM ExpirationAlwaysJustified == Spec => []ExpirationJustified
  <1>1. LedgerInv => ExpirationJustified
    BY DEF LedgerInv
  <1>2. QED
    BY <1>1, LedgerInvariant, PTL

\* A removal in flight never catches a right its own check has looked at.
THEOREM RemovalAlwaysSpares == Spec => []RemovalSparesSeenRights
  <1>1. LedgerInv => RemovalSparesSeenRights
    BY DEF LedgerInv
  <1>2. QED
    BY <1>1, LedgerInvariant, PTL

-----------------------------------------------------------------------------
(* What a step may do to a recorded payment, and that PaidAccess implements   *)
(* PaymentLedger.                                                             *)

\* Which steps write the rows, and what else they may change.
LEMMA RowWriters ==
    ASSUME Next
    PROVE  \/ UNCHANGED payment
           \/ \E w \in Workers : RecordPayment(w)
           \/ \E w \in Workers, s \in Sessions : RevokePayment(w, s)
           \/ \E h \in Shares : RemoveRow(h)
           \/ CleanRow
  <1> USE DEF stripeVars, shareVars
  <1>1. ASSUME NEW s \in Sessions, Stripe(s) PROVE UNCHANGED payment
    BY <1>1 DEF Stripe, CreateSession, Pay, Settle, Refund
  <1>2. ASSUME NEW w \in Workers, Request(w)
        PROVE  \/ UNCHANGED payment
               \/ RecordPayment(w)
               \/ \E s \in Sessions : RevokePayment(w, s)
    BY <1>2 DEF Request, DeliverPaid, ConfirmSession, RetrieveSession, SendReceipt, LookupRefund, Answer
  <1>3. ASSUME NEW h \in Shares, Owner(h) PROVE UNCHANGED payment \/ RemoveRow(h)
    BY <1>3 DEF Owner, CreateShare, Update, Remove, Expire, AssertNoActivePaidAccess, RemoveFiles, ExpireNow
  <1>4. ASSUME Cleaner PROVE UNCHANGED payment \/ CleanRow
    BY <1>4 DEF Cleaner, SelectExpired, CleanFiles
  <1>5. Crash \/ Tick => UNCHANGED payment
    BY DEF Crash, Tick
  <1>6. QED
    BY <1>1, <1>2, <1>3, <1>4, <1>5 DEF Next

\* Losing transfers: what RemoveRow and CleanRow do to the rows.
LEMMA RowsDetached ==
    ASSUME TypeOK, CleanRow \/ \E h \in Shares : RemoveRow(h)
    PROVE  payment' = payment \/ \E h \in Shares : payment' = Detached(h)
  BY DEF TypeOK, CleanRow, RemoveRow

\* No step drops a recorded payment, moves the end of its access, erases its
\* intent, undoes its revocation, or attaches it to another transfer.
THEOREM RowsOnlyGrow == Spec => LedgerMonotone
  <1> DEFINE Kept(s) ==
        payment[s].state # "none" =>
          /\ payment'[s].state # "none"
          /\ payment[s].state = "revoked" => payment'[s].state = "revoked"
          /\ payment[s].intent => payment'[s].intent
          /\ payment'[s].until = payment[s].until
          /\ payment'[s].known = payment[s].known
          /\ payment'[s].share \in {payment[s].share, NoShare}
  <1>1. ASSUME TypeOK, LedgerInv, Next, NEW s \in Sessions PROVE Kept(s)
    <2>1. CASE UNCHANGED payment
      BY <2>1
    <2>2. ASSUME NEW w \in Workers, RecordPayment(w) PROVE Kept(s)
      <3>1. CASE s = worker[w].session
        BY <1>1, <2>2, <3>1, RecordingFacts
      <3>2. CASE s # worker[w].session
        BY <1>1, <2>2, <3>2, RecordingFacts, RequestSession
      <3>3. QED
        BY <3>1, <3>2
    <2>3. ASSUME NEW w \in Workers, NEW z \in Sessions, RevokePayment(w, z) PROVE Kept(s)
      BY <1>1, <2>3 DEF RevokePayment, TypeOK, Rows
    <2>4. CASE CleanRow \/ \E h \in Shares : RemoveRow(h)
      BY <1>1, <2>4, RowsDetached, DetachedRows
    <2>5. QED
      BY <1>1, <2>1, <2>2, <2>3, <2>4, RowWriters
  <1>2. TypeOK /\ LedgerInv /\ [Next]_vars => [\A s \in Sessions : Kept(s)]_vars
    BY <1>1
  <1>3. QED
    BY <1>2, TypeCorrect, LedgerInvariant, PTL DEF Spec, LedgerMonotone

-----------------------------------------------------------------------------
\* The abstract charge of a session, as the refinement mapping reads it.
ChargeOf(c) == CASE c \in {"none", "open"} -> "unpaid"
                 [] c = "refunded"         -> "refunded"
                 [] OTHER                  -> "paid"

\* The abstract ledger does not see a step that keeps every charge, right,
\* end of access and receipt.
LEMMA LedgerStutters ==
    ASSUME \A s \in Sessions : /\ ChargeOf(checkout'[s].state) = ChargeOf(checkout[s].state)
                               /\ payment'[s].state = payment[s].state
                               /\ payment'[s].until = payment[s].until,
           UNCHANGED receipts
    PROVE  UNCHANGED Ledger!vars
  BY DEF Ledger!vars, ChargeOf

\* A step of Stripe or of a buyer is a charge, a refund or a stutter.
LEMMA StripeImplements ==
    ASSUME TypeOK, NEW s \in Sessions, Stripe(s)
    PROVE  Ledger!Next \/ UNCHANGED Ledger!vars
  <1> USE DEF shareVars
  <1>1. ASSUME NEW h \in Shares, CreateSession(s, h) PROVE UNCHANGED Ledger!vars
    <2>1. \A z \in Sessions : ChargeOf(checkout'[z].state) = ChargeOf(checkout[z].state)
      BY <1>1 DEF CreateSession, TypeOK, Charges, ChargeOf
    <2>2. QED
      BY <1>1, <2>1, LedgerStutters DEF CreateSession
  <1>2. CASE Pay(s)
    <2>1. /\ checkout[s].state = "open" /\ checkout'[s].state = "paid"
          /\ \A z \in Sessions : z # s => checkout'[z] = checkout[z]
          /\ UNCHANGED <<payment, receipts>>
      BY <1>2 DEF Pay, TypeOK, Charges
    <2>2. Ledger!Charge(s)
      BY <2>1 DEF Ledger!Charge
    <2>3. QED
      BY <2>2 DEF Ledger!Next
  <1>3. CASE Settle(s)
    <2>1. \A z \in Sessions : ChargeOf(checkout'[z].state) = ChargeOf(checkout[z].state)
      BY <1>3 DEF Settle, TypeOK, Charges, ChargeOf
    <2>2. QED
      BY <1>3, <2>1, LedgerStutters DEF Settle
  <1>4. CASE Refund(s)
    <2>1. /\ checkout[s].state = "settled" /\ checkout'[s].state = "refunded"
          /\ \A z \in Sessions : z # s => checkout'[z] = checkout[z]
          /\ UNCHANGED <<payment, receipts>>
      BY <1>4 DEF Refund, TypeOK, Charges
    <2>2. Ledger!Refund(s)
      BY <2>1 DEF Ledger!Refund
    <2>3. QED
      BY <2>2 DEF Ledger!Next
  <1>5. QED
    BY <1>1, <1>2, <1>3, <1>4 DEF Stripe

\* The transaction of recordPayment enters a payment once; its replays stutter.
LEMMA RecordPaymentImplements ==
    ASSUME TypeOK, LedgerInv, NEW w \in Workers, RecordPayment(w)
    PROVE  Ledger!Next \/ UNCHANGED Ledger!vars
  <1>1. PICK s \in Sessions : s = worker[w].session
    BY RequestSession
  <1>2. /\ checkout[s].state \in {"paid", "settled", "refunded"}
        /\ \A z \in Sessions : z # s => payment'[z] = payment[z]
        /\ payment'[s].state = IF payment[s].state = "none" THEN "live" ELSE payment[s].state
        /\ payment[s].state # "none" => payment'[s].until = payment[s].until
        /\ payment' \in [Sessions -> Rows]
    BY <1>1, RecordingFacts
  <1>3. UNCHANGED <<checkout, receipts>>
    BY DEF RecordPayment, stripeVars
  <1>4. CASE payment[s].state = "none"
    <2>1. payment'[s].until \in Dates
      BY <1>1, <1>2 DEF Rows
    <2>2. Ledger!Grant(s)
      BY <1>1, <1>2, <1>3, <1>4, <2>1 DEF Ledger!Grant, Ledger!Dates
    <2>3. QED
      BY <1>1, <2>2 DEF Ledger!Next
  <1>5. CASE payment[s].state # "none"
    BY <1>2, <1>3, <1>5, LedgerStutters
  <1>6. QED
    BY <1>4, <1>5

\* Revoking is the abstract revocation of a refunded charge, or finds nothing.
LEMMA RevokePaymentImplements ==
    ASSUME TypeOK, LedgerInv, NEW w \in Workers, NEW s \in Sessions, RevokePayment(w, s)
    PROVE  Ledger!Next \/ UNCHANGED Ledger!vars
  <1>1. UNCHANGED <<checkout, receipts>>
    BY DEF RevokePayment, stripeVars
  <1>2. CASE payment[s].state = "live" /\ payment[s].intent
    <2>1. /\ payment'[s].state = "revoked" /\ payment'[s].until = payment[s].until
          /\ \A z \in Sessions : z # s => payment'[z] = payment[z]
      BY <1>2 DEF RevokePayment, TypeOK, Rows
    <2>2. checkout[s].state = "refunded"
      BY DEF RevokePayment, LedgerInv, ChargedFirst
    <2>3. Ledger!Revoke(s)
      BY <1>1, <1>2, <2>1, <2>2 DEF Ledger!Revoke
    <2>4. QED
      BY <2>3 DEF Ledger!Next
  <1>3. CASE ~(payment[s].state = "live" /\ payment[s].intent)
    BY <1>1, <1>3, LedgerStutters DEF RevokePayment
  <1>4. QED
    BY <1>2, <1>3

\* Mailing a receipt is the abstract receipt, and is never a second one.
LEMMA SendReceiptImplements ==
    ASSUME TypeOK, LedgerInv, NEW w \in Workers, SendReceipt(w)
    PROVE  Ledger!Next \/ UNCHANGED Ledger!vars
  <1>1. PICK s \in Sessions : s = worker[w].session
    BY RequestSession
  <1>2. /\ payment[s].state # "none"
        /\ receipts[s] = 0
    BY <1>1 DEF SendReceipt, LedgerInv, ReceiptPending
  <1>3. UNCHANGED <<checkout, payment>>
    BY DEF SendReceipt, stripeVars
  <1>4. \/ UNCHANGED receipts
        \/ receipts' = [receipts EXCEPT ![s] = 1]
    BY <1>1, <1>2 DEF SendReceipt, TypeOK
  <1>5. CASE UNCHANGED receipts
    BY <1>3, <1>5, LedgerStutters
  <1>6. CASE receipts' = [receipts EXCEPT ![s] = 1]
    <2>1. Ledger!Receipt(s)
      BY <1>2, <1>3, <1>6 DEF Ledger!Receipt
    <2>2. QED
      BY <2>1 DEF Ledger!Next
  <1>7. QED
    BY <1>4, <1>5, <1>6

\* The paid access of a transfer implements the abstract ledger.
THEOREM ImplementsTheLedger == Spec => ImplementsLedger
  <1>1. Init => Ledger!Init
    BY DEF Init, Ledger!Init, NoRow
  <1>2. TypeOK /\ LedgerInv /\ [Next]_vars => [Ledger!Next]_(Ledger!vars)
    <2> SUFFICES ASSUME TypeOK, LedgerInv, [Next]_vars
                 PROVE  Ledger!Next \/ UNCHANGED Ledger!vars
      OBVIOUS
    <2>1. ASSUME NEW w \in Workers, Request(w) PROVE Ledger!Next \/ UNCHANGED Ledger!vars
      <3>1. \/ UNCHANGED <<checkout, payment, receipts>>
            \/ RecordPayment(w) \/ SendReceipt(w)
            \/ \E s \in Sessions : RevokePayment(w, s)
        BY <2>1 DEF Request, DeliverPaid, ConfirmSession, RetrieveSession, LookupRefund, Answer, stripeVars
      <3>2. QED
        BY <3>1, LedgerStutters, RecordPaymentImplements, SendReceiptImplements,
           RevokePaymentImplements
    <2>2. ASSUME NEW h \in Shares, Owner(h) PROVE UNCHANGED Ledger!vars
      <3>1. UNCHANGED <<checkout, receipts>>
        BY <2>2 DEF Owner, CreateShare, Update, Remove, Expire, AssertNoActivePaidAccess,
           RemoveFiles, RemoveRow, ExpireNow, stripeVars
      <3>2. payment' = payment \/ \E g \in Shares : payment' = Detached(g)
        BY <2>2, RowsDetached DEF Owner, CreateShare, Update, Remove, Expire,
           AssertNoActivePaidAccess, RemoveFiles, ExpireNow
      <3>3. QED
        BY <3>1, <3>2, DetachedRows, LedgerStutters
    <2>3. CASE Cleaner
      <3>1. UNCHANGED <<checkout, receipts>>
        BY <2>3 DEF Cleaner, SelectExpired, CleanFiles, CleanRow, stripeVars
      <3>2. payment' = payment \/ \E g \in Shares : payment' = Detached(g)
        BY <2>3, RowsDetached DEF Cleaner, SelectExpired, CleanFiles
      <3>3. QED
        BY <3>1, <3>2, DetachedRows, LedgerStutters
    <2>4. CASE Crash \/ Tick \/ UNCHANGED vars
      <3>1. UNCHANGED <<checkout, payment, receipts>>
        BY <2>4 DEF Crash, Tick, vars, stripeVars
      <3>2. QED
        BY <3>1, LedgerStutters
    <2>5. QED
      BY <2>1, <2>2, <2>3, <2>4, StripeImplements DEF Next
  <1>3. QED
    BY <1>1, <1>2, TypeCorrect, LedgerInvariant, PTL DEF Spec, ImplementsLedger, Ledger!Spec

-----------------------------------------------------------------------------
(* Refunds, when requests do not overlap.                                     *)

\* One request is in flight at a time.
OneByOne == \A v, w \in Workers : v = w

\* What a refund under way has found stays true while nobody else writes rows.
RefundInv ==
    /\ RefundHonoured
    /\ \A w \in Workers : worker[w].kind = "refund" =>
         LET s == worker[w].session IN
         /\ worker[w].phase \in {"lookup", "answer"}
         /\ worker[w].phase = "lookup" => ~(payment[s].state = "live" /\ payment[s].intent)
         /\ worker[w].phase = "answer" => payment[s].state = "revoked" \/ s \in gaveUp

\* Rows that keep their states and intents, and events that stay, keep it.
LEMMA RefundStutters ==
    ASSUME RefundInv, UNCHANGED <<worker, gaveUp>>,
           \A s \in Sessions : /\ payment'[s].state = payment[s].state
                               /\ payment'[s].intent = payment[s].intent
                               /\ checkout'[s].state = "refunded" /\ <<"refund", s>> \notin pending'
                                    => checkout[s].state = "refunded" /\ <<"refund", s>> \notin pending,
           TypeOK
    PROVE  RefundInv'
  BY RequestSession DEF RefundInv, RefundHonoured

\* A step of the one request keeps it.
LEMMA RequestKeepsRefunds ==
    ASSUME OneByOne, TypeOK, LedgerInv, RefundInv, NEW w \in Workers, Request(w)
    PROVE  RefundInv'
  <1> USE DEF shareVars, stripeVars
  <1> DEFINE z == worker[w].session
             Kept(s) == /\ payment[s].state = "revoked" => payment'[s].state = "revoked"
                        /\ s \in gaveUp => s \in gaveUp'
             Settled(s) == checkout[s].state = "refunded" /\ <<"refund", s>> \notin pending
             Found(v) == worker[v].kind = "refund" =>
               LET s == worker[v].session IN
               /\ worker[v].phase \in {"lookup", "answer"}
               /\ worker[v].phase = "lookup" => ~(payment[s].state = "live" /\ payment[s].intent)
               /\ worker[v].phase = "answer" => payment[s].state = "revoked" \/ s \in gaveUp
  <1>1. \A v \in Workers : v = w
    BY DEF OneByOne
  <1>2. Found(w) /\ z \in Sessions
    BY RequestSession DEF RefundInv
  <1>3. SUFFICES ASSUME TRUE
                 PROVE  /\ Found(w)'
                        /\ \A s \in Sessions : Settled(s)' => payment'[s].state = "revoked" \/ s \in gaveUp'
    BY <1>1 DEF RefundInv, RefundHonoured
  <1>4. \A s \in Sessions : Settled(s) => payment[s].state = "revoked" \/ s \in gaveUp
    BY DEF RefundInv, RefundHonoured
  <1>5. ASSUME NEW s \in Sessions, DeliverPaid(w, s) \/ ConfirmSession(w, s)
        PROVE  Found(w)' /\ \A x \in Sessions : Kept(x) /\ (Settled(x)' => Settled(x))
    BY <1>5 DEF DeliverPaid, ConfirmSession, TypeOK
  <1>6. ASSUME NEW s \in Sessions, RevokePayment(w, s)
        PROVE  Found(w)' /\ \A x \in Sessions : Kept(x) /\ (Settled(x)' => Settled(x))
    <2>1. /\ worker'[w].session = s
          /\ worker'[w].phase = IF payment[s].state = "live" /\ payment[s].intent THEN "answer" ELSE "lookup"
          /\ UNCHANGED <<checkout, pending, gaveUp>>
      BY <1>6 DEF RevokePayment, TypeOK
    <2>2. CASE payment[s].state = "live" /\ payment[s].intent
      <3>1. payment'[s].state = "revoked" /\ \A x \in Sessions : x # s => payment'[x] = payment[x]
        BY <1>6, <2>2 DEF RevokePayment, TypeOK, Rows
      <3>2. QED
        BY <2>1, <2>2, <3>1
    <2>3. CASE ~(payment[s].state = "live" /\ payment[s].intent)
      <3>1. payment' = payment
        BY <1>6, <2>3 DEF RevokePayment
      <3>2. QED
        BY <2>1, <2>3, <3>1
    <2>4. QED
      BY <2>2, <2>3
  <1>7. ASSUME RetrieveSession(w) \/ SendReceipt(w)
        PROVE  Found(w)' /\ \A x \in Sessions : Kept(x) /\ (Settled(x)' => Settled(x))
    <2>1. worker[w].kind # "refund"
      BY <1>2, <1>7 DEF RetrieveSession, SendReceipt
    <2>2. worker'[w].kind # "refund"
      <3>1. CASE RetrieveSession(w)
        <4>1. worker'[w] = Idle \/ worker'[w] = [worker[w] EXCEPT !.phase = "record",
                 !.intent = (checkout[z].state # "paid"), !.until = now + Window]
          BY <3>1 DEF RetrieveSession, TypeOK
        <4>2. \A r \in Requests : \A b, u :
                 [r EXCEPT !.phase = "record", !.intent = b, !.until = u].kind = r.kind
          BY DEF Requests
        <4>3. Idle.kind # "refund" /\ worker[w] \in Requests
          BY DEF Idle, TypeOK
        <4>4. CASE worker'[w] = Idle
          BY <4>3, <4>4
        <4>5. CASE worker'[w] # Idle
          <5> DEFINE b == (checkout[z].state # "paid")
                     u == now + Window
          <5>1. worker'[w] = [worker[w] EXCEPT !.phase = "record", !.intent = b, !.until = u]
            BY <4>1, <4>5
          <5> HIDE DEF b, u
          <5>2. worker'[w].kind = worker[w].kind
            BY <4>2, <4>3, <5>1
          <5>3. QED
            BY <2>1, <5>2
        <4>6. QED
          BY <4>4, <4>5
      <3>2. CASE SendReceipt(w)
        BY <2>1, <3>2 DEF SendReceipt, TypeOK, Requests
      <3>3. QED
        BY <1>7, <3>1, <3>2
    <2>3. UNCHANGED <<payment, gaveUp, checkout, pending>>
      BY <1>7 DEF RetrieveSession, SendReceipt
    <2>4. QED
      BY <2>2, <2>3
  <1>8. ASSUME RecordPayment(w)
        PROVE  Found(w)' /\ \A x \in Sessions : Kept(x) /\ (Settled(x)' => Settled(x))
    <2>1. worker[w].kind # "refund"
      BY <1>2, <1>8 DEF RecordPayment
    <2>2. worker'[w].kind # "refund"
      BY <1>8, <2>1 DEF RecordPayment, TypeOK, Requests
    <2>3. UNCHANGED <<gaveUp, checkout, pending>>
      BY <1>8 DEF RecordPayment
    <2>4. \A x \in Sessions : Kept(x)
      BY <1>2, <1>8, <2>3, RecordingFacts
    <2>5. QED
      BY <2>2, <2>3, <2>4
  <1>9. ASSUME LookupRefund(w)
        PROVE  Found(w)' /\ \A x \in Sessions : Kept(x) /\ (Settled(x)' => Settled(x))
    <2> DEFINE known == payment[z].state # "none" /\ payment[z].intent
               tooOld == now - checkout[z].refundedAt > RetryAge
    <2>1. /\ worker' = [worker EXCEPT ![w] = IF known \/ tooOld THEN [@ EXCEPT !.phase = "answer"] ELSE Idle]
          /\ gaveUp' = IF ~known /\ tooOld THEN gaveUp \cup {z} ELSE gaveUp
          /\ UNCHANGED <<payment, checkout, pending>>
          /\ worker[w].phase = "lookup"
      BY <1>9 DEF LookupRefund
    <2> HIDE DEF tooOld
    <2>2. \A x \in Sessions : Kept(x) /\ (Settled(x)' => Settled(x))
      BY <2>1
    <2>3. CASE known \/ tooOld
      <3>1. worker'[w].session = z /\ worker'[w].phase = "answer" /\ worker'[w].kind = worker[w].kind
        BY <2>1, <2>3 DEF TypeOK, Requests
      <3>2. payment[z].state \in {"none", "live", "revoked"}
        BY <1>2 DEF TypeOK, Rows
      <3>3. worker[w].kind = "refund" => payment'[z].state = "revoked" \/ z \in gaveUp'
        BY <1>2, <2>1, <2>3, <3>2
      <3>4. QED
        BY <2>2, <3>1, <3>3
    <2>4. CASE ~(known \/ tooOld)
      <3>1. worker'[w].kind = "webhook"
        BY <2>1, <2>4 DEF Idle, TypeOK
      <3>2. QED
        BY <2>2, <3>1
    <2>5. QED
      BY <2>3, <2>4
  <1>10. CASE Answer(w)
    <2>1. /\ worker'[w].kind = "webhook"
          /\ UNCHANGED <<payment, gaveUp, checkout>>
          /\ pending' = pending \ Acknowledged(worker[w]) \/ pending' = pending
          /\ worker[w].phase = "answer"
      BY <1>10 DEF Answer, Idle, TypeOK
    <2>2. ASSUME NEW s \in Sessions, Settled(s)' PROVE payment'[s].state = "revoked" \/ s \in gaveUp'
      <3>1. CASE <<"refund", s>> \notin pending
        BY <1>4, <2>1, <2>2, <3>1
      <3>2. CASE <<"refund", s>> \in pending
        <4>1. <<"refund", s>> \in Acknowledged(worker[w])
          BY <2>1, <2>2, <3>2
        <4>2. worker[w].kind = "refund" /\ z = s
          BY <4>1, <1>2, EventsDiffer DEF Acknowledged
        <4>3. QED
          BY <1>2, <2>1, <4>2
      <3>3. QED
        BY <3>1, <3>2
    <2>3. QED
      BY <2>1, <2>2
  <1>11. QED
    BY <1>4, <1>5, <1>6, <1>7, <1>8, <1>9, <1>10 DEF Request

\* With one request in flight at a time, no refund is lost: what Stripe has
\* stopped announcing has revoked its payment or was given up on for its age.
THEOREM RefundsHonouredOneByOne ==
    ASSUME OneByOne
    PROVE  Spec => []RefundHonoured
  <1>1. Init => RefundInv
    BY DEF Init, RefundInv, RefundHonoured, Idle
  <1>2. ASSUME TypeOK, LedgerInv, RefundInv, [Next]_vars PROVE RefundInv'
    <2> USE DEF shareVars, stripeVars
    <2>1. ASSUME NEW s \in Sessions, Stripe(s) PROVE RefundInv'
      <3>1. UNCHANGED <<worker, gaveUp, payment>>
        BY <2>1 DEF Stripe, CreateSession, Pay, Settle, Refund
      <3>2. \A z \in Sessions : checkout'[z].state = "refunded" /\ <<"refund", z>> \notin pending'
                                  => checkout[z].state = "refunded" /\ <<"refund", z>> \notin pending
        <4>1. ASSUME NEW h \in Shares, CreateSession(s, h)
              PROVE  pending' = pending /\ \A z \in Sessions :
                        checkout'[z].state = checkout[z].state \/ checkout'[z].state = "open"
          BY <1>2, <4>1 DEF CreateSession, TypeOK, Charges
        <4>2. ASSUME Pay(s)
              PROVE  pending' = pending /\ \A z \in Sessions :
                        checkout'[z].state = checkout[z].state \/ checkout'[z].state = "paid"
          BY <1>2, <4>2 DEF Pay, TypeOK, Charges
        <4>3. ASSUME Settle(s)
              PROVE  pending \subseteq pending' /\ \A z \in Sessions :
                        checkout'[z].state = checkout[z].state \/ checkout'[z].state = "settled"
          BY <1>2, <4>3 DEF Settle, TypeOK, Charges
        <4>4. ASSUME Refund(s)
              PROVE  /\ pending \subseteq pending' /\ <<"refund", s>> \in pending'
                     /\ \A z \in Sessions : z # s => checkout'[z] = checkout[z]
          BY <1>2, <4>4 DEF Refund, TypeOK
        <4>5. QED
          BY <2>1, <4>1, <4>2, <4>3, <4>4 DEF Stripe
      <3>3. QED
        BY <1>2, <3>1, <3>2, RefundStutters
    <2>2. ASSUME NEW w \in Workers, Request(w) PROVE RefundInv'
      BY <1>2, <2>2, RequestKeepsRefunds
    <2>3. CASE (\E h \in Shares : Owner(h)) \/ Cleaner
      <3>1. UNCHANGED <<worker, gaveUp, checkout, pending>>
        BY <2>3 DEF Owner, CreateShare, Update, Remove, Expire, AssertNoActivePaidAccess, RemoveFiles,
           RemoveRow, ExpireNow, Cleaner, SelectExpired, CleanFiles, CleanRow
      <3>2. payment' = payment \/ \E h \in Shares : payment' = Detached(h)
        <4>1. CASE CleanRow \/ \E h \in Shares : RemoveRow(h)
          BY <4>1, <1>2, RowsDetached
        <4>2. CASE ~(CleanRow \/ \E h \in Shares : RemoveRow(h))
          BY <2>3, <4>2 DEF Owner, CreateShare, Update, Remove, Expire, AssertNoActivePaidAccess,
             RemoveFiles, ExpireNow, Cleaner, SelectExpired, CleanFiles
        <4>3. QED
          BY <4>1, <4>2
      <3>3. \A s \in Sessions : payment'[s].state = payment[s].state /\ payment'[s].intent = payment[s].intent
        BY <1>2, <3>2, DetachedRows
      <3>4. QED
        BY <1>2, <3>1, <3>3, RefundStutters
    <2>4. CASE Crash
      BY <1>2, <2>4 DEF Crash, RefundInv, RefundHonoured, Idle
    <2>5. CASE Tick \/ UNCHANGED vars
      BY <1>2, <2>5, RefundStutters DEF Tick, vars
    <2>6. QED
      BY <1>2, <2>1, <2>2, <2>3, <2>4, <2>5 DEF Next
  <1>3. RefundInv => RefundHonoured
    BY DEF RefundInv
  <1>4. QED
    BY <1>1, <1>2, <1>3, TypeCorrect, LedgerInvariant, PTL DEF Spec
=============================================================================
