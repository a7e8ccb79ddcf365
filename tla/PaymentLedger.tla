---------------------------- MODULE PaymentLedger ----------------------------
(***************************************************************************)
(* What the payment code promises of one ledger: a right is granted for a  *)
(* charge and never without one, is taken back for a refund and never      *)
(* without one, keeps the end it was granted with, and is acknowledged by  *)
(* at most one receipt.  Nothing here knows of webhooks, retries or crashes.*)
(***************************************************************************)
EXTENDS Integers

CONSTANTS Sessions, MaxTime, Window

VARIABLES charge,   \* "unpaid", "paid" or "refunded"
          right,    \* "none", "live" or "revoked"
          until,    \* the end of the access that was sold
          receipt   \* how many receipts the buyer was sent

vars == <<charge, right, until, receipt>>

Dates == 0..(MaxTime + Window)

Init ==
    /\ charge = [s \in Sessions |-> "unpaid"]
    /\ right = [s \in Sessions |-> "none"]
    /\ until = [s \in Sessions |-> 0]
    /\ receipt = [s \in Sessions |-> 0]

\* The buyer is charged, or gets the money back.
Charge(s) ==
    /\ charge[s] = "unpaid"
    /\ charge' = [charge EXCEPT ![s] = "paid"]
    /\ UNCHANGED <<right, until, receipt>>

Refund(s) ==
    /\ charge[s] = "paid"
    /\ charge' = [charge EXCEPT ![s] = "refunded"]
    /\ UNCHANGED <<right, until, receipt>>

\* A charge, even one refunded since, is entered once and for all.
Grant(s) ==
    /\ charge[s] # "unpaid"
    /\ right[s] = "none"
    /\ right' = [right EXCEPT ![s] = "live"]
    /\ \E u \in Dates : until' = [until EXCEPT ![s] = u]
    /\ UNCHANGED <<charge, receipt>>

Revoke(s) ==
    /\ charge[s] = "refunded"
    /\ right[s] = "live"
    /\ right' = [right EXCEPT ![s] = "revoked"]
    /\ UNCHANGED <<charge, until, receipt>>

Receipt(s) ==
    /\ right[s] # "none"
    /\ receipt[s] = 0
    /\ receipt' = [receipt EXCEPT ![s] = 1]
    /\ UNCHANGED <<charge, right, until>>

Next == \E s \in Sessions : Charge(s) \/ Refund(s) \/ Grant(s) \/ Revoke(s) \/ Receipt(s)

Spec == Init /\ [][Next]_vars
=============================================================================
