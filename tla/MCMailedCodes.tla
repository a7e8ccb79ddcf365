----------------------------- MODULE MCMailedCodes -----------------------------
(* Two accounts and three addresses, for TLC; the other constants are in   *)
(* MCMailedCodes.cfg.                                                      *)
EXTENDS MailedCodes, TLC

CONSTANTS a1, a2, x1, x2, x3

MCInitially == (a1 :> x1) @@ (a2 :> x2)

\* What meets what: each of these sets is explored on its own.
Changing   == {"change", "resend", "confirm", "cancel", "administer"}
Visiting   == {"requestCode", "verify"}
Activating == {"renew", "activate", "link"}
MCExplored == {Changing, Visiting, Activating}
MCMaxAsked == [o \in MCExplored |-> IF o = Visiting THEN 5 ELSE 4]
=============================================================================
