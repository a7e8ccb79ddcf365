------------------------------ MODULE MCAccounts ------------------------------
(* An instance of two accounts and a third that may come, for TLC; its     *)
(* constants are in MCAccounts.cfg.                                        *)
EXTENDS Accounts, TLC

CONSTANTS p1, p2

\* What meets what: each of these sets is explored on its own.
Arrivals == {"signUp", "register", "sweep", "delete"}
Roles    == {"update", "delete"}
Imposing == {"create", "directory", "provider", "delete"}
Doors    == {"link", "unlink", "update"}
Switches == {"unlink", "settings"}
MCExplored == {Arrivals, Roles, Imposing, Doors, Switches}

\* Every door is open, or the password form is closed; an instance without
\* links, or with any two.
Open   == [k \in Key |-> k # "disablePassword"]
Closed == [k \in Key |-> TRUE]
AnyLinks == {l \in SUBSET (Established \X Provider) : Cardinality(l) \in {0, 2}}
StartsFrom(ss, ls) == [settings : ss, links : ls]
MCStarts ==
    [o \in MCExplored |->
       CASE o \in {Arrivals, Roles} -> StartsFrom({Open}, {{}})
         [] o = Imposing -> StartsFrom({Open}, {{}, Established \X {p1}})
         [] OTHER -> StartsFrom({Open, Closed}, AnyLinks)]

MCMaxAsked == [o \in MCExplored |-> IF o \in {Arrivals, Roles, Imposing} THEN 3 ELSE 2]

\* Settings saved at once.
MCBatches == {{"ldap"}, {"disablePassword", p1}}

Symmetry == Permutations(Established)
=============================================================================
