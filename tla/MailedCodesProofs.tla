-------------------------- MODULE MailedCodesProofs ---------------------------
(***************************************************************************)
(* What TLAPS proves of MailedCodes, for any number of accounts, addresses,*)
(* requests, codes and guesses.                                            *)
(***************************************************************************)
EXTENDS MailedCodes, TLAPS, FiniteSetTheorems, WellFoundedInduction

USE AccountAssumption, BoundAssumption

\* What a request carries from one of its steps to the next.
Known(q, last, len) ==
    /\ q.pc \in {"taken", "hold", "rewrite", "mail", "stillFree", "apply", "judged", "renew"}
         => q.address \in Address
    /\ q.pc \in {"mail", "rewrite"} => q.code <= last
    /\ q.pc = "mail" => q.code # NoCode
    /\ q.pc = "judged" => q.row \in 1..len

ReqOK == req \in [Request -> Records] /\ \A r \in Request : Known(req[r], minted, Len(rows))

\* Codes that are in use were minted, and what is held aside has one.
CodesOK ==
    /\ \A a \in Account :
         /\ pending[a].code <= minted /\ activation[a].code <= minted
         /\ pending[a].address # NoAddress => pending[a].code # NoCode
    /\ \A i \in 1..Len(rows) : rows[i].code <= minted

ColumnsOK ==
    /\ email \in [Account -> Address]
    /\ \A a, b \in Account : a # b => email[a] # email[b]
    /\ pending \in [Account -> Changes]
    /\ activation \in [Account -> Activations]
    /\ rows \in Seq(Rows)

RestOK ==
    /\ ops \in Explored /\ asked \in 0..MaxAsked[ops]
    /\ minted \in 0..MaxCodes
    /\ mails \subseteq Address \X (1..minted)
    /\ proved \subseteq Address
    /\ limited \in [Code -> Nat]
    /\ crossed \subseteq Account

TypeInv == ColumnsOK /\ RestOK /\ CodesOK /\ ReqOK

-----------------------------------------------------------------------------
(* Types.                                                                  *)

LEMMA Codes ==
    /\ NoCode = 0 /\ MaxCodes \in Nat
    /\ \A c \in Code : c \in Nat /\ c # NoCode
    /\ \A c \in Code \cup {NoCode} : c \in Nat
  BY DEF Code, NoCode

LEMMA IdleType == Idle \in Records /\ Idle.pc = "idle"
  BY DEF Idle, Records

LEMMA InitTypes == Init => TypeInv
  <1> SUFFICES ASSUME Init PROVE TypeInv
    OBVIOUS
  <1> USE DEF Init
  <1>1. NoChange \in Changes /\ Activated \in Activations
    BY DEF NoChange, Changes, Activated, Activations
  <1>2. [active |-> FALSE, code |-> 1, valid |-> TRUE, attempts |-> 0] \in Activations
    BY DEF Activations, Code
  <1>3. ColumnsOK
    BY <1>1, <1>2 DEF ColumnsOK
  <1>4. RestOK
    BY DEF RestOK
  <1>5. CodesOK
    BY DEF CodesOK, NoChange, Activated, NoCode
  <1>6. ReqOK
    BY IdleType DEF ReqOK, Known
  <1>7. QED
    BY <1>3, <1>4, <1>5, <1>6 DEF TypeInv

LEMMA RecordFacts ==
    ASSUME NEW q \in Records
    PROVE  q.account \in Account /\ q.address \in Address \cup {NoAddress}
           /\ q.code \in Code \cup {NoCode} /\ q.code \in Nat /\ q.row \in Nat
  <1>1. /\ q.account \in Account /\ q.address \in Address \cup {NoAddress}
        /\ q.code \in Code \cup {NoCode} /\ q.row \in Nat
    BY DEF Records
  <1>2. q.code \in Nat
    BY <1>1, Codes
  <1>3. QED
    BY <1>1, <1>2

LEMMA RowFacts ==
    ASSUME TypeInv
    PROVE  /\ Len(rows) \in Nat
           /\ \A i \in 1..Len(rows) : rows[i] \in Rows /\ rows[i].code \in Code /\ rows[i].code \in Nat
  <1>1. rows \in Seq(Rows)
    BY DEF TypeInv, ColumnsOK
  <1>2. ASSUME NEW i \in 1..Len(rows) PROVE rows[i] \in Rows
    BY <1>1
  <1>3. \A x \in Rows : x.code \in Code /\ x.code \in Nat
    BY Codes DEF Rows
  <1>4. QED
    BY <1>1, <1>2, <1>3

\* Codes and rows only come.
Grows == minted' \in Nat /\ minted <= minted' /\ Len(rows') \in Nat /\ Len(rows) <= Len(rows')

LEMMA Still ==
    ASSUME TypeInv, minted' = minted \/ Mints, rows' = rows
    PROVE  Grows
  <1>1. minted \in Nat /\ Len(rows) \in Nat
    BY DEF TypeInv, RestOK, ColumnsOK
  <1>2. QED
    BY <1>1 DEF Grows, Mints, Fresh

\* One slot gets another request; codes and rows only come.
LEMMA SlotKeeps ==
    ASSUME TypeInv, NEW r \in Request, NEW q \in Records, Known(q, minted', Len(rows')),
           req' = [req EXCEPT ![r] = q], Grows
    PROVE  ReqOK'
  <1>1. req \in [Request -> Records] /\ \A s \in Request : Known(req[s], minted, Len(rows))
    BY DEF TypeInv, ReqOK
  <1>2. \A s \in Request : req'[s] = IF s = r THEN q ELSE req[s]
    BY <1>1
  <1>3. minted \in Nat /\ Len(rows) \in Nat
    BY DEF TypeInv, RestOK, ColumnsOK
  <1>4. ASSUME NEW s \in Request PROVE Known(req'[s], minted', Len(rows'))
    <2>1. CASE s = r
      BY <2>1, <1>2
    <2>2. CASE s # r
      <3>1. Known(req[s], minted, Len(rows)) /\ req'[s] = req[s] /\ req[s] \in Records
        BY <2>2, <1>1, <1>2
      <3>2. req[s].code \in Nat
        BY <3>1, RecordFacts
      <3>3. QED
        BY <3>1, <3>2, <1>3 DEF Known, Grows
    <2>3. QED
      BY <2>1, <2>2
  <1>5. QED
    BY <1>1, <1>4 DEF ReqOK

LEMMA EndKeeps ==
    ASSUME TypeInv, NEW r \in Request, End(r), Grows
    PROVE  ReqOK'
  <1>1. Known(Idle, minted', Len(rows'))
    BY IdleType DEF Known
  <1>2. QED
    BY <1>1, IdleType, SlotKeeps DEF End

\* A request that only begins, and carries what it should.
LEMMA BeginKeeps ==
    ASSUME TypeInv, NEW r \in Request, NEW op, Asks(r, op), NEW q \in Records, Known(q, minted', Len(rows')),
           req' = [req EXCEPT ![r] = q],
           UNCHANGED <<ops, email, pending, activation, rows, minted, mails, proved, crossed>>,
           limited' \in [Code -> Nat]
    PROVE  TypeInv'
  <1>1. asked' \in 0..MaxAsked[ops]
    BY DEF TypeInv, RestOK, Asks
  <1>2. ReqOK'
    BY SlotKeeps, Still
  <1>3. QED
    BY <1>1, <1>2 DEF TypeInv, RestOK, ColumnsOK, CodesOK

\* A request that is refused at once.
LEMMA BeganNothing ==
    ASSUME TypeInv, NEW r \in Request, NEW op, Asks(r, op),
           UNCHANGED <<ops, email, pending, activation, rows, minted, mails, proved, limited, crossed>>,
           req' = req
    PROVE  TypeInv'
  <1>1. /\ req' = [req EXCEPT ![r] = req[r]] /\ req[r] \in Records
        /\ Known(req[r], minted', Len(rows')) /\ limited' \in [Code -> Nat]
    BY DEF TypeInv, ReqOK, RestOK
  <1>2. QED
    BY <1>1, BeginKeeps

\* The next code is one that nobody has.
LEMMA FreshCode ==
    ASSUME TypeInv, Mints
    PROVE  /\ Fresh \in Code /\ Fresh = minted + 1 /\ minted' = Fresh /\ minted \in Nat
           /\ minted' \in 0..MaxCodes /\ mails \subseteq Address \X (1..minted')
  BY DEF TypeInv, RestOK, Mints, Fresh, Code

LEMMA ChangeTypes ==
    ASSUME TypeInv, NEW r \in Request,
           \/ \E a \in Account, x \in Address : RequestEmailChange(r, a, x) \/ AdminUpdate(r, a, x)
           \/ \E a \in Account : ResendEmailChangeCode(r, a) \/ CancelEmailChange(r, a)
           \/ \E a \in Account, c \in Typed : ConfirmEmailChange(r, a, c)
           \/ CheckTaken(r) \/ HoldAddress(r) \/ RewriteCode(r) \/ Apply(r) \/ Mail(r)
    PROVE  TypeInv'
  <1>0. /\ req[r] \in Records /\ Known(req[r], minted, Len(rows)) /\ minted \in Nat /\ Len(rows) \in Nat
        /\ pending \in [Account -> Changes] /\ req \in [Request -> Records]
        /\ req[r].account \in Account
    BY DEF TypeInv, ReqOK, RestOK, ColumnsOK, Records
  <1>1. ASSUME NEW a \in Account, NEW x \in Address, RequestEmailChange(r, a, x) PROVE TypeInv'
    <2> DEFINE q == [Idle EXCEPT !.pc = "taken", !.account = a, !.address = x]
    <2>1. q \in Records /\ Known(q, minted', Len(rows'))
      BY DEF Idle, Records, Known
    <2>2. QED
      BY <1>1, <2>1, BeginKeeps DEF RequestEmailChange, account, TypeInv, RestOK
  <1>2. ASSUME NEW a \in Account, NEW x \in Address, AdminUpdate(r, a, x) PROVE TypeInv'
    <2>1. asked' \in 0..MaxAsked[ops]
      BY <1>2 DEF AdminUpdate, Asks, TypeInv, RestOK
    <2>2. ColumnsOK'
      BY <1>2 DEF AdminUpdate, Taken, TypeInv, ColumnsOK
    <2>3. QED
      BY <1>2, <2>1, <2>2 DEF AdminUpdate, TypeInv, RestOK, CodesOK, ReqOK, Known
  <1>3. ASSUME NEW a \in Account, ResendEmailChangeCode(r, a) PROVE TypeInv'
    <2> DEFINE c == IF pending[a].valid THEN pending[a].code ELSE NoCode
               q == [Idle EXCEPT !.pc = "rewrite", !.account = a, !.address = pending[a].address,
                                 !.code = c]
    <2>1. pending[a] \in Changes /\ pending[a].address # NoAddress /\ pending[a].code <= minted
      BY <1>0, <1>3 DEF ResendEmailChangeCode, TypeInv, CodesOK
    <2>2. c \in Code \cup {NoCode} /\ c <= minted /\ pending[a].address \in Address
      BY <2>1, <1>0, Codes DEF Changes
    <2>3. minted' = minted
      BY <1>3 DEF ResendEmailChangeCode
    <2>4. q \in Records
      BY <2>2 DEF Idle, Records
    <2>5. Known(q, minted', Len(rows'))
      BY <2>2, <2>3 DEF Idle, Known
    <2>6. QED
      BY <1>3, <2>4, <2>5, BeginKeeps DEF ResendEmailChangeCode, account, TypeInv, RestOK
  <1>4. ASSUME NEW a \in Account, CancelEmailChange(r, a) PROVE TypeInv'
    <2>1. asked' \in 0..MaxAsked[ops]
      BY <1>4 DEF CancelEmailChange, Asks, TypeInv, RestOK
    <2>2. NoChange \in Changes /\ NoChange.code = NoCode /\ NoChange.address = NoAddress
      BY DEF NoChange, Changes
    <2>3. ColumnsOK'
      BY <1>4, <2>2 DEF CancelEmailChange, TypeInv, ColumnsOK
    <2>4. CodesOK'
      BY <1>4, <1>0, <2>2, Codes DEF CancelEmailChange, TypeInv, CodesOK
    <2>5. QED
      BY <1>4, <2>1, <2>3, <2>4 DEF CancelEmailChange, TypeInv, RestOK, ReqOK, Known
  <1>5. ASSUME NEW a \in Account, NEW c \in Typed, ConfirmEmailChange(r, a, c) PROVE TypeInv'
    <2> DEFINE q == [Idle EXCEPT !.pc = "stillFree", !.account = a,
                                 !.address = pending[a].address, !.code = c]
    <2>0. /\ Asks(r, "confirm")
          /\ UNCHANGED <<ops, email, pending, activation, rows, minted, mails, proved, limited, crossed>>
      BY <1>5 DEF ConfirmEmailChange, account
    <2>1. CASE req' = req
      BY <2>0, <2>1, BeganNothing
    <2>2. CASE req' # req
      <3>1. /\ pending[a] \in Changes /\ pending[a].address # NoAddress /\ pending[a].code = c
            /\ req' = [req EXCEPT ![r] = q]
        BY <1>0, <1>5, <2>2 DEF ConfirmEmailChange
      <3>2. c \in Code \cup {NoCode} /\ pending[a].address \in Address
        BY <3>1 DEF Changes
      <3>3. q \in Records
        BY <3>2 DEF Idle, Records
      <3>4. Known(q, minted', Len(rows'))
        BY <3>2 DEF Idle, Known
      <3>5. QED
        BY <2>0, <3>1, <3>3, <3>4, BeginKeeps DEF TypeInv, RestOK
    <2>3. QED
      BY <2>1, <2>2
  <1>6. CASE CheckTaken(r)
    <2>1. CASE End(r)
      <3>1. ReqOK'
        BY <1>6, <2>1, Still, EndKeeps DEF CheckTaken
      <3>2. QED
        BY <1>6, <3>1 DEF CheckTaken, account, TypeInv, ColumnsOK, RestOK, CodesOK
    <2>2. CASE ~End(r)
      <3> DEFINE pc == IF At(r, "taken") THEN "hold" ELSE "apply"
                 q == [req[r] EXCEPT !.pc = pc]
      <3>1. req' = [req EXCEPT ![r] = q] /\ req[r].pc \in {"taken", "stillFree"}
        BY <1>0, <1>6, <2>2 DEF CheckTaken, GoTo, At
      <3>2. q \in Records /\ q.address = req[r].address /\ q.pc \in {"hold", "apply"}
        BY <1>0 DEF Records
      <3>3. Known(q, minted', Len(rows'))
        BY <1>0, <3>1, <3>2 DEF Known
      <3>4. ReqOK'
        BY <1>6, <3>1, <3>2, <3>3, SlotKeeps, Still DEF CheckTaken
      <3>5. QED
        BY <1>6, <3>4 DEF CheckTaken, account, TypeInv, ColumnsOK, RestOK, CodesOK
    <2>3. QED
      BY <2>1, <2>2
  <1>7. CASE HoldAddress(r)
    <2> DEFINE a == req[r].account
               x == req[r].address
               new == [address |-> x, code |-> Fresh, valid |-> TRUE, recent |-> TRUE]
               q == [req[r] EXCEPT !.pc = "mail", !.code = Fresh]
    <2>1. Mints /\ x \in Address
      BY <1>7, <1>0 DEF HoldAddress, At, Known
    <2>2. /\ Fresh \in Code /\ Fresh = minted + 1 /\ minted' = Fresh /\ minted' \in 0..MaxCodes
          /\ mails \subseteq Address \X (1..minted')
      BY <2>1, FreshCode
    <2>3. new \in Changes
      BY <2>1, <2>2 DEF Changes
    <2>4. pending' = [pending EXCEPT ![a] = new] /\ req' = [req EXCEPT ![r] = q]
      BY <1>7, <1>0 DEF HoldAddress
    <2>5. q \in Records /\ q.pc = "mail" /\ q.address = x /\ q.code = Fresh
      BY <1>0, <2>2 DEF Records
    <2>6. Known(q, minted', Len(rows'))
      BY <2>1, <2>2, <2>5, Codes DEF Known
    <2>7. ReqOK'
      BY <1>7, <2>1, <2>4, <2>5, <2>6, SlotKeeps, Still DEF HoldAddress
    <2>8. ColumnsOK'
      BY <1>7, <1>0, <2>3, <2>4 DEF HoldAddress, TypeInv, ColumnsOK
    <2>9. CodesOK'
      <3>1. \A b \in Account : /\ pending[b].code \in Nat /\ activation[b].code \in Nat
                               /\ pending'[b] = IF b = a THEN new ELSE pending[b]
        BY <1>0, <2>4, Codes DEF Changes, Activations, TypeInv, ColumnsOK
      <3>2. \A i \in 1..Len(rows) : rows[i].code \in Nat
        BY RowFacts
      <3>3. QED
        BY <1>7, <1>0, <2>2, <3>1, <3>2, Codes DEF HoldAddress, TypeInv, CodesOK
    <2>10. RestOK'
      BY <1>7, <2>2 DEF HoldAddress, TypeInv, RestOK
    <2>11. QED
      BY <2>7, <2>8, <2>9, <2>10 DEF TypeInv
  <1>8. CASE RewriteCode(r)
    <2> DEFINE a == req[r].account
               x == req[r].address
               c == IF req[r].code = NoCode THEN Fresh ELSE req[r].code
               new == [pending[a] EXCEPT !.code = c, !.valid = TRUE, !.recent = TRUE]
               q == [req[r] EXCEPT !.pc = "mail", !.code = c]
    <2>1. x \in Address /\ req[r].code <= minted /\ req[r].code \in Code \cup {NoCode}
      BY <1>8, <1>0 DEF RewriteCode, At, Known, Records
    <2>2. /\ c \in Code /\ c <= minted' /\ minted' \in 0..MaxCodes /\ minted <= minted'
          /\ mails \subseteq Address \X (1..minted')
      <3>1. CASE req[r].code = NoCode
        BY <1>8, <3>1, FreshCode, <1>0, Codes DEF RewriteCode
      <3>2. CASE req[r].code # NoCode
        BY <1>8, <3>2, <2>1 DEF RewriteCode, TypeInv, RestOK
      <3>3. QED
        BY <3>1, <3>2
    <2>3. /\ new \in Changes /\ new.code = c /\ new.address = pending[a].address
      BY <1>0, <2>2 DEF Changes
    <2>4. pending' = [pending EXCEPT ![a] = new] /\ req' = [req EXCEPT ![r] = q]
      BY <1>8, <1>0 DEF RewriteCode
    <2>5. q \in Records /\ q.pc = "mail" /\ q.address = x /\ q.code = c
      BY <1>0, <2>2 DEF Records
    <2>6. Known(q, minted', Len(rows'))
      BY <2>1, <2>2, <2>5, Codes DEF Known
    <2>7. ReqOK'
      BY <1>8, <2>4, <2>5, <2>6, SlotKeeps, Still DEF RewriteCode
    <2>8. ColumnsOK'
      BY <1>8, <1>0, <2>3, <2>4 DEF RewriteCode, TypeInv, ColumnsOK
    <2>9. CodesOK'
      <3>1. \A b \in Account : /\ pending[b].code \in Nat /\ activation[b].code \in Nat
                               /\ pending'[b] = IF b = a THEN new ELSE pending[b]
        BY <1>0, <2>4, Codes DEF Changes, Activations, TypeInv, ColumnsOK
      <3>2. \A i \in 1..Len(rows) : rows[i].code \in Nat
        BY RowFacts
      <3>3. QED
        BY <1>8, <1>0, <2>2, <2>3, <3>1, <3>2, Codes DEF RewriteCode, TypeInv, CodesOK
    <2>10. RestOK'
      BY <1>8, <1>0, <2>2 DEF RewriteCode, TypeInv, RestOK
    <2>11. QED
      BY <2>7, <2>8, <2>9, <2>10 DEF TypeInv
  <1>9. CASE Apply(r)
    <2>1. req[r].address \in Address
      BY <1>9, <1>0 DEF Apply, At, Known
    <2>2. NoChange \in Changes /\ NoChange.code = NoCode /\ NoChange.address = NoAddress
      BY DEF NoChange, Changes
    <2>3. ReqOK'
      BY <1>9, Still, EndKeeps DEF Apply
    <2>4. ColumnsOK'
      <3> DEFINE a == req[r].account
      <3>1. CASE Taken(req[r].address) /\ email[a] # req[r].address
        BY <1>9, <3>1 DEF Apply, TypeInv, ColumnsOK
      <3>2. CASE ~(Taken(req[r].address) /\ email[a] # req[r].address)
        <4>1. /\ email' = [email EXCEPT ![a] = req[r].address]
              /\ pending' = [pending EXCEPT ![a] = NoChange]
              /\ UNCHANGED <<activation, rows>>
          BY <1>9, <3>2 DEF Apply
        <4>2. \A b \in Account : b # a => email[b] # req[r].address
          BY <1>0, <3>2 DEF Taken, TypeInv, ColumnsOK
        <4>3. QED
          BY <4>1, <4>2, <1>0, <2>1, <2>2 DEF TypeInv, ColumnsOK
      <3>3. QED
        BY <3>1, <3>2
    <2>5. CodesOK'
      BY <1>9, <1>0, <2>2, Codes DEF Apply, TypeInv, CodesOK
    <2>6. QED
      BY <1>9, <2>3, <2>4, <2>5 DEF Apply, TypeInv, RestOK
  <1>10. CASE Mail(r)
    <2>1. req[r].address \in Address /\ req[r].code \in 1..minted
      <3>1. req[r].address \in Address /\ req[r].code <= minted /\ req[r].code # NoCode
        BY <1>10, <1>0 DEF Mail, At, Known
      <3>2. req[r].code \in Nat
        BY <1>0, RecordFacts
      <3>3. QED
        BY <3>1, <3>2, <1>0, Codes
    <2>2. ReqOK'
      BY <1>10, Still, EndKeeps DEF Mail
    <2>3. QED
      BY <1>10, <2>1, <2>2 DEF Mail, account, TypeInv, RestOK, ColumnsOK, CodesOK
  <1>11. QED
    BY <1>1, <1>2, <1>3, <1>4, <1>5, <1>6, <1>7, <1>8, <1>9, <1>10

\* Of the rows an address may still use there is a last one.
LEMMA LastIsUsable ==
    ASSUME TypeInv, NEW x, Usable(x) # {}
    PROVE  Last(Usable(x)) \in Usable(x)
  <1> DEFINE S == Usable(x)
             N == 1..Len(rows)
             After(i) == {j \in S : i < j}
             T == {After(i) : i \in S}
             R == StrictSubsetOrdering(N)
  <1>1. Len(rows) \in Nat /\ rows \in Seq(Rows)
    BY DEF TypeInv, ColumnsOK
  <1>2. S \subseteq N /\ S \subseteq Nat
    BY <1>1 DEF Usable
  <1>3. T \subseteq SUBSET N /\ T # {}
    <2>1. \A i \in S : After(i) \in SUBSET N
      BY <1>2
    <2>2. PICK i \in S : TRUE
      OBVIOUS
    <2>3. After(i) \in T
      BY <2>2
    <2>4. QED
      BY <2>1, <2>3
  <1>4. IsWellFoundedOn(R, SUBSET N)
    <2>1. IsFiniteSet(N)
      BY <1>1, FS_Interval
    <2> HIDE DEF N
    <2>2. FiniteSubsetsOf(N) = SUBSET N
      BY <2>1, FS_FiniteSubsetsOfFinite
    <2>3. IsWellFoundedOn(StrictSubsetOrdering(N), FiniteSubsetsOf(N))
      BY FS_StrictSubsetOrderingWellFounded
    <2>4. QED
      BY <2>2, <2>3
  <1>5. PICK m \in T : \A n \in T : ~(<<n, m>> \in R)
    <2> HIDE DEF R, T, N
    <2>1. QED
      BY <1>3, <1>4, WFMin
  <1>6. PICK i \in S : m = After(i)
    OBVIOUS
  <1>7. After(i) = {}
    <2>1. SUFFICES ASSUME NEW j \in After(i) PROVE FALSE
      OBVIOUS
    <2>2. j \in S /\ i < j /\ i \in Nat /\ j \in Nat
      BY <1>2
    <2>3. After(j) \subseteq After(i) /\ j \notin After(j)
      BY <2>2, <1>2
    <2>4. <<After(j), After(i)>> \in R
      BY <2>1, <2>3, <1>2 DEF StrictSubsetOrdering
    <2>5. QED
      BY <1>5, <1>6, <2>2, <2>4
  <1>8. \A j \in S : j <= i
    BY <1>2, <1>7
  <1>9. \E k \in S : \A j \in S : j <= k
    BY <1>8
  <1>10. QED
    BY <1>9 DEF Last

LEMMA AskedTypes ==
    ASSUME TypeInv, NEW r \in Request, NEW op, Asks(r, op)
    PROVE  asked' \in 0..MaxAsked[ops]
  BY DEF TypeInv, RestOK, Asks

LEMMA VisitorTypes ==
    ASSUME TypeInv, NEW r \in Request,
           \/ \E x \in Address : RequestCode(r, x)
           \/ \E x \in Address, c \in Typed : VerifyCode(r, x, c)
           \/ Judged(r)
    PROVE  TypeInv'
  <1>0. /\ req[r] \in Records /\ Known(req[r], minted, Len(rows)) /\ minted \in Nat
        /\ Len(rows) \in Nat /\ req \in [Request -> Records] /\ rows \in Seq(Rows)
    BY DEF TypeInv, ReqOK, RestOK, ColumnsOK
  <1>1. ASSUME NEW x \in Address, RequestCode(r, x) PROVE TypeInv'
    <2> DEFINE q == [Idle EXCEPT !.pc = "mail", !.address = x, !.code = Fresh]
               e == [address |-> x, code |-> Fresh, attempts |-> 0, consumed |-> FALSE,
                     valid |-> TRUE]
    <2>1. /\ Fresh \in Code /\ Fresh = minted + 1 /\ minted' = Fresh /\ minted' \in 0..MaxCodes
          /\ mails \subseteq Address \X (1..minted')
      BY <1>1, FreshCode DEF RequestCode
    <2>2. e \in Rows /\ rows' = Append(rows, e)
      BY <1>1, <2>1 DEF RequestCode, Rows
    <2>3. /\ rows' \in Seq(Rows) /\ Len(rows') = Len(rows) + 1
          /\ \A i \in 1..Len(rows') : rows'[i] = IF i = Len(rows) + 1 THEN e ELSE rows[i]
      BY <1>0, <2>2
    <2>4. Grows
      BY <1>0, <2>1, <2>3 DEF Grows
    <2>5. q \in Records
      BY <2>1 DEF Idle, Records
    <2>6. Known(q, minted', Len(rows'))
      BY <2>1, Codes DEF Idle, Known
    <2>7. ReqOK'
      BY <1>1, <2>4, <2>5, <2>6, SlotKeeps DEF RequestCode
    <2>8. ColumnsOK' /\ RestOK'
      <3>1. asked' \in 0..MaxAsked[ops]
        BY <1>1, AskedTypes DEF RequestCode
      <3>2. QED
        BY <1>1, <2>1, <2>3, <3>1 DEF RequestCode, account, TypeInv, RestOK, ColumnsOK
    <2>9. CodesOK'
      <3>1. \A a \in Account : pending[a].code \in Nat /\ activation[a].code \in Nat
        BY Codes DEF Changes, Activations, TypeInv, ColumnsOK
      <3>2. \A i \in 1..Len(rows') : rows'[i].code <= minted'
        <4>1. SUFFICES ASSUME NEW i \in 1..Len(rows') PROVE rows'[i].code <= minted'
          OBVIOUS
        <4>2. CASE i = Len(rows) + 1
          BY <4>2, <2>1, <2>3, <1>0
        <4>3. CASE i # Len(rows) + 1
          <5>1. i \in 1..Len(rows) /\ rows'[i] = rows[i]
            BY <4>3, <2>3, <1>0
          <5>2. rows[i].code \in Nat /\ rows[i].code <= minted
            BY <5>1, RowFacts DEF TypeInv, CodesOK
          <5>3. QED
            BY <5>1, <5>2, <2>1, <1>0
        <4>4. QED
          BY <4>2, <4>3
      <3>3. UNCHANGED <<pending, activation>>
        BY <1>1 DEF RequestCode, account
      <3>4. QED
        BY <1>0, <2>1, <3>1, <3>2, <3>3 DEF TypeInv, CodesOK
    <2>10. QED
      BY <2>7, <2>8, <2>9 DEF TypeInv
  <1>2. ASSUME NEW x \in Address, NEW c \in Typed, VerifyCode(r, x, c) PROVE TypeInv'
    <2> DEFINE i == Last(Usable(x))
               q == [Idle EXCEPT !.pc = "judged", !.address = x, !.row = i,
                                 !.right = (rows[i].code = c)]
    <2>1. i \in 1..Len(rows)
      <3>1. Usable(x) # {}
        BY <1>2 DEF VerifyCode
      <3>2. i \in Usable(x)
        BY <3>1, LastIsUsable
      <3>3. QED
        BY <3>2, <1>0 DEF Usable
    <2>2. rows[i].code \in Code
      BY <2>1, RowFacts
    <2>3. limited' \in [Code -> Nat]
      <3>1. limited' = [limited EXCEPT ![rows[i].code] = limited[rows[i].code] + 1]
        BY <1>2 DEF VerifyCode
      <3>2. limited \in [Code -> Nat]
        BY DEF TypeInv, RestOK
      <3>3. QED
        BY <3>1, <3>2, <2>2
    <2>4. q \in Records
      <3>1. i \in Nat /\ (rows[i].code = c) \in BOOLEAN
        BY <2>1, <1>0
      <3> HIDE DEF i
      <3>2. QED
        BY <3>1 DEF Idle, Records
    <2>5. Known(q, minted', Len(rows'))
      BY <1>2, <2>1 DEF VerifyCode, Idle, Known
    <2>6. QED
      BY <1>2, <2>3, <2>4, <2>5, BeginKeeps DEF VerifyCode, account
  <1>3. CASE Judged(r)
    <2> DEFINE i == req[r].row
    <2>1. i \in 1..Len(rows) /\ rows[i] \in Rows /\ req[r].address \in Address
      BY <1>3, <1>0, RowFacts DEF Judged, At, Known
    <2>2. PICK e \in Rows : e.code = rows[i].code /\ rows' = [rows EXCEPT ![i] = e]
      <3>1. CASE req[r].right
        <4>1. [rows[i] EXCEPT !.consumed = TRUE] \in Rows
          BY <2>1 DEF Rows
        <4>2. [rows[i] EXCEPT !.consumed = TRUE].code = rows[i].code
          BY <2>1 DEF Rows
        <4>3. rows' = [rows EXCEPT ![i] = [rows[i] EXCEPT !.consumed = TRUE]]
          BY <1>3, <1>0, <2>1, <3>1 DEF Judged
        <4>4. QED
          BY <4>1, <4>2, <4>3
      <3>2. CASE ~req[r].right
        <4>1. \A e \in Rows : /\ [e EXCEPT !.attempts = e.attempts + 1] \in Rows
                              /\ [e EXCEPT !.attempts = e.attempts + 1].code = e.code
          BY DEF Rows
        <4>2. /\ [rows[i] EXCEPT !.attempts = @ + 1] \in Rows
              /\ [rows[i] EXCEPT !.attempts = @ + 1].code = rows[i].code
          BY <2>1, <4>1
        <4>3. rows' = [rows EXCEPT ![i] = [rows[i] EXCEPT !.attempts = @ + 1]]
          BY <1>3, <1>0, <2>1, <3>2 DEF Judged
        <4>4. QED
          BY <4>2, <4>3
      <3>3. QED
        BY <3>1, <3>2
    <2>3. /\ rows' \in Seq(Rows) /\ Len(rows') = Len(rows)
          /\ \A j \in 1..Len(rows) : rows'[j] = IF j = i THEN e ELSE rows[j]
      BY <1>0, <2>1, <2>2
    <2>4. minted' = minted
      BY <1>3 DEF Judged
    <2>5. Grows
      BY <1>0, <2>3, <2>4 DEF Grows
    <2>6. ReqOK'
      BY <1>3, <2>5, EndKeeps DEF Judged
    <2>7. proved' \subseteq Address
      BY <1>3, <2>1 DEF Judged, TypeInv, RestOK
    <2>8. CodesOK'
      BY <1>3, <2>2, <2>3 DEF Judged, account, TypeInv, CodesOK
    <2>9. QED
      BY <1>3, <2>3, <2>6, <2>7, <2>8 DEF Judged, account, TypeInv, ColumnsOK, RestOK
  <1>4. QED
    BY <1>1, <1>2, <1>3

LEMMA ActivationTypes ==
    ASSUME TypeInv, NEW r \in Request,
           \/ \E a \in Account : ResendVerification(r, a)
           \/ \E a \in Account, c \in Typed : VerifyAccountByCode(r, a, c)
           \/ \E c \in Typed : VerifyAccount(r, c)
           \/ Renew(r) \/ CountGuess(r)
    PROVE  TypeInv'
  <1>0. /\ req[r] \in Records /\ Known(req[r], minted, Len(rows)) /\ minted \in Nat
        /\ Len(rows) \in Nat /\ req \in [Request -> Records]
        /\ activation \in [Account -> Activations] /\ req[r].account \in Account
    BY RecordFacts DEF TypeInv, ReqOK, RestOK, ColumnsOK
  <1>1. ASSUME NEW a \in Account, ResendVerification(r, a) PROVE TypeInv'
    <2> DEFINE q == [Idle EXCEPT !.pc = "renew", !.account = a, !.address = email[a]]
    <2>1. email[a] \in Address
      BY DEF TypeInv, ColumnsOK
    <2>2. q \in Records /\ Known(q, minted', Len(rows'))
      BY <2>1 DEF Idle, Records, Known
    <2>3. QED
      BY <1>1, <2>2, BeginKeeps DEF ResendVerification, account, TypeInv, RestOK
  <1>2. ASSUME NEW a \in Account, NEW c \in Typed, VerifyAccountByCode(r, a, c) PROVE TypeInv'
    <2> DEFINE held == activation[a]
               q == [Idle EXCEPT !.pc = "guessed", !.account = a, !.code = c,
                                 !.row = held.attempts, !.right = (held.code = c)]
    <2>1. held.code \in Code /\ held.attempts \in Nat
      BY <1>0, <1>2 DEF VerifyAccountByCode, Activations
    <2>2. c \in Code \cup {NoCode}
      BY <1>0 DEF Typed, TypeInv, RestOK, Code
    <2>3. limited' \in [Code -> Nat]
      <3>1. limited' = [limited EXCEPT ![held.code] = limited[held.code] + 1]
        BY <1>2 DEF VerifyAccountByCode
      <3>2. limited \in [Code -> Nat]
        BY DEF TypeInv, RestOK
      <3>3. QED
        BY <3>1, <3>2, <2>1
    <2>4. q \in Records /\ Known(q, minted', Len(rows'))
      BY <2>1, <2>2 DEF Idle, Records, Known
    <2>5. QED
      BY <1>2, <2>3, <2>4, BeginKeeps DEF VerifyAccountByCode, account
  <1>3. ASSUME NEW c \in Typed, VerifyAccount(r, c) PROVE TypeInv'
    <2>0. /\ Asks(r, "link")
          /\ UNCHANGED <<ops, email, pending, activation, rows, minted, mails, proved, limited, crossed>>
      BY <1>3 DEF VerifyAccount, account
    <2>1. CASE req' = req
      BY <2>0, <2>1, BeganNothing
    <2>2. ASSUME NEW a \in Account, NEW q,
                 q = [Idle EXCEPT !.pc = "guessed", !.account = a, !.code = c, !.right = TRUE],
                 req' = [req EXCEPT ![r] = q]
          PROVE  TypeInv'
      <3>1. c \in Code \cup {NoCode}
        BY <1>0 DEF Typed, TypeInv, RestOK, Code
      <3>2. q \in Records /\ Known(q, minted', Len(rows'))
        BY <2>2, <3>1 DEF Idle, Records, Known
      <3>3. QED
        BY <2>0, <2>2, <3>2, BeginKeeps DEF TypeInv, RestOK
    <2>3. QED
      BY <1>3, <2>1, <2>2 DEF VerifyAccount
  <1>4. CASE Renew(r)
    <2> DEFINE a == req[r].account
    <2>1. /\ Fresh \in Code /\ Fresh = minted + 1 /\ minted' = Fresh /\ minted' \in 0..MaxCodes
          /\ mails \subseteq Address \X (1..minted')
      BY <1>4, FreshCode DEF Renew
    <2>2. req[r].address \in Address
      BY <1>4, <1>0 DEF Renew, At, Known
    <2>3. mails' \subseteq Address \X (1..minted')
      BY <1>4, <1>0, <2>1, <2>2 DEF Renew
    <2>4. /\ activation' \in [Account -> Activations]
          /\ \A b \in Account : activation'[b].code \in {activation[b].code, Fresh}
      <3> DEFINE new == [activation[a] EXCEPT !.code = Fresh, !.valid = TRUE, !.attempts = 0]
      <3>1. activation' = activation \/ activation' = [activation EXCEPT ![a] = new]
        BY <1>4, <1>0 DEF Renew
      <3>2. activation[a] \in Activations
        BY <1>0
      <3>3. new \in Activations /\ new.code = Fresh
        BY <3>2, <2>1 DEF Activations
      <3> HIDE DEF new
      <3>4. QED
        BY <3>1, <3>3, <1>0
    <2>5. ReqOK'
      BY <1>4, Still, EndKeeps DEF Renew
    <2>6. CodesOK'
      <3>1. \A b \in Account : pending[b].code \in Nat /\ activation[b].code \in Nat
        BY Codes DEF Changes, Activations, TypeInv, ColumnsOK
      <3>2. \A i \in 1..Len(rows) : rows[i].code \in Nat
        BY RowFacts
      <3>3. UNCHANGED <<pending, rows>>
        BY <1>4 DEF Renew
      <3>4. QED
        <4>1. \A b \in Account : activation[b].code <= minted /\ pending[b].code <= minted
          BY DEF TypeInv, CodesOK
        <4>2. \A b \in Account : activation'[b].code <= minted'
          BY <1>0, <2>1, <2>4, <3>1, <4>1
        <4>3. \A b \in Account : pending'[b].code <= minted'
          BY <1>0, <2>1, <3>1, <3>3, <4>1
        <4>4. QED
          BY <1>0, <2>1, <3>2, <3>3, <4>2, <4>3 DEF TypeInv, CodesOK
    <2>7. QED
      BY <1>4, <2>1, <2>3, <2>4, <2>5, <2>6 DEF Renew, TypeInv, ColumnsOK, RestOK
  <1>5. CASE CountGuess(r)
    <2> DEFINE a == req[r].account
               new == IF req[r].right THEN Activated
                      ELSE [activation[a] EXCEPT !.attempts = @ + 1]
    <2>1. Activated \in Activations /\ Activated.code = NoCode
      BY DEF Activated, Activations
    <2>2. /\ activation' \in [Account -> Activations]
          /\ \A b \in Account : activation'[b].code \in {activation[b].code, NoCode}
      <3>1. activation' = [activation EXCEPT ![a] = new]
        BY <1>5 DEF CountGuess
      <3>2. activation[a] \in Activations
        BY <1>0
      <3>3. new \in Activations /\ new.code \in {activation[a].code, NoCode}
        BY <3>2, <2>1 DEF Activations
      <3> HIDE DEF new
      <3>4. QED
        BY <3>1, <3>3, <1>0
    <2>3. ReqOK'
      BY <1>5, Still, EndKeeps DEF CountGuess
    <2>4. CodesOK'
      BY <1>5, <1>0, <2>2, Codes DEF CountGuess, TypeInv, CodesOK
    <2>5. QED
      BY <1>5, <2>2, <2>3, <2>4 DEF CountGuess, TypeInv, ColumnsOK, RestOK
  <1>6. QED
    BY <1>1, <1>2, <1>3, <1>4, <1>5

\* Time takes nothing but the freshness of what is held aside.
LEMMA TimeOnPending ==
    ASSUME TypeInv, MinutePasses \/ CodesExpire
    PROVE  /\ pending' \in [Account -> Changes]
           /\ \A a \in Account : /\ pending'[a].code = pending[a].code
                                 /\ pending'[a].address = pending[a].address
  <1>0. pending \in [Account -> Changes]
    BY DEF TypeInv, ColumnsOK
  <1>1. \A c \in Changes : /\ [c EXCEPT !.recent = FALSE] \in Changes
                           /\ [c EXCEPT !.recent = FALSE].code = c.code
                           /\ [c EXCEPT !.recent = FALSE].address = c.address
    BY DEF Changes
  <1>2. \A c \in Changes : /\ [c EXCEPT !.valid = FALSE, !.recent = FALSE] \in Changes
                           /\ [c EXCEPT !.valid = FALSE, !.recent = FALSE].code = c.code
                           /\ [c EXCEPT !.valid = FALSE, !.recent = FALSE].address = c.address
    BY DEF Changes
  <1>3. \/ pending' = [a \in Account |-> [pending[a] EXCEPT !.recent = FALSE]]
        \/ pending' = [a \in Account |-> [pending[a] EXCEPT !.valid = FALSE, !.recent = FALSE]]
    BY DEF MinutePasses, CodesExpire
  <1>4. \A a \in Account : pending[a] \in Changes
    BY <1>0
  <1>5. CASE pending' = [a \in Account |-> [pending[a] EXCEPT !.recent = FALSE]]
    BY <1>1, <1>4, <1>5
  <1>6. CASE pending' = [a \in Account |-> [pending[a] EXCEPT !.valid = FALSE, !.recent = FALSE]]
    BY <1>2, <1>4, <1>6
  <1>7. QED
    BY <1>3, <1>5, <1>6

LEMMA TimeTypes ==
    ASSUME TypeInv, MinutePasses \/ CodesExpire
    PROVE  TypeInv'
  <1>0. /\ rows \in Seq(Rows) /\ pending \in [Account -> Changes]
        /\ activation \in [Account -> Activations] /\ Len(rows) \in Nat
    BY DEF TypeInv, ColumnsOK
  <1>1. /\ pending' \in [Account -> Changes]
        /\ \A a \in Account : pending'[a].code = pending[a].code
                              /\ pending'[a].address = pending[a].address
    BY TimeOnPending
  <1>2. /\ activation' \in [Account -> Activations]
        /\ \A a \in Account : activation'[a].code = activation[a].code
    <2>1. \A c \in Activations : /\ [c EXCEPT !.valid = FALSE] \in Activations
                                 /\ [c EXCEPT !.valid = FALSE].code = c.code
      BY DEF Activations
    <2>2. \/ activation' = activation
          \/ activation' = [a \in Account |-> [activation[a] EXCEPT !.valid = FALSE]]
      BY DEF MinutePasses, CodesExpire
    <2>3. \A a \in Account : activation[a] \in Activations
      BY <1>0
    <2>4. CASE activation' = [a \in Account |-> [activation[a] EXCEPT !.valid = FALSE]]
      BY <2>1, <2>3, <2>4
    <2>5. QED
      BY <1>0, <2>2, <2>4
  <1>3. /\ rows' \in Seq(Rows) /\ Len(rows') = Len(rows)
        /\ \A i \in 1..Len(rows) : rows'[i].code = rows[i].code
    <2>1. CASE MinutePasses
      BY <1>0, <2>1 DEF MinutePasses
    <2>2. CASE CodesExpire
      <3>1. \A c \in Rows : /\ [c EXCEPT !.valid = FALSE] \in Rows
                            /\ [c EXCEPT !.valid = FALSE].code = c.code
        BY DEF Rows
      <3>2. DOMAIN rows = 1..Len(rows) /\ \A i \in 1..Len(rows) : rows[i] \in Rows
        BY <1>0
      <3>3. rows' = [i \in DOMAIN rows |-> [rows[i] EXCEPT !.valid = FALSE]]
        BY <2>2 DEF CodesExpire
      <3>4. rows' \in [1..Len(rows) -> Rows]
        BY <3>1, <3>2, <3>3
      <3>5. \A i \in 1..Len(rows) : rows'[i].code = rows[i].code
        BY <3>1, <3>2, <3>3
      <3>6. rows' \in Seq(Rows) /\ Len(rows') = Len(rows)
        BY <3>4, <1>0
      <3>7. QED
        BY <3>5, <3>6
    <2>3. QED
      BY <2>1, <2>2
  <1>4. CodesOK'
    BY <1>1, <1>2, <1>3 DEF MinutePasses, CodesExpire, TypeInv, CodesOK
  <1>5. ReqOK'
    BY <1>3 DEF MinutePasses, CodesExpire, TypeInv, ReqOK
  <1>6. QED
    BY <1>1, <1>2, <1>3, <1>4, <1>5 DEF MinutePasses, CodesExpire, TypeInv, ColumnsOK, RestOK

LEMMA StepTypes == TypeInv /\ [Next]_vars => TypeInv'
  <1> SUFFICES ASSUME TypeInv, [Next]_vars PROVE TypeInv'
    OBVIOUS
  <1>1. ASSUME NEW r \in Request, Begin(r) \/ Continue(r) PROVE TypeInv'
    BY <1>1, ChangeTypes, VisitorTypes, ActivationTypes DEF Begin, Continue
  <1>2. CASE MinutePasses \/ CodesExpire
    BY <1>2, TimeTypes
  <1>3. CASE UNCHANGED vars
    BY <1>3 DEF vars, account, TypeInv, ColumnsOK, RestOK, CodesOK, ReqOK
  <1>4. QED
    BY <1>1, <1>2, <1>3 DEF Next

LEMMA Types == Spec => []TypeInv
  BY InitTypes, StepTypes, PTL DEF Spec

-----------------------------------------------------------------------------
(* Addresses.  A code is held for one account, and whoever says where it   *)
(* goes (a mail that arrived, a request about to send it, what is held     *)
(* aside) says the same, unless it was written over a newer request.       *)

Held(a, c) ==
    \/ pending[a].code = c
    \/ \E r \in Request : At(r, "rewrite") /\ req[r].account = a /\ req[r].code = c

Claim(x, c) ==
    \/ <<x, c>> \in mails
    \/ \E r \in Request : /\ req[r].pc \in {"mail", "rewrite"}
                          /\ req[r].code = c /\ req[r].address = x
    \/ \E a \in Account : pending[a].code = c /\ pending[a].address = x

OneOwner == \A c \in Code : \A a, b \in Account : Held(a, c) /\ Held(b, c) => a = b

OneAddress ==
    \A c \in Code : \A a \in Account \ crossed :
        Held(a, c) => \A x, y \in Address : Claim(x, c) /\ Claim(y, c) => x = y

\* An address on its way to be applied has been reached by its code.
Arrived ==
    \A r \in Request : req[r].pc \in {"stillFree", "apply"} =>
        <<req[r].address, req[r].code>> \in mails \/ req[r].account \in crossed

AddressInv == OneOwner /\ OneAddress /\ Arrived

\* Of all codes but f, nobody holds or claims more than before.
NothingNew(f) ==
    \A c \in Code \ {f} : /\ \A a \in Account : Held(a, c)' => Held(a, c)
                          /\ \A x \in Address : Claim(x, c)' => Claim(x, c)

LEMMA CodesKeep ==
    ASSUME AddressInv, crossed \subseteq crossed', NothingNew(NoCode)
    PROVE  OneOwner' /\ OneAddress'
  <1>1. OneOwner'
    BY Codes DEF AddressInv, OneOwner, NothingNew
  <1>2. OneAddress'
    BY Codes DEF AddressInv, OneAddress, NothingNew
  <1>3. QED
    BY <1>1, <1>2

\* One code is held for one account, and goes to one address or is excepted.
LEMMA OneCodeMore ==
    ASSUME AddressInv, crossed \subseteq crossed', NEW f \in Code, NothingNew(f),
           NEW a \in Account, \A b \in Account : Held(b, f)' => b = a,
           NEW x, a \in crossed' \/ \A y \in Address : Claim(y, f)' => y = x
    PROVE  OneOwner' /\ OneAddress'
  <1>1. OneOwner'
    <2> SUFFICES ASSUME NEW c \in Code, NEW b \in Account, NEW d \in Account,
                        Held(b, c)', Held(d, c)'
                 PROVE  b = d
      BY DEF OneOwner
    <2>1. CASE c = f
      BY <2>1
    <2>2. CASE c # f
      BY <2>2 DEF NothingNew, AddressInv, OneOwner
    <2>3. QED
      BY <2>1, <2>2
  <1>2. OneAddress'
    <2> SUFFICES ASSUME NEW c \in Code, NEW b \in Account, b \notin crossed', Held(b, c)',
                        NEW y \in Address, NEW z \in Address, Claim(y, c)', Claim(z, c)'
                 PROVE  y = z
      BY DEF OneAddress
    <2>1. CASE c = f
      BY <2>1
    <2>2. CASE c # f
      BY <2>2 DEF NothingNew, AddressInv, OneAddress
    <2>3. QED
      BY <2>1, <2>2
  <1>3. QED
    BY <1>1, <1>2

LEMMA FreshUnclaimed ==
    ASSUME TypeInv
    PROVE  /\ \A a \in Account : ~Held(a, Fresh)
           /\ \A x \in Address : ~Claim(x, Fresh)
  <1>1. /\ minted \in Nat /\ mails \subseteq Address \X (1..minted)
        /\ Fresh = minted + 1
    BY DEF TypeInv, RestOK, Fresh
  <1>2. \A a \in Account : pending[a].code \in Nat /\ pending[a].code <= minted
    BY Codes DEF Changes, TypeInv, ColumnsOK, CodesOK
  <1>3. \A r \in Request : req[r].code \in Nat
                           /\ (req[r].pc \in {"mail", "rewrite"} => req[r].code <= minted)
    BY RecordFacts DEF TypeInv, ReqOK, Known
  <1>4. \A a \in Account : ~Held(a, Fresh)
    BY <1>1, <1>2, <1>3 DEF Held, At
  <1>5. \A x \in Address : ~Claim(x, Fresh)
    BY <1>1, <1>2, <1>3 DEF Claim
  <1>6. QED
    BY <1>4, <1>5

\* A slot that carries no code from now on, next to what is held aside as it
\* was, or dropped.
LEMMA SlotClaimsNothing ==
    ASSUME TypeInv, AddressInv, NEW r \in Request, NEW q \in Records,
           req' = [req EXCEPT ![r] = q], q.pc \notin {"mail", "rewrite"},
           mails \subseteq mails', crossed' = crossed,
           \A x \in Address, c \in Code : <<x, c>> \in mails' => Claim(x, c),
           \A a \in Account : \/ pending'[a].code = NoCode
                              \/ pending'[a] = pending[a],
           q.pc \in {"stillFree", "apply"} =>
               <<q.address, q.code>> \in mails \/ q.account \in crossed
    PROVE  AddressInv'
  <1>1. \A s \in Request : req'[s] = IF s = r THEN q ELSE req[s]
    BY DEF TypeInv, ReqOK
  <1>2. NothingNew(NoCode)
    BY <1>1, Codes DEF NothingNew, Held, Claim, At
  <1>3. Arrived'
    BY <1>1 DEF AddressInv, Arrived
  <1>4. QED
    BY <1>2, <1>3, CodesKeep DEF AddressInv

\* A code that is written down for an account, and about to be mailed.
LEMMA WrittenKeeps ==
    ASSUME TypeInv, AddressInv, NEW r \in Request, NEW a \in Account, NEW f \in Code, NEW x,
           NEW new, new.code = f,
           NEW q, q.pc = "mail", q.code = f, q.address = x,
           pending' = [pending EXCEPT ![a] = new], req' = [req EXCEPT ![r] = q],
           mails' = mails, crossed \subseteq crossed',
           \A b \in Account : Held(b, f) => b = a,
           a \in crossed' \/ /\ new.address \in {x, NoAddress}
                             /\ \A y \in Address : Claim(y, f) => y = x
    PROVE  AddressInv'
  <1>1. /\ \A s \in Request : req'[s] = IF s = r THEN q ELSE req[s]
        /\ \A b \in Account : pending'[b] = IF b = a THEN new ELSE pending[b]
    BY DEF TypeInv, ReqOK, ColumnsOK
  <1>2. NothingNew(f)
    BY <1>1 DEF NothingNew, Held, Claim, At
  <1>3. \A b \in Account : Held(b, f)' => b = a
    BY <1>1 DEF Held, At
  <1>4. a \in crossed' \/ \A y \in Address : Claim(y, f)' => y = x
    BY <1>1, AccountAssumption DEF Claim
  <1>5. Arrived'
    BY <1>1 DEF AddressInv, Arrived
  <1>6. QED
    BY <1>2, <1>3, <1>4, <1>5, OneCodeMore DEF AddressInv

LEMMA ChangeKeepsAddresses ==
    ASSUME TypeInv, AddressInv, NEW r \in Request,
           \/ \E a \in Account, x \in Address : RequestEmailChange(r, a, x) \/ AdminUpdate(r, a, x)
           \/ \E a \in Account : ResendEmailChangeCode(r, a) \/ CancelEmailChange(r, a)
           \/ \E a \in Account, c \in Typed : ConfirmEmailChange(r, a, c)
           \/ CheckTaken(r) \/ HoldAddress(r) \/ RewriteCode(r) \/ Apply(r) \/ Mail(r)
    PROVE  AddressInv'
  <1>0. /\ req[r] \in Records /\ req \in [Request -> Records] /\ minted \in Nat
        /\ pending \in [Account -> Changes] /\ req[r].account \in Account
        /\ Known(req[r], minted, Len(rows)) /\ crossed \subseteq Account
    BY RecordFacts DEF TypeInv, ReqOK, RestOK, ColumnsOK
  <1>1. \A x \in Address, c \in Code : <<x, c>> \in mails => Claim(x, c)
    BY DEF Claim
  <1>2. ASSUME NEW a \in Account, NEW x \in Address, RequestEmailChange(r, a, x)
        PROVE  AddressInv'
    <2> DEFINE q == [Idle EXCEPT !.pc = "taken", !.account = a, !.address = x]
    <2>1. q \in Records /\ q.pc = "taken"
      BY DEF Idle, Records
    <2>2. req' = [req EXCEPT ![r] = q] /\ UNCHANGED <<mails, crossed, pending>>
      BY <1>2 DEF RequestEmailChange, account
    <2> HIDE DEF q
    <2>3. QED
      BY <1>1, <2>1, <2>2, SlotClaimsNothing
  <1>3. ASSUME NEW a \in Account, NEW x \in Address, AdminUpdate(r, a, x)
        PROVE  AddressInv'
    BY <1>3 DEF AdminUpdate, AddressInv, OneOwner, OneAddress, Arrived, Held, Claim, At
  <1>4. ASSUME NEW a \in Account, ResendEmailChangeCode(r, a) PROVE AddressInv'
    <2> DEFINE c == IF pending[a].valid THEN pending[a].code ELSE NoCode
               q == [Idle EXCEPT !.pc = "rewrite", !.account = a, !.address = pending[a].address,
                                 !.code = c]
    <2>1. /\ q.pc = "rewrite" /\ q.account = a /\ q.address = pending[a].address
          /\ q.code = c
      BY DEF Idle
    <2>2. req' = [req EXCEPT ![r] = q] /\ UNCHANGED <<mails, crossed, pending>>
      BY <1>4 DEF ResendEmailChangeCode, account
    <2>3. \A d \in Code : c = d => pending[a].code = d
      BY Codes
    <2> HIDE DEF q, c
    <2>4. \A s \in Request : req'[s] = IF s = r THEN q ELSE req[s]
      BY <1>0, <2>2
    <2>5. NothingNew(NoCode)
      BY <2>1, <2>2, <2>3, <2>4 DEF NothingNew, Held, Claim, At
    <2>6. Arrived'
      BY <2>1, <2>2, <2>4 DEF AddressInv, Arrived
    <2>7. QED
      BY <2>2, <2>5, <2>6, CodesKeep DEF AddressInv
  <1>5. ASSUME NEW a \in Account, CancelEmailChange(r, a) PROVE AddressInv'
    <2>1. /\ \A b \in Account : pending'[b].code = NoCode \/ pending'[b] = pending[b]
          /\ UNCHANGED <<mails, crossed, req>>
      BY <1>5, <1>0 DEF CancelEmailChange, NoChange
    <2>2. NothingNew(NoCode)
      BY <2>1, Codes DEF NothingNew, Held, Claim, At
    <2>3. QED
      BY <2>1, <2>2, CodesKeep DEF AddressInv, Arrived
  <1>6. ASSUME NEW a \in Account, NEW c \in Typed, ConfirmEmailChange(r, a, c)
        PROVE  AddressInv'
    <2> DEFINE x == pending[a].address
               q == [Idle EXCEPT !.pc = "stillFree", !.account = a, !.address = x, !.code = c]
    <2>0. SUFFICES ASSUME req' # req PROVE AddressInv'
      <3>1. CASE req' = req
        <4>1. /\ req' = [req EXCEPT ![r] = req[r]] /\ req[r].pc = "idle"
              /\ UNCHANGED <<mails, crossed, pending>>
          BY <1>0, <1>6, <3>1 DEF ConfirmEmailChange, Asks, account
        <4>2. QED
          BY <1>0, <1>1, <4>1, SlotClaimsNothing
      <3>2. QED
        BY <3>1
    <2>1. /\ pending[a] \in Changes /\ x # NoAddress /\ pending[a].code = c
          /\ c # NoCode
      BY <1>6, <1>0, <2>0 DEF ConfirmEmailChange, TypeInv, CodesOK
    <2>2. c \in Code /\ x \in Address
      BY <2>1 DEF Changes
    <2>3. PICK m \in mails : m[2] = c
      BY <2>1 DEF Typed
    <2>4. m = <<m[1], c>> /\ m[1] \in Address
      BY <2>3 DEF TypeInv, RestOK
    <2>5. Claim(m[1], c) /\ Claim(x, c) /\ Held(a, c)
      BY <2>1, <2>4 DEF Claim, Held
    <2>6. a \in crossed \/ m[1] = x
      BY <2>2, <2>4, <2>5 DEF AddressInv, OneAddress
    <2>7. a \in crossed \/ <<x, c>> \in mails
      BY <2>3, <2>4, <2>6
    <2>8. /\ q \in Records /\ q.pc = "stillFree" /\ q.address = x /\ q.code = c /\ q.account = a
      BY <2>2 DEF Idle, Records
    <2>9. req' = [req EXCEPT ![r] = q] /\ UNCHANGED <<mails, crossed, pending>>
      BY <1>6, <2>0 DEF ConfirmEmailChange, account
    <2> HIDE DEF q, x
    <2>10. QED
      BY <1>1, <2>7, <2>8, <2>9, SlotClaimsNothing
  <1>7. CASE CheckTaken(r)
    <2>1. UNCHANGED <<mails, crossed, pending>>
      BY <1>7 DEF CheckTaken, account
    <2>2. CASE End(r)
      BY <1>1, <2>1, <2>2, IdleType, SlotClaimsNothing DEF End
    <2>3. CASE ~End(r)
      <3> DEFINE pc == IF At(r, "taken") THEN "hold" ELSE "apply"
                 q == [req[r] EXCEPT !.pc = pc]
      <3>1. req' = [req EXCEPT ![r] = q] /\ req[r].pc \in {"taken", "stillFree"}
        BY <1>0, <1>7, <2>3 DEF CheckTaken, GoTo, At
      <3>2. /\ q \in Records /\ q.address = req[r].address /\ q.pc \in {"hold", "apply"}
            /\ q.code = req[r].code /\ q.account = req[r].account
            /\ (q.pc = "apply" => req[r].pc = "stillFree")
        BY <1>0, <3>1 DEF Records, At
      <3>3. q.pc = "apply" => <<q.address, q.code>> \in mails \/ q.account \in crossed
        BY <3>2 DEF AddressInv, Arrived
      <3> HIDE DEF q
      <3>4. QED
        BY <1>1, <2>1, <3>1, <3>2, <3>3, SlotClaimsNothing
    <2>4. QED
      BY <2>2, <2>3
  <1>8. CASE HoldAddress(r)
    <2> DEFINE a == req[r].account
               x == req[r].address
               new == [address |-> x, code |-> Fresh, valid |-> TRUE, recent |-> TRUE]
               q == [req[r] EXCEPT !.pc = "mail", !.code = Fresh]
    <2>1. Fresh \in Code
      BY <1>8, FreshCode DEF HoldAddress
    <2>2. pending' = [pending EXCEPT ![a] = new] /\ req' = [req EXCEPT ![r] = q]
          /\ mails' = mails /\ crossed' = crossed
      BY <1>8, <1>0 DEF HoldAddress
    <2>3. /\ q.pc = "mail" /\ q.address = x /\ q.code = Fresh
          /\ new.code = Fresh /\ new.address = x
      BY <1>0 DEF Records
    <2> HIDE DEF q, new
    <2>4. QED
      BY <1>0, <2>1, <2>2, <2>3, FreshUnclaimed, WrittenKeeps
  <1>9. CASE RewriteCode(r)
    <2> DEFINE a == req[r].account
               x == req[r].address
               c == IF req[r].code = NoCode THEN Fresh ELSE req[r].code
               new == [pending[a] EXCEPT !.code = c, !.valid = TRUE, !.recent = TRUE]
               q == [req[r] EXCEPT !.pc = "mail", !.code = c]
    <2>1. x \in Address /\ req[r].code \in Code \cup {NoCode}
      BY <1>9, <1>0, RecordFacts DEF RewriteCode, At, Known
    <2>2. c \in Code
      BY <1>9, <2>1, FreshCode DEF RewriteCode
    <2>3. pending' = [pending EXCEPT ![a] = new] /\ req' = [req EXCEPT ![r] = q]
          /\ mails' = mails
      BY <1>9, <1>0 DEF RewriteCode
    <2>4. /\ q.pc = "mail" /\ q.address = x /\ q.code = c
          /\ new.code = c /\ new.address = pending[a].address
      BY <1>0 DEF Records, Changes
    <2>5. /\ crossed \subseteq crossed'
          /\ a \in crossed' \/ new.address \in {x, NoAddress}
      BY <1>9, <2>4 DEF RewriteCode
    <2>6. /\ \A b \in Account : Held(b, c) => b = a
          /\ a \in crossed \/ \A y \in Address : Claim(y, c) => y = x
      <3>1. CASE req[r].code = NoCode
        BY <3>1, FreshUnclaimed
      <3>2. CASE req[r].code # NoCode
        <4>1. Held(a, c) /\ Claim(x, c)
          BY <1>9, <3>2 DEF RewriteCode, Held, Claim, At
        <4> HIDE DEF c
        <4>2. QED
          BY <1>0, <2>1, <2>2, <4>1 DEF AddressInv, OneOwner, OneAddress
      <3>3. QED
        BY <3>1, <3>2
    <2> HIDE DEF q, new, c
    <2>7. QED
      BY <1>0, <2>2, <2>3, <2>4, <2>5, <2>6, WrittenKeeps
  <1>10. CASE Apply(r)
    <2>1. \A b \in Account : pending'[b].code = NoCode \/ pending'[b] = pending[b]
      BY <1>0, <1>10 DEF Apply, NoChange
    <2>2. req' = [req EXCEPT ![r] = Idle] /\ mails' = mails /\ crossed' = crossed
      BY <1>10 DEF Apply, End
    <2>3. QED
      BY <1>1, <2>1, <2>2, IdleType, SlotClaimsNothing
  <1>11. CASE Mail(r)
    <2>1. req' = [req EXCEPT ![r] = Idle] /\ UNCHANGED <<crossed, pending>>
      BY <1>11 DEF Mail, End, account
    <2>2. \A x \in Address, c \in Code : <<x, c>> \in mails' => Claim(x, c)
      BY <1>11 DEF Mail, Claim, At
    <2>3. mails \subseteq mails'
      BY <1>11 DEF Mail
    <2>4. QED
      BY <2>1, <2>2, <2>3, IdleType, SlotClaimsNothing
  <1>12. QED
    BY <1>2, <1>3, <1>4, <1>5, <1>6, <1>7, <1>8, <1>9, <1>10, <1>11

\* A code nobody has goes to an address, and is held for no account.
LEMMA SentKeeps ==
    ASSUME TypeInv, AddressInv, NEW r \in Request, NEW f \in Code, NEW x, NEW q,
           req' = [req EXCEPT ![r] = q], q.pc \notin {"rewrite", "stillFree", "apply"},
           q.pc = "mail" => q.code = f /\ q.address = x,
           mails \subseteq mails', mails' \subseteq mails \cup {<<x, f>>},
           pending' = pending, crossed' = crossed,
           \A b \in Account : ~Held(b, f), \A y \in Address : ~Claim(y, f)
    PROVE  AddressInv'
  <1>1. \A s \in Request : req'[s] = IF s = r THEN q ELSE req[s]
    BY DEF TypeInv, ReqOK
  <1>2. \A y \in Address, c \in Code : <<y, c>> \in mails' /\ <<y, c>> \notin mails => y = x /\ c = f
    OBVIOUS
  <1>3. NothingNew(f)
    BY <1>1, <1>2 DEF NothingNew, Held, Claim, At
  <1>4. \A b \in Account : ~Held(b, f)'
    BY <1>1 DEF Held, At
  <1>5. \A y \in Address : Claim(y, f)' => y = x
    BY <1>1, <1>2 DEF Claim
  <1>6. Arrived'
    BY <1>1 DEF AddressInv, Arrived
  <1>7. Newcomer \in Account
    BY AccountAssumption
  <1>8. QED
    BY <1>3, <1>4, <1>5, <1>6, <1>7, OneCodeMore DEF AddressInv

LEMMA TypedCodes ==
    ASSUME TypeInv, NEW c \in Typed
    PROVE  c \in Code \cup {NoCode}
  BY DEF TypeInv, RestOK, Typed, Code

LEMMA OthersKeepAddresses ==
    ASSUME TypeInv, AddressInv, NEW r \in Request,
           \/ \E x \in Address : RequestCode(r, x)
           \/ \E x \in Address, c \in Typed : VerifyCode(r, x, c)
           \/ \E a \in Account : ResendVerification(r, a)
           \/ \E a \in Account, c \in Typed : VerifyAccountByCode(r, a, c)
           \/ \E c \in Typed : VerifyAccount(r, c)
           \/ Judged(r) \/ Renew(r) \/ CountGuess(r)
    PROVE  AddressInv'
  <1>0. /\ req \in [Request -> Records] /\ req[r] \in Records
        /\ email \in [Account -> Address] /\ rows \in Seq(Rows)
        /\ activation \in [Account -> Activations]
    BY DEF TypeInv, ReqOK, ColumnsOK
  <1>1. ASSUME NEW q \in Records, req' = [req EXCEPT ![r] = q],
               q.pc \notin {"mail", "rewrite", "stillFree", "apply"},
               UNCHANGED <<mails, crossed, pending>>
        PROVE  AddressInv'
    <2>1. \A x \in Address, c \in Code : <<x, c>> \in mails' => Claim(x, c)
      BY <1>1 DEF Claim
    <2>2. QED
      BY <1>1, <2>1, SlotClaimsNothing
  <1>2. ASSUME NEW x \in Address, RequestCode(r, x) PROVE AddressInv'
    <2> DEFINE q == [Idle EXCEPT !.pc = "mail", !.address = x, !.code = Fresh]
    <2>1. /\ Fresh \in Code /\ req' = [req EXCEPT ![r] = q]
          /\ mails' = mails /\ pending' = pending /\ crossed' = crossed
      BY <1>2, FreshCode DEF RequestCode, account
    <2>2. q.pc = "mail" /\ q.code = Fresh /\ q.address = x
      BY DEF Idle
    <2> HIDE DEF q
    <2>3. QED
      BY <2>1, <2>2, FreshUnclaimed, SentKeeps
  <1>3. ASSUME NEW x \in Address, NEW c \in Typed, VerifyCode(r, x, c) PROVE AddressInv'
    <2> DEFINE i == Last(Usable(x))
               q == [Idle EXCEPT !.pc = "judged", !.address = x, !.row = i,
                                 !.right = (rows[i].code = c)]
    <2>1. i \in Nat
      <3>1. i \in Usable(x)
        BY <1>3, LastIsUsable DEF VerifyCode
      <3>2. QED
        BY <1>0, <3>1 DEF Usable
    <2>2. q \in Records /\ q.pc = "judged"
      BY <2>1 DEF Idle, Records
    <2>3. req' = [req EXCEPT ![r] = q] /\ UNCHANGED <<mails, crossed, pending>>
      BY <1>3 DEF VerifyCode, account
    <2> HIDE DEF q, i
    <2>4. QED
      BY <1>1, <2>2, <2>3
  <1>4. ASSUME NEW a \in Account, ResendVerification(r, a) PROVE AddressInv'
    <2> DEFINE q == [Idle EXCEPT !.pc = "renew", !.account = a, !.address = email[a]]
    <2>1. q \in Records /\ q.pc = "renew"
      BY <1>0 DEF Idle, Records
    <2>2. req' = [req EXCEPT ![r] = q] /\ UNCHANGED <<mails, crossed, pending>>
      BY <1>4 DEF ResendVerification, account
    <2> HIDE DEF q
    <2>3. QED
      BY <1>1, <2>1, <2>2
  <1>5. ASSUME NEW a \in Account, NEW c \in Typed, VerifyAccountByCode(r, a, c)
        PROVE  AddressInv'
    <2> DEFINE q == [Idle EXCEPT !.pc = "guessed", !.account = a, !.code = c,
                                 !.row = activation[a].attempts,
                                 !.right = (activation[a].code = c)]
    <2>1. c \in Code \cup {NoCode}
      BY TypedCodes
    <2>2. activation[a].attempts \in Nat
      BY <1>0 DEF Activations
    <2>3. q \in Records /\ q.pc = "guessed"
      BY <2>1, <2>2 DEF Idle, Records
    <2>4. req' = [req EXCEPT ![r] = q] /\ UNCHANGED <<mails, crossed, pending>>
      BY <1>5 DEF VerifyAccountByCode, account
    <2> HIDE DEF q
    <2>5. QED
      BY <1>1, <2>3, <2>4
  <1>6. ASSUME NEW c \in Typed, VerifyAccount(r, c) PROVE AddressInv'
    <2>1. c \in Code \cup {NoCode}
      BY TypedCodes
    <2>2. UNCHANGED <<mails, crossed, pending>> /\ req[r].pc = "idle"
      BY <1>6 DEF VerifyAccount, Asks, account
    <2>3. CASE req' = req
      <3>1. req' = [req EXCEPT ![r] = req[r]]
        BY <1>0, <2>3
      <3>2. QED
        BY <1>0, <1>1, <2>2, <3>1
    <2>4. ASSUME NEW a \in Account, NEW q,
                 q = [Idle EXCEPT !.pc = "guessed", !.account = a, !.code = c, !.right = TRUE],
                 req' = [req EXCEPT ![r] = q]
          PROVE  AddressInv'
      <3>1. q \in Records /\ q.pc = "guessed"
        BY <2>1, <2>4 DEF Idle, Records
      <3>2. QED
        BY <1>1, <2>2, <2>4, <3>1
    <2>5. QED
      BY <1>6, <2>3, <2>4 DEF VerifyAccount
  <1>7. CASE Judged(r) \/ CountGuess(r)
    BY <1>1, <1>7, IdleType DEF Judged, CountGuess, End, account
  <1>8. CASE Renew(r)
    <2> DEFINE x == req[r].address
    <2>1. /\ Fresh \in Code /\ req' = [req EXCEPT ![r] = Idle]
          /\ pending' = pending /\ crossed' = crossed
          /\ mails' = mails \cup {<<x, Fresh>>} \/ mails' = mails
      BY <1>8, FreshCode DEF Renew, End
    <2>2. mails \subseteq mails' /\ mails' \subseteq mails \cup {<<x, Fresh>>}
      BY <2>1
    <2>3. QED
      BY <2>1, <2>2, IdleType, FreshUnclaimed, SentKeeps
  <1>9. QED
    BY <1>2, <1>3, <1>4, <1>5, <1>6, <1>7, <1>8

LEMMA TimeKeepsAddresses ==
    ASSUME TypeInv, AddressInv, MinutePasses \/ CodesExpire
    PROVE  AddressInv'
  <1>1. UNCHANGED <<req, mails, crossed>>
    BY DEF MinutePasses, CodesExpire
  <1>2. \A a \in Account : /\ pending'[a].code = pending[a].code
                           /\ pending'[a].address = pending[a].address
    BY TimeOnPending
  <1>3. NothingNew(NoCode)
    BY <1>1, <1>2 DEF NothingNew, Held, Claim, At
  <1>4. QED
    BY <1>1, <1>3, CodesKeep DEF AddressInv, Arrived

LEMMA InitAddresses == Init => AddressInv
  <1> SUFFICES ASSUME Init PROVE AddressInv
    OBVIOUS
  <1>1. \A r \in Request : req[r].pc = "idle"
    BY IdleType DEF Init
  <1>2. \A a \in Account : pending[a].code = NoCode
    BY DEF Init, NoChange
  <1>3. \A a \in Account, c \in Code : ~Held(a, c)
    BY <1>1, <1>2, Codes DEF Held, At
  <1>4. QED
    BY <1>1, <1>3 DEF AddressInv, OneOwner, OneAddress, Arrived

LEMMA StepAddresses == TypeInv /\ AddressInv /\ [Next]_vars => AddressInv'
  <1> SUFFICES ASSUME TypeInv, AddressInv, [Next]_vars PROVE AddressInv'
    OBVIOUS
  <1>1. ASSUME NEW r \in Request, Begin(r) \/ Continue(r) PROVE AddressInv'
    BY <1>1, ChangeKeepsAddresses, OthersKeepAddresses DEF Begin, Continue
  <1>2. CASE MinutePasses \/ CodesExpire
    BY <1>2, TimeKeepsAddresses
  <1>3. CASE UNCHANGED vars
    BY <1>3 DEF vars, account, AddressInv, OneOwner, OneAddress, Arrived, Held, Claim, At
  <1>4. QED
    BY <1>1, <1>2, <1>3 DEF Next

LEMMA Addresses == Spec => []AddressInv
  BY InitAddresses, StepAddresses, Types, PTL DEF Spec

\* Columns and requests hold what they are declared to hold, no two accounts have
\* one address, and no code is of two changes (user.service.ts,
\* auth.service.ts and verification.service.ts).
THEOREM MailedCodesTypes == Spec => []TypeOK
  <1>1. TypeInv /\ AddressInv => TypeOK
    <2> SUFFICES ASSUME TypeInv, AddressInv PROVE TypeOK
      OBVIOUS
    <2>1. \A a, b \in Account : a # b => pending[a].code = NoCode
                                         \/ pending[a].code # pending[b].code
      <3>1. \A a \in Account : pending[a].code \in Code \cup {NoCode}
        BY DEF TypeInv, ColumnsOK, Changes
      <3>2. QED
        BY <3>1 DEF AddressInv, OneOwner, Held
    <2>2. QED
      BY <2>1 DEF TypeInv, ColumnsOK, RestOK, ReqOK, TypeOK
  <1>2. QED
    BY <1>1, Types, Addresses, PTL

\* An address is only applied to an account with a code that arrived at that
\* address, through any other changes, cancellations and expirations, unless a
\* code of the account was sent again over a newer request
\* (UserSecurityService.confirmEmailChange).
THEOREM AddressesAreProved == Spec => EmailProved
  <1>1. AddressInv /\ [Next]_vars
        => [\A r \in Request :
              At(r, "apply") /\ email' # email /\ req'[r] # req[r]
              => <<req[r].address, req[r].code>> \in mails \/ req[r].account \in crossed]_vars
    BY DEF AddressInv, Arrived, At
  <1>2. QED
    BY <1>1, Addresses, PTL DEF Spec, EmailProved

-----------------------------------------------------------------------------
(* Guesses.  Where they are limited, a code has been compared at most as   *)
(* often as its account or its row has counted, and once more for each     *)
(* request that has compared and not counted yet.                          *)

Guessing(a) == {r \in Request : req[r].pc = "guessed" /\ req[r].account = a}
Judging(i)  == {r \in Request : req[r].pc = "judged" /\ req[r].row = i}

Guesses(a)    == activation[a].attempts + Cardinality(Guessing(a))
RowGuesses(i) == rows[i].attempts + Cardinality(Judging(i))

\* No code serves twice, and the next ones have never been guessed at.
Apart ==
    /\ \A a, b \in Account : a # b /\ activation[a].code # NoCode
                             => activation[a].code # activation[b].code
    /\ \A i, j \in 1..Len(rows) : i # j => rows[i].code # rows[j].code
    /\ \A a \in Account : \A i \in 1..Len(rows) : activation[a].code # rows[i].code
    /\ \A c \in Code : minted < c => limited[c] = 0

Counted ==
    /\ \A a \in Account : activation[a].code # NoCode
                          => limited[activation[a].code] <= Guesses(a)
    /\ \A i \in 1..Len(rows) : ~rows[i].consumed => limited[rows[i].code] <= RowGuesses(i)

GuessInv == Apart /\ Counted /\ GuessesBounded

Numbers ==
    /\ Cardinality(Request) \in Nat
    /\ \A a \in Account : /\ activation[a].attempts \in Nat /\ activation[a].code \in Nat
                          /\ activation[a].code # NoCode => activation[a].code \in Code
                          /\ IsFiniteSet(Guessing(a)) /\ Cardinality(Guessing(a)) \in Nat
                          /\ Guesses(a) \in Nat
    /\ \A i \in 1..Len(rows) : /\ rows[i].attempts \in Nat
                               /\ rows[i].code \in Code /\ rows[i].code \in Nat
                               /\ RowGuesses(i) \in Nat
    /\ \A i \in Nat : IsFiniteSet(Judging(i)) /\ Cardinality(Judging(i)) \in Nat
    /\ \A c \in Code : limited[c] \in Nat

LEMMA CountsAreNumbers ==
    ASSUME TypeInv
    PROVE  Numbers
  <1>1. Cardinality(Request) \in Nat
    BY RequestAssumption, FS_CardinalityType
  <1>2. ASSUME NEW S \in SUBSET Request
        PROVE  IsFiniteSet(S) /\ Cardinality(S) \in Nat
    BY <1>2, RequestAssumption, FS_Subset, FS_CardinalityType
  <1>3. ASSUME NEW a \in Account
        PROVE  /\ activation[a].attempts \in Nat /\ activation[a].code \in Nat
               /\ activation[a].code # NoCode => activation[a].code \in Code
    <2>1. activation[a] \in Activations
      BY DEF TypeInv, ColumnsOK
    <2>2. activation[a].attempts \in Nat /\ activation[a].code \in Code \cup {NoCode}
      BY <2>1 DEF Activations
    <2>3. QED
      BY <2>2, Codes
  <1>4. \A a \in Account : Guessing(a) \in SUBSET Request
    BY DEF Guessing
  <1>5. \A i \in Nat : Judging(i) \in SUBSET Request
    BY DEF Judging
  <1>6. ASSUME NEW i \in 1..Len(rows)
        PROVE  rows[i].attempts \in Nat /\ i \in Nat
    <2>1. rows[i] \in Rows /\ i \in Nat
      BY RowFacts
    <2>2. QED
      BY <2>1 DEF Rows
  <1>7. \A c \in Code : limited[c] \in Nat
    BY DEF TypeInv, RestOK
  <1>8. \A a \in Account : IsFiniteSet(Guessing(a)) /\ Cardinality(Guessing(a)) \in Nat
    BY <1>2, <1>4
  <1>9. \A i \in Nat : IsFiniteSet(Judging(i)) /\ Cardinality(Judging(i)) \in Nat
    BY <1>2, <1>5
  <1>10. \A a \in Account : Guesses(a) \in Nat
    BY <1>3, <1>8 DEF Guesses
  <1>11. ASSUME NEW i \in 1..Len(rows) PROVE RowGuesses(i) \in Nat
    <2>1. rows[i].attempts \in Nat /\ Cardinality(Judging(i)) \in Nat
      BY <1>6, <1>9
    <2>2. QED
      BY <2>1 DEF RowGuesses
  <1>12. QED
    BY <1>1, <1>3, <1>6, <1>7, <1>8, <1>9, <1>10, <1>11, RowFacts DEF Numbers

LEMMA NumbersNext == TypeInv' => Numbers'
  <1>1. TypeInv => Numbers
    BY CountsAreNumbers
  <1>2. QED
    BY <1>1, PTL

\* A request that had nothing to count takes nothing from anybody.
LEMMA CountersGrow ==
    ASSUME TypeInv, TypeInv', NEW r \in Request, NEW q, req' = [req EXCEPT ![r] = q],
           req[r].pc \notin {"guessed", "judged"}
    PROVE  /\ \A a \in Account : Cardinality(Guessing(a)) <= Cardinality(Guessing(a)')
           /\ \A i \in Nat : Cardinality(Judging(i)) <= Cardinality(Judging(i)')
  <1>1. \A s \in Request : req'[s] = IF s = r THEN q ELSE req[s]
    BY DEF TypeInv, ReqOK
  <1>2. ASSUME NEW S \in SUBSET Request, NEW T \in SUBSET Request, S \subseteq T
        PROVE  Cardinality(S) <= Cardinality(T)
    BY <1>2, RequestAssumption, FS_Subset
  <1>3. ASSUME NEW a \in Account
        PROVE  /\ Guessing(a) \in SUBSET Request /\ Guessing(a)' \in SUBSET Request
               /\ Guessing(a) \subseteq Guessing(a)'
    BY <1>1 DEF Guessing
  <1>4. ASSUME NEW i \in Nat
        PROVE  /\ Judging(i) \in SUBSET Request /\ Judging(i)' \in SUBSET Request
               /\ Judging(i) \subseteq Judging(i)'
    BY <1>1 DEF Judging
  <1>5. QED
    BY <1>2, <1>3, <1>4

\* A request leaves one set, and the others stay.
LEMMA OneLess ==
    ASSUME NEW S \in SUBSET Request, NEW r \in S
    PROVE  Cardinality(S \ {r}) + 1 = Cardinality(S) /\ Cardinality(S \ {r}) \in Nat
  <1>1. IsFiniteSet(S) /\ IsFiniteSet(S \ {r})
    BY RequestAssumption, FS_Subset
  <1>2. Cardinality(S) \in Nat /\ Cardinality(S \ {r}) \in Nat
    BY <1>1, FS_CardinalityType
  <1>3. Cardinality(S \ {r}) = Cardinality(S) - 1
    BY <1>1, FS_RemoveElement
  <1>4. QED
    BY <1>2, <1>3

\* A step that compares nothing and hands out no code.
LEMMA GuessFrame ==
    ASSUME TypeInv, TypeInv', GuessInv, minted <= minted', limited' = limited,
           Len(rows') = Len(rows),
           \A a \in Account : \/ activation'[a].code = NoCode
                              \/ /\ activation'[a].code = activation[a].code
                                 /\ Guesses(a) <= Guesses(a)',
           \A i \in 1..Len(rows) : /\ rows'[i].code = rows[i].code
                                   /\ \/ rows'[i].consumed
                                      \/ ~rows[i].consumed /\ RowGuesses(i) <= RowGuesses(i)'
    PROVE  GuessInv'
  <1>1. minted \in Nat /\ minted' \in Nat
    BY DEF TypeInv, RestOK
  <1>2. Apart'
    <2>1. \A a, b \in Account : a # b /\ activation'[a].code # NoCode
                                => activation'[a].code # activation'[b].code
      BY DEF GuessInv, Apart
    <2>2. \A i, j \in 1..Len(rows') : i # j => rows'[i].code # rows'[j].code
      BY DEF GuessInv, Apart
    <2>3. \A a \in Account : \A i \in 1..Len(rows') : activation'[a].code # rows'[i].code
      <3>1. \A i \in 1..Len(rows) : rows[i].code # NoCode
        BY RowFacts, Codes
      <3>2. \A a \in Account : \A i \in 1..Len(rows) : activation[a].code # rows[i].code
        BY DEF GuessInv, Apart
      <3>3. QED
        BY <3>1, <3>2
    <2>4. \A c \in Code : minted' < c => limited'[c] = 0
      BY <1>1, Codes DEF GuessInv, Apart
    <2>5. QED
      BY <2>1, <2>2, <2>3, <2>4 DEF Apart
  <1>3. ASSUME NEW a \in Account, activation'[a].code # NoCode
        PROVE  limited'[activation'[a].code] <= Guesses(a)'
    <2>1. /\ activation'[a].code = activation[a].code /\ Guesses(a) <= Guesses(a)'
          /\ limited[activation[a].code] <= Guesses(a)
      BY <1>3 DEF GuessInv, Counted
    <2>2. Guesses(a) \in Nat /\ Guesses(a)' \in Nat /\ limited[activation[a].code] \in Nat
      <3>1. Guesses(a) \in Nat /\ limited[activation[a].code] \in Nat
        BY <1>3, <2>1, CountsAreNumbers DEF Numbers
      <3>2. Guesses(a)' \in Nat
        BY NumbersNext DEF Numbers
      <3>3. QED
        BY <3>1, <3>2
    <2>3. QED
      BY <2>1, <2>2
  <1>4. ASSUME NEW i \in 1..Len(rows'), ~rows'[i].consumed
        PROVE  limited'[rows'[i].code] <= RowGuesses(i)'
    <2>1. /\ i \in 1..Len(rows) /\ rows'[i].code = rows[i].code
          /\ RowGuesses(i) <= RowGuesses(i)' /\ ~rows[i].consumed
      BY <1>4
    <2>2. limited[rows[i].code] <= RowGuesses(i)
      BY <2>1 DEF GuessInv, Counted
    <2>3. RowGuesses(i) \in Nat /\ limited[rows[i].code] \in Nat
      BY <2>1, CountsAreNumbers DEF Numbers
    <2>4. RowGuesses(i)' \in Nat
      BY NumbersNext DEF Numbers
    <2>5. QED
      BY <2>1, <2>2, <2>3, <2>4
  <1>5. QED
    BY <1>2, <1>3, <1>4 DEF GuessInv, Counted, GuessesBounded

\* The same, seen from the accounts and the rows: nobody's count is less.
LEMMA GuessesGrow ==
    ASSUME TypeInv, TypeInv', NEW r \in Request, NEW q, req' = [req EXCEPT ![r] = q],
           req[r].pc \notin {"guessed", "judged"},
           \A a \in Account : activation'[a].attempts = activation[a].attempts,
           Len(rows) <= Len(rows'),
           \A i \in 1..Len(rows) : rows'[i].attempts = rows[i].attempts
    PROVE  /\ \A a \in Account : Guesses(a) <= Guesses(a)'
           /\ \A i \in 1..Len(rows) : RowGuesses(i) <= RowGuesses(i)'
  <1>1. ASSUME NEW a \in Account PROVE Guesses(a) <= Guesses(a)'
    <2>1. /\ activation[a].attempts \in Nat
          /\ Cardinality(Guessing(a)) \in Nat
      BY CountsAreNumbers DEF Numbers
    <2>2. Cardinality(Guessing(a)') \in Nat
      BY NumbersNext DEF Numbers
    <2>3. Cardinality(Guessing(a)) <= Cardinality(Guessing(a)')
      BY CountersGrow
    <2>4. activation'[a].attempts = activation[a].attempts
      OBVIOUS
    <2>5. QED
      BY <2>1, <2>2, <2>3, <2>4 DEF Guesses
  <1>2. ASSUME NEW i \in 1..Len(rows) PROVE RowGuesses(i) <= RowGuesses(i)'
    <2>0. Len(rows) \in Nat /\ i \in Nat
      BY RowFacts
    <2>1. rows[i].attempts \in Nat /\ Cardinality(Judging(i)) \in Nat
      BY <2>0, CountsAreNumbers DEF Numbers
    <2>2. Cardinality(Judging(i)') \in Nat
      BY <2>0, NumbersNext DEF Numbers
    <2>3. Cardinality(Judging(i)) <= Cardinality(Judging(i)')
      BY <2>0, CountersGrow
    <2>4. rows'[i].attempts = rows[i].attempts
      OBVIOUS
    <2>5. QED
      BY <2>1, <2>2, <2>3, <2>4 DEF RowGuesses
  <1>3. QED
    BY <1>1, <1>2

\* A step of a request that had nothing to count, and compares nothing.
LEMMA SlotGuessesNothing ==
    ASSUME TypeInv, TypeInv', GuessInv, NEW r \in Request, NEW q, req' = [req EXCEPT ![r] = q],
           req[r].pc \notin {"guessed", "judged"}, minted <= minted',
           UNCHANGED <<activation, rows, limited>>
    PROVE  GuessInv'
  <1>1. /\ \A a \in Account : Guesses(a) <= Guesses(a)'
        /\ \A i \in 1..Len(rows) : RowGuesses(i) <= RowGuesses(i)'
    <2>1. Len(rows) <= Len(rows')
      BY RowFacts
    <2>2. QED
      BY <2>1, GuessesGrow
  <1>2. \A i \in 1..Len(rows) : rows'[i].consumed \/ ~rows[i].consumed
    OBVIOUS
  <1>3. QED
    BY <1>1, <1>2, GuessFrame

\* A step that compares one code, once more than it had been.
LEMMA GuessCompares ==
    ASSUME TypeInv, TypeInv', GuessInv, NEW f \in Code, f <= minted,
           UNCHANGED <<minted, activation, rows>>, limited' = [limited EXCEPT ![f] = @ + 1],
           limited[f] + 1 < MaxAttempts + Cardinality(Request),
           \A a \in Account : /\ Guesses(a) <= Guesses(a)'
                              /\ activation[a].code = f => Guesses(a) + 1 <= Guesses(a)',
           \A i \in 1..Len(rows) : /\ RowGuesses(i) <= RowGuesses(i)'
                                   /\ rows[i].code = f => RowGuesses(i) + 1 <= RowGuesses(i)'
    PROVE  GuessInv'
  <1>1. /\ \A c \in Code : limited'[c] = IF c = f THEN limited[f] + 1 ELSE limited[c]
        /\ \A c \in Code : limited[c] \in Nat
    BY DEF TypeInv, RestOK
  <1>2. Apart'
    <2>1. minted \in Nat /\ \A c \in Code : minted' < c => c # f
      BY Codes DEF TypeInv, RestOK
    <2>2. QED
      BY <1>1, <2>1 DEF GuessInv, Apart
  <1>3. ASSUME NEW a \in Account, activation'[a].code # NoCode
        PROVE  limited'[activation'[a].code] <= Guesses(a)'
    <2>1. /\ activation[a].code \in Code /\ Guesses(a) \in Nat
          /\ limited[activation[a].code] <= Guesses(a)
      BY <1>3, CountsAreNumbers DEF Numbers, GuessInv, Counted
    <2>2. Guesses(a)' \in Nat
      BY NumbersNext DEF Numbers
    <2>3. QED
      BY <1>1, <2>1, <2>2
  <1>4. ASSUME NEW i \in 1..Len(rows'), ~rows'[i].consumed
        PROVE  limited'[rows'[i].code] <= RowGuesses(i)'
    <2>1. /\ rows[i].code \in Code /\ RowGuesses(i) \in Nat
          /\ limited[rows[i].code] <= RowGuesses(i)
      BY <1>4, CountsAreNumbers DEF Numbers, GuessInv, Counted
    <2>2. RowGuesses(i)' \in Nat
      BY NumbersNext DEF Numbers
    <2>3. QED
      BY <1>1, <1>4, <2>1, <2>2
  <1>5. GuessesBounded'
    BY <1>1 DEF GuessInv, GuessesBounded
  <1>6. QED
    BY <1>2, <1>3, <1>4, <1>5 DEF GuessInv, Counted

LEMMA ChangeKeepsGuesses ==
    ASSUME TypeInv, TypeInv', GuessInv, NEW r \in Request,
           \/ \E a \in Account, x \in Address : RequestEmailChange(r, a, x) \/ AdminUpdate(r, a, x)
           \/ \E a \in Account : ResendEmailChangeCode(r, a) \/ CancelEmailChange(r, a)
                                 \/ ResendVerification(r, a)
           \/ \E a \in Account, c \in Typed : ConfirmEmailChange(r, a, c)
           \/ \E c \in Typed : VerifyAccount(r, c)
           \/ CheckTaken(r) \/ HoldAddress(r) \/ RewriteCode(r) \/ Apply(r) \/ Mail(r)
    PROVE  GuessInv'
  <1>1. req[r].pc \notin {"guessed", "judged"}
    BY DEF RequestEmailChange, AdminUpdate, ResendEmailChangeCode, CancelEmailChange,
           ResendVerification, ConfirmEmailChange, VerifyAccount, CheckTaken, HoldAddress,
           RewriteCode, Apply, Mail, Asks, At
  <1>2. UNCHANGED <<activation, rows, limited>>
    BY DEF RequestEmailChange, AdminUpdate, ResendEmailChangeCode, CancelEmailChange,
           ResendVerification, ConfirmEmailChange, VerifyAccount, CheckTaken, HoldAddress,
           RewriteCode, Apply, Mail, account
  <1>3. minted' = minted \/ Mints
    BY DEF RequestEmailChange, AdminUpdate, ResendEmailChangeCode, CancelEmailChange,
           ResendVerification, ConfirmEmailChange, VerifyAccount, CheckTaken, HoldAddress,
           RewriteCode, Apply, Mail
  <1>4. minted <= minted'
    BY <1>2, <1>3, Still DEF Grows
  <1>5. \E q : req' = [req EXCEPT ![r] = q]
    <2>1. CASE req' = req
      <3>1. req' = [req EXCEPT ![r] = req[r]]
        BY <2>1 DEF TypeInv, ReqOK
      <3>2. QED
        BY <3>1
    <2>2. ASSUME NEW pc, req' = [req EXCEPT ![r].pc = pc]
          PROVE  \E q : req' = [req EXCEPT ![r] = q]
      <3>1. req' = [req EXCEPT ![r] = [req[r] EXCEPT !.pc = pc]]
        BY <2>2
      <3>2. QED
        BY <3>1
    <2>3. ASSUME NEW c, req' = [req EXCEPT ![r].pc = "mail", ![r].code = c]
          PROVE  \E q : req' = [req EXCEPT ![r] = q]
      <3>1. req' = [req EXCEPT ![r] = [req[r] EXCEPT !.pc = "mail", !.code = c]]
        BY <2>3
      <3>2. QED
        BY <3>1
    <2>4. CASE \E a \in Account, x \in Address : RequestEmailChange(r, a, x) \/ AdminUpdate(r, a, x)
      BY <2>1, <2>4 DEF RequestEmailChange, AdminUpdate
    <2>5. CASE \E a \in Account : ResendEmailChangeCode(r, a) \/ CancelEmailChange(r, a)
                                  \/ ResendVerification(r, a)
      BY <2>1, <2>5 DEF ResendEmailChangeCode, CancelEmailChange, ResendVerification
    <2>6. CASE \/ \E a \in Account, c \in Typed : ConfirmEmailChange(r, a, c)
                \/ \E d \in Typed : VerifyAccount(r, d)
      BY <2>1, <2>6 DEF ConfirmEmailChange, VerifyAccount
    <2>7. CASE CheckTaken(r)
      BY <2>2, <2>7 DEF CheckTaken, End, GoTo
    <2>8. CASE HoldAddress(r)
      BY <2>3, <2>8 DEF HoldAddress
    <2>9. CASE RewriteCode(r)
      BY <2>3, <2>9 DEF RewriteCode
    <2>10. CASE Apply(r) \/ Mail(r)
      BY <2>10 DEF Apply, Mail, End
    <2>11. QED
      BY <2>4, <2>5, <2>6, <2>7, <2>8, <2>9, <2>10
  <1>6. QED
    BY <1>1, <1>2, <1>4, <1>5, SlotGuessesNothing

\* The next code has not been guessed at, and serves nobody yet.
LEMMA FreshIsApart ==
    ASSUME TypeInv, GuessInv, Mints
    PROVE  /\ Fresh \in Code /\ limited[Fresh] = 0 /\ minted <= minted'
           /\ \A c \in Code : minted' < c => limited[c] = 0
           /\ \A a \in Account : activation[a].code # Fresh
           /\ \A i \in 1..Len(rows) : rows[i].code # Fresh
  <1>1. /\ Fresh \in Code /\ Fresh = minted + 1 /\ minted' = Fresh /\ minted \in Nat
    BY FreshCode
  <1>2. \A a \in Account : activation[a].code <= minted /\ activation[a].code \in Nat
    BY CountsAreNumbers DEF Numbers, TypeInv, CodesOK
  <1>3. \A i \in 1..Len(rows) : rows[i].code <= minted /\ rows[i].code \in Nat
    BY CountsAreNumbers DEF Numbers, TypeInv, CodesOK
  <1>4. \A c \in Code : minted < c => limited[c] = 0
    BY DEF GuessInv, Apart
  <1>5. \A c \in Code : c \in Nat
    BY Codes
  <1>6. QED
    BY <1>1, <1>2, <1>3, <1>4, <1>5

LEMMA RequestCodeKeepsGuesses ==
    ASSUME TypeInv, TypeInv', GuessInv, NEW r \in Request, NEW x \in Address, RequestCode(r, x)
    PROVE  GuessInv'
  <1> DEFINE n == Len(rows)
             e == [address |-> x, code |-> Fresh, attempts |-> 0, consumed |-> FALSE, valid |-> TRUE]
             q == [Idle EXCEPT !.pc = "mail", !.address = x, !.code = Fresh]
  <1>1. /\ Mints /\ rows' = Append(rows, e) /\ req' = [req EXCEPT ![r] = q]
        /\ activation' = activation /\ limited' = limited /\ req[r].pc = "idle"
    BY DEF RequestCode, account, Asks
  <1>2. e.code = Fresh /\ e.attempts = 0
    OBVIOUS
  <1> HIDE DEF e, q
  <1>3. /\ n \in Nat /\ Len(rows') = n + 1 /\ rows'[n + 1] = e
        /\ \A i \in 1..n : rows'[i] = rows[i]
    <2>1. rows \in Seq(Rows)
      BY DEF TypeInv, ColumnsOK
    <2>2. QED
      BY <1>1, <2>1
  <1>4. /\ Fresh \in Code /\ limited[Fresh] = 0
        /\ \A c \in Code : minted' < c => limited[c] = 0
        /\ \A a \in Account : activation[a].code # Fresh
        /\ \A i \in 1..n : rows[i].code # Fresh
    BY <1>1, FreshIsApart
  <1>5. /\ \A a \in Account : Guesses(a) <= Guesses(a)'
        /\ \A i \in 1..n : RowGuesses(i) <= RowGuesses(i)'
    <2>1. /\ Len(rows) <= Len(rows') /\ req[r].pc \notin {"guessed", "judged"}
          /\ \A a \in Account : activation'[a].attempts = activation[a].attempts
          /\ \A i \in 1..Len(rows) : rows'[i].attempts = rows[i].attempts
      BY <1>1, <1>3
    <2>2. QED
      BY <1>1, <2>1, GuessesGrow
  <1>6. Apart'
    <2>1. \A i \in 1..Len(rows') : i \in 1..n \/ i = n + 1
      BY <1>3
    <2>2. \A i, j \in 1..Len(rows') : i # j => rows'[i].code # rows'[j].code
      BY <1>2, <1>3, <1>4, <2>1 DEF GuessInv, Apart
    <2>3. \A a \in Account : \A i \in 1..Len(rows') : activation'[a].code # rows'[i].code
      BY <1>1, <1>2, <1>3, <1>4, <2>1 DEF GuessInv, Apart
    <2>4. QED
      BY <1>1, <1>4, <2>2, <2>3 DEF GuessInv, Apart
  <1>7. ASSUME NEW a \in Account, activation'[a].code # NoCode
        PROVE  limited'[activation'[a].code] <= Guesses(a)'
    <2>1. /\ activation[a].code \in Code /\ Guesses(a) \in Nat
          /\ limited[activation[a].code] \in Nat
          /\ limited[activation[a].code] <= Guesses(a)
      BY <1>1, <1>7, CountsAreNumbers DEF Numbers, GuessInv, Counted
    <2>2. Guesses(a)' \in Nat
      BY NumbersNext DEF Numbers
    <2>3. QED
      BY <1>1, <1>5, <2>1, <2>2
  <1>8. ASSUME NEW i \in 1..Len(rows'), ~rows'[i].consumed
        PROVE  limited'[rows'[i].code] <= RowGuesses(i)'
    <2>1. RowGuesses(i)' \in Nat
      BY NumbersNext DEF Numbers
    <2>2. CASE i = n + 1
      BY <1>1, <1>2, <1>3, <1>4, <2>1, <2>2
    <2>3. CASE i \in 1..n
      <3>1. /\ RowGuesses(i) \in Nat /\ limited[rows[i].code] \in Nat
            /\ limited[rows[i].code] <= RowGuesses(i)
        BY <1>3, <1>8, <2>3, CountsAreNumbers DEF Numbers, GuessInv, Counted
      <3>2. QED
        BY <1>1, <1>3, <1>5, <2>1, <2>3, <3>1
    <2>4. QED
      BY <1>3, <2>2, <2>3
  <1>9. QED
    BY <1>1, <1>6, <1>7, <1>8 DEF GuessInv, Counted, GuessesBounded

LEMMA RenewKeepsGuesses ==
    ASSUME TypeInv, TypeInv', GuessInv, NEW r \in Request, Renew(r)
    PROVE  GuessInv'
  <1> DEFINE a == req[r].account
             new == [activation[a] EXCEPT !.code = Fresh, !.valid = TRUE, !.attempts = 0]
  <1>1. /\ Mints /\ rows' = rows /\ req' = [req EXCEPT ![r] = Idle]
        /\ limited' = limited /\ req[r].pc = "renew" /\ a \in Account
        /\ activation \in [Account -> Activations] /\ minted <= minted'
    BY RecordFacts, FreshIsApart DEF Renew, End, At, TypeInv, ReqOK, ColumnsOK
  <1>2. CASE activation' = activation
    BY <1>1, <1>2, SlotGuessesNothing
  <1>3. CASE activation' = [activation EXCEPT ![a] = new]
    <2>1. activation[a] \in Activations
      BY <1>1
    <2>2. new.code = Fresh /\ new.attempts = 0
      BY <2>1 DEF Activations
    <2> HIDE DEF new
    <2>3. \A b \in Account : activation'[b] = IF b = a THEN new ELSE activation[b]
      BY <1>1, <1>3
    <2>4. /\ Fresh \in Code /\ limited[Fresh] = 0
          /\ \A c \in Code : minted' < c => limited[c] = 0
          /\ \A b \in Account : activation[b].code # Fresh
          /\ \A i \in 1..Len(rows) : rows[i].code # Fresh
      BY <1>1, FreshIsApart
    <2>5. Apart'
      BY <1>1, <2>2, <2>3, <2>4 DEF GuessInv, Apart
    <2>6. /\ \A b \in Account : Cardinality(Guessing(b)) <= Cardinality(Guessing(b)')
          /\ \A i \in Nat : Cardinality(Judging(i)) <= Cardinality(Judging(i)')
      BY <1>1, CountersGrow
    <2>7. ASSUME NEW b \in Account, activation'[b].code # NoCode
          PROVE  limited'[activation'[b].code] <= Guesses(b)'
      <3>1. Guesses(b)' \in Nat /\ Cardinality(Guessing(b)') \in Nat
        BY NumbersNext DEF Numbers
      <3>2. CASE b = a
        BY <1>1, <2>2, <2>3, <2>4, <3>1, <3>2
      <3>3. CASE b # a
        <4>1. activation'[b] = activation[b]
          BY <2>3, <3>3
        <4>2. /\ limited[activation[b].code] \in Nat /\ activation[b].attempts \in Nat
              /\ Cardinality(Guessing(b)) \in Nat
              /\ limited[activation[b].code] <= Guesses(b)
          BY <2>7, <4>1, CountsAreNumbers DEF Numbers, GuessInv, Counted
        <4>3. Cardinality(Guessing(b)) <= Cardinality(Guessing(b)')
          BY <2>6
        <4>4. QED
          BY <1>1, <3>1, <4>1, <4>2, <4>3 DEF Guesses
      <3>4. QED
        BY <3>2, <3>3
    <2>8. ASSUME NEW i \in 1..Len(rows'), ~rows'[i].consumed
          PROVE  limited'[rows'[i].code] <= RowGuesses(i)'
      <3>1. i \in Nat /\ Len(rows) \in Nat /\ i \in 1..Len(rows)
        BY <1>1, RowFacts
      <3>2. /\ limited[rows[i].code] \in Nat /\ rows[i].attempts \in Nat
            /\ Cardinality(Judging(i)) \in Nat
            /\ limited[rows[i].code] <= RowGuesses(i)
        BY <1>1, <2>8, <3>1, CountsAreNumbers DEF Numbers, GuessInv, Counted
      <3>3. Cardinality(Judging(i)') \in Nat
        BY <3>1, NumbersNext DEF Numbers
      <3>4. Cardinality(Judging(i)) <= Cardinality(Judging(i)')
        BY <2>6, <3>1
      <3>5. QED
        BY <1>1, <3>2, <3>3, <3>4 DEF RowGuesses
    <2>9. QED
      BY <1>1, <2>5, <2>7, <2>8 DEF GuessInv, Counted, GuessesBounded
  <1>4. QED
    BY <1>1, <1>2, <1>3 DEF Renew

LEMMA VerifyCodeKeepsGuesses ==
    ASSUME TypeInv, TypeInv', GuessInv, NEW r \in Request, NEW x \in Address, NEW c,
           VerifyCode(r, x, c)
    PROVE  GuessInv'
  <1>1. Last(Usable(x)) \in Usable(x)
    BY LastIsUsable DEF VerifyCode
  <1>2. PICK i \in Nat : i = Last(Usable(x))
    <2>1. DOMAIN rows = 1..Len(rows) /\ Len(rows) \in Nat
      BY DEF TypeInv, ColumnsOK
    <2>2. Last(Usable(x)) \in Nat
      BY <1>1, <2>1 DEF Usable
    <2>3. QED
      BY <2>2
  <1>3. /\ i \in 1..Len(rows) /\ i \in Nat /\ Len(rows) \in Nat /\ ~rows[i].consumed
        /\ rows[i].attempts < MaxAttempts
    BY <1>1, <1>2, RowFacts DEF VerifyCode, Usable, TypeInv, ColumnsOK
  <1> DEFINE q == [Idle EXCEPT !.pc = "judged", !.address = x, !.row = i,
                               !.right = (rows[i].code = c)]
  <1>4. /\ limited' = [limited EXCEPT ![rows[i].code] = @ + 1]
        /\ req' = [req EXCEPT ![r] = q] /\ req[r].pc = "idle"
        /\ UNCHANGED <<minted, activation, rows>>
    BY <1>2 DEF VerifyCode, account, Asks
  <1>5. q.pc = "judged" /\ q.row = i
    BY DEF Idle
  <1> HIDE DEF q
  <1>6. \A s \in Request : req'[s] = IF s = r THEN q ELSE req[s]
    BY <1>4 DEF TypeInv, ReqOK
  <1>7. Cardinality(Judging(i)') = Cardinality(Judging(i)) + 1
    <2>1. Judging(i)' \in SUBSET Request /\ r \in Judging(i)' /\ Judging(i)' \ {r} = Judging(i)
      BY <1>4, <1>5, <1>6 DEF Judging
    <2>2. QED
      BY <2>1, OneLess
  <1>8. Cardinality(Judging(i)') <= Cardinality(Request)
    <2>1. Judging(i)' \in SUBSET Request
      BY DEF Judging
    <2>2. QED
      BY <2>1, RequestAssumption, FS_Subset
  <1>9. /\ rows[i].code \in Code /\ limited[rows[i].code] \in Nat /\ rows[i].attempts \in Nat
        /\ rows[i].code <= minted
        /\ Cardinality(Judging(i)) \in Nat /\ Cardinality(Request) \in Nat
        /\ limited[rows[i].code] <= RowGuesses(i) /\ RowGuesses(i) \in Nat
    BY <1>3, CountsAreNumbers DEF Numbers, GuessInv, Counted, TypeInv, CodesOK
  <1>10. RowGuesses(i) + 1 = RowGuesses(i)'
    BY <1>4, <1>7, <1>9 DEF RowGuesses
  <1>11. MaxAttempts \in Nat
    BY BoundAssumption
  <1>12. limited[rows[i].code] + 1 < MaxAttempts + Cardinality(Request)
    BY <1>3, <1>7, <1>8, <1>9, <1>11 DEF RowGuesses
  <1>13. /\ \A a \in Account : Guesses(a) <= Guesses(a)'
         /\ \A j \in 1..Len(rows) : RowGuesses(j) <= RowGuesses(j)'
    <2>1. Len(rows) <= Len(rows')
      BY <1>3, <1>4
    <2>2. QED
      BY <1>4, <2>1, GuessesGrow
  <1>14. /\ \A a \in Account : activation[a].code # rows[i].code
         /\ \A j \in 1..Len(rows) : rows[j].code = rows[i].code => j = i
    BY <1>3 DEF GuessInv, Apart
  <1>15. \A j \in 1..Len(rows) : rows[j].code = rows[i].code => RowGuesses(j) + 1 <= RowGuesses(j)'
    <2>1. RowGuesses(i) + 1 <= RowGuesses(i)'
      BY <1>9, <1>10
    <2>2. QED
      BY <1>14, <2>1
  <1>16. PICK f \in Code : f = rows[i].code
    BY <1>9
  <1>17. /\ limited' = [limited EXCEPT ![f] = @ + 1] /\ f <= minted
         /\ limited[f] + 1 < MaxAttempts + Cardinality(Request)
    BY <1>4, <1>9, <1>12, <1>16
  <1>18. /\ \A a \in Account : Guesses(a) <= Guesses(a)' /\ activation[a].code # f
         /\ \A j \in 1..Len(rows) : /\ RowGuesses(j) <= RowGuesses(j)'
                                    /\ rows[j].code = f => RowGuesses(j) + 1 <= RowGuesses(j)'
    BY <1>13, <1>14, <1>15, <1>16
  <1>19. QED
    BY <1>4, <1>17, <1>18, GuessCompares

LEMMA ActivateKeepsGuesses ==
    ASSUME TypeInv, TypeInv', GuessInv, NEW r \in Request, NEW a \in Account, NEW c,
           VerifyAccountByCode(r, a, c)
    PROVE  GuessInv'
  <1> DEFINE f == activation[a].code
             q == [Idle EXCEPT !.pc = "guessed", !.account = a, !.code = c,
                               !.row = activation[a].attempts,
                               !.right = (activation[a].code = c)]
  <1>1. f # NoCode /\ activation[a].attempts < MaxAttempts
    BY DEF VerifyAccountByCode
  <1>2. /\ limited' = [limited EXCEPT ![f] = @ + 1]
        /\ req' = [req EXCEPT ![r] = q] /\ req[r].pc = "idle"
        /\ UNCHANGED <<minted, activation, rows>>
    BY DEF VerifyAccountByCode, account, Asks
  <1>3. q.pc = "guessed" /\ q.account = a
    BY DEF Idle
  <1> HIDE DEF q
  <1>4. \A s \in Request : req'[s] = IF s = r THEN q ELSE req[s]
    BY <1>2 DEF TypeInv, ReqOK
  <1>5. Cardinality(Guessing(a)') = Cardinality(Guessing(a)) + 1
    <2>1. Guessing(a)' \in SUBSET Request /\ r \in Guessing(a)' /\ Guessing(a)' \ {r} = Guessing(a)
      BY <1>2, <1>3, <1>4 DEF Guessing
    <2>2. QED
      BY <2>1, OneLess
  <1>6. Cardinality(Guessing(a)') <= Cardinality(Request)
    <2>1. Guessing(a)' \in SUBSET Request
      BY DEF Guessing
    <2>2. QED
      BY <2>1, RequestAssumption, FS_Subset
  <1>7. /\ f \in Code /\ limited[f] \in Nat /\ activation[a].attempts \in Nat /\ f <= minted
        /\ Cardinality(Guessing(a)) \in Nat /\ Cardinality(Request) \in Nat
        /\ limited[f] <= Guesses(a) /\ Guesses(a) \in Nat
    BY <1>1, CountsAreNumbers DEF Numbers, GuessInv, Counted, TypeInv, CodesOK
  <1>8. Guesses(a) + 1 = Guesses(a)'
    BY <1>2, <1>5, <1>7 DEF Guesses
  <1>9. MaxAttempts \in Nat
    BY BoundAssumption
  <1>10. limited[f] + 1 < MaxAttempts + Cardinality(Request)
    BY <1>1, <1>5, <1>6, <1>7, <1>9 DEF Guesses
  <1>11. /\ \A b \in Account : Guesses(b) <= Guesses(b)'
         /\ \A j \in 1..Len(rows) : RowGuesses(j) <= RowGuesses(j)'
    <2>1. Len(rows) <= Len(rows')
      BY <1>2, RowFacts
    <2>2. QED
      BY <1>2, <2>1, GuessesGrow
  <1>12. /\ \A b \in Account : activation[b].code = f => b = a
         /\ \A j \in 1..Len(rows) : rows[j].code # f
    BY <1>1 DEF GuessInv, Apart
  <1>13. \A b \in Account : activation[b].code = f => Guesses(b) + 1 <= Guesses(b)'
    <2>1. Guesses(a) + 1 <= Guesses(a)'
      BY <1>7, <1>8
    <2>2. QED
      BY <1>12, <2>1
  <1> HIDE DEF f
  <1>14. QED
    BY <1>2, <1>7, <1>10, <1>11, <1>12, <1>13, GuessCompares

\* A guess is counted, or the code has served: nobody else notices.
LEMMA CountersStay ==
    ASSUME TypeInv, TypeInv', NEW r \in Request, End(r)
    PROVE  /\ \A a \in Account : a # req[r].account \/ req[r].pc # "guessed"
                                 => Guessing(a)' = Guessing(a)
           /\ \A i \in Nat : i # req[r].row \/ req[r].pc # "judged"
                             => Judging(i)' = Judging(i)
           /\ \A a \in Account : a = req[r].account /\ req[r].pc = "guessed"
                => Cardinality(Guessing(a)') + 1 = Cardinality(Guessing(a))
           /\ \A i \in Nat : i = req[r].row /\ req[r].pc = "judged"
                => Cardinality(Judging(i)') + 1 = Cardinality(Judging(i))
  <1>1. \A s \in Request : req'[s] = IF s = r THEN Idle ELSE req[s]
    BY DEF TypeInv, ReqOK, End
  <1>2. Idle.pc = "idle"
    BY IdleType
  <1>3. ASSUME NEW a \in Account, a # req[r].account \/ req[r].pc # "guessed"
        PROVE  Guessing(a)' = Guessing(a)
    BY <1>1, <1>2, <1>3 DEF Guessing
  <1>4. ASSUME NEW i \in Nat, i # req[r].row \/ req[r].pc # "judged"
        PROVE  Judging(i)' = Judging(i)
    BY <1>1, <1>2, <1>4 DEF Judging
  <1>5. ASSUME NEW a \in Account, a = req[r].account, req[r].pc = "guessed"
        PROVE  Cardinality(Guessing(a)') + 1 = Cardinality(Guessing(a))
    <2>1. /\ Guessing(a) \in SUBSET Request /\ r \in Guessing(a)
          /\ Guessing(a)' = Guessing(a) \ {r}
      BY <1>1, <1>2, <1>5 DEF Guessing
    <2>2. QED
      BY <2>1, OneLess
  <1>6. ASSUME NEW i \in Nat, i = req[r].row, req[r].pc = "judged"
        PROVE  Cardinality(Judging(i)') + 1 = Cardinality(Judging(i))
    <2>1. /\ Judging(i) \in SUBSET Request /\ r \in Judging(i)
          /\ Judging(i)' = Judging(i) \ {r}
      BY <1>1, <1>2, <1>6 DEF Judging
    <2>2. QED
      BY <2>1, OneLess
  <1>7. QED
    BY <1>3, <1>4, <1>5, <1>6

LEMMA JudgedKeepsGuesses ==
    ASSUME TypeInv, TypeInv', GuessInv, NEW r \in Request, Judged(r)
    PROVE  GuessInv'
  <1>1. PICK i \in Nat : i = req[r].row
    BY RecordFacts DEF TypeInv, ReqOK
  <1>2. /\ req[r].pc = "judged" /\ End(r) /\ i \in 1..Len(rows) /\ Len(rows) \in Nat
        /\ UNCHANGED <<activation, minted, limited>> /\ rows \in Seq(Rows) /\ minted \in Nat
    BY <1>1, RowFacts DEF Judged, At, account, TypeInv, ReqOK, Known, ColumnsOK, RestOK
  <1>3. /\ Len(rows') = Len(rows)
        /\ \A j \in 1..Len(rows) : /\ rows'[j].code = rows[j].code
                                   /\ j # i => rows'[j] = rows[j]
        /\ rows'[i].consumed \/ /\ rows'[i].attempts = rows[i].attempts + 1
                                /\ rows'[i].consumed = rows[i].consumed
    <2>1. rows[i] \in Rows
      BY <1>2
    <2>2. CASE rows' = [rows EXCEPT ![i].consumed = TRUE]
      <3> DEFINE e == [rows[i] EXCEPT !.consumed = TRUE]
      <3>1. e.code = rows[i].code /\ e.consumed
        BY <2>1 DEF Rows
      <3>2. rows' = [rows EXCEPT ![i] = e]
        BY <2>2
      <3> HIDE DEF e
      <3>3. QED
        BY <1>2, <3>1, <3>2
    <2>3. CASE rows' = [rows EXCEPT ![i].attempts = @ + 1]
      <3> DEFINE e == [rows[i] EXCEPT !.attempts = @ + 1]
      <3>1. /\ e.code = rows[i].code /\ e.attempts = rows[i].attempts + 1
            /\ e.consumed = rows[i].consumed
        BY <2>1 DEF Rows
      <3>2. rows' = [rows EXCEPT ![i] = e]
        BY <2>3
      <3> HIDE DEF e
      <3>3. QED
        BY <1>2, <3>1, <3>2
    <2>4. QED
      BY <1>1, <2>2, <2>3 DEF Judged
  <1>4. ASSUME NEW a \in Account PROVE Guesses(a) <= Guesses(a)'
    <2>1. Guesses(a) \in Nat
      BY CountsAreNumbers DEF Numbers
    <2>2. Guessing(a)' = Guessing(a)
      BY <1>2, CountersStay
    <2>3. Guesses(a)' = Guesses(a)
      BY <1>2, <2>2 DEF Guesses
    <2>4. QED
      BY <2>1, <2>3
  <1>5. ASSUME NEW j \in 1..Len(rows)
        PROVE  \/ rows[j].consumed \/ rows'[j].consumed
               \/ RowGuesses(j) <= RowGuesses(j)'
    <2>0. j \in Nat /\ rows[j].attempts \in Nat /\ Cardinality(Judging(j)) \in Nat
      <3>1. j \in Nat
        BY <1>2
      <3>2. Cardinality(Judging(j)) \in Nat
        BY <3>1, CountsAreNumbers DEF Numbers
      <3>3. rows[j].attempts \in Nat
        BY CountsAreNumbers DEF Numbers
      <3>4. QED
        BY <3>1, <3>2, <3>3
    <2>1. CASE j # i
      <3>1. Judging(j)' = Judging(j)
        BY <1>1, <1>2, <2>0, <2>1, CountersStay
      <3>2. rows'[j] = rows[j]
        BY <1>3, <2>1
      <3>3. RowGuesses(j) <= RowGuesses(j)'
        BY <2>0, <3>1, <3>2 DEF RowGuesses
      <3>4. QED
        BY <3>3
    <2>2. CASE j = i /\ ~rows'[i].consumed
      <3>1. Cardinality(Judging(j)') + 1 = Cardinality(Judging(j))
        BY <1>1, <1>2, <2>0, <2>2, CountersStay
      <3>2. Cardinality(Judging(j)') \in Nat
        BY <2>0, NumbersNext DEF Numbers
      <3>3. rows'[j].attempts = rows[j].attempts + 1
        BY <1>3, <2>2
      <3>4. RowGuesses(j) <= RowGuesses(j)'
        BY <2>0, <3>1, <3>2, <3>3 DEF RowGuesses
      <3>5. QED
        BY <3>4
    <2>3. QED
      BY <2>1, <2>2
  <1>6. ASSUME NEW j \in 1..Len(rows), rows[j].consumed PROVE rows'[j].consumed
    BY <1>3, <1>6
  <1>7. minted <= minted'
    BY <1>2
  <1>8. QED
    BY <1>2, <1>3, <1>4, <1>5, <1>6, <1>7, GuessFrame

LEMMA CountGuessKeepsGuesses ==
    ASSUME TypeInv, TypeInv', GuessInv, NEW r \in Request, CountGuess(r)
    PROVE  GuessInv'
  <1>1. PICK a \in Account : a = req[r].account
    BY RecordFacts DEF TypeInv, ReqOK
  <1>2. /\ req[r].pc = "guessed" /\ End(r) /\ Len(rows) \in Nat
        /\ UNCHANGED <<rows, minted, limited>> /\ minted \in Nat
        /\ activation \in [Account -> Activations]
    BY <1>1, RowFacts DEF CountGuess, At, TypeInv, ColumnsOK, RestOK
  <1>3. /\ \A b \in Account : b # a => activation'[b] = activation[b]
        /\ activation'[a].code = NoCode
           \/ /\ activation'[a].code = activation[a].code
              /\ activation'[a].attempts = activation[a].attempts + 1
    <2>1. activation[a] \in Activations
      BY <1>2
    <2>2. CASE activation' = [activation EXCEPT ![a] = Activated]
      BY <1>2, <2>2 DEF Activated
    <2>3. CASE activation' = [activation EXCEPT ![a] = [activation[a] EXCEPT !.attempts = @ + 1]]
      <3> DEFINE new == [activation[a] EXCEPT !.attempts = @ + 1]
      <3>1. new.code = activation[a].code /\ new.attempts = activation[a].attempts + 1
        BY <2>1 DEF Activations
      <3> HIDE DEF new
      <3>2. activation' = [activation EXCEPT ![a] = new]
        BY <2>3 DEF new
      <3>3. QED
        BY <1>2, <3>1, <3>2
    <2>4. QED
      BY <1>1, <2>2, <2>3 DEF CountGuess
  <1>4. ASSUME NEW b \in Account
        PROVE  \/ activation'[b].code = NoCode
               \/ /\ activation'[b].code = activation[b].code
                  /\ Guesses(b) <= Guesses(b)'
    <2>0. activation[b].attempts \in Nat /\ Cardinality(Guessing(b)) \in Nat
      BY CountsAreNumbers DEF Numbers
    <2>1. CASE b # a
      <3>1. Guessing(b)' = Guessing(b) /\ activation'[b] = activation[b]
        BY <1>1, <1>2, <1>3, <2>1, CountersStay
      <3>2. Guesses(b) <= Guesses(b)'
        BY <2>0, <3>1 DEF Guesses
      <3>3. QED
        BY <3>1, <3>2
    <2>2. CASE b = a /\ activation'[a].code # NoCode
      <3>1. Cardinality(Guessing(b)') + 1 = Cardinality(Guessing(b))
        BY <1>1, <1>2, <2>2, CountersStay
      <3>2. Cardinality(Guessing(b)') \in Nat
        BY NumbersNext DEF Numbers
      <3>3. /\ activation'[b].code = activation[b].code
            /\ activation'[b].attempts = activation[b].attempts + 1
        BY <1>3, <2>2
      <3>4. Guesses(b) <= Guesses(b)'
        BY <2>0, <3>1, <3>2, <3>3 DEF Guesses
      <3>5. QED
        BY <3>3, <3>4
    <2>3. QED
      BY <2>1, <2>2
  <1>5. ASSUME NEW i \in 1..Len(rows) PROVE RowGuesses(i) <= RowGuesses(i)'
    <2>1. i \in Nat /\ RowGuesses(i) \in Nat
      BY <1>2, CountsAreNumbers DEF Numbers
    <2>2. Judging(i)' = Judging(i)
      BY <1>2, <2>1, CountersStay
    <2>3. RowGuesses(i)' = RowGuesses(i)
      BY <1>2, <2>2 DEF RowGuesses
    <2>4. QED
      BY <2>1, <2>3
  <1>6. /\ Len(rows') = Len(rows) /\ minted <= minted'
        /\ \A i \in 1..Len(rows) : rows'[i].code = rows[i].code
                                   /\ (rows'[i].consumed \/ ~rows[i].consumed)
    BY <1>2
  <1>7. QED
    BY <1>2, <1>4, <1>5, <1>6, GuessFrame

LEMMA TimeKeepsGuesses ==
    ASSUME TypeInv, TypeInv', GuessInv, MinutePasses \/ CodesExpire
    PROVE  GuessInv'
  <1>1. UNCHANGED <<req, minted, limited>> /\ minted \in Nat
    <2>1. minted \in Nat
      BY DEF TypeInv, RestOK
    <2>2. QED
      BY <2>1 DEF MinutePasses, CodesExpire
  <1>2. \A a \in Account : /\ activation'[a].code = activation[a].code
                           /\ activation'[a].attempts = activation[a].attempts
    <2>1. CASE MinutePasses
      BY <2>1 DEF MinutePasses
    <2>2. CASE CodesExpire
      <3>1. \A c \in Activations : /\ [c EXCEPT !.valid = FALSE].code = c.code
                                   /\ [c EXCEPT !.valid = FALSE].attempts = c.attempts
        BY DEF Activations
      <3>2. \A a \in Account : activation[a] \in Activations
        BY DEF TypeInv, ColumnsOK
      <3>3. activation' = [a \in Account |-> [activation[a] EXCEPT !.valid = FALSE]]
        BY <2>2 DEF CodesExpire
      <3>4. QED
        BY <3>1, <3>2, <3>3
    <2>3. QED
      BY <2>1, <2>2
  <1>3. /\ Len(rows') = Len(rows)
        /\ \A i \in 1..Len(rows) : /\ rows'[i].code = rows[i].code
                                   /\ rows'[i].attempts = rows[i].attempts
                                   /\ rows'[i].consumed = rows[i].consumed
    <2>1. CASE MinutePasses
      BY <2>1 DEF MinutePasses
    <2>2. CASE CodesExpire
      <3>1. \A c \in Rows : /\ [c EXCEPT !.valid = FALSE].code = c.code
                            /\ [c EXCEPT !.valid = FALSE].attempts = c.attempts
                            /\ [c EXCEPT !.valid = FALSE].consumed = c.consumed
        BY DEF Rows
      <3>2. /\ DOMAIN rows = 1..Len(rows) /\ \A i \in 1..Len(rows) : rows[i] \in Rows
            /\ Len(rows) \in Nat
        BY DEF TypeInv, ColumnsOK
      <3>3. rows' = [i \in DOMAIN rows |-> [rows[i] EXCEPT !.valid = FALSE]]
        BY <2>2 DEF CodesExpire
      <3>4. DOMAIN rows' = 1..Len(rows) /\ DOMAIN rows' = 1..Len(rows') /\ Len(rows') \in Nat
        BY <3>2, <3>3 DEF TypeInv, ColumnsOK
      <3>5. Len(rows') = Len(rows)
        BY <3>2, <3>4
      <3>6. \A i \in 1..Len(rows) : rows'[i] = [rows[i] EXCEPT !.valid = FALSE]
        BY <3>2, <3>3
      <3>7. QED
        BY <3>1, <3>2, <3>5, <3>6
    <2>3. QED
      BY <2>1, <2>2
  <1>4. /\ \A a \in Account : Guessing(a)' = Guessing(a)
        /\ \A i \in Nat : Judging(i)' = Judging(i)
    BY <1>1 DEF Guessing, Judging
  <1>5. ASSUME NEW a \in Account PROVE Guesses(a) <= Guesses(a)'
    <2>1. Guesses(a) \in Nat
      BY CountsAreNumbers DEF Numbers
    <2>2. Guesses(a)' = Guesses(a)
      BY <1>2, <1>4 DEF Guesses
    <2>3. QED
      BY <2>1, <2>2
  <1>6. ASSUME NEW i \in 1..Len(rows) PROVE RowGuesses(i) <= RowGuesses(i)'
    <2>1. RowGuesses(i) \in Nat
      BY CountsAreNumbers DEF Numbers
    <2>2. i \in Nat
      BY RowFacts
    <2>3. RowGuesses(i)' = RowGuesses(i)
      BY <1>3, <1>4, <2>2 DEF RowGuesses
    <2>4. QED
      BY <2>1, <2>3
  <1>7. minted <= minted'
    BY <1>1
  <1>8. QED
    BY <1>1, <1>2, <1>3, <1>5, <1>6, <1>7, GuessFrame

LEMMA InitGuesses == Init => GuessInv
  <1> SUFFICES ASSUME Init PROVE GuessInv
    OBVIOUS
  <1>1. TypeInv
    BY InitTypes
  <1>2. rows = << >> /\ Len(rows) = 0 /\ \A c \in Code : limited[c] = 0
    BY DEF Init
  <1>3. \A a \in Account : a # Newcomer => activation[a].code = NoCode
    BY DEF Init, Activated
  <1>4. Apart
    BY <1>2, <1>3 DEF Apart
  <1>5. Counted
    <2>1. ASSUME NEW a \in Account, activation[a].code # NoCode
          PROVE  limited[activation[a].code] <= Guesses(a)
      <3>1. activation[a].code \in Code /\ Guesses(a) \in Nat
        BY <1>1, <2>1, CountsAreNumbers DEF Numbers
      <3>2. QED
        BY <1>2, <3>1
    <2>2. QED
      BY <1>2, <2>1 DEF Counted
  <1>6. GuessesBounded
    <2>1. MaxAttempts \in Nat \ {0} /\ Cardinality(Request) \in Nat
      BY <1>1, BoundAssumption, CountsAreNumbers DEF Numbers
    <2>2. QED
      BY <1>2, <2>1 DEF GuessesBounded
  <1>7. QED
    BY <1>4, <1>5, <1>6 DEF GuessInv

LEMMA StepGuesses == TypeInv /\ TypeInv' /\ GuessInv /\ [Next]_vars => GuessInv'
  <1> SUFFICES ASSUME TypeInv, TypeInv', GuessInv, [Next]_vars PROVE GuessInv'
    OBVIOUS
  <1>1. ASSUME NEW r \in Request, Begin(r) \/ Continue(r) PROVE GuessInv'
    BY <1>1, ChangeKeepsGuesses, RequestCodeKeepsGuesses, RenewKeepsGuesses,
       VerifyCodeKeepsGuesses, ActivateKeepsGuesses, JudgedKeepsGuesses,
       CountGuessKeepsGuesses DEF Begin, Continue
  <1>2. CASE MinutePasses \/ CodesExpire
    BY <1>2, TimeKeepsGuesses
  <1>3. CASE UNCHANGED vars
    BY <1>3 DEF vars, account, GuessInv, Apart, Counted, GuessesBounded, Guesses, RowGuesses,
                Guessing, Judging
  <1>4. QED
    BY <1>1, <1>2, <1>3 DEF Next

\* Where guesses are limited, no code is compared with more than are allowed and one
\* for each other request that was past the count, however requests interleave
\* between the comparison and the count: for codes of visitors and of new accounts
\* alike (VerificationService.verifyCode, AuthService.verifyAccountByCode).
THEOREM GuessesStayBounded == Spec => []GuessesBounded
  <1>1. GuessInv => GuessesBounded
    BY DEF GuessInv
  <1>2. QED
    BY <1>1, InitGuesses, StepGuesses, Types, PTL DEF Spec

=============================================================================
