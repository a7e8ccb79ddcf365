--------------------------- MODULE LockedCredentials ---------------------------
(***************************************************************************)
(* The requests of Credentials with the lock they really take: what        *)
(* Credentials has queue until the user's lock is Free calls withLock here *)
(* (withUserCredentialsLock), and goes on inside the function it passed.   *)
(* Other users' requests share the map of chains and its callbacks.        *)
(***************************************************************************)
EXTENDS Credentials, AsyncLock

CONSTANT User   \* the key of this account, one of Keys

VARIABLE call   \* the call of withLock each request has made last

lockedVars == <<vars, lockVars, call>>

LockedInit == Init /\ LockInit /\ call = [r \in Requests |-> NoCall]

Queued(r) == request[r].phase = "queued"

\* The function passed to withLock has not returned.
InLock(r) == Queued(r) \/ Holds(r)

\* A step of a request.  One that comes to the lock calls withLock at once; one
\* that is queued there goes on when its function has been called.
Serve(r) ==
    /\ Step(r)
    /\ Queued(r) => state[call[r]] = "running"
    /\ IF Queued(r)' /\ ~Queued(r)
       THEN \E c \in Calls : WithLock(c, User) /\ call' = [call EXCEPT ![r] = c]
       ELSE UNCHANGED <<lockVars, call>>

\* A step of the chains: other users call and finish as they like, a function of
\* this user's returns when its request is through.
Chain(c) ==
    /\ \/ \E k \in Keys \ {User} : WithLock(c, k)
       \/ Run(c) \/ Settle(c) \/ Drop(c)
       \/ Finish(c) /\ \A r \in Requests : InLock(r) => call[r] # c
    /\ UNCHANGED <<vars, call>>

\* Rows that go away ask nobody.
DeleteRows ==
    /\ RevokeTrustedDevices \/ \E t \in Tokens : Delete(t)
    /\ UNCHANGED <<lockVars, call>>

\* The map is in the memory of the process, and goes with it.
Restart ==
    /\ Crash
    /\ chains' = [k \in Keys |-> NoCall]
    /\ key' = [c \in Calls |-> NoCall] /\ prior' = [c \in Calls |-> NoCall]
    /\ state' = [c \in Calls |-> "new"] /\ failed' = [c \in Calls |-> FALSE]
    /\ ticket' = [c \in Calls |-> 0] /\ arrivals' = 0
    /\ call' = [r \in Requests |-> NoCall]

LockedNext ==
    (\E r \in Requests : Serve(r)) \/ (\E c \in Calls : Chain(c)) \/ DeleteRows \/ Restart

LockedSpec == LockedInit /\ [][LockedNext]_lockedVars

-----------------------------------------------------------------------------
\* A request in the lock has a call of its own for the user's key, and that call
\* is running once the request is past the queue.
CallsOK ==
    /\ call \in [Requests -> Calls \cup {NoCall}]
    /\ \A r \in Requests : InLock(r) =>
          /\ call[r] \in Calls /\ key[call[r]] = User
          /\ state[call[r]] \in IF Queued(r) THEN {"pending", "running"} ELSE {"running"}
          /\ \A q \in Requests \ {r} : InLock(q) => call[q] # call[r]
=============================================================================
