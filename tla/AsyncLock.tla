------------------------------ MODULE AsyncLock ------------------------------
(***************************************************************************)
(* withLock of utils/asyncLock.util.ts: a per-key mutex made of a chain of *)
(* promises.  A call is a caller's withLock(key, fn) with the promises it  *)
(* makes: "result" (prior.then(fn)) and "settled" (result with its outcome *)
(* swallowed).  The steps of a call are the callbacks the event loop runs; *)
(* other calls may arrive between any two of them.                         *)
(***************************************************************************)
EXTENDS Integers

CONSTANTS Calls,  \* the calls of withLock, each with promises of its own
          Keys,
          NoCall  \* no entry in the map; the promise already resolved

ASSUME NoCallAssumption == NoCall \notin Calls \cup Keys

VARIABLES chains,   \* the map: the call whose settled promise ends the chain
          key,      \* the key each call was made with
          prior,    \* the promise its fn was attached to
          state,    \* how far the call's promises have come
          failed,   \* whether fn rejected
          ticket,   \* history: the order of arrival
          arrivals  \* history: calls made so far

lockVars == <<chains, key, prior, state, failed, ticket, arrivals>>

States == {"new", "pending", "running", "done", "settled", "dropped"}

\* A call that has arrived and whose fn has not ended.
Unfinished(c) == state[c] \in {"pending", "running"}

\* A promise that has settled: its then-callbacks may run.
Settled(p) == p # NoCall => state[p] \in {"settled", "dropped"}

LockTypeOK ==
    /\ chains \in [Keys -> Calls \cup {NoCall}]
    /\ key \in [Calls -> Keys \cup {NoCall}]
    /\ prior \in [Calls -> Calls \cup {NoCall}]
    /\ state \in [Calls -> States]
    /\ failed \in [Calls -> BOOLEAN]
    /\ ticket \in [Calls -> Nat]
    /\ arrivals \in Nat

LockInit ==
    /\ chains = [k \in Keys |-> NoCall]
    /\ key = [c \in Calls |-> NoCall]
    /\ prior = [c \in Calls |-> NoCall]
    /\ state = [c \in Calls |-> "new"]
    /\ failed = [c \in Calls |-> FALSE]
    /\ ticket = [c \in Calls |-> 0]
    /\ arrivals = 0

\* withLock(k, fn): attach fn to the end of the chain, become its end.
WithLock(c, k) ==
    /\ state[c] = "new"
    /\ prior' = [prior EXCEPT ![c] = chains[k]]
    /\ chains' = [chains EXCEPT ![k] = c]
    /\ key' = [key EXCEPT ![c] = k]
    /\ state' = [state EXCEPT ![c] = "pending"]
    /\ ticket' = [ticket EXCEPT ![c] = arrivals]
    /\ arrivals' = arrivals + 1
    /\ UNCHANGED failed

\* prior.then(fn): fn starts once the promise before it has settled.
Run(c) ==
    /\ state[c] = "pending"
    /\ Settled(prior[c])
    /\ state' = [state EXCEPT ![c] = "running"]
    /\ UNCHANGED <<chains, key, prior, failed, ticket, arrivals>>

\* fn's promise resolves or rejects.
Finish(c) ==
    /\ state[c] = "running"
    /\ state' = [state EXCEPT ![c] = "done"]
    /\ \E f \in BOOLEAN : failed' = [failed EXCEPT ![c] = f]
    /\ UNCHANGED <<chains, key, prior, ticket, arrivals>>

\* A slip: only a fulfilled result settles the chain.
SettleFulfilled(c) ==
    /\ state[c] = "done"
    /\ ~failed[c]
    /\ state' = [state EXCEPT ![c] = "settled"]
    /\ UNCHANGED <<chains, key, prior, failed, ticket, arrivals>>

\* result.then(swallow, swallow): the outcome never reaches the chain.
Settle(c) ==
    /\ state[c] = "done"
    /\ state' = [state EXCEPT ![c] = "settled"]
    /\ UNCHANGED <<chains, key, prior, failed, ticket, arrivals>>

\* A slip: the entry is deleted without looking whether it is still ours.
DropAlways(c) ==
    /\ state[c] = "settled"
    /\ state' = [state EXCEPT ![c] = "dropped"]
    /\ chains' = [chains EXCEPT ![key[c]] = NoCall]
    /\ UNCHANGED <<key, prior, failed, ticket, arrivals>>

\* A slip: the entry is never deleted.
DropNever(c) ==
    /\ state[c] = "settled"
    /\ state' = [state EXCEPT ![c] = "dropped"]
    /\ UNCHANGED <<chains, key, prior, failed, ticket, arrivals>>

\* settled.finally: the map forgets the key unless a later call is its end.
Drop(c) ==
    /\ state[c] = "settled"
    /\ state' = [state EXCEPT ![c] = "dropped"]
    /\ chains' = IF chains[key[c]] = c THEN [chains EXCEPT ![key[c]] = NoCall] ELSE chains
    /\ UNCHANGED <<key, prior, failed, ticket, arrivals>>

LockNext ==
    \E c \in Calls :
        (\E k \in Keys : WithLock(c, k)) \/ Run(c) \/ Finish(c) \/ Settle(c) \/ Drop(c)

LockSpec == LockInit /\ [][LockNext]_lockVars

\* The event loop runs every callback that is due, and every fn ends.
Fairness == \A c \in Calls : WF_lockVars(Run(c) \/ Finish(c) \/ Settle(c) \/ Drop(c))

FairSpec == LockSpec /\ Fairness

-----------------------------------------------------------------------------
\* "Calls for the SAME key run strictly one at a time" (asyncLock.util.ts).
MutualExclusion ==
    \A c, d \in Calls :
        state[c] = "running" /\ state[d] = "running" /\ key[c] = key[d] => c = d

\* The map keeps no key longer than the calls made with it.
NoLeak ==
    \A k \in Keys : chains[k] # NoCall =>
        key[chains[k]] = k /\ state[chains[k]] \notin {"new", "dropped"}

\* Every call runs and ends, also behind calls whose fn rejected.
EveryCallEnds == \A c \in Calls : state[c] = "pending" ~> state[c] = "dropped"

\* Calls that arrived for one key before c, and have not ended.
Ahead(c) == {d \in Calls : Unfinished(d) /\ key[d] = key[c] /\ ticket[d] < ticket[c]}

\* Arrivals are numbered in order, each once; calls that have arrived have a key.
TicketsInOrder ==
    \A c \in Calls : state[c] # "new" =>
        /\ key[c] \in Keys
        /\ ticket[c] < arrivals
        /\ \A d \in Calls \ {c} : state[d] # "new" => ticket[d] # ticket[c]

\* A call starts when those before it have ended, and none comes before it after.
StartedInTurn ==
    \A c \in Calls : state[c] \notin {"new", "pending"} => Ahead(c) = {}

\* The promise a waiting call is attached to is that of the last call before it.
PriorIsLast ==
    \A c \in Calls : state[c] = "pending" =>
        \A d \in Ahead(c) :
            /\ prior[c] # NoCall
            /\ state[prior[c]] # "new"
            /\ key[prior[c]] = key[c]
            /\ ticket[d] <= ticket[prior[c]]
            /\ ticket[prior[c]] < ticket[c]

\* It is that of a call for the same key that came before.
PriorBefore ==
    \A c \in Calls : state[c] = "pending" /\ prior[c] # NoCall =>
        /\ state[prior[c]] # "new"
        /\ key[prior[c]] = key[c]
        /\ ticket[prior[c]] < ticket[c]

\* The map's entry is the last call that arrived for its key.
ChainEndsLast ==
    \A k \in Keys : \A c \in Calls :
        Unfinished(c) /\ key[c] = k =>
            /\ chains[k] # NoCall
            /\ state[chains[k]] # "new"
            /\ ticket[c] <= ticket[chains[k]]

\* The inductive invariant.
LockInv ==
    /\ TicketsInOrder
    /\ StartedInTurn
    /\ PriorIsLast
    /\ PriorBefore
    /\ ChainEndsLast
    /\ NoLeak

\* A callback that lets the chain go on is due, or the function is at work.
Due(c) ==
    \/ state[c] \in {"running", "done"}
    \/ state[c] = "pending" /\ Settled(prior[c])

\* Nobody waits for nothing: it is a waiting call's own turn, or that of one for
\* its key that came before ("what stops one caller's rejection from wedging every
\* later caller", asyncLock.util.ts).
NobodyStuck ==
    \A c \in Calls : state[c] = "pending" =>
        \E d \in Calls : key[d] = key[c] /\ ticket[d] <= ticket[c] /\ Due(d)

\* The chain of promises, as its callers see it.
Abstract == INSTANCE FifoLock WITH
    None <- NoCall,
    place <- [c \in Calls |->
                CASE state[c] = "new"     -> "out"
                  [] state[c] = "pending" -> "waiting"
                  [] state[c] = "running" -> "inside"
                  [] OTHER                -> "gone"],
    ahead <- [c \in Calls |-> IF state[c] = "pending" THEN Ahead(c) ELSE {}]

\* The promise chain implements the per-key lock.
ImplementsFifoLock == Abstract!Spec
=============================================================================
