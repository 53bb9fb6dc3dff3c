--------------------------- MODULE SSHConnection ---------------------------
(***************************************************************************)
(* connect() of overlay/remote-ssh/src/ssh/sshConnection.ts: the memoized  *)
(* promise, the ssh2 Client behind it, and the reconnection on 'close'.    *)
(*                                                                         *)
(* The n-th promise that connect() creates and the Client it makes are     *)
(* both named n.  exec, shell, forwardOut and a tunnel's 'connection'      *)
(* handler all start with connect().then(...) and use this.sshConnection   *)
(* when the promise has been fulfilled; each is a use.                     *)
(***************************************************************************)
EXTENDS Integers, FiniteSets

CONSTANTS
    Use,              \* the calls that go through connect()
    ReconnectTries,   \* config.reconnectTries
    MaxPromises,      \* bound: promises (and Clients) created
    None

ASSUME NumberAssumption == ReconnectTries \in Nat /\ MaxPromises \in Nat \ {0}
ASSUME NoneAssumption == None \notin Nat

VARIABLES
    reconnect, \* config.reconnect; the extension leaves it at its default, false
    slot,      \* __$connectPromise
    promise,   \* promise[n]: its state
    follows,   \* follows[n]: the promise it was resolved with, while pending
    client,    \* client[n]: the life of the n-th ssh2 Client
    made,      \* promises created; sshConnection is Client number made
    timer,     \* the promises whose 'close' handler waits reconnectDelay
    retries,   \* __retries
    err,       \* __err
    use,       \* use[u]: what became of a use
    awaited,   \* awaited[u]: the promise it awaits
    streak     \* auxiliary: Clients made since one became ready

vars == <<reconnect, slot, promise, follows, client, made, timer, retries, err, use, awaited, streak>>

Promise == 1..MaxPromises
Error == {"auth", "dns", "network"}
Live == {"connecting", "ready", "failing"}
Pending(n) == promise[n] = "pending"

TypeOK ==
    /\ reconnect \in BOOLEAN
    /\ slot \in Promise \cup {None}
    /\ promise \in [Promise -> {"none", "pending", "following", "fulfilled", "rejected"}]
    /\ follows \in [Promise -> Promise \cup {None}]
    /\ client \in [Promise -> {"none", "closed"} \cup Live]
    /\ made \in 0..MaxPromises
    /\ timer \subseteq Promise
    /\ retries \in Nat
    /\ err \in Error \cup {None}
    /\ use \in [Use -> {"idle", "waiting", "served", "not connected", "failed"}]
    /\ awaited \in [Use -> Promise \cup {None}]
    /\ streak \in 0..MaxPromises

Init ==
    /\ reconnect \in BOOLEAN
    /\ slot = None
    /\ promise = [n \in Promise |-> "none"]
    /\ follows = [n \in Promise |-> None]
    /\ client = [n \in Promise |-> "none"]
    /\ made = 0
    /\ timer = {}
    /\ retries = 0
    /\ err = None
    /\ use = [u \in Use |-> "idle"]
    /\ awaited = [u \in Use |-> None]
    /\ streak = 0

-----------------------------------------------------------------------------
(* connect() *)

\* No promise to share: a new one, and a new Client in this.sshConnection.
NewPromise(n) ==
    /\ n = made + 1
    /\ n \in Promise
    /\ made' = n
    /\ slot' = n
    /\ client' = [client EXCEPT ![n] = "connecting"]
    /\ streak' = streak + 1

Connect(u) ==
    /\ use[u] = "idle"
    /\ use' = [use EXCEPT ![u] = "waiting"]
    /\ retries' = retries + 1
    /\ \/ /\ slot # None
          /\ awaited' = [awaited EXCEPT ![u] = slot]
          /\ UNCHANGED <<reconnect, slot, promise, client, made, streak>>
       \/ /\ slot = None
          /\ NewPromise(made + 1)
          /\ promise' = [promise EXCEPT ![made'] = "pending"]
          /\ awaited' = [awaited EXCEPT ![u] = made']
    /\ UNCHANGED <<reconnect, follows, timer, err>>

\* The continuation of a use: a Client whose socket is gone throws.
Settle(u) ==
    /\ use[u] = "waiting"
    /\ \/ /\ promise[awaited[u]] = "fulfilled"
          /\ use' = [use EXCEPT ![u] = IF client[made] = "ready" THEN "served"
                                                                 ELSE "not connected"]
       \/ /\ promise[awaited[u]] = "rejected"
          /\ use' = [use EXCEPT ![u] = "failed"]
    /\ UNCHANGED <<reconnect, follows, slot, promise, client, made, timer, retries, err, awaited, streak>>

\* A promise resolved with another one takes its outcome.
Adopt(n) ==
    /\ promise[n] = "following"
    /\ promise[follows[n]] \in {"fulfilled", "rejected"}
    /\ promise' = [promise EXCEPT ![n] = promise[follows[n]]]
    /\ UNCHANGED <<reconnect, follows, slot, client, made, timer, retries, err, use, awaited, streak>>

-----------------------------------------------------------------------------
(* The events of the Client *)

Ready(n) ==
    /\ client[n] = "connecting"
    /\ client' = [client EXCEPT ![n] = "ready"]
    /\ retries' = 0
    /\ err' = None
    /\ streak' = 0
    /\ promise' = [promise EXCEPT ![n] = IF Pending(n) THEN "fulfilled" ELSE @]
    /\ UNCHANGED <<reconnect, follows, slot, made, timer, use, awaited>>

\* Variant: the error's level is kept instead of its kind.
FailWithLevel(n, e) ==
    /\ client[n] \in {"connecting", "ready", "failing"}
    /\ client' = [client EXCEPT ![n] = "failing"]
    /\ err' = IF e = "network" THEN "client-socket" ELSE e
    /\ UNCHANGED <<reconnect, follows, slot, promise, made, timer, retries, use, awaited, streak>>

\* 'error'.  Name lookup and authentication fail before 'ready' only; a
\* socket error may follow any other.
Fail(n, e) ==
    /\ \/ client[n] = "connecting"
       \/ client[n] \in {"ready", "failing"} /\ e = "network"
    /\ client' = [client EXCEPT ![n] = "failing"]
    /\ err' = e
    /\ UNCHANGED <<reconnect, follows, slot, promise, made, timer, retries, use, awaited, streak>>

\* Variant: the budget is not looked at.
RetriableForEver == reconnect /\ err = "network"

Retriable == reconnect /\ retries <= ReconnectTries /\ err = "network"

\* Variant: the slot is cleared by 'close' instead of by the timer.
ClosedCleared(n) ==
    /\ client[n] \in Live
    /\ client' = [client EXCEPT ![n] = "closed"]
    /\ slot' = None
    /\ IF Retriable
         THEN timer' = timer \cup {n} /\ UNCHANGED promise
         ELSE /\ promise' = [promise EXCEPT ![n] = IF Pending(n) THEN "rejected" ELSE @]
              /\ UNCHANGED timer
    /\ UNCHANGED <<reconnect, follows, made, retries, err, use, awaited, streak>>

\* Variant: a promise that gives up is left as it is.
ClosedUnsettled(n) ==
    /\ client[n] \in Live
    /\ client' = [client EXCEPT ![n] = "closed"]
    /\ timer' = IF Retriable THEN timer \cup {n} ELSE timer
    /\ UNCHANGED <<reconnect, follows, slot, promise, made, retries, err, use, awaited, streak>>

\* 'close', after an error or without one (the peer hung up, or end() was
\* called).  reject does nothing to a promise that is settled.
Closed(n) ==
    /\ client[n] \in Live
    /\ client' = [client EXCEPT ![n] = "closed"]
    /\ IF Retriable
         THEN timer' = timer \cup {n} /\ UNCHANGED promise
         ELSE /\ promise' = [promise EXCEPT ![n] = IF Pending(n) THEN "rejected" ELSE @]
              /\ UNCHANGED timer
    /\ UNCHANGED <<reconnect, follows, slot, made, retries, err, use, awaited, streak>>

\* The reconnect timer: a new promise, which the old one follows if it is
\* still pending.
Again(n) ==
    /\ n \in timer
    /\ timer' = timer \ {n}
    /\ retries' = retries + 1
    /\ NewPromise(made + 1)
    /\ promise' = [promise EXCEPT ![made'] = "pending",
                                  ![n] = IF Pending(n) THEN "following" ELSE @]
    /\ follows' = [follows EXCEPT ![n] = IF Pending(n) THEN made' ELSE @]
    /\ UNCHANGED <<reconnect, err, use, awaited>>

-----------------------------------------------------------------------------

\* Bound: nothing that leads to a reconnection once the promises are used up.
Bound == made < MaxPromises \/ ~reconnect

Event(n) ==
    \/ Ready(n)
    \/ (Bound \/ ~Retriable) /\ Closed(n)
    \/ Bound /\ \E e \in Error : Fail(n, e)

Next ==
    \/ \E u \in Use : Connect(u) \/ Settle(u)
    \/ \E n \in Promise : Adopt(n) \/ Again(n) \/ Event(n)

Spec == Init /\ [][Next]_vars

\* ssh2 ends every handshake: it succeeds, fails, or runs into readyTimeout.
\* An error is followed by 'close'; timers fire and continuations run.
Fairness ==
    /\ \A u \in Use : WF_vars(Settle(u))
    /\ \A n \in Promise :
          /\ WF_vars(Adopt(n))
          /\ WF_vars(Again(n))
          /\ WF_vars(client[n] \in {"connecting", "failing"} /\ Event(n))
          /\ WF_vars(client[n] = "failing" /\ Closed(n))

FairSpec == Spec /\ Fairness

-----------------------------------------------------------------------------
(* Properties *)

\* One connection at a time: the shared promise keeps uses, reconnections and
\* the reconnect delay from opening a second one (lines 218-220, 254-258).
OneLiveClient ==
    \A m, n \in Promise : client[m] \in Live /\ client[n] \in Live => m = n

\* At most reconnectTries reconnections in a row, however many calls of
\* connect() come in between (lines 216 and 254).
BudgetKept == streak <= ReconnectTries + 1

\* Every use gets an answer, also one that came during the reconnect delay.
EveryUseSettles == \A u \in Use : use[u] = "waiting" ~> use[u] # "waiting"
=============================================================================
