------------------------ MODULE SSHConnectionProofs ------------------------
(***************************************************************************)
(* Proofs about SSHConnection, for any number of uses, any value of        *)
(* reconnectTries and any bound on the promises.                           *)
(*                                                                         *)
(* OneLiveClient is not inductive: a new Client is made without a look at  *)
(* the previous one.  What keeps them apart is when a new one is made: the *)
(* first when there is none, any other by the timer of the newest Client,  *)
(* which has closed (Newest).  BudgetKept needs that what connect() adds   *)
(* to the count only brings the end of the reconnections nearer (Counted). *)
(* UsesAreAttended is the part of EveryUseSettles that is a matter of      *)
(* states: whoever waits, waits for something that will happen (Links).    *)
(***************************************************************************)
EXTENDS SSHConnection, WellFoundedInduction, NaturalsInduction, TLAPS

-----------------------------------------------------------------------------
(* Types *)

\* The counters; a row of Clients that failed is not longer than the Clients made.
Numbers ==
  /\ made \in Nat /\ made <= MaxPromises
  /\ retries \in Nat
  /\ streak \in Nat /\ streak <= made

\* The rest of the type invariant.
Shapes ==
  /\ reconnect \in BOOLEAN
  /\ slot \in Promise \cup {None}
  /\ promise \in [Promise -> {"none", "pending", "following", "fulfilled", "rejected"}]
  /\ follows \in [Promise -> Promise \cup {None}]
  /\ client \in [Promise -> {"none", "closed"} \cup Live]
  /\ timer \subseteq Promise
  /\ err \in Error \cup {None}
  /\ use \in [Use -> {"idle", "waiting", "served", "not connected", "failed"}]
  /\ awaited \in [Use -> Promise \cup {None}]

TypeInv == Shapes /\ Numbers

LEMMA InitTypeInv == Init => TypeInv
<1>1. Init => Numbers
  BY NumberAssumption DEF Init, Numbers
<1>2. Init => Shapes
  BY DEF Init, Shapes
<1>3. QED
  BY <1>1, <1>2 DEF TypeInv

LEMMA NewPromiseType ==
  ASSUME TypeInv, NewPromise(made + 1), retries' \in Nat
  PROVE  /\ made' \in Promise /\ slot' = made'
         /\ client' \in [Promise -> {"none", "closed"} \cup Live]
         /\ Numbers'
<1>1. made' \in Promise /\ slot' = made'
  BY DEF NewPromise
<1>2. client' \in [Promise -> {"none", "closed"} \cup Live]
  BY DEF NewPromise, TypeInv, Shapes, Live
<1>3. made' = made + 1 /\ streak' = streak + 1 /\ made + 1 \in Promise
  BY DEF NewPromise
<1>4. made' <= MaxPromises
  BY <1>3, NumberAssumption DEF Promise, TypeInv, Numbers
<1>5. Numbers'
  BY <1>3, <1>4 DEF TypeInv, Numbers
<1>6. QED
  BY <1>1, <1>2, <1>5

LEMMA UseTypeInv ==
  ASSUME TypeInv, NEW u \in Use, Connect(u) \/ Settle(u)
  PROVE  TypeInv'
<1>1. CASE Connect(u)
  <2>1. /\ UNCHANGED <<reconnect, follows, timer, err>>
        /\ use' \in [Use -> {"idle", "waiting", "served", "not connected", "failed"}]
    BY <1>1 DEF TypeInv, Shapes, Connect
  <2>2. retries' = retries + 1 /\ retries' \in Nat
    BY <1>1 DEF TypeInv, Numbers, Connect
  <2>3. CASE slot # None
    <3>1. /\ slot' = slot /\ promise' = promise /\ client' = client
          /\ awaited' = [awaited EXCEPT ![u] = slot]
          /\ made' = made /\ streak' = streak
      BY <1>1, <2>3 DEF Connect
    <3>2. Numbers'
      BY <2>2, <3>1 DEF TypeInv, Numbers
    <3>3. Shapes'
      BY <2>1, <3>1 DEF TypeInv, Shapes
    <3>4. QED
      BY <3>2, <3>3 DEF TypeInv
  <2>4. CASE slot = None
    <3>1. /\ NewPromise(made + 1)
          /\ promise' = [promise EXCEPT ![made'] = "pending"]
          /\ awaited' = [awaited EXCEPT ![u] = made']
      BY <1>1, <2>4 DEF Connect
    <3>2. Shapes'
      BY <2>1, <2>2, <3>1, NewPromiseType DEF TypeInv, Shapes
    <3>3. QED
      BY <2>2, <3>1, <3>2, NewPromiseType DEF TypeInv
  <2>5. QED
    BY <2>3, <2>4
<1>2. CASE Settle(u)
  <2>1. Numbers'
    BY <1>2 DEF TypeInv, Numbers, Settle
  <2>2. Shapes'
    BY <1>2 DEF TypeInv, Shapes, Settle
  <2>3. QED
    BY <2>1, <2>2 DEF TypeInv
<1>3. QED
  BY <1>1, <1>2

LEMMA PromiseTypeInv ==
  ASSUME TypeInv, NEW n \in Promise, Adopt(n) \/ Again(n)
  PROVE  TypeInv'
<1>1. CASE Adopt(n)
  <2>1. Numbers'
    BY <1>1 DEF TypeInv, Numbers, Adopt
  <2>2. Shapes'
    BY <1>1 DEF TypeInv, Shapes, Adopt
  <2>3. QED
    BY <2>1, <2>2 DEF TypeInv
<1>2. CASE Again(n)
  <2>1. NewPromise(made + 1) /\ UNCHANGED <<reconnect, err, use, awaited>>
    BY <1>2 DEF Again
  <2>2. retries' \in Nat
    BY <1>2 DEF TypeInv, Numbers, Again
  <2>3. /\ promise' \in [Promise -> {"none", "pending", "following", "fulfilled", "rejected"}]
        /\ follows' \in [Promise -> Promise \cup {None}]
    BY <1>2, <2>1, <2>2, NewPromiseType DEF TypeInv, Shapes, Again
  <2>4. timer' \subseteq Promise
    BY <1>2 DEF TypeInv, Shapes, Again
  <2>5. Shapes'
    BY <2>1, <2>2, <2>3, <2>4, NewPromiseType DEF TypeInv, Shapes
  <2>6. QED
    BY <2>1, <2>2, <2>5, NewPromiseType DEF TypeInv
<1>3. QED
  BY <1>1, <1>2

LEMMA EventTypeInv ==
  ASSUME TypeInv, NEW n \in Promise, Event(n)
  PROVE  TypeInv'
<1>1. CASE Ready(n)
  <2>1. Numbers'
    BY <1>1 DEF TypeInv, Numbers, Ready
  <2>2. Shapes'
    BY <1>1 DEF TypeInv, Shapes, Ready, Live
  <2>3. QED
    BY <2>1, <2>2 DEF TypeInv
<1>2. CASE Closed(n)
  <2>1. Numbers'
    BY <1>2 DEF TypeInv, Numbers, Closed
  <2>2. Shapes'
    BY <1>2 DEF TypeInv, Shapes, Closed
  <2>3. QED
    BY <2>1, <2>2 DEF TypeInv
<1>3. ASSUME NEW e \in Error, Fail(n, e)
      PROVE  TypeInv'
  <2>1. Numbers'
    BY <1>3 DEF TypeInv, Numbers, Fail
  <2>2. Shapes'
    BY <1>3 DEF TypeInv, Shapes, Fail, Live
  <2>3. QED
    BY <2>1, <2>2 DEF TypeInv
<1>4. QED
  BY <1>1, <1>2, <1>3 DEF Event

LEMMA NextTypeInv ==
  ASSUME TypeInv, [Next]_vars
  PROVE  TypeInv'
<1>1. CASE UNCHANGED vars
  BY <1>1 DEF TypeInv, Shapes, Numbers, vars
<1>2. QED
  BY <1>1, UseTypeInv, PromiseTypeInv, EventTypeInv DEF Next

LEMMA TypeInvariant == Spec => []TypeInv
<1>1. TypeInv /\ [Next]_vars => TypeInv'
  BY NextTypeInv
<1>2. QED
  BY <1>1, InitTypeInv, PTL DEF Spec

\* Every variable of a connection keeps its type: a use waits for a promise that
\* was made, and a promise follows one that was made.
THEOREM TypeCorrect == Spec => []TypeOK
<1>1. TypeInv => made \in 0..MaxPromises /\ streak \in 0..MaxPromises
  BY NumberAssumption DEF TypeInv, Numbers
<1>2. TypeInv => TypeOK
  BY <1>1 DEF TypeInv, Shapes, Numbers, TypeOK
<1>3. QED
  BY <1>2, TypeInvariant, PTL

-----------------------------------------------------------------------------
(* One Client at a time *)

\* Only the newest Client may be live, and a 'close' handler that waits for its
\* timer is the handler of the newest Client.
Newest ==
  /\ slot = None => made = 0
  /\ \A n \in Promise : client[n] \in Live => n = made
  /\ \A n \in timer : n = made /\ client[n] = "closed"

LEMMA ZeroIsNoPromise == 0 \notin Promise
  BY NumberAssumption DEF Promise

LEMMA NoneIsNoPromise == None \notin Promise
  BY NumberAssumption, NoneAssumption DEF Promise

LEMMA ConnectNewest ==
  ASSUME TypeInv, Newest, NEW u \in Use, Connect(u)
  PROVE  Newest'
<1>1. CASE slot # None
  BY <1>1 DEF Newest, Connect
<1>2. CASE slot = None
  <2>1. made = 0 /\ NewPromise(made + 1) /\ timer' = timer
    BY <1>2 DEF Newest, Connect
  <2>2. timer = {} /\ \A n \in Promise : client[n] \notin Live
    BY <2>1, ZeroIsNoPromise DEF Newest, TypeInv, Shapes
  <2>3. \A n \in Promise \ {made'} : client'[n] = client[n]
    BY <2>1 DEF NewPromise, TypeInv, Shapes
  <2>4. slot' # None
    BY <2>1, NoneIsNoPromise DEF NewPromise
  <2>5. QED
    BY <2>1, <2>2, <2>3, <2>4 DEF Newest
<1>3. QED
  BY <1>1, <1>2

LEMMA AgainNewest ==
  ASSUME TypeInv, Newest, NEW n \in Promise, Again(n)
  PROVE  Newest'
<1>1. n = made /\ client[n] = "closed" /\ timer' = {} /\ NewPromise(made + 1)
  BY DEF Again, Newest
<1>2. \A m \in Promise : client[m] \notin Live
  BY <1>1 DEF Newest, Live
<1>3. \A m \in Promise \ {made'} : client'[m] = client[m]
  BY <1>1 DEF NewPromise, TypeInv, Shapes
<1>4. slot' # None
  BY <1>1, NoneIsNoPromise DEF NewPromise
<1>5. QED
  BY <1>1, <1>2, <1>3, <1>4 DEF Newest

LEMMA EventNewest ==
  ASSUME TypeInv, Newest, NEW n \in Promise, Event(n)
  PROVE  Newest'
<1>1. n = made /\ client[n] \in Live /\ slot' = slot /\ made' = made
  BY DEF Event, Ready, Closed, Fail, Newest, Live
<1>2. timer = {}
  BY <1>1 DEF Newest, Live
<1>3. timer' \subseteq {n} /\ (timer' # {} => client'[n] = "closed")
  BY <1>2 DEF Event, Ready, Closed, Fail, TypeInv, Shapes
<1>4. \A m \in Promise \ {n} : client'[m] = client[m]
  BY DEF Event, Ready, Closed, Fail, TypeInv, Shapes
<1>5. QED
  BY <1>1, <1>3, <1>4 DEF Newest

LEMMA NextNewest ==
  ASSUME TypeInv, Newest, [Next]_vars
  PROVE  Newest'
<1>1. ASSUME UNCHANGED <<slot, made, client, timer>>
      PROVE  Newest'
  BY <1>1 DEF Newest
<1>2. ASSUME NEW u \in Use, Connect(u) \/ Settle(u)
      PROVE  Newest'
  BY <1>1, <1>2, ConnectNewest DEF Settle
<1>3. ASSUME NEW n \in Promise, Adopt(n) \/ Again(n) \/ Event(n)
      PROVE  Newest'
  BY <1>1, <1>3, AgainNewest, EventNewest DEF Adopt
<1>4. CASE UNCHANGED vars
  BY <1>1, <1>4 DEF vars
<1>5. QED
  BY <1>2, <1>3, <1>4 DEF Next

LEMMA NewestInvariant == Spec => []Newest
<1>1. Init => Newest
  BY DEF Init, Newest, Live
<1>2. TypeInv /\ Newest /\ [Next]_vars => Newest'
  BY NextNewest
<1>3. QED
  BY <1>1, <1>2, TypeInvariant, PTL DEF Spec

\* However uses, errors, closes and reconnect timers interleave, two ssh Clients
\* are never connected or connecting at once.
THEOREM ClientsAreExclusive == Spec => []OneLiveClient
<1>1. Newest => OneLiveClient
  BY DEF Newest, OneLiveClient
<1>2. QED
  BY <1>1, NewestInvariant, PTL

-----------------------------------------------------------------------------
(* The reconnection budget *)

\* Every Client of a row was counted, and a timer is set only within the budget.
Counted ==
  /\ streak <= retries
  /\ streak <= ReconnectTries + 1
  /\ timer # {} => streak <= ReconnectTries

LEMMA ConnectCounted ==
  ASSUME TypeInv, Newest, Counted, NEW u \in Use, Connect(u)
  PROVE  Counted'
<1> USE NumberAssumption
<1>1. streak \in Nat /\ retries \in Nat /\ made \in Nat
  BY DEF TypeInv, Numbers
<1>2. retries' = retries + 1 /\ timer' = timer
  BY DEF Connect
<1>3. CASE slot # None
  <2>1. streak' = streak
    BY <1>3 DEF Connect
  <2>2. QED
    BY <1>1, <1>2, <2>1 DEF Counted
<1>4. CASE slot = None
  <2>1. made = 0 /\ NewPromise(made + 1)
    BY <1>4 DEF Newest, Connect
  <2>2. streak' = 1 /\ streak = 0
    BY <1>1, <2>1 DEF NewPromise, TypeInv, Numbers
  <2>3. timer = {}
    BY <2>1, ZeroIsNoPromise DEF Newest, TypeInv, Shapes
  <2>4. QED
    BY <1>1, <1>2, <2>2, <2>3 DEF Counted
<1>5. QED
  BY <1>3, <1>4

LEMMA AgainCounted ==
  ASSUME TypeInv, Newest, Counted, NEW n \in Promise, Again(n)
  PROVE  Counted'
<1>1. streak \in Nat /\ retries \in Nat /\ ReconnectTries \in Nat
  BY NumberAssumption DEF TypeInv, Numbers
<1>2. timer # {} /\ timer' = {}
  BY DEF Again, Newest
<1>3. streak' = streak + 1 /\ retries' = retries + 1
  BY DEF Again, NewPromise
<1>4. QED
  BY <1>1, <1>2, <1>3 DEF Counted

LEMMA EventCounted ==
  ASSUME TypeInv, Newest, Counted, NEW n \in Promise, Event(n)
  PROVE  Counted'
<1>1. streak \in Nat /\ retries \in Nat /\ ReconnectTries \in Nat
  BY NumberAssumption DEF TypeInv, Numbers
<1>2. CASE Ready(n)
  BY <1>1, <1>2 DEF Ready, Counted
<1>3. CASE Closed(n)
  <2>1. streak' = streak /\ retries' = retries
    BY <1>3 DEF Closed
  <2>2. timer' # timer => streak <= ReconnectTries
    BY <1>1, <1>3 DEF Closed, Retriable, Counted
  <2>3. QED
    BY <1>1, <2>1, <2>2 DEF Counted
<1>4. ASSUME NEW e \in Error, Fail(n, e)
      PROVE  Counted'
  BY <1>4 DEF Fail, Counted
<1>5. QED
  BY <1>2, <1>3, <1>4 DEF Event

LEMMA NextCounted ==
  ASSUME TypeInv, Newest, Counted, [Next]_vars
  PROVE  Counted'
<1>1. ASSUME UNCHANGED <<streak, retries, timer>>
      PROVE  Counted'
  BY <1>1 DEF Counted
<1>2. ASSUME NEW u \in Use, Connect(u) \/ Settle(u)
      PROVE  Counted'
  BY <1>1, <1>2, ConnectCounted DEF Settle
<1>3. ASSUME NEW n \in Promise, Adopt(n) \/ Again(n) \/ Event(n)
      PROVE  Counted'
  BY <1>1, <1>3, AgainCounted, EventCounted DEF Adopt
<1>4. CASE UNCHANGED vars
  BY <1>1, <1>4 DEF vars
<1>5. QED
  BY <1>2, <1>3, <1>4 DEF Next

\* However many calls of connect() come in between, at most reconnectTries
\* reconnections follow each other without a Client that became ready.
THEOREM BudgetIsKept == Spec => []BudgetKept
<1>1. Init => Counted
  BY NumberAssumption DEF Init, Counted
<1>2. TypeInv /\ Newest /\ Counted /\ [Next]_vars => Counted'
  BY NextCounted
<1>3. Counted => BudgetKept
  BY DEF Counted, BudgetKept
<1>4. QED
  BY <1>1, <1>2, <1>3, TypeInvariant, NewestInvariant, PTL DEF Spec

-----------------------------------------------------------------------------
(* What a use waits for *)

\* A promise is settled, or something will settle it or make it follow another: the
\* events of its own Client, or its timer.
Attended(n) ==
  \/ promise[n] \in {"fulfilled", "rejected"}
  \/ Pending(n) /\ (client[n] \in Live \/ n \in timer)

\* With a promise, the set holds the one that it follows.
Followed(S) == \A n \in S : promise[n] = "following" => follows[n] \in S

\* From the promise a use awaits, following leads to one that is attended: every set
\* that holds the one and is Followed holds the other.
NoUseForgotten ==
  \A u \in Use : use[u] = "waiting" =>
    \A S \in SUBSET Promise : awaited[u] \in S /\ Followed(S) => \E n \in S : Attended(n)

\* The promises and uses of the Clients made so far; a promise follows a later one.
Links ==
  /\ slot # None => slot <= made
  /\ \A n \in Promise : n <= made => promise[n] # "none"
  /\ \A n \in Promise : Pending(n) => client[n] \in Live \/ n \in timer
  /\ \A n \in Promise : promise[n] = "following" =>
        follows[n] \in Promise /\ n < follows[n] /\ follows[n] <= made
  /\ \A u \in Use : use[u] = "waiting" => awaited[u] \in Promise /\ awaited[u] <= made

LEMMA UseLinks ==
  ASSUME TypeInv, Newest, Links, NEW u \in Use, Connect(u) \/ Settle(u)
  PROVE  Links'
<1>1. CASE Settle(u)
  BY <1>1 DEF Settle, Links, Pending, TypeInv, Shapes
<1>2. CASE Connect(u) /\ slot # None
  BY <1>2 DEF Connect, Links, Pending, TypeInv, Shapes
<1>3. CASE Connect(u) /\ slot = None
  <2>1. /\ NewPromise(made + 1) /\ promise' = [promise EXCEPT ![made'] = "pending"]
        /\ awaited' = [awaited EXCEPT ![u] = made'] /\ timer' = timer /\ follows' = follows
        /\ use' = [use EXCEPT ![u] = "waiting"]
    BY <1>3 DEF Connect
  <2>2. made' = made + 1 /\ made' \in Promise /\ slot' = made'
        /\ client' = [client EXCEPT ![made'] = "connecting"]
    BY <2>1 DEF NewPromise
  <2>3. /\ made' \notin 1..made
        /\ \A n \in Promise : n <= made' => n <= made \/ n = made'
        /\ \A n \in Promise : n <= made => n # made' /\ n <= made'
    BY <2>2 DEF TypeInv, Numbers, Promise
  <2>4. /\ promise'[made'] = "pending"
        /\ \A n \in Promise : n # made' => promise'[n] = promise[n]
    BY <2>1, <2>2 DEF TypeInv, Shapes
  <2>9. \A n \in Promise : n <= made' => promise'[n] # "none"
    BY <2>3, <2>4 DEF Links
  <2>5. \A n \in Promise : Pending(n)' => client'[n] \in Live \/ n \in timer'
    BY <2>1, <2>2 DEF Links, Pending, TypeInv, Shapes, Live
  <2>6. \A n \in Promise : promise'[n] = "following" =>
           follows'[n] \in Promise /\ n < follows'[n] /\ follows'[n] <= made'
    BY <2>1, <2>3, <2>4 DEF Links
  <2>7. \A v \in Use : use'[v] = "waiting" => awaited'[v] \in Promise /\ awaited'[v] <= made'
    <3>1. made' <= made'
      BY <2>2 DEF Promise
    <3>2. \A v \in Use : v # u => use'[v] = use[v] /\ awaited'[v] = awaited[v]
      BY <2>1 DEF TypeInv, Shapes
    <3>3. awaited'[u] = made'
      BY <2>1 DEF TypeInv, Shapes
    <3>4. QED
      BY <2>2, <2>3, <3>1, <3>2, <3>3 DEF Links
  <2>8. slot' <= made'
    BY <2>2 DEF Promise
  <2>10. QED
    BY <2>5, <2>6, <2>7, <2>8, <2>9 DEF Links
<1>4. QED
  BY <1>1, <1>2, <1>3

\* The promise whose timer fires is the newest, and follows the next one.
LEMMA AgainLinks ==
  ASSUME TypeInv, Newest, Links, NEW n \in Promise, Again(n)
  PROVE  Links'
<1>1. n = made /\ NewPromise(made + 1) /\ timer' = timer \ {n} /\ awaited' = awaited /\ use' = use
      /\ promise' = [promise EXCEPT ![made'] = "pending",
                                    ![n] = IF Pending(n) THEN "following" ELSE @]
      /\ follows' = [follows EXCEPT ![n] = IF Pending(n) THEN made' ELSE @]
  BY DEF Again, Newest
<1>2. made' = made + 1 /\ made' \in Promise /\ slot' = made'
      /\ client' = [client EXCEPT ![made'] = "connecting"]
  BY <1>1 DEF NewPromise
<1>3. /\ \A m \in Promise : m <= made' => m <= made \/ m = made'
      /\ \A m \in Promise : m <= made => m <= made'
      /\ n < made' /\ made' <= made' /\ n # made'
  BY <1>1, <1>2 DEF TypeInv, Numbers, Promise
<1>4. /\ promise'[made'] = "pending"
      /\ promise'[n] = (IF Pending(n) THEN "following" ELSE promise[n])
      /\ \A m \in Promise \ {n, made'} : promise'[m] = promise[m]
  <2>1. promise \in [Promise -> {"none", "pending", "following", "fulfilled", "rejected"}]
    BY DEF TypeInv, Shapes
  <2>2. QED
    BY <1>1, <1>2, <1>3, <2>1
<1>5. \A m \in Promise : m <= made' => promise'[m] # "none"
  BY <1>3, <1>4 DEF Links
<1>6. \A m \in Promise : Pending(m)' => client'[m] \in Live \/ m \in timer'
  BY <1>1, <1>2, <1>4 DEF Links, Pending, TypeInv, Shapes, Live
<1>7. \A m \in Promise : promise'[m] = "following" =>
         follows'[m] \in Promise /\ m < follows'[m] /\ follows'[m] <= made'
  <2>1. \A m \in Promise \ {n} : follows'[m] = follows[m]
    BY <1>1 DEF TypeInv, Shapes
  <2>2. promise'[n] = "following" /\ promise[n] # "following" => follows'[n] = made'
    BY <1>1, <1>4 DEF TypeInv, Shapes
  <2>3. promise[n] = "following" => follows'[n] = follows[n]
    BY <1>1 DEF Pending, TypeInv, Shapes
  <2>4. QED
    BY <1>2, <1>3, <1>4, <2>1, <2>2, <2>3 DEF Links
<1>8. \A u \in Use : use'[u] = "waiting" => awaited'[u] \in Promise /\ awaited'[u] <= made'
  BY <1>1, <1>3 DEF Links
<1>9. QED
  BY <1>2, <1>3, <1>5, <1>6, <1>7, <1>8 DEF Links

LEMMA EventLinks ==
  ASSUME TypeInv, Links, NEW n \in Promise, Adopt(n) \/ Event(n)
  PROVE  Links'
<1>1. /\ UNCHANGED <<slot, made, use, awaited, follows>>
      /\ \A m \in Promise \ {n} : promise'[m] = promise[m] /\ client'[m] = client[m]
      /\ timer \subseteq timer'
  BY DEF Adopt, Event, Ready, Closed, Fail, TypeInv, Shapes
<1>2. /\ promise'[n] \in {promise[n], "fulfilled", "rejected"}
      /\ Pending(n)' => Pending(n) /\ (client[n] \in Live => client'[n] \in Live \/ n \in timer')
  BY DEF Adopt, Event, Ready, Closed, Fail, Pending, TypeInv, Shapes, Live
<1>3. \A m \in Promise : promise'[m] = "following" => promise[m] = "following"
  BY <1>1, <1>2
<1>4. \A m \in Promise : Pending(m)' => client'[m] \in Live \/ m \in timer'
  BY <1>1, <1>2 DEF Links, Pending
<1>5. \A m \in Promise : promise[m] # "none" => promise'[m] # "none"
  BY <1>1, <1>2
<1>6. QED
  BY <1>1, <1>3, <1>4, <1>5 DEF Links

LEMMA NextLinks ==
  ASSUME TypeInv, Newest, Links, [Next]_vars
  PROVE  Links'
<1>1. CASE UNCHANGED vars
  BY <1>1 DEF Links, Pending, vars
<1>2. QED
  BY <1>1, UseLinks, AgainLinks, EventLinks DEF Next

\* A set of promises has a last one.
LEMMA LastPromise ==
  ASSUME NEW S \in SUBSET Promise, S # {}
  PROVE  \E n \in S : \A m \in S : m <= n
<1> DEFINE R == OpToRel(<, Nat)
           T == {MaxPromises - n : n \in S}
<1>1. MaxPromises \in Nat /\ T \in SUBSET Nat /\ T # {}
  <2>1. MaxPromises \in Nat
    BY NumberAssumption
  <2>2. \A n \in S : MaxPromises - n \in Nat
    BY <2>1 DEF Promise
  <2>3. QED
    BY <2>1, <2>2
<1>2. IsWellFoundedOn(R, Nat)
  BY NatLessThanWellFounded
<1>3. PICK k \in T : \A j \in T : <<j, k>> \notin R
  <2> HIDE DEF R, T
  <2> QED
    BY <1>1, <1>2, WFMin
<1>4. \A j \in T : ~(j < k)
  BY <1>1, <1>3 DEF OpToRel
<1>5. PICK n \in S : k = MaxPromises - n
  OBVIOUS
<1>6. ASSUME NEW m \in S
      PROVE  m <= n
  <2>1. MaxPromises - m \in T
    OBVIOUS
  <2>2. ~(MaxPromises - m < MaxPromises - n)
    BY <1>4, <1>5, <2>1
  <2>3. m \in Int /\ n \in Int /\ MaxPromises \in Int
    BY <1>1, <1>5 DEF Promise
  <2>4. QED
    BY <2>2, <2>3
<1> QED
  BY <1>6

\* No use is left waiting for a promise that nobody will settle: not one whose
\* Client has closed without a timer, and not a row of promises without an end.
THEOREM UsesAreAttended == Spec => []NoUseForgotten
<1>1. Init => Links
  BY ZeroIsNoPromise DEF Init, Links, Pending, Promise
<1>2. TypeInv /\ Newest /\ Links /\ [Next]_vars => Links'
  BY NextLinks
<1>3. ASSUME TypeInv, Links
      PROVE  NoUseForgotten
  <2> SUFFICES ASSUME NEW u \in Use, use[u] = "waiting",
                      NEW S \in SUBSET Promise, awaited[u] \in S, Followed(S)
               PROVE  \E n \in S : Attended(n)
    BY DEF NoUseForgotten
  <2>1. made \in Nat /\ Promise \subseteq Nat
    BY <1>3 DEF TypeInv, Numbers, Promise
  <2> DEFINE T == {n \in S : n <= made}
  <2>2. awaited[u] \in T
    BY <1>3 DEF Links
  <2>3. PICK n \in T : \A m \in T : m <= n
    BY <2>2, LastPromise
  <2>4. ASSUME promise[n] = "following"
        PROVE  FALSE
    <3>1. follows[n] \in T /\ n < follows[n] /\ follows[n] \in Promise
      BY <1>3, <2>3, <2>4 DEF Links, Followed
    <3>2. follows[n] <= n
      BY <2>3, <3>1
    <3>3. follows[n] \in Nat /\ n \in Nat
      BY <2>1, <2>3, <3>1
    <3> HIDE DEF T
    <3>4. QED
      BY <3>1, <3>2, <3>3
  <2>5. promise[n] \in {"pending", "fulfilled", "rejected"}
    BY <1>3, <2>3, <2>4 DEF Links, TypeInv, Shapes
  <2>6. QED
    BY <1>3, <2>3, <2>5 DEF Attended, Links, Pending
<1>4. QED
  BY <1>1, <1>2, <1>3, TypeInvariant, NewestInvariant, PTL DEF Spec
=============================================================================
