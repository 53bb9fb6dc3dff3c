-------------------------- MODULE SSHTunnelsProofs --------------------------
(***************************************************************************)
(* Proofs about SSHTunnels, for any number of calls, names and sockets.    *)
(*                                                                         *)
(* RegistryAgrees is not inductive: the entry of a name is written and     *)
(* deleted by name, so a step of one call may disturb the tunnel of        *)
(* another.  What rules that out, for a name whose calls never overlapped, *)
(* is that a call still waiting for its port is alone with its name, and   *)
(* that the name is free meanwhile (Waiting).  A name that is once in      *)
(* `overlapped' stays there, so nothing has to be known of it.             *)
(***************************************************************************)
EXTENDS SSHTunnels, TLAPS

-----------------------------------------------------------------------------
(* Types *)

LEMMA InitTypeOK == Init => TypeOK
  BY CallAssumption DEF Init, TypeOK, Free

\* What a step of a local socket leaves alone.
LEMMA SocketTypeOK ==
  ASSUME TypeOK, NEW k \in Socket, Serve(k) \/ PeerLeaves(k) \/ \E c \in Call : Accept(k, c)
  PROVE  /\ TypeOK'
         /\ UNCHANGED <<call, got, active, server, ssh, shut, waits, overlapped>>
<1>1. ASSUME NEW from, NEW to \in {"gone"} \cup Open, Step(k, from, to)
      PROVE  TypeOK' /\ UNCHANGED <<call, got, active, server, ssh, shut, waits, overlapped>>
  BY <1>1 DEF TypeOK, Step, Open
<1>2. CASE Serve(k)
  <2>1. \E from, to : to \in {"gone"} \cup Open /\ Step(k, from, to)
    BY <1>2 DEF Serve, Forward, Forwarded, ForwardFails, Ended, Open
  <2>2. QED
    BY <1>1, <2>1
<1>3. CASE PeerLeaves(k)
  BY <1>1, <1>3 DEF PeerLeaves
<1>4. ASSUME NEW c \in Call, Accept(k, c)
      PROVE  TypeOK' /\ UNCHANGED <<call, got, active, server, ssh, shut, waits, overlapped>>
  BY <1>4 DEF TypeOK, Accept, Open
<1>5. QED
  BY <1>2, <1>3, <1>4

LEMMA NextTypeOK ==
  ASSUME TypeOK, [Next]_vars
  PROVE  TypeOK'
<1> USE CallAssumption
<1>1. ASSUME NEW c \in Call, AddTunnel(c)
      PROVE  TypeOK'
  <2>1. NameOf[c] \in Name
    OBVIOUS
  <2>2. CASE active[NameOf[c]] # None
    BY <1>1, <2>1, <2>2 DEF TypeOK, AddTunnel, Resolve, Overlap
  <2>3. CASE active[NameOf[c]] = None
    BY <1>1, <2>1, <2>3 DEF TypeOK, AddTunnel, Overlap
  <2>4. QED
    BY <2>2, <2>3
<1>2. ASSUME NEW c \in Call, Listening(c)
      PROVE  TypeOK'
  BY <1>2 DEF TypeOK, Listening, Resolve
<1>3. ASSUME NEW c \in Call, Refused(c)
      PROVE  TypeOK'
  BY <1>3 DEF TypeOK, Refused
<1>4. ASSUME NEW c \in Call, ServerClosed(c)
      PROVE  TypeOK'
  BY <1>4 DEF TypeOK, ServerClosed
<1>5. ASSUME NEW n \in Name, CloseTunnel(n)
      PROVE  TypeOK'
  BY <1>5 DEF TypeOK, CloseTunnel, StopListening
<1>6. ASSUME NEW k \in Socket, Serve(k) \/ PeerLeaves(k) \/ \E c \in Call : Accept(k, c)
      PROVE  TypeOK'
  BY <1>6, SocketTypeOK
<1>7. CASE Close
  BY <1>7 DEF TypeOK, Close, StopListening, Registered
<1>8. CASE End \/ Drop
  BY <1>8 DEF TypeOK, End, Drop
<1>9. CASE UNCHANGED vars
  BY <1>9 DEF TypeOK, vars
<1>10. QED
  BY <1>1, <1>2, <1>3, <1>4, <1>5, <1>6, <1>7, <1>8, <1>9 DEF Next

\* Every variable of the tunnels keeps its type: in particular an entry of the
\* registry is one of the servers made, never left over from a call that made none.
THEOREM TypeCorrect == Spec => []TypeOK
<1>1. Init => TypeOK
  BY InitTypeOK
<1>2. TypeOK /\ [Next]_vars => TypeOK'
  BY NextTypeOK
<1>3. QED
  BY <1>1, <1>2, PTL DEF Spec

-----------------------------------------------------------------------------
(* The registry *)

\* A server that has not got its port yet belongs to a pending call.
Binding ==
  \A c \in Call : /\ server[c] \in {"bound", "refused"} => call[c] = "pending"
                  /\ call[c] = "idle" => server[c] = "none"

\* A pending call is alone with its name, and its name is free, unless calls overlapped.
Waiting ==
  \A c \in Call : call[c] = "pending" /\ NameOf[c] \notin overlapped =>
    /\ active[NameOf[c]] = None
    /\ \A d \in Call : call[d] = "pending" /\ NameOf[d] = NameOf[c] => d = c

\* An entry is under its own name, and its server has a port.
Entries ==
  \A n \in Name : active[n] # None =>
    NameOf[active[n]] = n /\ server[active[n]] \in {"listening", "closing"}

\* A server that has a port is in the registry, unless calls for its name overlapped.
Found ==
  \A c \in Call : server[c] \in {"listening", "closing"} /\ NameOf[c] \notin overlapped
                  => active[NameOf[c]] = c

RegistryInv == Binding /\ Waiting /\ Entries /\ Found

LEMMA AddTunnelRegistryInv ==
  ASSUME TypeOK, RegistryInv, NEW c \in Call, AddTunnel(c)
  PROVE  RegistryInv'
<1> USE CallAssumption
<1>1. /\ NameOf[c] \in Name /\ server[c] = "none" /\ active' = active
      /\ overlapped \subseteq overlapped'
  BY DEF AddTunnel, RegistryInv, Binding, Overlap
<1>2. CASE active[NameOf[c]] # None
  <2>1. server' = server /\ call' = [call EXCEPT ![c] = "resolved"]
    BY <1>2 DEF AddTunnel, Resolve
  <2>2. QED
    BY <1>1, <2>1 DEF TypeOK, RegistryInv, Binding, Waiting, Entries, Found
<1>3. CASE active[NameOf[c]] = None
  <2>1. /\ call' = [call EXCEPT ![c] = "pending"]
        /\ server'[c] \in {"bound", "refused"}
        /\ \A d \in Call \ {c} : server'[d] = server[d]
    BY <1>3 DEF AddTunnel, TypeOK
  <2>2. NameOf[c] \notin overlapped' =>
          \A d \in Call : NameOf[d] = NameOf[c] => call[d] # "pending"
    BY <1>1 DEF AddTunnel, Overlap, Overlaps
  <2>3. Binding'
    BY <2>1 DEF TypeOK, RegistryInv, Binding
  <2>4. Waiting'
    BY <1>1, <1>3, <2>1, <2>2 DEF TypeOK, RegistryInv, Waiting
  <2>5. Entries'
    BY <1>1, <1>3, <2>1 DEF TypeOK, RegistryInv, Entries
  <2>6. Found'
    BY <1>1, <2>1 DEF TypeOK, RegistryInv, Found
  <2>7. QED
    BY <2>3, <2>4, <2>5, <2>6 DEF RegistryInv
<1>4. QED
  BY <1>2, <1>3

LEMMA ListeningRegistryInv ==
  ASSUME TypeOK, RegistryInv, NEW c \in Call, Listening(c)
  PROVE  RegistryInv'
<1> USE CallAssumption
<1>1. /\ NameOf[c] \in Name
      /\ call[c] = "pending"
      /\ NameOf[c] \notin overlapped =>
           /\ active[NameOf[c]] = None
           /\ \A d \in Call : call[d] = "pending" /\ NameOf[d] = NameOf[c] => d = c
  BY DEF Listening, RegistryInv, Binding, Waiting
<1>2. /\ server' = [server EXCEPT ![c] = "listening"]
      /\ active' = [active EXCEPT ![NameOf[c]] = c]
      /\ call' = [call EXCEPT ![c] = "resolved"]
      /\ overlapped' = overlapped
  BY DEF Listening, Resolve
<1>3. Binding'
  BY <1>2 DEF TypeOK, RegistryInv, Binding
<1>4. Waiting'
  BY <1>1, <1>2 DEF TypeOK, RegistryInv, Waiting
<1>5. Entries'
  BY <1>1, <1>2 DEF TypeOK, RegistryInv, Entries
<1>6. Found'
  BY <1>1, <1>2 DEF TypeOK, RegistryInv, Found, Entries
<1>7. QED
  BY <1>3, <1>4, <1>5, <1>6 DEF RegistryInv

\* The entry is deleted by name; without an overlap there is none, and no other tunnel
\* loses its own.
LEMMA RefusedRegistryInv ==
  ASSUME TypeOK, RegistryInv, NEW c \in Call, Refused(c)
  PROVE  RegistryInv'
<1> USE CallAssumption
<1>1. /\ NameOf[c] \in Name
      /\ NameOf[c] \notin overlapped => active[NameOf[c]] = None
  BY DEF Refused, RegistryInv, Binding, Waiting
<1>2. /\ server[c] = "refused" /\ server' = [server EXCEPT ![c] = "closed"]
      /\ active' = [active EXCEPT ![NameOf[c]] = None]
      /\ call' = [call EXCEPT ![c] = "rejected"]
      /\ overlapped' = overlapped
  BY DEF Refused
<1>3. Binding'
  BY <1>2 DEF TypeOK, RegistryInv, Binding
<1>4. Waiting'
  BY <1>1, <1>2 DEF TypeOK, RegistryInv, Waiting
<1>5. Entries'
  BY <1>1, <1>2 DEF TypeOK, RegistryInv, Entries
<1>6. Found'
  BY <1>1, <1>2 DEF TypeOK, RegistryInv, Found
<1>7. QED
  BY <1>3, <1>4, <1>5, <1>6 DEF RegistryInv

\* The callback deletes by name too: without an overlap, what it deletes is its own entry.
LEMMA ServerClosedRegistryInv ==
  ASSUME TypeOK, RegistryInv, NEW c \in Call, ServerClosed(c)
  PROVE  RegistryInv'
<1> USE CallAssumption
<1>1. /\ NameOf[c] \in Name
      /\ NameOf[c] \notin overlapped => active[NameOf[c]] = c
  BY DEF ServerClosed, RegistryInv, Found
<1>2. /\ server[c] = "closing"
      /\ server' = [server EXCEPT ![c] = "closed"]
      /\ active' = [active EXCEPT ![NameOf[c]] = None]
      /\ call' = call
      /\ overlapped' = overlapped
  BY DEF ServerClosed
<1>3. Binding'
  BY <1>2 DEF TypeOK, RegistryInv, Binding
<1>4. Waiting'
  BY <1>1, <1>2 DEF TypeOK, RegistryInv, Waiting
<1>5. Entries'
  <2>1. \A n \in Name : active'[n] # None => active[n] = active'[n] /\ active[n] # c
    BY <1>2 DEF TypeOK, RegistryInv, Entries
  <2>2. QED
    BY <1>2, <2>1 DEF TypeOK, RegistryInv, Entries
<1>6. Found'
  BY <1>1, <1>2 DEF TypeOK, RegistryInv, Found
<1>7. QED
  BY <1>3, <1>4, <1>5, <1>6 DEF RegistryInv

\* Only listening servers are told to close.
LEMMA StopListeningRegistryInv ==
  ASSUME TypeOK, RegistryInv, NEW closing \in SUBSET Registered,
         StopListening(closing), UNCHANGED <<call, active, overlapped>>
  PROVE  RegistryInv'
<1> USE CallAssumption
<1>1. \A c \in closing : c \in Call /\ server[c] \in {"listening", "closing"}
  BY DEF TypeOK, Registered, RegistryInv, Entries
<1>2. \A c \in Call : /\ c \in closing => server'[c] = "closing"
                      /\ c \notin closing => server'[c] = server[c]
  BY DEF StopListening
<1>3. QED
  BY <1>1, <1>2 DEF TypeOK, RegistryInv, Binding, Waiting, Entries, Found

LEMMA NextRegistryInv ==
  ASSUME TypeOK, RegistryInv, [Next]_vars
  PROVE  RegistryInv'
<1>1. ASSUME NEW c \in Call, AddTunnel(c) \/ Listening(c) \/ Refused(c) \/ ServerClosed(c)
      PROVE  RegistryInv'
  BY <1>1, AddTunnelRegistryInv, ListeningRegistryInv, RefusedRegistryInv, ServerClosedRegistryInv
<1>2. ASSUME NEW n \in Name, CloseTunnel(n)
      PROVE  RegistryInv'
  <2>1. {active[n]} \in SUBSET Registered
    BY <1>2 DEF CloseTunnel, Registered
  <2>2. QED
    BY <1>2, <2>1, StopListeningRegistryInv DEF CloseTunnel
<1>3. CASE Close
  BY <1>3, StopListeningRegistryInv DEF Close
<1>4. ASSUME UNCHANGED <<call, active, server, overlapped>>
      PROVE  RegistryInv'
  BY <1>4 DEF RegistryInv, Binding, Waiting, Entries, Found
<1>5. ASSUME NEW k \in Socket, Serve(k) \/ PeerLeaves(k) \/ \E c \in Call : Accept(k, c)
      PROVE  RegistryInv'
  BY <1>4, <1>5, SocketTypeOK
<1>6. CASE End \/ Drop \/ UNCHANGED vars
  BY <1>4, <1>6 DEF End, Drop, vars
<1>7. QED
  BY <1>1, <1>2, <1>3, <1>5, <1>6 DEF Next

\* However calls of addTunnel, closeTunnel and close interleave, a name never leads to a
\* server that has closed or failed to bind, and every server that listens is found under
\* its name, so that close() reaches it, unless a call for its name came while another
\* was pending (lines 275-341).
THEOREM RegistryIsCoherent == Spec => []RegistryAgrees
<1>1. Init => RegistryInv
  BY CallAssumption DEF Init, RegistryInv, Binding, Waiting, Entries, Found
<1>2. TypeOK /\ RegistryInv /\ [Next]_vars => RegistryInv'
  BY NextRegistryInv
<1>3. RegistryInv => RegistryAgrees
  BY DEF RegistryInv, Entries, Found, RegistryAgrees
<1>4. QED
  BY <1>1, <1>2, <1>3, TypeCorrect, PTL DEF Spec

-----------------------------------------------------------------------------
(* What close() waits for, whatever calls of addTunnel overlap *)

\* close() waits only for servers whose callback will come: each has been told to
\* close and has not closed yet.
WaitsForClosing == \A c \in waits : server[c] = "closing"

\* The entries need no discipline of the callers: what overlapping calls do is leave
\* servers without an entry, never an entry without its server.
ClosingInv == Binding /\ Entries /\ WaitsForClosing

LEMMA ServerClosingInv ==
  ASSUME TypeOK, ClosingInv, NEW c \in Call,
         AddTunnel(c) \/ Listening(c) \/ Refused(c) \/ ServerClosed(c)
  PROVE  ClosingInv'
<1> USE CallAssumption DEF TypeOK
<1>1. CASE AddTunnel(c)
  <2>1. UNCHANGED <<active, waits>>
    BY <1>1 DEF AddTunnel
  <2>2. \A d \in Call : server[d] \in {"listening", "closing"} => server'[d] = server[d]
    BY <1>1 DEF AddTunnel, ClosingInv, Binding
  <2>3. Binding'
    BY <1>1 DEF AddTunnel, Resolve, ClosingInv, Binding
  <2>4. QED
    BY <2>1, <2>2, <2>3 DEF ClosingInv, Entries, WaitsForClosing
<1>2. CASE Listening(c)
  <2>1. /\ active' = [active EXCEPT ![NameOf[c]] = c] /\ waits' = waits
        /\ server[c] = "bound" /\ server' = [server EXCEPT ![c] = "listening"]
        /\ call' = [call EXCEPT ![c] = "resolved"]
    BY <1>2 DEF Listening, Resolve
  <2>2. QED
    BY <2>1 DEF ClosingInv, Binding, Entries, WaitsForClosing
<1>3. CASE Refused(c)
  <2>1. /\ active' = [active EXCEPT ![NameOf[c]] = None] /\ waits' = waits
        /\ server[c] = "refused" /\ server' = [server EXCEPT ![c] = "closed"]
        /\ call' = [call EXCEPT ![c] = "rejected"]
    BY <1>3 DEF Refused
  <2>2. QED
    BY <2>1 DEF ClosingInv, Binding, Entries, WaitsForClosing
<1>4. CASE ServerClosed(c)
  <2>1. /\ active' = [active EXCEPT ![NameOf[c]] = None] /\ waits' = waits \ {c}
        /\ server' = [server EXCEPT ![c] = "closed"] /\ call' = call
        /\ server[c] = "closing"
    BY <1>4 DEF ServerClosed
  <2>2. \A n \in Name : active'[n] # None => active[n] = active'[n] /\ active[n] # c
    BY <2>1 DEF ClosingInv, Entries
  <2>3. QED
    BY <2>1, <2>2 DEF ClosingInv, Binding, Entries, WaitsForClosing
<1>5. QED
  BY <1>1, <1>2, <1>3, <1>4

\* closeTunnel and close tell only servers with an entry to close.
LEMMA StopClosingInv ==
  ASSUME TypeOK, ClosingInv, NEW closing \in SUBSET Registered, StopListening(closing),
         UNCHANGED <<call, active>>, waits' \subseteq waits \cup closing
  PROVE  ClosingInv'
<1>1. \A c \in closing : c \in Call /\ server[c] \in {"listening", "closing"}
  BY DEF TypeOK, Registered, ClosingInv, Entries
<1>2. \A c \in Call : /\ c \in closing => server'[c] = "closing"
                      /\ c \notin closing => server'[c] = server[c]
  BY DEF StopListening
<1>3. QED
  BY <1>1, <1>2 DEF TypeOK, ClosingInv, Binding, Entries, WaitsForClosing

LEMMA NextClosingInv ==
  ASSUME TypeOK, ClosingInv, [Next]_vars
  PROVE  ClosingInv'
<1>1. ASSUME NEW n \in Name, CloseTunnel(n)
      PROVE  ClosingInv'
  <2>1. {active[n]} \in SUBSET Registered
    BY <1>1 DEF CloseTunnel, Registered
  <2>2. QED
    BY <1>1, <2>1, StopClosingInv DEF CloseTunnel
<1>2. CASE Close
  BY <1>2, StopClosingInv DEF Close
<1>3. ASSUME UNCHANGED <<call, active, server, waits>>
      PROVE  ClosingInv'
  BY <1>3 DEF ClosingInv, Binding, Entries, WaitsForClosing
<1>4. ASSUME NEW k \in Socket, Serve(k) \/ PeerLeaves(k) \/ \E c \in Call : Accept(k, c)
      PROVE  ClosingInv'
  BY <1>3, <1>4, SocketTypeOK
<1>5. CASE End \/ Drop \/ UNCHANGED vars
  BY <1>3, <1>5 DEF End, Drop, vars
<1>6. QED
  BY <1>1, <1>2, <1>4, <1>5, ServerClosingInv DEF Next

\* However calls of addTunnel, closeTunnel and close overlap, close() never waits for a
\* server that has closed already or was never told to: the answer it waits for comes
\* when the last connection of that server has gone (lines 201-209 and 350-372).
THEOREM CloseWaitsForAnswers == Spec => []WaitsForClosing
<1>1. Init => ClosingInv
  BY CallAssumption DEF Init, ClosingInv, Binding, Entries, WaitsForClosing
<1>2. TypeOK /\ ClosingInv /\ [Next]_vars => ClosingInv'
  BY NextClosingInv
<1>3. ClosingInv => WaitsForClosing
  BY DEF ClosingInv
<1>4. QED
  BY <1>1, <1>2, <1>3, TypeCorrect, PTL DEF Spec
=============================================================================
