----------------------------- MODULE SSHTunnels -----------------------------
(***************************************************************************)
(* The tunnels of one SSHConnection (overlay/remote-ssh/src/ssh/           *)
(* sshConnection.ts): addTunnel, closeTunnel and close, the net.Server     *)
(* each tunnel listens with, and the local sockets that server accepts.    *)
(*                                                                         *)
(* A call of addTunnel creates at most one server, so servers are named by *)
(* the call.  The code is single-threaded: a step is one callback, and the *)
(* steps between two callbacks of the same tunnel are where other calls    *)
(* get in.                                                                 *)
(***************************************************************************)
EXTENDS FiniteSets

CONSTANTS
    Call,      \* the calls of addTunnel
    Name,      \* tunnel names
    NameOf,    \* NameOf[c]: the name given to, or made by, call c
    Socks,     \* the calls with socks: true
    Socket,    \* local sockets that connect to a tunnel
    None

ASSUME CallAssumption == NameOf \in [Call -> Name] /\ None \notin Call /\ Socks \subseteq Call

VARIABLES
    call,      \* call[c]: the promise of call c
    got,       \* got[c]: the server of the tunnel it was resolved with
    active,    \* activeTunnels
    server,    \* server[c]: the net.Server that call c created
    socket,    \* socket[k]: a local connection and the server that accepted it
    ssh,       \* the ssh client's socket is writable
    shut,      \* close()
    waits,     \* the servers whose close callback close() waits for
    overlapped \* history: the names asked for again while a call for them was pending

vars == <<call, got, active, server, socket, ssh, shut, waits, overlapped>>

Open == {"accepted", "opening", "piped", "hung"}
Free == [at |-> None, phase |-> "away"]

TypeOK ==
    /\ call \in [Call -> {"idle", "pending", "resolved", "rejected"}]
    /\ got \in [Call -> Call \cup {None}]
    /\ active \in [Name -> Call \cup {None}]
    /\ server \in [Call -> {"none", "bound", "refused", "listening", "closing", "closed"}]
    /\ socket \in [Socket -> [at : Call \cup {None}, phase : {"away", "gone"} \cup Open]]
    /\ ssh \in BOOLEAN
    /\ shut \in {"open", "closing", "ended"}
    /\ waits \subseteq Call
    /\ overlapped \subseteq Name

Init ==
    /\ call = [c \in Call |-> "idle"]
    /\ got = [c \in Call |-> None]
    /\ active = [n \in Name |-> None]
    /\ server = [c \in Call |-> "none"]
    /\ socket = [k \in Socket |-> Free]
    /\ ssh = TRUE
    /\ shut = "open"
    /\ waits = {}
    /\ overlapped = {}

-----------------------------------------------------------------------------
(* addTunnel *)

Resolve(c, t) ==
    /\ call' = [call EXCEPT ![c] = "resolved"]
    /\ got' = [got EXCEPT ![c] = t]

\* Two calls for one name overlap when the second comes before the first has its port.
Overlaps(c) == \E d \in Call : NameOf[d] = NameOf[c] /\ call[d] = "pending"

Overlap(c) ==
    overlapped' = IF Overlaps(c) THEN overlapped \cup {NameOf[c]} ELSE overlapped

\* Variant: the registry is not looked at.
AddTunnelAlways(c) ==
    /\ call[c] = "idle"
    /\ Overlap(c)
    /\ call' = [call EXCEPT ![c] = "pending"]
    /\ server' = [server EXCEPT ![c] = "bound"]
    /\ UNCHANGED <<got, active, socket, ssh, shut, waits>>

\* A tunnel registered under the name is returned as it is; otherwise a new
\* server binds its port, or finds it taken.
AddTunnel(c) ==
    /\ call[c] = "idle"
    /\ Overlap(c)
    /\ IF active[NameOf[c]] # None
         THEN Resolve(c, active[NameOf[c]]) /\ UNCHANGED server
         ELSE /\ call' = [call EXCEPT ![c] = "pending"]
              /\ \E outcome \in {"bound", "refused"} : server' = [server EXCEPT ![c] = outcome]
              /\ UNCHANGED got
    /\ UNCHANGED <<active, socket, ssh, shut, waits>>

\* The 'listening' event.
Listening(c) ==
    /\ server[c] = "bound"
    /\ server' = [server EXCEPT ![c] = "listening"]
    /\ active' = [active EXCEPT ![NameOf[c]] = c]
    /\ Resolve(c, c)
    /\ UNCHANGED <<socket, ssh, shut, waits, overlapped>>

\* The 'error' event of a port in use; the entry is deleted by name.
Refused(c) ==
    /\ server[c] = "refused"
    /\ server' = [server EXCEPT ![c] = "closed"]
    /\ call' = [call EXCEPT ![c] = "rejected"]
    /\ active' = [active EXCEPT ![NameOf[c]] = None]
    /\ UNCHANGED <<got, socket, ssh, shut, waits, overlapped>>

-----------------------------------------------------------------------------
(* closeTunnel and close *)

StopListening(closing) ==
    server' = [c \in Call |-> IF c \in closing THEN "closing" ELSE server[c]]

CloseTunnel(n) ==
    /\ active[n] # None
    /\ server[active[n]] = "listening"
    /\ StopListening({active[n]})
    /\ UNCHANGED <<call, got, active, socket, ssh, shut, waits, overlapped>>

\* The callback of server.close(): it comes once every accepted socket is gone.
ServerClosed(c) ==
    /\ server[c] = "closing"
    /\ \A k \in Socket : ~(socket[k].at = c /\ socket[k].phase \in Open)
    /\ server' = [server EXCEPT ![c] = "closed"]
    /\ active' = [active EXCEPT ![NameOf[c]] = None]
    /\ waits' = waits \ {c}
    /\ UNCHANGED <<call, got, socket, ssh, shut, overlapped>>

\* Variant: names without a tunnel are waited for too.
RegisteredOrNot == {active[n] : n \in Name}

Registered == {active[n] : n \in Name} \ {None}

\* Variant: the servers are awaited but never told to close.
CloseWithoutTunnels ==
    /\ shut = "open"
    /\ shut' = "closing"
    /\ waits' = Registered
    /\ UNCHANGED <<call, got, active, server, socket, ssh, overlapped>>

Close ==
    /\ shut = "open"
    /\ shut' = "closing"
    /\ waits' = Registered
    /\ StopListening(Registered)
    /\ UNCHANGED <<call, got, active, socket, ssh, overlapped>>

\* All tunnels have closed: sshConnection.end().
End ==
    /\ shut = "closing"
    /\ waits = {}
    /\ shut' = "ended"
    /\ ssh' = FALSE
    /\ UNCHANGED <<call, got, active, server, socket, waits, overlapped>>

-----------------------------------------------------------------------------
(* The sockets of a tunnel *)

Step(k, from, to) ==
    /\ socket[k].phase = from
    /\ socket' = [socket EXCEPT ![k].phase = to]
    /\ UNCHANGED <<call, got, active, server, ssh, shut, waits, overlapped>>

Accept(k, c) ==
    /\ socket[k].phase = "away"
    /\ server[c] = "listening"
    /\ socket' = [socket EXCEPT ![k] = [at |-> c, phase |-> "accepted"]]
    /\ UNCHANGED <<call, got, active, server, ssh, shut, waits, overlapped>>

\* forwardOut throws on a client that is not connected, and the local socket
\* is neither piped nor closed.
Forward(k) == Step(k, "accepted", IF ssh THEN "opening" ELSE "hung")

Forwarded(k) == ssh /\ Step(k, "opening", "piped")

\* The channel is refused, or the connection drops before it opens.  Only the
\* SOCKS forwarder destroys the local socket.
ForwardFails(k) == Step(k, "opening", IF socket[k].at \in Socks THEN "gone" ELSE "hung")

\* The channel ends with the connection, and ends the socket it is piped to.
Ended(k) == ~ssh /\ Step(k, "piped", "gone")

\* Either end of the connection closes it, or the forwarder destroys it.
PeerLeaves(k) == socket[k].phase \in Open /\ Step(k, socket[k].phase, "gone")

\* The remote host or the network ends the ssh connection.
Drop ==
    /\ ssh
    /\ ssh' = FALSE
    /\ UNCHANGED <<call, got, active, server, socket, shut, waits, overlapped>>

-----------------------------------------------------------------------------

Serve(k) == Forward(k) \/ Forwarded(k) \/ ForwardFails(k) \/ Ended(k)

Next ==
    \/ \E c \in Call : AddTunnel(c) \/ Listening(c) \/ Refused(c) \/ ServerClosed(c)
    \/ \E n \in Name : CloseTunnel(n)
    \/ \E k \in Socket : Serve(k) \/ PeerLeaves(k) \/ \E c \in Call : Accept(k, c)
    \/ Close \/ End \/ Drop

Spec == Init /\ [][Next]_vars

\* The event loop delivers what is due; peers and the network do as they like.
LoopFairness ==
    /\ \A c \in Call : WF_vars(Listening(c)) /\ WF_vars(Refused(c)) /\ WF_vars(ServerClosed(c))
    /\ \A k \in Socket : WF_vars(Serve(k))
    /\ WF_vars(End)

FairSpec == Spec /\ LoopFairness

-----------------------------------------------------------------------------
(* Properties *)

\* The registry and the servers agree.  A name never leads to a server that has closed
\* or failed to bind (lines 334, 341 and 365), whichever calls overlap.  A server that
\* accepts connections is found under its name, and so can be closed, unless calls for
\* that name overlapped: addTunnel adds a tunnel only "if not exist" (line 275), but it
\* looks before the first call has its port (line 278), and then two servers listen and
\* the registry has one entry for them.
RegistryAgrees ==
    /\ \A n \in Name : active[n] # None => server[active[n]] \in {"listening", "closing"}
    /\ \A c \in Call :
          server[c] = "listening" /\ NameOf[c] \notin overlapped => active[NameOf[c]] = c

\* A server that close() waits for has a connection that only its peer can end: one
\* that is piped through a live ssh connection, or one that was never piped and that
\* nothing destroys.
Held ==
    \E k \in Socket : /\ socket[k].at \in waits
                      /\ socket[k].phase = "hung" \/ (socket[k].phase = "piped" /\ ssh)

\* close() ends the ssh connection (lines 201-209), unless a local peer keeps such a
\* connection for ever: close() waits for every socket of every tunnel, and destroys none.
CloseEnds == <>[]Held \/ (shut = "closing" ~> shut = "ended")
=============================================================================
