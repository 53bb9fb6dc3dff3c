------------------------------ MODULE Resolver ------------------------------
(***************************************************************************)
(* RemoteSSHResolver (overlay/remote-ssh/src/authResolver.ts): what its    *)
(* resolve() opens, the fields that remember it, and dispose().            *)
(*                                                                         *)
(* The editor resolves once at startup and again at each disconnection;    *)
(* each call is an attempt, and all attempts share the resolver's fields.  *)
(* A step is the code between two awaits.  Connection <<a, 0>> is the      *)
(* final connection of attempt a and <<a, i>> its i-th ProxyJump; each is  *)
(* an SSHConnection without reconnection, which the module SSHConnection   *)
(* describes.  Servers, channels and processes are named by their attempt. *)
(***************************************************************************)
EXTENDS Naturals, Sequences, FiniteSets

CONSTANTS
    MaxAttempts,   \* bound: calls of resolve
    Config,        \* what the configuration files and settings can say
    Quiet,         \* dispose comes when no attempt is under way
    None

Attempt == 1..MaxAttempts
MaxJumps == 2

\* The number of ProxyJump hosts; ProxyCommand; ForwardAgent and its setting;
\* enableDynamicForwarding; remoteServerListenOnSocket.
Configuration ==
    [jumps : 0..MaxJumps, command : BOOLEAN, agent : BOOLEAN, dynamic : BOOLEAN, socket : BOOLEAN]

ASSUME AttemptAssumption == MaxAttempts \in Nat \ {0} /\ None \notin Nat
ASSUME ConfigAssumption == Config \subseteq Configuration /\ Quiet \in BOOLEAN

VARIABLES
    at,          \* at[a]: what attempt a waits for
    cfg,         \* cfg[a]: the configuration it has read
    hop,         \* hop[a]: the ProxyJump it is at
    self,        \* the fields of the resolver
    conn,        \* conn[c]: the life of a connection
    asked,       \* connections whose close() was called
    proc,        \* proc[a]: the ProxyCommand process of a
    chan,        \* chan[a]: its agent-forwarding channel
    path,        \* path[a]: its envVariables have SSH_AUTH_SOCK
    env,         \* the attempt that last set SSH_AUTH_SOCK for terminals
    socks,       \* socks[a]: its SOCKS server
    tunnel,      \* tunnel[a]: its server for the remote port, and the SOCKS server that uses
    formatters   \* attempts whose label formatter is registered

vars == <<at, cfg, hop, self, conn, asked, proc, chan, path, env, socks, tunnel, formatters>>

Conn == Attempt \X (0..MaxJumps)
Main(a) == <<a, 0>>
Jump(a, i) == <<a, i>>
Live == {"opening", "up"}
Waiting == {"prepare", "jump", "connect", "session", "path", "install", "socks", "tunnel"}
Settled == {"resolved", "failed"}
Owner == Attempt \cup {None}
ServerState == {"none", "listening", "closed"}

TypeOK ==
    /\ at \in [Attempt -> {"idle"} \cup Waiting \cup Settled]
    /\ cfg \in [Attempt -> Config \cup {None}]
    /\ hop \in [Attempt -> 0..MaxJumps]
    /\ DOMAIN self = {"proxies", "main", "process", "session", "socks", "tunnels", "label", "disposed"}
    /\ self.proxies \in Seq(Conn)
    /\ {self.main, self.process, self.session, self.socks, self.label} \subseteq Owner
    /\ self.tunnels \subseteq Attempt /\ self.disposed \in BOOLEAN
    /\ conn \in [Conn -> {"none", "down"} \cup Live]
    /\ asked \subseteq Conn
    /\ proc \in [Attempt -> {"none", "running", "dead"}]
    /\ chan \in [Attempt -> {"none", "open", "closed"}]
    /\ path \in [Attempt -> BOOLEAN]
    /\ env \in Owner
    /\ socks \in [Attempt -> ServerState]
    /\ tunnel \in [Attempt -> [state : ServerState, through : Owner]]
    /\ formatters \subseteq Attempt

Init ==
    /\ at = [a \in Attempt |-> "idle"]
    /\ cfg = [a \in Attempt |-> None]
    /\ hop = [a \in Attempt |-> 0]
    /\ self = [proxies |-> <<>>, main |-> None, process |-> None, session |-> None,
               socks |-> None, tunnels |-> {}, label |-> None, disposed |-> FALSE]
    /\ conn = [c \in Conn |-> "none"]
    /\ asked = {}
    /\ proc = [a \in Attempt |-> "none"]
    /\ chan = [a \in Attempt |-> "none"]
    /\ path = [a \in Attempt |-> FALSE]
    /\ env = None
    /\ socks = [a \in Attempt |-> "none"]
    /\ tunnel = [a \in Attempt |-> [state |-> "none", through |-> None]]
    /\ formatters = {}

-----------------------------------------------------------------------------
(* resolve() *)

Goto(a, from, to) == at[a] = from /\ at' = [at EXCEPT ![a] = to]

\* The settings and the configuration files are read anew.
Resolve(a) ==
    /\ Goto(a, "idle", "prepare")
    /\ \A b \in Attempt : b < a => at[b] \in Settled
    /\ ~self.disposed
    /\ \E k \in Config : cfg' = [cfg EXCEPT ![a] = k]
    /\ UNCHANGED <<hop, self, conn, asked, proc, chan, path, env, socks, tunnel, formatters>>

ToJump(a, i) ==
    /\ at' = [at EXCEPT ![a] = "jump"]
    /\ hop' = [hop EXCEPT ![a] = i]
    /\ conn' = [conn EXCEPT ![Jump(a, i)] = "opening"]
    /\ self' = [self EXCEPT !.proxies = Append(@, Jump(a, i))]
    /\ UNCHANGED proc

\* The final connection, over the last jump, a ProxyCommand or a socket.
ToMain(a) ==
    LET command == cfg[a].jumps = 0 /\ cfg[a].command IN
    /\ at' = [at EXCEPT ![a] = "connect"]
    /\ conn' = [conn EXCEPT ![Main(a)] = "opening"]
    /\ self' = [self EXCEPT !.main = a, !.process = IF command THEN a ELSE @]
    /\ proc' = [proc EXCEPT ![a] = IF command THEN "running" ELSE @]
    /\ UNCHANGED hop

NextHop(a, i) == IF i <= cfg[a].jumps THEN ToJump(a, i) ELSE ToMain(a)

Prepared(a) ==
    /\ at[a] = "prepare"
    /\ NextHop(a, 1)
    /\ UNCHANGED <<cfg, asked, chan, path, env, socks, tunnel, formatters>>

\* forwardOut on the jump host has a channel to the next one.
Forwarded(a) ==
    /\ at[a] = "jump"
    /\ conn[Jump(a, hop[a])] = "up"
    /\ NextHop(a, hop[a] + 1)
    /\ UNCHANGED <<cfg, asked, chan, path, env, socks, tunnel, formatters>>

Connected(a) ==
    /\ Goto(a, "connect", IF cfg[a].agent THEN "session" ELSE "install")
    /\ conn[Main(a)] = "up"
    /\ UNCHANGED <<cfg, hop, self, conn, asked, proc, chan, path, env, socks, tunnel, formatters>>

-----------------------------------------------------------------------------
(* openAgentForwardSession: a failure goes on with the installation *)

OpenSession(a) ==
    /\ Goto(a, "session", "path")
    /\ conn[Main(a)] = "up"
    /\ chan' = [b \in Attempt |-> IF b = a THEN "open"
                                  ELSE IF b = self.session THEN "closed" ELSE chan[b]]
    /\ self' = [self EXCEPT !.session = a]
    /\ UNCHANGED <<cfg, hop, conn, asked, proc, path, env, socks, tunnel, formatters>>

\* Variant: the error of a refused session ends the attempt.
SessionRefusedThrown(a) ==
    /\ Goto(a, "session", "rejected")
    /\ UNCHANGED <<cfg, hop, self, conn, asked, proc, chan, path, env, socks, tunnel, formatters>>

SessionRefused(a) ==
    /\ Goto(a, "session", "install")
    /\ UNCHANGED <<cfg, hop, self, conn, asked, proc, chan, path, env, socks, tunnel, formatters>>

ReadPath(a) ==
    /\ Goto(a, "path", "install")
    /\ chan[a] = "open"
    /\ path' = [path EXCEPT ![a] = TRUE]
    /\ UNCHANGED <<cfg, hop, self, conn, asked, proc, chan, env, socks, tunnel, formatters>>

\* Variant: a session without its timer and its 'close' handler.
NoPathHangs(a) == at[a] = "path" /\ UNCHANGED vars

\* A line that is no path, the end of the channel, or five seconds.
NoPath(a) ==
    /\ Goto(a, "path", "install")
    /\ UNCHANGED <<cfg, hop, self, conn, asked, proc, chan, path, env, socks, tunnel, formatters>>

-----------------------------------------------------------------------------
(* The server, the tunnels to it, and the result *)

\* Variant: terminals keep the first path they were given.
InstalledOnce(a) ==
    /\ Goto(a, "install", IF cfg[a].dynamic THEN "socks" ELSE "tunnel")
    /\ conn[Main(a)] = "up"
    /\ env' = IF path[a] /\ env = None THEN a ELSE env
    /\ UNCHANGED <<cfg, hop, self, conn, asked, proc, chan, path, socks, tunnel, formatters>>

\* installCodeServer has answered; terminals get the path of this session.
Installed(a) ==
    /\ Goto(a, "install", IF cfg[a].dynamic THEN "socks" ELSE "tunnel")
    /\ conn[Main(a)] = "up"
    /\ env' = IF path[a] THEN a ELSE env
    /\ UNCHANGED <<cfg, hop, self, conn, asked, proc, chan, path, socks, tunnel, formatters>>

\* Variant: an existing SOCKS server is used again.
SocksOnce(a) ==
    /\ Goto(a, "socks", "tunnel")
    /\ socks' = [socks EXCEPT ![a] = IF self.socks = None THEN "listening" ELSE @]
    /\ self' = [self EXCEPT !.socks = IF @ = None THEN a ELSE @]
    /\ UNCHANGED <<cfg, hop, conn, asked, proc, chan, path, env, tunnel, formatters>>

SocksListens(a) ==
    /\ Goto(a, "socks", "tunnel")
    /\ socks' = [socks EXCEPT ![a] = "listening"]
    /\ self' = [self EXCEPT !.socks = a]
    /\ UNCHANGED <<cfg, hop, conn, asked, proc, chan, path, env, tunnel, formatters>>

\* Variant: only the last tunnel is remembered.
TunnelOpensAlone(a) ==
    /\ Goto(a, "tunnel", "resolved")
    /\ tunnel' = [tunnel EXCEPT ![a] =
                    [state |-> "listening", through |-> IF cfg[a].socket THEN None ELSE self.socks]]
    /\ self' = [self EXCEPT !.tunnels = {a}, !.label = a]
    /\ formatters' = (formatters \ {self.label}) \cup {a}
    /\ UNCHANGED <<cfg, hop, conn, asked, proc, chan, path, env, socks>>

\* A port goes through the SOCKS server if there is one, a socket path never.
TunnelOpens(a) ==
    /\ Goto(a, "tunnel", "resolved")
    /\ tunnel' = [tunnel EXCEPT ![a] =
                    [state |-> "listening", through |-> IF cfg[a].socket THEN None ELSE self.socks]]
    /\ self' = [self EXCEPT !.tunnels = @ \cup {a}, !.label = a]
    /\ formatters' = (formatters \ {self.label}) \cup {a}
    /\ UNCHANGED <<cfg, hop, conn, asked, proc, chan, path, env, socks>>

\* Whatever is awaited is rejected.  connect() is rejected only by a
\* connection that has gone down.
Fails(a) ==
    /\ at[a] \in Waiting \ {"session", "path"}
    /\ at[a] = "connect" => conn[Main(a)] = "down"
    /\ at' = [at EXCEPT ![a] = "failed"]
    /\ UNCHANGED <<cfg, hop, self, conn, asked, proc, chan, path, env, socks, tunnel, formatters>>

-----------------------------------------------------------------------------
(* Connections *)

\* The transport of a connection: the last jump before it, if any.
Under(c) ==
    LET a == c[1]  i == IF c[2] = 0 THEN cfg[a].jumps ELSE c[2] - 1
    IN  IF i = 0 THEN None ELSE Jump(a, i)

TransportDown(c) ==
    \/ Under(c) # None /\ conn[Under(c)] = "down"
    \/ c[2] = 0 /\ proc[c[1]] = "dead"

Up(c) ==
    /\ conn[c] = "opening"
    /\ ~TransportDown(c)
    /\ conn' = [conn EXCEPT ![c] = "up"]
    /\ UNCHANGED <<at, cfg, hop, self, asked, proc, chan, path, env, socks, tunnel, formatters>>

\* The handshake fails, the network drops it, its transport ends, or close()
\* has reached end().  Channels end with it; local servers do not.
Down(c) ==
    /\ conn[c] \in Live
    /\ conn' = [conn EXCEPT ![c] = "down"]
    /\ chan' = IF c[2] = 0 /\ chan[c[1]] = "open" THEN [chan EXCEPT ![c[1]] = "closed"] ELSE chan
    /\ UNCHANGED <<at, cfg, hop, self, asked, proc, path, env, socks, tunnel, formatters>>

ProcessExits(a) ==
    /\ proc[a] = "running"
    /\ proc' = [proc EXCEPT ![a] = "dead"]
    /\ UNCHANGED <<at, cfg, hop, self, conn, asked, chan, path, env, socks, tunnel, formatters>>

-----------------------------------------------------------------------------
(* dispose() *)

\* Variant: the connections are left to end by themselves.
ClosingNothing == {}

\* The connections that dispose() closes.
Closing ==
    CASE self.proxies # <<>> -> {Head(self.proxies)}
      [] self.proxies = <<>> /\ self.main # None -> {Main(self.main)}
      [] OTHER -> {}

\* A tunnel's disposable closes its own forwarding server, but asks the
\* current connection for a tunnel of its name.
TunnelDisposed(a) ==
    a \in self.tunnels /\ (tunnel[a].through = None => a = self.main)

\* close() of a connection also closes its SOCKS server.
ServersOf(c) == IF c[2] = 0 THEN {c[1]} ELSE {}

Dispose ==
    LET closed == UNION {ServersOf(c) : c \in Closing} IN
    /\ ~self.disposed
    /\ Quiet => \A a \in Attempt : at[a] \notin Waiting
    /\ self' = [self EXCEPT !.disposed = TRUE, !.tunnels = {}, !.session = None]
    /\ chan' = [a \in Attempt |-> IF a = self.session THEN "closed" ELSE chan[a]]
    /\ asked' = asked \cup Closing
    /\ socks' = [a \in Attempt |-> IF a \in closed /\ socks[a] = "listening"
                                     THEN "closed" ELSE socks[a]]
    /\ tunnel' = [a \in Attempt |-> IF TunnelDisposed(a)
                                      THEN [tunnel[a] EXCEPT !.state = "closed"] ELSE tunnel[a]]
    /\ proc' = [a \in Attempt |-> IF a = self.process THEN "dead" ELSE proc[a]]
    /\ formatters' = formatters \ {self.label}
    /\ UNCHANGED <<at, cfg, hop, conn, path, env>>

-----------------------------------------------------------------------------

Attempted(a) ==
    \/ Prepared(a) \/ Forwarded(a) \/ Connected(a)
    \/ OpenSession(a) \/ SessionRefused(a) \/ ReadPath(a) \/ NoPath(a)
    \/ Installed(a) \/ SocksListens(a) \/ TunnelOpens(a) \/ Fails(a)

Next ==
    \/ \E a \in Attempt : Resolve(a) \/ Attempted(a) \/ ProcessExits(a)
    \/ \E c \in Conn : Up(c) \/ Down(c)
    \/ Dispose

Spec == Init /\ [][Next]_vars

\* The final connection of a has never had a tunnel: no SOCKS server and no direct one.
Bare(a) ==
    socks[a] = "none" /\ (tunnel[a].state = "none" \/ tunnel[a].through # None)

\* close() comes to end() when the tunnels of the connection have closed, which takes
\* the peers of their sockets (SSHTunnels!CloseEnds); a jump host has no tunnels.
Ends(c) == c \in asked /\ (c[2] = 0 => Bare(c[1]))

\* A handshake ends, by readyTimeout at the latest; a connection ends with its
\* transport or when close() comes to end(); a promise that can settle does.
Fairness ==
    /\ \A a \in Attempt : WF_vars(Attempted(a))
    /\ \A c \in Conn : /\ WF_vars(conn[c] = "opening" /\ (Up(c) \/ Down(c)))
                      /\ WF_vars(conn[c] \in Live /\ (Ends(c) \/ TransportDown(c)) /\ Down(c))

FairSpec == Spec /\ Fairness

-----------------------------------------------------------------------------
(* Properties *)

\* A result does not lead through a connection that an earlier attempt left behind: when
\* its attempt has read enableDynamicForwarding on, the SOCKS server it leads through is
\* its own (lines 281-290 and 395-401).  The setting is read anew in each attempt (line
\* 129) and socksTunnel is never cleared (line 282): after an attempt that has read it
\* off, a port leads through the newest SOCKS server there was, that of an earlier
\* connection, and no older one.
ResultOnOwnConnection ==
    \A a \in Attempt :
        at[a] = "resolved" /\ tunnel[a].through # None =>
            /\ cfg[a].dynamic => tunnel[a].through = a
            /\ \A b \in Attempt : tunnel[a].through < b /\ b <= a => socks[b] = "none"

Latest(a) == at[a] = "resolved" /\ \A b \in Attempt : b > a => at[b] = "idle"

\* The agent socket of a result is the one terminals get, and lives as long
\* as the connection (lines 240-246).
AgentSocketLives ==
    \A a \in Attempt :
        Latest(a) /\ path[a] =>
            env = a /\ (conn[Main(a)] = "up" /\ ~self.disposed => chan[a] = "open")

\* Every attempt ends with a result or an error; an agent session that never
\* prints its path does not hold it up (lines 143-334, 378-381).
AttemptSettles == \A a \in Attempt : at[a] = "prepare" ~> at[a] \in Settled

\* dispose() ends the connection in use, by closing it or the "parent" that
\* carries it (lines 583-588).
ConnectionReleased ==
    \A a \in Attempt :
        self.disposed /\ self.main = a /\ at[a] \in Settled ~> conn[Main(a)] = "down"

\* The same where the close that dispose() calls has no tunnels to wait for: the
\* connection comes over the first jump host ever opened, and ends with the chain; or
\* there has been no jump host, and it comes over a ProxyCommand, which is killed, or has
\* no tunnel of its own.  A direct connection with tunnels ends when SSHTunnels!CloseEnds
\* says so.
FirstChainReleased ==
    \A a \in Attempt :
        /\ self.disposed /\ self.main = a /\ at[a] \in Settled
        /\ IF self.proxies = <<>> THEN cfg[a].command \/ Bare(a) ELSE Head(self.proxies)[1] = a
        ~> conn[Main(a)] = "down"

\* Once disposed, no tunnel through a SOCKS server listens any more, whatever came
\* after it, and no direct one of the connection in use: disposing one logs
\* "Tunnel ... closed" (lines 438-443 and 580).
OwnTunnelsClosed ==
    self.disposed =>
        \A a \in Attempt :
            at[a] = "resolved" /\ (tunnel[a].through # None \/ self.main = a)
                => tunnel[a].state = "closed"
=============================================================================
