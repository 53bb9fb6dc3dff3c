--------------------------- MODULE ResolverProofs ---------------------------
(***************************************************************************)
(* Proofs about Resolver, for any number of attempts and any set of        *)
(* configurations they may read.                                           *)
(*                                                                         *)
(* Attempts share the fields of the resolver, so each property rests on    *)
(* two facts: attempts come one after the other (Sequential), and what a   *)
(* field holds at each stage of the attempt under way (OwnSocks, AgentInv, *)
(* DisposedInv, ProxiesInv).                                               *)
(***************************************************************************)
EXTENDS Resolver, TLAPS

-----------------------------------------------------------------------------
(* Types *)

Fields ==
    [proxies : Seq(Conn), main : Owner, process : Owner, session : Owner, socks : Owner,
     tunnels : SUBSET Attempt, label : Owner, disposed : BOOLEAN]

\* An attempt under way has read a configuration.
Configured == \A a \in Attempt : at[a] # "idle" => cfg[a] \in Config

TypeInv == TypeOK /\ self \in Fields /\ Configured

LEMMA ConnType ==
  ASSUME NEW a \in Attempt, NEW i \in 0..MaxJumps
  PROVE  Jump(a, i) \in Conn /\ Main(a) \in Conn
  BY DEF Jump, Main, Conn, MaxJumps

LEMMA FieldsType ==
  ASSUME NEW f \in Fields
  PROVE  /\ DOMAIN f = {"proxies", "main", "process", "session", "socks", "tunnels", "label", "disposed"}
         /\ f.proxies \in Seq(Conn)
         /\ {f.main, f.process, f.session, f.socks, f.label} \subseteq Owner
         /\ f.tunnels \subseteq Attempt /\ f.disposed \in BOOLEAN
  BY DEF Fields

LEMMA InitTypeInv == Init => TypeInv
<1> SUFFICES ASSUME Init
             PROVE  TypeInv
  OBVIOUS
<1>1. self \in Fields
  BY DEF Init, Fields, Owner
<1>2. Configured
  BY DEF Init, Configured
<1>3. TypeOK
  BY <1>1, FieldsType DEF Init, TypeOK, Owner, MaxJumps, ServerState
<1>4. QED
  BY <1>1, <1>2, <1>3 DEF TypeInv

LEMMA NextHopTypeInv ==
  ASSUME TypeInv, NEW a \in Attempt, Prepared(a) \/ Forwarded(a)
  PROVE  TypeInv'
<1>1. UNCHANGED <<cfg, asked, chan, path, env, socks, tunnel, formatters>>
  BY DEF Prepared, Forwarded
<1>2. at[a] \in {"prepare", "jump"} /\ cfg[a] \in Config /\ cfg[a] \in Configuration
  BY ConfigAssumption DEF Prepared, Forwarded, TypeInv, Configured
<1>3. PICK i \in 1..MaxJumps+1 : NextHop(a, i)
  <2>1. hop[a] + 1 \in 1..MaxJumps+1 /\ 1 \in 1..MaxJumps+1
    BY DEF TypeInv, TypeOK, MaxJumps
  <2>2. QED
    BY <2>1 DEF Prepared, Forwarded
<1>4. CASE i <= cfg[a].jumps
  <2>1. i \in 0..MaxJumps
    BY <1>2, <1>4 DEF Configuration, MaxJumps
  <2>2. Jump(a, i) \in Conn
    BY <2>1, ConnType
  <2>3. /\ at' = [at EXCEPT ![a] = "jump"]
        /\ hop' = [hop EXCEPT ![a] = i]
        /\ conn' = [conn EXCEPT ![Jump(a, i)] = "opening"]
        /\ self' = [self EXCEPT !.proxies = Append(@, Jump(a, i))]
        /\ UNCHANGED proc
    BY <1>3, <1>4 DEF NextHop, ToJump
  <2>4. self' \in Fields
    <3>1. Append(self.proxies, Jump(a, i)) \in Seq(Conn)
      BY <2>2 DEF TypeInv, TypeOK
    <3>2. QED
      BY <2>3, <3>1 DEF TypeInv, Fields
  <2>5. at' \in [Attempt -> {"idle"} \cup Waiting \cup Settled] /\ Configured'
    BY <1>1, <1>2, <2>3 DEF TypeInv, TypeOK, Configured, Waiting
  <2>6. hop' \in [Attempt -> 0..MaxJumps]
    BY <2>1, <2>3 DEF TypeInv, TypeOK
  <2>7. conn' \in [Conn -> {"none", "down"} \cup Live]
    BY <2>2, <2>3 DEF TypeInv, TypeOK, Live
  <2>8. QED
    BY <1>1, <2>3, <2>4, <2>5, <2>6, <2>7, FieldsType DEF TypeInv, TypeOK
<1>5. CASE ~(i <= cfg[a].jumps)
  <2>1. Main(a) \in Conn
    BY ConnType DEF MaxJumps
  <2>2. PICK command \in BOOLEAN :
        /\ at' = [at EXCEPT ![a] = "connect"]
        /\ conn' = [conn EXCEPT ![Main(a)] = "opening"]
        /\ self' = [self EXCEPT !.main = a, !.process = IF command THEN a ELSE @]
        /\ proc' = [proc EXCEPT ![a] = IF command THEN "running" ELSE @]
        /\ UNCHANGED hop
    BY <1>3, <1>5 DEF NextHop, ToMain
  <2>3. self' \in Fields
    BY <2>2 DEF TypeInv, Fields, Owner
  <2>4. at' \in [Attempt -> {"idle"} \cup Waiting \cup Settled] /\ Configured'
    BY <1>1, <1>2, <2>2 DEF TypeInv, TypeOK, Configured, Waiting
  <2>5. conn' \in [Conn -> {"none", "down"} \cup Live]
    BY <2>1, <2>2 DEF TypeInv, TypeOK, Live
  <2>6. proc' \in [Attempt -> {"none", "running", "dead"}]
    BY <2>2 DEF TypeInv, TypeOK
  <2>7. QED
    BY <1>1, <2>2, <2>3, <2>4, <2>5, <2>6, FieldsType DEF TypeInv, TypeOK
<1>6. QED
  BY <1>4, <1>5

\* The steps that only move on, and may end an attempt.
LEMMA GotoType ==
  ASSUME TypeInv, NEW a \in Attempt, NEW to \in Waiting \cup Settled,
         at[a] # "idle", at' = [at EXCEPT ![a] = to], cfg' = cfg
  PROVE  at' \in [Attempt -> {"idle"} \cup Waiting \cup Settled] /\ Configured'
  BY DEF TypeInv, TypeOK, Configured

LEMMA AttemptedTypeInv ==
  ASSUME TypeInv, NEW a \in Attempt, Attempted(a)
  PROVE  TypeInv'
<1> USE DEF Waiting, Settled
<1>1. CASE Prepared(a) \/ Forwarded(a)
  BY <1>1, NextHopTypeInv
<1>2. CASE Connected(a)
  <2>1. PICK to \in {"session", "install"} : Goto(a, "connect", to)
    BY <1>2 DEF Connected
  <2>2. at' \in [Attempt -> {"idle"} \cup Waiting \cup Settled] /\ Configured'
    BY <1>2, <2>1, GotoType DEF Connected, Goto
  <2>3. QED
    BY <1>2, <2>2 DEF Connected, TypeInv, TypeOK
<1>3. CASE OpenSession(a)
  <2>1. self' \in Fields
    BY <1>3 DEF OpenSession, TypeInv, Fields, Owner
  <2>2. chan' \in [Attempt -> {"none", "open", "closed"}]
    BY <1>3 DEF OpenSession, TypeInv, TypeOK
  <2>3. QED
    BY <1>3, <2>1, <2>2, GotoType, FieldsType DEF OpenSession, Goto, TypeInv, TypeOK
<1>4. CASE SessionRefused(a) \/ NoPath(a)
  <2>1. /\ at[a] # "idle" /\ at' = [at EXCEPT ![a] = "install"]
        /\ UNCHANGED <<cfg, hop, self, conn, asked, proc, chan, path, env, socks, tunnel, formatters>>
    BY <1>4 DEF SessionRefused, NoPath, Goto
  <2>2. at' \in [Attempt -> {"idle"} \cup Waiting \cup Settled] /\ Configured'
    BY <2>1, GotoType
  <2>3. QED
    BY <2>1, <2>2 DEF TypeInv, TypeOK
<1>5. CASE ReadPath(a)
  BY <1>5, GotoType DEF ReadPath, Goto, TypeInv, TypeOK
<1>6. CASE Installed(a)
  <2>1. PICK to \in {"socks", "tunnel"} : Goto(a, "install", to)
    BY <1>6 DEF Installed
  <2>2. env' \in Owner
    BY <1>6 DEF Installed, TypeInv, TypeOK, Owner
  <2>3. at' \in [Attempt -> {"idle"} \cup Waiting \cup Settled] /\ Configured'
    BY <1>6, <2>1, GotoType DEF Installed, Goto
  <2>4. QED
    BY <1>6, <2>2, <2>3 DEF Installed, TypeInv, TypeOK
<1>7. CASE SocksListens(a)
  <2>1. self' \in Fields
    BY <1>7 DEF SocksListens, TypeInv, Fields, Owner
  <2>2. socks' \in [Attempt -> ServerState]
    BY <1>7 DEF SocksListens, TypeInv, TypeOK, ServerState
  <2>3. QED
    BY <1>7, <2>1, <2>2, GotoType, FieldsType DEF SocksListens, Goto, TypeInv, TypeOK
<1>8. CASE TunnelOpens(a)
  <2>1. self' \in Fields
    BY <1>8 DEF TunnelOpens, TypeInv, Fields, Owner
  <2>2. tunnel' \in [Attempt -> [state : ServerState, through : Owner]]
    <3>1. self.socks \in Owner
      BY DEF TypeInv, Fields
    <3>2. QED
      BY <1>8, <3>1 DEF TunnelOpens, TypeInv, TypeOK, ServerState, Owner
  <2>3. formatters' \subseteq Attempt
    BY <1>8 DEF TunnelOpens, TypeInv, TypeOK
  <2>4. QED
    BY <1>8, <2>1, <2>2, <2>3, GotoType, FieldsType DEF TunnelOpens, Goto, TypeInv, TypeOK
<1>9. CASE Fails(a)
  BY <1>9, GotoType DEF Fails, TypeInv, TypeOK
<1>10. QED
  BY <1>1, <1>2, <1>3, <1>4, <1>5, <1>6, <1>7, <1>8, <1>9 DEF Attempted

LEMMA DisposeTypeInv ==
  ASSUME TypeInv, Dispose
  PROVE  TypeInv'
<1>1. self' \in Fields
  BY DEF Dispose, TypeInv, Fields, Owner
<1>2. chan' \in [Attempt -> {"none", "open", "closed"}]
  BY DEF Dispose, TypeInv, TypeOK
<1>3. asked' \subseteq Conn
  <2>1. CASE self.proxies # <<>>
    <3>1. Head(self.proxies) \in Conn
      BY <2>1 DEF TypeInv, TypeOK
    <3>2. QED
      BY <2>1, <3>1 DEF Dispose, Closing, TypeInv, TypeOK
  <2>2. CASE self.proxies = <<>> /\ self.main # None
    <3>1. Main(self.main) \in Conn
      BY <2>2, ConnType DEF TypeInv, Fields, Owner, MaxJumps
    <3>2. QED
      BY <2>2, <3>1 DEF Dispose, Closing, TypeInv, TypeOK
  <2>3. CASE ~(self.proxies # <<>>) /\ ~(self.proxies = <<>> /\ self.main # None)
    BY <2>3 DEF Dispose, Closing, TypeInv, TypeOK
  <2>4. QED
    BY <2>1, <2>2, <2>3
<1>4. socks' \in [Attempt -> ServerState]
  <2>1. \A a \in Attempt : socks'[a] \in {"closed", socks[a]}
    BY DEF Dispose
  <2>2. QED
    BY <2>1 DEF Dispose, TypeInv, TypeOK, ServerState
<1>5. tunnel' \in [Attempt -> [state : ServerState, through : Owner]]
  BY DEF Dispose, TypeInv, TypeOK, ServerState
<1>6. proc' \in [Attempt -> {"none", "running", "dead"}]
  BY DEF Dispose, TypeInv, TypeOK
<1>7. UNCHANGED <<at, cfg, hop, conn, path, env>> /\ formatters' \subseteq Attempt
  BY DEF Dispose, TypeInv, TypeOK
<1>8. QED
  BY <1>1, <1>2, <1>3, <1>4, <1>5, <1>6, <1>7, FieldsType DEF TypeInv, TypeOK, Configured

LEMMA NextTypeInv ==
  ASSUME TypeInv, [Next]_vars
  PROVE  TypeInv'
<1>1. ASSUME NEW a \in Attempt, Resolve(a)
      PROVE  TypeInv'
  BY <1>1 DEF Resolve, Goto, TypeInv, TypeOK, Configured, Waiting
<1>2. ASSUME NEW a \in Attempt, ProcessExits(a)
      PROVE  TypeInv'
  BY <1>2 DEF ProcessExits, TypeInv, TypeOK, Configured
<1>3. ASSUME NEW c \in Conn, Up(c)
      PROVE  TypeInv'
  BY <1>3 DEF Up, TypeInv, TypeOK, Configured, Live
<1>4. ASSUME NEW c \in Conn, Down(c)
      PROVE  TypeInv'
  BY <1>4 DEF Down, TypeInv, TypeOK, Configured
<1>5. CASE UNCHANGED vars
  BY <1>5 DEF vars, TypeInv, TypeOK, Configured
<1>6. QED
  BY <1>1, <1>2, <1>3, <1>4, <1>5, AttemptedTypeInv, DisposeTypeInv DEF Next

LEMMA TypeInvariant == Spec => []TypeInv
<1>1. TypeInv /\ [Next]_vars => TypeInv'
  BY NextTypeInv
<1>2. QED
  BY <1>1, InitTypeInv, PTL DEF Spec

\* Every variable of the resolver keeps its type: what its fields remember was
\* opened by one of its attempts.
THEOREM TypeCorrect == Spec => []TypeOK
<1>1. TypeInv => TypeOK
  BY DEF TypeInv
<1>2. QED
  BY <1>1, TypeInvariant, PTL

-----------------------------------------------------------------------------
(* One attempt at a time *)

\* An attempt begins when every earlier one has settled.
Sequential == \A a, b \in Attempt : b < a /\ at[a] # "idle" => at[b] \in Settled

\* What an attempt does to its own stage.
Moves(a) ==
    \E to \in Waiting \cup Settled :
        /\ at[a] \in Waiting
        /\ at' = [at EXCEPT ![a] = to]
        /\ cfg' = cfg

LEMMA AttemptOrder == \A a, b \in Attempt : a = b \/ a < b \/ b < a
  BY AttemptAssumption DEF Attempt

LEMMA AttemptedMoves ==
  ASSUME TypeInv, NEW a \in Attempt, Attempted(a)
  PROVE  Moves(a)
<1> USE DEF Moves, Waiting, Settled
<1>1. CASE Prepared(a) \/ Forwarded(a)
  <2>1. /\ at[a] \in Waiting /\ cfg' = cfg
        /\ \E i \in Nat : NextHop(a, i)
    <3>1. hop[a] + 1 \in Nat
      BY DEF TypeInv, TypeOK, MaxJumps
    <3>2. QED
      BY <1>1, <3>1 DEF Prepared, Forwarded
  <2>2. PICK i \in Nat : NextHop(a, i)
    BY <2>1
  <2>3. at' = [at EXCEPT ![a] = "jump"] \/ at' = [at EXCEPT ![a] = "connect"]
    BY <2>2 DEF NextHop, ToJump, ToMain
  <2>4. QED
    BY <2>1, <2>3
<1>2. CASE Connected(a)
  <2>1. PICK to \in {"session", "install"} : Goto(a, "connect", to)
    BY <1>2 DEF Connected
  <2>2. QED
    BY <1>2, <2>1 DEF Connected, Goto
<1>3. CASE OpenSession(a)
  BY <1>3 DEF OpenSession, Goto
<1>4. CASE SessionRefused(a) \/ NoPath(a)
  BY <1>4 DEF SessionRefused, NoPath, Goto
<1>5. CASE ReadPath(a)
  BY <1>5 DEF ReadPath, Goto
<1>6. CASE Installed(a)
  <2>1. PICK to \in {"socks", "tunnel"} : Goto(a, "install", to)
    BY <1>6 DEF Installed
  <2>2. QED
    BY <1>6, <2>1 DEF Installed, Goto
<1>7. CASE SocksListens(a)
  BY <1>7 DEF SocksListens, Goto
<1>8. CASE TunnelOpens(a)
  BY <1>8 DEF TunnelOpens, Goto
<1>9. CASE Fails(a)
  BY <1>9 DEF Fails
<1>10. QED
  BY <1>1, <1>2, <1>3, <1>4, <1>5, <1>6, <1>7, <1>8, <1>9 DEF Attempted

\* Only a new attempt, or the one under way, changes stage.
LEMMA StageSteps ==
  ASSUME TypeInv, [Next]_vars
  PROVE  \/ UNCHANGED <<at, cfg>>
         \/ \E a \in Attempt : Resolve(a) \/ Moves(a)
<1>1. ASSUME NEW a \in Attempt, Resolve(a) \/ Attempted(a) \/ ProcessExits(a)
      PROVE  UNCHANGED <<at, cfg>> \/ \E b \in Attempt : Resolve(b) \/ Moves(b)
  BY <1>1, AttemptedMoves DEF ProcessExits
<1>2. ASSUME NEW c \in Conn, Up(c) \/ Down(c)
      PROVE  UNCHANGED <<at, cfg>>
  BY <1>2 DEF Up, Down
<1>3. CASE Dispose \/ UNCHANGED vars
  BY <1>3 DEF Dispose, vars
<1>4. QED
  BY <1>1, <1>2, <1>3 DEF Next

LEMMA NextSequential ==
  ASSUME TypeInv, Sequential, [Next]_vars
  PROVE  Sequential'
<1>1. CASE UNCHANGED <<at, cfg>>
  BY <1>1 DEF Sequential
<1>2. ASSUME NEW a \in Attempt, Resolve(a)
      PROVE  Sequential'
  <2>1. /\ \A b \in Attempt : b < a => at[b] \in Settled
        /\ at[a] = "idle" /\ at' = [at EXCEPT ![a] = "prepare"]
    BY <1>2 DEF Resolve, Goto
  <2>2. \A b \in Attempt : a < b => at[b] = "idle"
    BY <2>1 DEF Sequential, Settled
  <2>3. ASSUME NEW c \in Attempt, NEW b \in Attempt, b < c, at'[c] # "idle"
        PROVE  at'[b] \in Settled
    <3>1. b # a
      BY <2>1, <2>2, <2>3, AttemptOrder DEF TypeInv, TypeOK, Attempt
    <3>2. QED
      BY <2>1, <2>3, <3>1 DEF Sequential, TypeInv, TypeOK
  <2>4. QED
    BY <2>3 DEF Sequential
<1>3. ASSUME NEW a \in Attempt, Moves(a)
      PROVE  Sequential'
  <2>1. PICK to \in Waiting \cup Settled : at[a] \in Waiting /\ at' = [at EXCEPT ![a] = to]
    BY <1>3 DEF Moves
  <2>2. \A b \in Attempt : a < b => at[b] = "idle"
    BY <2>1 DEF Sequential, Settled, Waiting
  <2>3. ASSUME NEW c \in Attempt, NEW b \in Attempt, b < c, at'[c] # "idle"
        PROVE  at'[b] \in Settled
    <3>1. at[c] # "idle"
      BY <2>1, <2>3 DEF TypeInv, TypeOK, Waiting
    <3>2. b # a
      BY <2>2, <2>3, <3>1
    <3>3. QED
      BY <2>1, <2>3, <3>1, <3>2 DEF Sequential, TypeInv, TypeOK
  <2>4. QED
    BY <2>3 DEF Sequential
<1>4. QED
  BY <1>1, <1>2, <1>3, StageSteps

LEMMA SequentialInvariant == Spec => []Sequential
<1>1. Init => Sequential
  BY DEF Init, Sequential
<1>2. TypeInv /\ Sequential /\ [Next]_vars => Sequential'
  BY NextSequential
<1>3. QED
  BY <1>1, <1>2, TypeInvariant, PTL DEF Spec

\* While an attempt waits no other one does, and none came after it.
LEMMA Alone ==
  ASSUME Sequential, NEW a \in Attempt, at[a] \in Waiting, NEW b \in Attempt, b # a
  PROVE  IF b < a THEN at[b] \in Settled ELSE at[b] = "idle"
<1>1. CASE b < a
  BY <1>1 DEF Sequential, Waiting
<1>2. CASE ~(b < a)
  <2>1. a < b
    BY <1>2, AttemptOrder
  <2>2. QED
    BY <1>2, <2>1 DEF Sequential, Waiting, Settled
<1>3. QED
  BY <1>1, <1>2

\* What an attempt does before it has its connection.
LEMMA HopStep ==
  ASSUME TypeInv, NEW a \in Attempt, Prepared(a) \/ Forwarded(a)
  PROVE  /\ at[a] \in {"prepare", "jump"}
         /\ at' = [at EXCEPT ![a] = "jump"] \/ at' = [at EXCEPT ![a] = "connect"]
         /\ \E i \in 0..MaxJumps : conn' = [conn EXCEPT ![<<a, i>>] = "opening"]
         /\ self'.socks = self.socks /\ self'.tunnels = self.tunnels
         /\ self'.session = self.session /\ self'.disposed = self.disposed
         /\ UNCHANGED <<cfg, asked, chan, path, env, socks, tunnel, formatters>>
<1>1. /\ at[a] \in {"prepare", "jump"}
      /\ UNCHANGED <<cfg, asked, chan, path, env, socks, tunnel, formatters>>
  BY DEF Prepared, Forwarded
<1>2. PICK i \in 1..MaxJumps+1 : NextHop(a, i)
  <2>1. hop[a] + 1 \in 1..MaxJumps+1 /\ 1 \in 1..MaxJumps+1
    BY DEF TypeInv, TypeOK, MaxJumps
  <2>2. QED
    BY <2>1 DEF Prepared, Forwarded
<1>3. CASE i <= cfg[a].jumps
  <2>1. cfg[a] \in Configuration
    BY <1>1, ConfigAssumption DEF TypeInv, Configured
  <2>2. i \in 0..MaxJumps
    BY <1>3, <2>1 DEF Configuration, MaxJumps
  <2>3. ToJump(a, i)
    BY <1>2, <1>3 DEF NextHop
  <2>4. conn' = [conn EXCEPT ![<<a, i>>] = "opening"] /\ at' = [at EXCEPT ![a] = "jump"]
    BY <2>3 DEF ToJump, Jump
  <2>5. /\ self'.socks = self.socks /\ self'.tunnels = self.tunnels
        /\ self'.session = self.session /\ self'.disposed = self.disposed
    BY <2>3 DEF ToJump, TypeInv, Fields
  <2>6. QED
    BY <1>1, <2>2, <2>4, <2>5
<1>4. CASE ~(i <= cfg[a].jumps)
  <2>1. ToMain(a)
    BY <1>2, <1>4 DEF NextHop
  <2>2. conn' = [conn EXCEPT ![<<a, 0>>] = "opening"] /\ at' = [at EXCEPT ![a] = "connect"]
    BY <2>1 DEF ToMain, Main
  <2>3. /\ self'.socks = self.socks /\ self'.tunnels = self.tunnels
        /\ self'.session = self.session /\ self'.disposed = self.disposed
    BY <2>1 DEF ToMain, TypeInv, Fields
  <2>4. 0 \in 0..MaxJumps
    BY DEF MaxJumps
  <2>5. QED
    BY <1>1, <2>2, <2>3, <2>4
<1>5. QED
  BY <1>3, <1>4

-----------------------------------------------------------------------------
(* The SOCKS server of a result *)

\* The SOCKS server the resolver remembers is the newest one there has been, and that of
\* the attempt about to use it when this has read the setting on.
OwnSocks ==
  /\ \A a \in Attempt : at[a] = "socks" => cfg[a].dynamic
  /\ \A a \in Attempt : at[a] = "tunnel" /\ cfg[a].dynamic => self.socks = a
  /\ \A a \in Attempt : at[a] = "idle" => socks[a] = "none"
  /\ self.socks # None => \A b \in Attempt : self.socks < b => socks[b] = "none"

ResultInv == OwnSocks /\ ResultOnOwnConnection

\* The steps that touch neither the stages nor the fields the invariant is about, and
\* open no SOCKS server.
LEMMA QuietResultInv ==
  ASSUME ResultInv, UNCHANGED <<at, cfg>>, self'.socks = self.socks,
         \A a \in Attempt : tunnel'[a].through = tunnel[a].through,
         \A a \in Attempt : socks[a] = "none" => socks'[a] = "none"
  PROVE  ResultInv'
  BY DEF ResultInv, OwnSocks, ResultOnOwnConnection

\* An attempt moves on to where it does not depend on the SOCKS server.
LEMMA MoveResultInv ==
  ASSUME TypeInv, ResultInv, NEW a \in Attempt, NEW to,
         at' = [at EXCEPT ![a] = to],
         to \notin {"idle", "tunnel", "socks", "resolved"} \/ (to = "socks" /\ cfg[a].dynamic)
           \/ (to = "tunnel" /\ ~cfg[a].dynamic),
         \A b \in Attempt : b # a => cfg'[b] = cfg[b],
         to \in {"tunnel", "socks"} => cfg'[a] = cfg[a],
         self'.socks = self.socks, UNCHANGED <<tunnel, socks>>
  PROVE  ResultInv'
<1>1. OwnSocks'
  BY DEF TypeInv, TypeOK, ResultInv, OwnSocks
<1>2. \A b \in Attempt : at'[b] = "resolved" => b # a /\ at[b] = "resolved" /\ cfg'[b] = cfg[b]
  BY DEF TypeInv, TypeOK
<1>3. ResultOnOwnConnection'
  BY <1>2 DEF ResultInv, ResultOnOwnConnection
<1>4. QED
  BY <1>1, <1>3 DEF ResultInv

LEMMA TunnelOpensResultInv ==
  ASSUME TypeInv, ResultInv, NEW a \in Attempt, TunnelOpens(a)
  PROVE  ResultInv'
<1>1. /\ at[a] = "tunnel" /\ at' = [at EXCEPT ![a] = "resolved"] /\ UNCHANGED <<cfg, socks>>
      /\ self'.socks = self.socks
  BY DEF TunnelOpens, Goto, TypeInv, Fields
<1>2. /\ tunnel'[a].through \in {None, self.socks}
      /\ \A b \in Attempt : b # a => tunnel'[b] = tunnel[b]
  BY DEF TunnelOpens, TypeInv, TypeOK
<1>3. tunnel'[a].through # None =>
        /\ cfg[a].dynamic => tunnel'[a].through = a
        /\ \A b \in Attempt : tunnel'[a].through < b => socks[b] = "none"
  BY <1>1, <1>2 DEF ResultInv, OwnSocks
<1>4. ResultOnOwnConnection'
  BY <1>1, <1>2, <1>3 DEF TypeInv, TypeOK, ResultInv, ResultOnOwnConnection
<1>5. OwnSocks'
  BY <1>1 DEF TypeInv, TypeOK, ResultInv, OwnSocks
<1>6. QED
  BY <1>4, <1>5 DEF ResultInv

\* The attempts after this one have not begun, so its server is the newest.
LEMMA SocksListensResultInv ==
  ASSUME TypeInv, Sequential, ResultInv, NEW a \in Attempt, SocksListens(a)
  PROVE  ResultInv'
<1>1. /\ at[a] = "socks" /\ at' = [at EXCEPT ![a] = "tunnel"] /\ UNCHANGED <<cfg, tunnel>>
      /\ socks' = [socks EXCEPT ![a] = "listening"]
      /\ self'.socks = a
      /\ cfg[a].dynamic
  BY DEF SocksListens, Goto, TypeInv, Fields, ResultInv, OwnSocks
<1>2. \A b \in Attempt : b # a => at[b] \notin Waiting
  BY <1>1, Alone DEF Waiting, Settled
<1>3. \A b \in Attempt : a < b => at[b] = "idle"
  BY <1>1 DEF Sequential, Settled
<1>4. \A b \in Attempt : a < b => socks'[b] = "none" /\ ~(b <= a) /\ b # a
  <2>1. \A b \in Attempt : a < b => ~(b <= a) /\ b # a
    BY AttemptAssumption DEF Attempt
  <2>2. QED
    BY <1>1, <1>3, <2>1 DEF TypeInv, TypeOK, ResultInv, OwnSocks
<1>5. OwnSocks'
  BY <1>1, <1>2, <1>4 DEF TypeInv, TypeOK, ResultInv, OwnSocks, Waiting
<1>6. \A b, c \in Attempt : at'[b] = "resolved" /\ c <= b => c # a /\ at[b] = "resolved"
  <2>1. \A b \in Attempt : at'[b] = "resolved" => b # a /\ at[b] = "resolved" /\ ~(a < b)
    BY <1>1, <1>3 DEF TypeInv, TypeOK
  <2>2. \A b, c \in Attempt : c <= b /\ b # a /\ ~(a < b) => c # a
    BY AttemptAssumption DEF Attempt
  <2>3. QED
    BY <2>1, <2>2
<1>7. ResultOnOwnConnection'
  BY <1>1, <1>6 DEF TypeInv, TypeOK, ResultInv, ResultOnOwnConnection
<1>8. QED
  BY <1>5, <1>7 DEF ResultInv

LEMMA AttemptedResultInv ==
  ASSUME TypeInv, Sequential, ResultInv, NEW a \in Attempt, Attempted(a)
  PROVE  ResultInv'
<1>1. CASE Prepared(a) \/ Forwarded(a)
  BY <1>1, HopStep, MoveResultInv
<1>2. CASE Connected(a)
  <2>1. PICK to \in {"session", "install"} : at' = [at EXCEPT ![a] = to]
    BY <1>2 DEF Connected, Goto
  <2>2. QED
    BY <1>2, <2>1, MoveResultInv DEF Connected
<1>3. CASE OpenSession(a)
  <2>1. self'.socks = self.socks
    BY <1>3 DEF OpenSession, TypeInv, Fields
  <2>2. QED
    BY <1>3, <2>1, MoveResultInv DEF OpenSession, Goto
<1>4. CASE SessionRefused(a) \/ ReadPath(a) \/ NoPath(a)
  BY <1>4, MoveResultInv DEF SessionRefused, ReadPath, NoPath, Goto
<1>5. CASE Installed(a)
  <2>1. cfg[a].dynamic \in BOOLEAN
    BY <1>5, ConfigAssumption DEF Installed, Goto, TypeInv, Configured, Configuration
  <2>2. at' = [at EXCEPT ![a] = IF cfg[a].dynamic THEN "socks" ELSE "tunnel"]
    BY <1>5 DEF Installed, Goto
  <2>3. QED
    BY <1>5, <2>1, <2>2, MoveResultInv DEF Installed
<1>6. CASE Fails(a)
  BY <1>6, MoveResultInv DEF Fails
<1>7. QED
  BY <1>1, <1>2, <1>3, <1>4, <1>5, <1>6, SocksListensResultInv, TunnelOpensResultInv
  DEF Attempted

LEMMA DisposeResultInv ==
  ASSUME TypeInv, ResultInv, Dispose
  PROVE  ResultInv'
<1>1. \A a \in Attempt : /\ tunnel'[a].through = tunnel[a].through
                         /\ socks[a] = "none" => socks'[a] = "none"
  BY DEF Dispose, TypeInv, TypeOK
<1>2. self'.socks = self.socks
  BY DEF Dispose, TypeInv, Fields
<1>3. QED
  BY <1>1, <1>2, QuietResultInv DEF Dispose

LEMMA NextResultInv ==
  ASSUME TypeInv, Sequential, ResultInv, [Next]_vars
  PROVE  ResultInv'
<1>1. ASSUME NEW a \in Attempt, Resolve(a)
      PROVE  ResultInv'
  <2>1. \A b \in Attempt : b # a => cfg'[b] = cfg[b]
    BY <1>1 DEF Resolve, TypeInv, TypeOK
  <2>2. QED
    BY <1>1, <2>1, MoveResultInv DEF Resolve, Goto
<1>2. ASSUME NEW a \in Attempt, ProcessExits(a)
      PROVE  ResultInv'
  BY <1>2, QuietResultInv DEF ProcessExits
<1>3. ASSUME NEW c \in Conn, Up(c) \/ Down(c)
      PROVE  ResultInv'
  BY <1>3, QuietResultInv DEF Up, Down
<1>4. CASE UNCHANGED vars
  BY <1>4, QuietResultInv DEF vars
<1>5. QED
  BY <1>1, <1>2, <1>3, <1>4, AttemptedResultInv, DisposeResultInv DEF Next

\* Whatever each attempt reads, the setting enableDynamicForwarding included: a result of
\* an attempt that has read it on leads through its own connection's SOCKS server, never
\* one of an earlier connection, and the result of any other through none or the newest
\* SOCKS server there was (lines 129, 281-290 and 395-401).
THEOREM ResultsOnOwnConnection == Spec => []ResultOnOwnConnection
<1>1. Init => ResultInv
  BY DEF Init, ResultInv, OwnSocks, ResultOnOwnConnection
<1>2. TypeInv /\ Sequential /\ ResultInv /\ [Next]_vars => ResultInv'
  BY NextResultInv
<1>3. ResultInv => ResultOnOwnConnection
  BY DEF ResultInv
<1>4. QED
  BY <1>1, <1>2, <1>3, TypeInvariant, SequentialInvariant, PTL DEF Spec

-----------------------------------------------------------------------------
(* The agent socket of a result *)

Newest(a) == \A b \in Attempt : b > a => at[b] = "idle"

\* A path is read before the server is installed.
PathStage ==
  \A a \in Attempt : path[a] => at[a] \in {"install", "socks", "tunnel"} \cup Settled

\* A connection that an agent session was asked of does not come up again.
Reached ==
  \A a \in Attempt : at[a] \in {"session", "path"} \/ path[a] => conn[Main(a)] \in {"up", "down"}

\* Terminals get the path of the newest attempt once its server is installed.
EnvIsNewest ==
  \A a \in Attempt :
    Newest(a) /\ path[a] /\ at[a] \in {"socks", "tunnel", "resolved"} => env = a

\* Its channel is closed only by dispose, or with the connection.
ChannelOpen ==
  \A a \in Attempt :
    Newest(a) /\ path[a] /\ conn[Main(a)] = "up" /\ ~self.disposed => chan[a] = "open"

AgentInv == PathStage /\ Reached /\ EnvIsNewest /\ ChannelOpen

\* No attempt becomes idle again.
LEMMA NewestBefore ==
  ASSUME TypeInv, [Next]_vars, NEW a \in Attempt, Newest(a)'
  PROVE  Newest(a)
<1>1. CASE UNCHANGED <<at, cfg>>
  BY <1>1 DEF Newest
<1>2. ASSUME NEW b \in Attempt, Resolve(b) \/ Moves(b)
      PROVE  \A d \in Attempt : at'[d] = "idle" => at[d] = "idle"
  BY <1>2 DEF Resolve, Goto, Moves, Waiting, Settled, TypeInv, TypeOK
<1>3. QED
  BY <1>1, <1>2, StageSteps DEF Newest

\* While an attempt waits, no other one that has begun is the newest.
LEMMA WaitingIsNewest ==
  ASSUME Sequential, NEW a \in Attempt, at[a] \in Waiting,
         NEW b \in Attempt, Newest(b), at[b] # "idle"
  PROVE  b = a
<1>1. CASE b < a
  BY <1>1 DEF Newest, Waiting
<1>2. CASE a < b
  BY <1>2, Alone DEF Attempt
<1>3. QED
  BY <1>1, <1>2, AttemptOrder

\* The steps that change neither channels, connections, paths nor terminals, and
\* begin no stage the invariant is about.
LEMMA MoveAgentInv ==
  ASSUME TypeInv, [Next]_vars, AgentInv, NEW a \in Attempt, NEW to,
         at' = [at EXCEPT ![a] = to],
         \/ ~path[a] /\ to \notin {"session", "path"}
         \/ to \in {"session", "path"} /\ ~path[a] /\ conn[Main(a)] \in {"up", "down"}
         \/ to \in {"install", "failed"}
         \/ to \in {"tunnel", "resolved"} /\ at[a] \in {"socks", "tunnel"},
         UNCHANGED <<path, conn, env, chan>>, self'.disposed = self.disposed
  PROVE  AgentInv'
<1>1. PathStage'
  BY DEF AgentInv, PathStage, TypeInv, TypeOK, Settled
<1>2. Reached'
  BY DEF AgentInv, Reached, TypeInv, TypeOK
<1>3. EnvIsNewest'
  BY NewestBefore DEF AgentInv, EnvIsNewest, TypeInv, TypeOK
<1>4. ChannelOpen'
  BY NewestBefore DEF AgentInv, ChannelOpen
<1>5. QED
  BY <1>1, <1>2, <1>3, <1>4 DEF AgentInv

LEMMA QuietAgentInv ==
  ASSUME AgentInv, UNCHANGED <<at, path, env>>,
         self.disposed => self'.disposed,
         \A c \in Conn : conn'[c] = conn[c]
                         \/ (conn'[c] = "up" /\ conn[c] = "opening")
                         \/ conn'[c] = "down",
         \A a \in Attempt : chan'[a] = chan[a] \/ self'.disposed \/ conn'[Main(a)] # "up"
  PROVE  AgentInv'
<1>1. \A a \in Attempt : Main(a) \in Conn
  BY ConnType DEF MaxJumps
<1>2. \A a \in Attempt : path[a] => /\ conn[Main(a)] \in {"up", "down"}
                                    /\ conn'[Main(a)] \in {conn[Main(a)], "down"}
  BY <1>1 DEF AgentInv, Reached
<1>3. PathStage' /\ EnvIsNewest'
  BY DEF AgentInv, PathStage, EnvIsNewest, Newest
<1>4. Reached'
  BY <1>1, <1>2 DEF AgentInv, Reached
<1>5. ChannelOpen'
  BY <1>2 DEF AgentInv, ChannelOpen, Newest
<1>6. QED
  BY <1>3, <1>4, <1>5 DEF AgentInv

LEMMA HopAgentInv ==
  ASSUME TypeInv, [Next]_vars, AgentInv, NEW a \in Attempt, Prepared(a) \/ Forwarded(a)
  PROVE  AgentInv'
<1>1. /\ at[a] \in {"prepare", "jump"}
      /\ \E to \in {"jump", "connect"} : at' = [at EXCEPT ![a] = to]
      /\ self'.disposed = self.disposed
      /\ UNCHANGED <<chan, path, env>>
  BY HopStep
<1>2. PICK i \in 0..MaxJumps : conn' = [conn EXCEPT ![<<a, i>>] = "opening"]
  BY HopStep
<1>3. ~path[a]
  BY <1>1 DEF AgentInv, PathStage, Settled
<1>4. \A b \in Attempt : b # a => conn'[Main(b)] = conn[Main(b)]
  BY <1>2, ConnType DEF Main, MaxJumps, TypeInv, TypeOK
<1>5. PathStage'
  BY <1>1, <1>3 DEF AgentInv, PathStage, TypeInv, TypeOK
<1>6. Reached'
  BY <1>1, <1>3, <1>4 DEF AgentInv, Reached, TypeInv, TypeOK
<1>7. EnvIsNewest'
  BY <1>1, <1>3, NewestBefore DEF AgentInv, EnvIsNewest, TypeInv, TypeOK
<1>8. ChannelOpen'
  BY <1>1, <1>3, <1>4, NewestBefore DEF AgentInv, ChannelOpen
<1>9. QED
  BY <1>5, <1>6, <1>7, <1>8 DEF AgentInv

\* A new session closes the channel of the one before, which belongs to an
\* attempt that is not the newest.
LEMMA OpenSessionAgentInv ==
  ASSUME TypeInv, [Next]_vars, Sequential, AgentInv, NEW a \in Attempt, OpenSession(a)
  PROVE  AgentInv'
<1>1. /\ at[a] = "session" /\ at' = [at EXCEPT ![a] = "path"]
      /\ conn[Main(a)] = "up"
      /\ UNCHANGED <<conn, path, env>>
  BY DEF OpenSession, Goto
<1>2. self'.disposed = self.disposed
  BY DEF OpenSession, TypeInv, Fields
<1>3. ~path[a]
  BY <1>1 DEF AgentInv, PathStage, Settled
<1>4. \A b \in Attempt : Newest(b) => ~path[b]
  <2>1. ASSUME NEW b \in Attempt, Newest(b), path[b]
        PROVE  FALSE
    <3>1. at[b] # "idle"
      BY <2>1 DEF AgentInv, PathStage, Settled
    <3>2. QED
      BY <1>1, <1>3, <2>1, <3>1, WaitingIsNewest DEF Waiting
  <2>2. QED
    BY <2>1
<1>5. PathStage'
  BY <1>1, <1>3 DEF AgentInv, PathStage, TypeInv, TypeOK
<1>6. Reached'
  BY <1>1 DEF AgentInv, Reached, TypeInv, TypeOK
<1>7. EnvIsNewest' /\ ChannelOpen'
  BY <1>1, <1>4, NewestBefore DEF EnvIsNewest, ChannelOpen
<1>8. QED
  BY <1>5, <1>6, <1>7 DEF AgentInv

LEMMA ReadPathAgentInv ==
  ASSUME TypeInv, [Next]_vars, AgentInv, NEW a \in Attempt, ReadPath(a)
  PROVE  AgentInv'
<1>1. /\ at[a] = "path" /\ at' = [at EXCEPT ![a] = "install"]
      /\ chan[a] = "open" /\ path' = [path EXCEPT ![a] = TRUE]
      /\ UNCHANGED <<self, conn, chan, env>>
  BY DEF ReadPath, Goto
<1>2. conn[Main(a)] \in {"up", "down"}
  BY <1>1 DEF AgentInv, Reached
<1>3. PathStage'
  BY <1>1 DEF AgentInv, PathStage, TypeInv, TypeOK
<1>4. Reached'
  BY <1>1, <1>2 DEF AgentInv, Reached, TypeInv, TypeOK
<1>5. EnvIsNewest'
  BY <1>1, NewestBefore DEF AgentInv, EnvIsNewest, TypeInv, TypeOK
<1>6. ChannelOpen'
  BY <1>1, NewestBefore DEF AgentInv, ChannelOpen, TypeInv, TypeOK
<1>7. QED
  BY <1>3, <1>4, <1>5, <1>6 DEF AgentInv

LEMMA InstalledAgentInv ==
  ASSUME TypeInv, [Next]_vars, Sequential, AgentInv, NEW a \in Attempt, Installed(a)
  PROVE  AgentInv'
<1>1. /\ at[a] = "install"
      /\ \E to \in {"socks", "tunnel"} : at' = [at EXCEPT ![a] = to]
      /\ env' = IF path[a] THEN a ELSE env
      /\ UNCHANGED <<self, conn, chan, path>>
  BY DEF Installed, Goto
<1>2. PathStage'
  BY <1>1 DEF AgentInv, PathStage, TypeInv, TypeOK
<1>3. Reached'
  BY <1>1 DEF AgentInv, Reached, TypeInv, TypeOK
<1>4. EnvIsNewest'
  <2>1. ASSUME NEW b \in Attempt, Newest(b)', path'[b]
        PROVE  b = a
    <3>1. at[b] # "idle" /\ Newest(b)
      BY <1>1, <2>1, NewestBefore DEF AgentInv, PathStage, Settled
    <3>2. QED
      BY <1>1, <3>1, WaitingIsNewest DEF Waiting
  <2>2. QED
    BY <1>1, <2>1 DEF EnvIsNewest
<1>5. ChannelOpen'
  BY <1>1, NewestBefore DEF AgentInv, ChannelOpen
<1>6. QED
  BY <1>2, <1>3, <1>4, <1>5 DEF AgentInv

LEMMA AttemptedAgentInv ==
  ASSUME TypeInv, [Next]_vars, Sequential, AgentInv, NEW a \in Attempt, Attempted(a)
  PROVE  AgentInv'
<1>1. CASE Connected(a)
  <2>1. at[a] = "connect" /\ conn[Main(a)] = "up"
    BY <1>1 DEF Connected, Goto
  <2>2. ~path[a]
    BY <2>1 DEF AgentInv, PathStage, Settled
  <2>3. PICK to \in {"session", "install"} : at' = [at EXCEPT ![a] = to]
    BY <1>1 DEF Connected, Goto
  <2>4. QED
    BY <1>1, <2>1, <2>2, <2>3, MoveAgentInv DEF Connected
<1>2. CASE SessionRefused(a) \/ NoPath(a)
  BY <1>2, MoveAgentInv DEF SessionRefused, NoPath, Goto
<1>3. CASE SocksListens(a)
  <2>1. self'.disposed = self.disposed
    BY <1>3 DEF SocksListens, TypeInv, Fields
  <2>2. QED
    BY <1>3, <2>1, MoveAgentInv DEF SocksListens, Goto
<1>4. CASE TunnelOpens(a)
  <2>1. self'.disposed = self.disposed
    BY <1>4 DEF TunnelOpens, TypeInv, Fields
  <2>2. QED
    BY <1>4, <2>1, MoveAgentInv DEF TunnelOpens, Goto
<1>5. CASE Fails(a)
  BY <1>5, MoveAgentInv DEF Fails
<1>6. QED
  BY <1>1, <1>2, <1>3, <1>4, <1>5, HopAgentInv, OpenSessionAgentInv, ReadPathAgentInv,
     InstalledAgentInv
  DEF Attempted

LEMMA DownAgentInv ==
  ASSUME TypeInv, AgentInv, NEW c \in Conn, Down(c)
  PROVE  AgentInv'
<1>1. \A d \in Conn : conn'[d] = conn[d] \/ conn'[d] = "down"
  BY DEF Down, TypeInv, TypeOK
<1>2. ASSUME NEW a \in Attempt, chan'[a] # chan[a]
      PROVE  conn'[Main(a)] # "up"
  <2>1. c[1] = a /\ c[2] = 0
    BY <1>2 DEF Down, TypeInv, TypeOK
  <2>2. c = Main(a)
    BY <2>1 DEF Conn, Main
  <2>3. QED
    BY <2>2 DEF Down, TypeInv, TypeOK
<1>3. QED
  BY <1>1, <1>2, QuietAgentInv DEF Down

LEMMA NextAgentInv ==
  ASSUME TypeInv, [Next]_vars, Sequential, AgentInv
  PROVE  AgentInv'
<1>1. ASSUME NEW a \in Attempt, Resolve(a)
      PROVE  AgentInv'
  <2>1. ~path[a]
    BY <1>1 DEF Resolve, Goto, AgentInv, PathStage, Settled
  <2>2. QED
    BY <1>1, <2>1, MoveAgentInv DEF Resolve, Goto
<1>2. ASSUME NEW a \in Attempt, ProcessExits(a)
      PROVE  AgentInv'
  BY <1>2, QuietAgentInv DEF ProcessExits
<1>3. ASSUME NEW c \in Conn, Up(c)
      PROVE  AgentInv'
  <2>1. conn[c] = "opening" /\ conn' = [conn EXCEPT ![c] = "up"] /\ DOMAIN conn = Conn
    BY <1>3 DEF Up, TypeInv, TypeOK
  <2>2. \A d \in Conn : conn'[d] = conn[d] \/ (conn'[d] = "up" /\ conn[d] = "opening")
    BY <2>1
  <2>3. QED
    BY <1>3, <2>2, QuietAgentInv DEF Up
<1>4. CASE Dispose
  <2>1. self'.disposed
    BY <1>4 DEF Dispose, TypeInv, Fields
  <2>2. QED
    BY <1>4, <2>1, QuietAgentInv DEF Dispose
<1>5. CASE UNCHANGED vars
  BY <1>5, QuietAgentInv DEF vars
<1>6. QED
  BY <1>1, <1>2, <1>3, <1>4, <1>5, AttemptedAgentInv, DownAgentInv DEF Next

\* The terminals of the newest result use the agent socket of its own connection,
\* which lives as long as that connection: a later attempt takes both over, an
\* earlier one never does.
THEOREM AgentSocketsLive == Spec => []AgentSocketLives
<1>1. Init => AgentInv
  BY DEF Init, AgentInv, PathStage, Reached, EnvIsNewest, ChannelOpen
<1>2. TypeInv /\ Sequential /\ AgentInv /\ [Next]_vars => AgentInv'
  BY NextAgentInv
<1>3. AgentInv => AgentSocketLives
  BY DEF AgentInv, EnvIsNewest, ChannelOpen, AgentSocketLives, Latest, Newest
<1>4. QED
  BY <1>1, <1>2, <1>3, TypeInvariant, SequentialInvariant, PTL DEF Spec

-----------------------------------------------------------------------------
(* The tunnels after dispose *)

\* A quiet dispose comes when nobody waits, and nobody begins afterwards; it
\* remembers the tunnel of every result.
DisposedInv ==
  /\ self.disposed => \A a \in Attempt : at[a] \notin Waiting
  /\ \A a \in Attempt : at[a] = "resolved" /\ ~self.disposed => a \in self.tunnels
  /\ OwnTunnelsClosed

LEMMA NextDisposedInv ==
  ASSUME Quiet, TypeInv, DisposedInv, [Next]_vars
  PROVE  DisposedInv'
<1>1. ASSUME NEW a \in Attempt, NEW to \in Waiting \cup {"failed"},
             ~self.disposed, ~self'.disposed, at' = [at EXCEPT ![a] = to],
             self'.tunnels = self.tunnels
      PROVE  DisposedInv'
  BY <1>1 DEF DisposedInv, OwnTunnelsClosed, TypeInv, TypeOK, Waiting
<1>2. ASSUME UNCHANGED <<at, self, tunnel>>
      PROVE  DisposedInv'
  BY <1>2 DEF DisposedInv, OwnTunnelsClosed
<1>3. ASSUME NEW a \in Attempt, Resolve(a)
      PROVE  DisposedInv'
  BY <1>1, <1>3 DEF Resolve, Goto, Waiting
<1>4. ASSUME NEW a \in Attempt, Attempted(a)
      PROVE  DisposedInv'
  <2> USE DEF Waiting
  <2>1. ~self.disposed
    BY <1>4, AttemptedMoves DEF Moves, DisposedInv
  <2>2. CASE Prepared(a) \/ Forwarded(a)
    BY <1>1, <2>1, <2>2, HopStep
  <2>3. CASE Connected(a)
    <3>1. PICK to \in {"session", "install"} : at' = [at EXCEPT ![a] = to]
      BY <2>3 DEF Connected, Goto
    <3>2. QED
      BY <1>1, <2>1, <2>3, <3>1 DEF Connected
  <2>4. CASE OpenSession(a)
    <3>1. self'.disposed = self.disposed /\ self'.tunnels = self.tunnels
      BY <2>4 DEF OpenSession, TypeInv, Fields
    <3>2. QED
      BY <1>1, <2>1, <2>4, <3>1 DEF OpenSession, Goto
  <2>5. CASE SessionRefused(a) \/ ReadPath(a) \/ NoPath(a)
    BY <1>1, <2>1, <2>5 DEF SessionRefused, ReadPath, NoPath, Goto
  <2>6. CASE Installed(a)
    <3>1. PICK to \in {"socks", "tunnel"} : at' = [at EXCEPT ![a] = to]
      BY <2>6 DEF Installed, Goto
    <3>2. QED
      BY <1>1, <2>1, <2>6, <3>1 DEF Installed
  <2>7. CASE SocksListens(a)
    <3>1. self'.disposed = self.disposed /\ self'.tunnels = self.tunnels
      BY <2>7 DEF SocksListens, TypeInv, Fields
    <3>2. QED
      BY <1>1, <2>1, <2>7, <3>1 DEF SocksListens, Goto
  <2>8. CASE TunnelOpens(a)
    <3>1. ~self'.disposed /\ self'.tunnels = self.tunnels \cup {a}
      BY <2>1, <2>8 DEF TunnelOpens, TypeInv, Fields
    <3>2. at' = [at EXCEPT ![a] = "resolved"]
      BY <2>8 DEF TunnelOpens, Goto
    <3>3. QED
      BY <2>1, <3>1, <3>2 DEF DisposedInv, OwnTunnelsClosed, TypeInv, TypeOK
  <2>9. CASE Fails(a)
    BY <1>1, <2>1, <2>9 DEF Fails
  <2>10. QED
    BY <1>4, <2>2, <2>3, <2>4, <2>5, <2>6, <2>7, <2>8, <2>9 DEF Attempted
<1>5. CASE Dispose
  <2>1. /\ ~self.disposed /\ self'.disposed /\ self'.main = self.main
        /\ at' = at /\ \A a \in Attempt : at[a] \notin Waiting
    BY <1>5 DEF Dispose, TypeInv, Fields
  <2>2. ASSUME NEW a \in Attempt, at[a] = "resolved",
               tunnel'[a].through # None \/ self.main = a
        PROVE  tunnel'[a].state = "closed"
    <3>1. a \in self.tunnels /\ tunnel'[a].through = tunnel[a].through
      BY <1>5, <2>1, <2>2 DEF Dispose, DisposedInv, TypeInv, TypeOK
    <3>2. TunnelDisposed(a)
      BY <2>2, <3>1 DEF TunnelDisposed
    <3>3. QED
      BY <1>5, <3>2 DEF Dispose, TypeInv, TypeOK
  <2>3. QED
    BY <2>1, <2>2 DEF DisposedInv, OwnTunnelsClosed
<1>6. ASSUME NEW a \in Attempt, ProcessExits(a)
      PROVE  DisposedInv'
  BY <1>2, <1>6 DEF ProcessExits
<1>7. ASSUME NEW c \in Conn, Up(c) \/ Down(c)
      PROVE  DisposedInv'
  BY <1>2, <1>7 DEF Up, Down
<1>8. CASE UNCHANGED vars
  BY <1>2, <1>8 DEF vars
<1>9. QED
  BY <1>3, <1>4, <1>5, <1>6, <1>7, <1>8 DEF Next

\* When dispose comes between attempts, it closes every tunnel through a SOCKS
\* server and the direct one of the connection in use, of however many attempts.
THEOREM TunnelsAreClosed == Quiet /\ Spec => []OwnTunnelsClosed
<1>1. Init => DisposedInv
  BY DEF Init, DisposedInv, OwnTunnelsClosed, Waiting
<1>2. ASSUME Quiet
      PROVE  TypeInv /\ DisposedInv /\ [Next]_vars => DisposedInv'
  BY <1>2, NextDisposedInv
<1>3. DisposedInv => OwnTunnelsClosed
  BY DEF DisposedInv
<1>4. CASE Quiet
  BY <1>1, <1>2, <1>3, <1>4, TypeInvariant, PTL DEF Spec
<1>5. QED
  BY <1>4

-----------------------------------------------------------------------------
(* What dispose closes of the connection in use *)

\* The connection that carries all others of an attempt.
Foot(a) == IF cfg[a].jumps = 0 THEN Main(a) ELSE Jump(a, 1)

\* dispose() calls close() on what carries the connection in use, when the first
\* jump host it remembers, if any, is of the same attempt (lines 583-588).
FirstChainClosed ==
  \A a \in Attempt :
    (/\ self.disposed /\ self.main = a
     /\ self.proxies # <<>> => Head(self.proxies)[1] = a)
      => Foot(a) \in asked

\* The first connection remembered is the first jump of an attempt that has some, and
\* whoever uses jumps is remembered.
ProxiesInv ==
  /\ self.proxies # <<>> =>
       \E b \in Attempt : Head(self.proxies) = Jump(b, 1) /\ at[b] # "idle" /\ cfg[b].jumps > 0
  /\ \A a \in Attempt : at[a] = "jump" => self.proxies # <<>>
  /\ \A a \in Attempt :
       self.main = a => at[a] # "idle" /\ (cfg[a].jumps > 0 => self.proxies # <<>>)

ChainInv == ProxiesInv /\ FirstChainClosed

\* The steps of an attempt that open no connection.
LEMMA MoveChainInv ==
  ASSUME TypeInv, ChainInv, NEW a \in Attempt, NEW to \in (Waiting \cup Settled) \ {"jump"},
         at' = [at EXCEPT ![a] = to], UNCHANGED <<cfg, asked>>,
         self'.proxies = self.proxies, self'.main = self.main, self'.disposed = self.disposed
  PROVE  ChainInv'
<1>1. \A b \in Attempt : /\ at[b] # "idle" => at'[b] # "idle"
                         /\ at'[b] = "jump" => at[b] = "jump"
  BY DEF TypeInv, TypeOK, Waiting, Settled
<1>2. ProxiesInv'
  BY <1>1 DEF ChainInv, ProxiesInv
<1>3. FirstChainClosed'
  BY DEF ChainInv, FirstChainClosed, Foot
<1>4. QED
  BY <1>2, <1>3 DEF ChainInv

LEMMA ToJumpChainInv ==
  ASSUME TypeInv, ProxiesInv, NEW a \in Attempt, NEW i \in 1..MaxJumps,
         at[a] = "jump" \/ i = 1, cfg[a].jumps \in 0..MaxJumps, i <= cfg[a].jumps,
         ToJump(a, i), cfg' = cfg
  PROVE  ProxiesInv'
<1>1. /\ self'.proxies = Append(self.proxies, Jump(a, i)) /\ self'.main = self.main
      /\ self.proxies \in Seq(Conn) /\ Jump(a, i) \in Conn
  BY ConnType DEF ToJump, TypeInv, Fields, MaxJumps
<1>2. \A b \in Attempt : /\ at[b] # "idle" => at'[b] # "idle"
                         /\ b = a => at'[b] # "idle"
  BY DEF ToJump, TypeInv, TypeOK
<1>3. cfg[a].jumps > 0
  BY DEF MaxJumps
<1>4. self'.proxies # <<>>
  BY <1>1
<1>5. CASE self.proxies = <<>>
  <2>1. i = 1 /\ Head(self'.proxies) = Jump(a, 1)
    BY <1>1, <1>5 DEF ProxiesInv
  <2>2. QED
    BY <1>1, <1>2, <1>3, <1>4, <2>1 DEF ProxiesInv
<1>6. CASE self.proxies # <<>>
  <2>1. Head(self'.proxies) = Head(self.proxies)
    BY <1>1, <1>6
  <2>2. QED
    BY <1>1, <1>2, <1>4, <1>6, <2>1 DEF ProxiesInv
<1>7. QED
  BY <1>5, <1>6

LEMMA HopChainInv ==
  ASSUME TypeInv, ChainInv, ~self.disposed, NEW a \in Attempt, Prepared(a) \/ Forwarded(a)
  PROVE  ChainInv'
<1>1. /\ UNCHANGED <<cfg, asked>> /\ at[a] \in {"prepare", "jump"}
      /\ cfg[a] \in Config /\ cfg[a].jumps \in 0..MaxJumps
  <2>1. UNCHANGED <<cfg, asked>> /\ at[a] \in {"prepare", "jump"}
    BY DEF Prepared, Forwarded
  <2>2. cfg[a] \in Config
    BY <2>1 DEF TypeInv, Configured
  <2>3. QED
    BY <2>1, <2>2, ConfigAssumption DEF Configuration
<1>2. PICK i \in 1..MaxJumps+1 : NextHop(a, i) /\ (at[a] = "jump" \/ i = 1)
  <2>1. hop[a] + 1 \in 1..MaxJumps+1 /\ 1 \in 1..MaxJumps+1
    BY DEF TypeInv, TypeOK, MaxJumps
  <2>2. QED
    BY <2>1 DEF Prepared, Forwarded
<1>3. self'.disposed = self.disposed
  BY HopStep
<1>4. FirstChainClosed'
  BY <1>3 DEF FirstChainClosed
<1>5. CASE i <= cfg[a].jumps
  <2>1. i \in 1..MaxJumps /\ ToJump(a, i)
    BY <1>1, <1>2, <1>5 DEF NextHop, MaxJumps
  <2>2. QED
    BY <1>1, <1>2, <1>4, <1>5, <2>1, ToJumpChainInv DEF ChainInv
<1>6. CASE ~(i <= cfg[a].jumps)
  <2>1. /\ at' = [at EXCEPT ![a] = "connect"]
        /\ self'.main = a /\ self'.proxies = self.proxies
    BY <1>2, <1>6 DEF NextHop, ToMain, TypeInv, Fields
  <2>2. cfg[a].jumps > 0 => self.proxies # <<>>
    BY <1>1, <1>2, <1>6 DEF ChainInv, ProxiesInv, MaxJumps
  <2>3. \A b \in Attempt : /\ at[b] # "idle" => at'[b] # "idle"
                           /\ at'[b] = "jump" => at[b] = "jump"
                           /\ b = a => at'[b] # "idle"
    BY <2>1 DEF TypeInv, TypeOK
  <2>4. ProxiesInv'
    BY <1>1, <2>1, <2>2, <2>3 DEF ChainInv, ProxiesInv
  <2>5. QED
    BY <1>4, <2>4 DEF ChainInv
<1>7. QED
  BY <1>5, <1>6

LEMMA AttemptedChainInv ==
  ASSUME TypeInv, ChainInv, ~self.disposed, NEW a \in Attempt, Attempted(a)
  PROVE  ChainInv'
<1> USE DEF Waiting, Settled
<1>1. CASE Prepared(a) \/ Forwarded(a)
  BY <1>1, HopChainInv
<1>2. CASE Connected(a)
  <2>1. PICK to \in {"session", "install"} : at' = [at EXCEPT ![a] = to]
    BY <1>2 DEF Connected, Goto
  <2>2. QED
    BY <1>2, <2>1, MoveChainInv DEF Connected
<1>3. CASE OpenSession(a)
  <2>1. /\ self'.proxies = self.proxies /\ self'.main = self.main
        /\ self'.disposed = self.disposed
    BY <1>3 DEF OpenSession, TypeInv, Fields
  <2>2. QED
    BY <1>3, <2>1, MoveChainInv DEF OpenSession, Goto
<1>4. CASE SessionRefused(a) \/ ReadPath(a) \/ NoPath(a)
  BY <1>4, MoveChainInv DEF SessionRefused, ReadPath, NoPath, Goto
<1>5. CASE Installed(a)
  <2>1. PICK to \in {"socks", "tunnel"} : at' = [at EXCEPT ![a] = to]
    BY <1>5 DEF Installed, Goto
  <2>2. QED
    BY <1>5, <2>1, MoveChainInv DEF Installed
<1>6. CASE SocksListens(a)
  <2>1. /\ self'.proxies = self.proxies /\ self'.main = self.main
        /\ self'.disposed = self.disposed
    BY <1>6 DEF SocksListens, TypeInv, Fields
  <2>2. QED
    BY <1>6, <2>1, MoveChainInv DEF SocksListens, Goto
<1>7. CASE TunnelOpens(a)
  <2>1. /\ self'.proxies = self.proxies /\ self'.main = self.main
        /\ self'.disposed = self.disposed
    BY <1>7 DEF TunnelOpens, TypeInv, Fields
  <2>2. QED
    BY <1>7, <2>1, MoveChainInv DEF TunnelOpens, Goto
<1>8. CASE Fails(a)
  BY <1>8, MoveChainInv DEF Fails
<1>9. QED
  BY <1>1, <1>2, <1>3, <1>4, <1>5, <1>6, <1>7, <1>8 DEF Attempted

\* What is closed is the first jump of the attempt whose connection is in use, or that
\* connection itself.
LEMMA DisposeChainInv ==
  ASSUME TypeInv, ChainInv, Dispose
  PROVE  ChainInv'
<1>1. /\ self'.proxies = self.proxies /\ self'.main = self.main
      /\ UNCHANGED <<at, cfg>> /\ asked' = asked \cup Closing
  BY DEF Dispose, TypeInv, Fields
<1>2. ProxiesInv'
  BY <1>1 DEF ChainInv, ProxiesInv
<1>3. ASSUME NEW a \in Attempt, self.main = a,
             self.proxies # <<>> => Head(self.proxies)[1] = a
      PROVE  Foot(a) \in Closing
  <2>1. at[a] # "idle" /\ (cfg[a].jumps > 0 => self.proxies # <<>>)
    BY <1>3 DEF ChainInv, ProxiesInv
  <2>2. cfg[a] \in Configuration
    BY <2>1, ConfigAssumption DEF TypeInv, Configured
  <2>3. cfg[a].jumps \in Nat
    BY <2>2 DEF Configuration, MaxJumps
  <2>4. CASE self.proxies # <<>>
    <3>1. PICK b \in Attempt : Head(self.proxies) = Jump(b, 1) /\ cfg[b].jumps > 0
      BY <2>4 DEF ChainInv, ProxiesInv
    <3>2. b = a
      BY <1>3, <2>4, <3>1 DEF Jump
    <3>3. Foot(a) = Head(self.proxies)
      BY <2>3, <3>1, <3>2 DEF Foot
    <3>4. QED
      BY <2>4, <3>3 DEF Closing
  <2>5. CASE self.proxies = <<>>
    <3>1. Foot(a) = Main(a)
      BY <2>1, <2>3, <2>5 DEF Foot
    <3>2. self.main # None
      BY <1>3, AttemptAssumption DEF Attempt
    <3>3. QED
      BY <1>3, <2>5, <3>1, <3>2 DEF Closing
  <2>6. QED
    BY <2>4, <2>5
<1>4. FirstChainClosed'
  BY <1>1, <1>3 DEF FirstChainClosed, Foot
<1>5. QED
  BY <1>2, <1>4 DEF ChainInv

LEMMA NextChainInv ==
  ASSUME Quiet, TypeInv, DisposedInv, ChainInv, [Next]_vars
  PROVE  ChainInv'
<1>1. ASSUME UNCHANGED <<at, cfg, self, asked>>
      PROVE  ChainInv'
  BY <1>1 DEF ChainInv, ProxiesInv, FirstChainClosed, Foot
<1>2. ASSUME NEW a \in Attempt, Resolve(a)
      PROVE  ChainInv'
  <2>1. /\ at[a] = "idle" /\ at' = [at EXCEPT ![a] = "prepare"]
        /\ ~self.disposed /\ self' = self
        /\ \A b \in Attempt : b # a => cfg'[b] = cfg[b]
    BY <1>2 DEF Resolve, Goto, TypeInv, TypeOK
  <2>2. \A b \in Attempt : /\ at[b] # "idle" => at'[b] = at[b] /\ cfg'[b] = cfg[b]
                           /\ at'[b] = "jump" => at[b] = "jump"
    BY <2>1 DEF TypeInv, TypeOK
  <2>3. ProxiesInv'
    BY <2>1, <2>2 DEF ChainInv, ProxiesInv
  <2>4. QED
    BY <2>1, <2>3 DEF ChainInv, FirstChainClosed
<1>3. ASSUME NEW a \in Attempt, Attempted(a)
      PROVE  ChainInv'
  <2>1. ~self.disposed
    BY <1>3, AttemptedMoves DEF Moves, DisposedInv
  <2>2. QED
    BY <1>3, <2>1, AttemptedChainInv
<1>4. ASSUME NEW a \in Attempt, ProcessExits(a)
      PROVE  ChainInv'
  BY <1>1, <1>4 DEF ProcessExits
<1>5. ASSUME NEW c \in Conn, Up(c) \/ Down(c)
      PROVE  ChainInv'
  BY <1>1, <1>5 DEF Up, Down
<1>6. CASE UNCHANGED vars
  BY <1>1, <1>6 DEF vars
<1>7. QED
  BY <1>2, <1>3, <1>4, <1>5, <1>6, DisposeChainInv DEF Next

\* A dispose between attempts calls close() on the connection in use, or on the first
\* jump that carries it, unless the first jump remembered is of another attempt: the
\* safety half of FirstChainReleased, for any number of attempts.
THEOREM FirstChainsAreClosed == Quiet /\ Spec => []FirstChainClosed
<1>1. Init => DisposedInv
  BY DEF Init, DisposedInv, OwnTunnelsClosed, Waiting
<1>2. Init => ChainInv
  BY AttemptAssumption DEF Init, ChainInv, ProxiesInv, FirstChainClosed, Attempt
<1>3. ASSUME Quiet
      PROVE  /\ TypeInv /\ DisposedInv /\ [Next]_vars => DisposedInv'
             /\ TypeInv /\ DisposedInv /\ ChainInv /\ [Next]_vars => ChainInv'
  BY <1>3, NextDisposedInv, NextChainInv
<1>4. ChainInv => FirstChainClosed
  BY DEF ChainInv
<1>5. CASE Quiet
  BY <1>1, <1>2, <1>3, <1>4, <1>5, TypeInvariant, PTL DEF Spec
<1>6. QED
  BY <1>5
=============================================================================
