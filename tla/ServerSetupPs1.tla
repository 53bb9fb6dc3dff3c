--------------------------- MODULE ServerSetupPs1 ---------------------------
(***************************************************************************)
(* The PowerShell script overlay/remote-ssh/src/scripts/server-setup.ps1.  *)
(*                                                                         *)
(* It works on the same files as server-setup.sh and takes no lock: runs   *)
(* of several windows interleave freely.  It finds a running server by     *)
(* looking for a node process, which a server becomes only a while after   *)
(* the hidden powershell that carries it was started, and it stays to      *)
(* watch the server it has started after it has printed its result.        *)
(* Servers and tokens are named by the run that made them.  The pid file   *)
(* is written and deleted but read by nobody, and is left out.             *)
(***************************************************************************)
EXTENDS FiniteSets

CONSTANTS
    Script,    \* the runs of the script, and the servers and tokens they make
    None,      \* no such file, no server, no result
    Faults     \* the failures the host can produce

FaultKinds == {"download", "tar", "start", "interrupt"}

ASSUME WindowsAssumption == None \notin Script /\ Faults \subseteq FaultKinds

VARIABLES
    pc,         \* pc[s]: the next command of run s
    tarball,    \* vscode-server.tar.gz
    tree,       \* what tar has written: nothing the script looks for, some of it, all of it
    tokenFile,
    log,        \* the server that has opened the log and whether it has printed its port
    token,      \* SERVER_CONNECTION_TOKEN of each run
    printed,    \* what printInstallResults printed
    srv,        \* srv[v]: the life of the server that run v started
    key,        \* key[v]: the token that server accepts
    apart       \* so far no run began while another was at work or a server out of sight

files == <<tarball, tree, tokenFile, log>>
psvars == <<pc, files, token, printed, srv, key, apart>>

Working == {"install", "download", "test", "extract", "verify", "probe",
            "clean", "token", "start", "read", "poll"}
Alive == {"wrapped", "loading", "loaded", "listening"}
Results == [exitCode : {0, 1}, listeningOn : Script \cup {None}, token : Script \cup {None}]

ScriptTypeOK ==
    /\ pc \in [Script -> {"idle", "attend"} \cup Working \cup {"done"}]
    /\ tarball \in {"none", "partial", "good"}
    /\ tree \in {"absent", "partial", "whole"}
    /\ tokenFile \in Script \cup {None}
    /\ log \in [writer : Script \cup {None}, line : BOOLEAN]
    /\ token \in [Script -> Script \cup {None}]
    /\ printed \in [Script -> Results \cup {None}]
    /\ srv \in [Script -> {"none", "dead"} \cup Alive]
    /\ key \in [Script -> Script \cup {None}]
    /\ apart \in BOOLEAN
    /\ \A s \in Script : pc[s] = "attend" => srv[s] # "none"

NoLog == [writer |-> None, line |-> FALSE]

ScriptInit ==
    /\ pc = [s \in Script |-> "idle"]
    /\ tarball = "none"
    /\ tree = "absent"
    /\ tokenFile = None
    /\ log = NoLog
    /\ token = [s \in Script |-> None]
    /\ printed = [s \in Script |-> None]
    /\ srv = [s \in Script |-> "none"]
    /\ key = [s \in Script |-> None]
    /\ apart = TRUE

Goto(s, from, to) == pc[s] = from /\ pc' = [pc EXCEPT ![s] = to]

\* exit without a result
Quit(s, from) == Goto(s, from, "done") /\ UNCHANGED printed

PrintResults(s, code, port, end) ==
    /\ pc' = [pc EXCEPT ![s] = end]
    /\ printed' = [printed EXCEPT ![s] = [exitCode |-> code, listeningOn |-> port, token |-> token[s]]]

-----------------------------------------------------------------------------
(* Installation *)

\* A server that is started but has no node process yet cannot be found.
OutOfSight(v) == srv[v] = "wrapped"

Begin(s) ==
    /\ Goto(s, "idle", "install")
    /\ apart' = (apart /\ \A t \in Script : pc[t] \notin Working /\ ~OutOfSight(t))
    /\ UNCHANGED <<files, token, printed, srv, key>>

\* The architecture may be another (a result is printed) and the folder may not
\* be made (none is).
CheckInstalled(s) ==
    /\ \/ tree = "absent" /\ Goto(s, "install", "download") /\ tarball' = "none" /\ UNCHANGED printed
       \/ tree # "absent" /\ Goto(s, "install", "probe") /\ UNCHANGED <<tarball, printed>>
       \/ pc[s] = "install" /\ PrintResults(s, 1, None, "done") /\ UNCHANGED tarball
       \/ Quit(s, "install") /\ UNCHANGED tarball
    /\ UNCHANGED <<tree, tokenFile, log, token, srv, key, apart>>

\* An error of Invoke-RestMethod does not end the script.
Download(s) ==
    /\ tarball' \in {"good"} \cup (IF "download" \in Faults THEN {"none", "partial"} ELSE {})
    /\ Goto(s, "download", IF tarball' = "none" THEN "verify" ELSE "test")
    /\ UNCHANGED <<tree, tokenFile, log, token, printed, srv, key, apart>>

TestTarball(s) ==
    /\ \/ tarball = "good" /\ Goto(s, "test", "extract") /\ UNCHANGED <<tarball, printed>>
       \/ tarball # "good" /\ Quit(s, "test") /\ tarball' = "none"
    /\ UNCHANGED <<tree, tokenFile, log, token, srv, key, apart>>

ExtractMember(s) ==
    /\ pc[s] = "extract" /\ tarball # "none" /\ tree = "absent"
    /\ tree' = "partial"
    /\ UNCHANGED <<pc, tarball, tokenFile, log, token, printed, srv, key, apart>>

Extracted(s) ==
    /\ tarball = "good"
    /\ Goto(s, "extract", "verify")
    /\ tree' = "whole"
    /\ tarball' = "none"
    /\ UNCHANGED <<tokenFile, log, token, printed, srv, key, apart>>

ExtractFails(s) ==
    /\ "tar" \in Faults \/ tarball # "good"
    /\ Quit(s, "extract")
    /\ tarball' = "none"
    /\ UNCHANGED <<tree, tokenFile, log, token, srv, key, apart>>

Verify(s) ==
    /\ \/ tree # "absent" /\ Goto(s, "verify", "probe") /\ UNCHANGED printed
       \/ tree = "absent" /\ Quit(s, "verify")
    /\ UNCHANGED <<files, token, srv, key, apart>>

-----------------------------------------------------------------------------
(* Finding the running server, or starting one *)

\* Variant: a server counts as running once it listens.
Listening == \E v \in Script : srv[v] = "listening"

Running == \E v \in Script : srv[v] \in Alive /\ ~OutOfSight(v)

Probe(s) ==
    /\ Goto(s, "probe", IF Running THEN "read" ELSE "clean")
    /\ UNCHANGED <<files, token, printed, srv, key, apart>>

\* The log cannot be deleted while the server that writes it has it open.
RemoveStale(s) ==
    /\ Goto(s, "clean", "token")
    /\ log' = IF log.writer # None /\ srv[log.writer] \in Alive THEN log ELSE NoLog
    /\ tokenFile' = None
    /\ UNCHANGED <<tarball, tree, token, printed, srv, key, apart>>

WriteToken(s) ==
    /\ Goto(s, "token", "start")
    /\ token' = [token EXCEPT ![s] = s]
    /\ tokenFile' = s
    /\ UNCHANGED <<tarball, tree, log, printed, srv, key, apart>>

StartServer(s) ==
    /\ Goto(s, "start", "read")
    /\ \/ srv' = [srv EXCEPT ![s] = "wrapped"]
       \/ "start" \in Faults /\ UNCHANGED srv
    /\ UNCHANGED <<files, token, printed, key, apart>>

ReadToken(s) ==
    /\ \/ /\ tokenFile # None
          /\ Goto(s, "read", "poll")
          /\ token' = [token EXCEPT ![s] = tokenFile]
          /\ UNCHANGED printed
       \/ /\ tokenFile = None
          /\ pc[s] = "read"
          /\ PrintResults(s, 1, None, "done")
          /\ UNCHANGED token
    /\ UNCHANGED <<files, srv, key, apart>>

\* Variant: every run stays.
LeavingNever(s) == "attend"

\* Who has started a server stays with it.
Leaving(s) == IF srv[s] = "none" THEN "done" ELSE "attend"

FindListening(s) ==
    /\ pc[s] = "poll" /\ log.line
    /\ PrintResults(s, 0, log.writer, Leaving(s))
    /\ UNCHANGED <<files, token, srv, key, apart>>

\* Five looks at the log.  A server that is up but slow is reported without a
\* port; only a missing log is an error.
PollEnds(s) ==
    /\ pc[s] = "poll" /\ ~log.line
    /\ IF log = NoLog THEN PrintResults(s, 1, None, "done") ELSE PrintResults(s, 0, None, Leaving(s))
    /\ UNCHANGED <<files, token, srv, key, apart>>

ServerDied(s) ==
    /\ srv[s] = "dead"
    /\ Goto(s, "attend", "done")
    /\ UNCHANGED <<files, token, printed, srv, key, apart>>

-----------------------------------------------------------------------------
(* The server, as the script uses it *)

\* The hidden powershell opens the log, which fails while another has it open.
OpenLog(v) ==
    /\ srv[v] = "wrapped"
    /\ IF log.writer # None /\ log.writer # v /\ srv[log.writer] \in Alive
       THEN srv' = [srv EXCEPT ![v] = "dead"] /\ UNCHANGED log
       ELSE srv' = [srv EXCEPT ![v] = "loading"] /\ log' = [writer |-> v, line |-> FALSE]
    /\ UNCHANGED <<pc, tarball, tree, tokenFile, token, printed, key, apart>>

LoadToken(v) ==
    /\ srv[v] = "loading"
    /\ srv' = [srv EXCEPT ![v] = IF tokenFile = None THEN "dead" ELSE "loaded"]
    /\ key' = [key EXCEPT ![v] = tokenFile]
    /\ UNCHANGED <<pc, files, token, printed, apart>>

Listen(v) ==
    /\ srv[v] = "loaded"
    /\ srv' = [srv EXCEPT ![v] = "listening"]
    /\ log' = [log EXCEPT !.line = TRUE]
    /\ UNCHANGED <<pc, tarball, tree, tokenFile, token, printed, key, apart>>

Die(v) ==
    /\ srv[v] \in Alive
    /\ srv' = [srv EXCEPT ![v] = "dead"]
    /\ UNCHANGED <<pc, files, token, printed, key, apart>>

\* The ssh session ends and takes the script along.
Interrupt(s) ==
    /\ "interrupt" \in Faults
    /\ pc[s] \in Working \cup {"attend"}
    /\ pc' = [pc EXCEPT ![s] = "done"]
    /\ UNCHANGED <<files, token, printed, srv, key, apart>>

-----------------------------------------------------------------------------

Run(s) ==
    \/ CheckInstalled(s) \/ Download(s) \/ TestTarball(s)
    \/ ExtractMember(s) \/ Extracted(s) \/ ExtractFails(s) \/ Verify(s)
    \/ Probe(s) \/ RemoveStale(s) \/ WriteToken(s) \/ StartServer(s)
    \/ ReadToken(s) \/ FindListening(s) \/ PollEnds(s) \/ ServerDied(s)

Server(v) == OpenLog(v) \/ LoadToken(v) \/ Listen(v) \/ Die(v)
=============================================================================
