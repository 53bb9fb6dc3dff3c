---------------------------- MODULE ServerSetup ----------------------------
(***************************************************************************)
(* The bash script overlay/remote-ssh/src/scripts/server-setup.sh.         *)
(*                                                                         *)
(* Every window that connects to a host pipes its own copy of the script   *)
(* into a login shell there, so several runs share the host's files:       *)
(* the install lock, the server directory, and the pid, token and log      *)
(* files of one commit.  A run starts at most one server and passes it its *)
(* own connection token; a server and a token are therefore named by the   *)
(* run that made them.                                                     *)
(*                                                                         *)
(* One step is one command of the script that touches shared state.  The   *)
(* faults named by the constant Faults are the ways a command can fail and *)
(* a run can be cut short: a closed ssh channel delivers SIGPIPE at the    *)
(* next echo, a login session that ends delivers SIGHUP, and SIGKILL needs *)
(* no cooperation at all.                                                  *)
(***************************************************************************)
EXTENDS FiniteSets

CONSTANTS
    Script,      \* the runs of the script, and the servers and tokens they make
    None,        \* no owner, no such file, no report
    Blank,       \* the token file between touch and echo
    HasFlock,    \* flock(1) is installed on the host (line 48)
    PromptExec,  \* a forked server has exec'd before another run looks for it
    Faults       \* the failures the host can produce

\* "tar": it fails before it has written the server script; "disk": anywhere.
FaultKinds == {"download", "tar", "disk", "hollow", "interrupt", "kill"}

ASSUME ScriptAssumption == None \notin Script /\ Blank \notin Script /\ None # Blank
ASSUME FlagAssumption == HasFlock \in BOOLEAN /\ PromptExec \in BOOLEAN
ASSUME FaultAssumption == Faults \subseteq FaultKinds

VARIABLES
    pc,         \* pc[s]: the next command of run s
    lock,       \* the run whose open file description holds server_install.lock
    tarball,    \* vscode-server.tar.gz in the server directory
    tree,       \* what tar has written there: the server script, and the rest
    pidFile,    \* .<commit>.pid
    tokenFile,  \* .<commit>.token
    log,        \* .<commit>.log: present?, servers writing to it, its "listening" lines
    token,      \* SERVER_CONNECTION_TOKEN of each run
    report,     \* what print_install_results_and_exit printed
    srv,        \* srv[v]: the life of the server that run v forked
    key         \* key[v]: the token that server accepts

files == <<tarball, tree, pidFile, tokenFile, log>>
vars == <<pc, lock, tarball, tree, pidFile, tokenFile, log, token, report, srv, key>>

(***************************************************************************)
(* Program counters.  "downloading" and "extracting" are the wget and tar  *)
(* that outlive a killed shell; they inherited descriptor 9 and with it    *)
(* the lock.  "lost" is a run that was interrupted between starting its    *)
(* server (line 254) and recording its pid (line 255).                     *)
(***************************************************************************)
Setup == {"host", "install", "download", "test", "extract", "verify"}
Starting == {"clean", "touch", "token", "fork"}
Locked == Setup \cup {"probe"} \cup Starting \cup {"pid", "read", "log", "poll"}
Orphaned == {"downloading", "extracting"}
Ended == {"done", "cut", "lost", "killed"}
PC == {"idle", "lock"} \cup Locked \cup Orphaned \cup Ended

Alive == {"forked", "starting", "loaded", "listening"}
Life == {"none", "dead"} \cup Alive

Tarballs == {"none", "partial", "hollow", "good"}
Report == [exitCode : {0, 1}, listeningOn : SUBSET Script, token : Script \cup {None, Blank}]

TypeOK ==
    /\ pc \in [Script -> PC]
    /\ lock \in Script \cup {None}
    /\ tarball \in Tarballs
    /\ tree \in [script : {"absent", "empty", "file"}, rest : BOOLEAN]
    /\ pidFile \in Script \cup {None}
    /\ tokenFile \in Script \cup {None, Blank}
    /\ log \in [there : BOOLEAN, writers : SUBSET Script, lines : SUBSET Script]
    /\ token \in [Script -> Script \cup {None, Blank}]
    /\ report \in [Script -> Report \cup {None}]
    /\ srv \in [Script -> Life]
    /\ key \in [Script -> Script \cup {None}]

ASSUME ReportAssumption == None \notin Report

NoLog == [there |-> FALSE, writers |-> {}, lines |-> {}]
Complete == [script |-> "file", rest |-> TRUE]

Init ==
    /\ pc = [s \in Script |-> "idle"]
    /\ lock = None
    /\ tarball = "none"
    /\ tree = [script |-> "absent", rest |-> FALSE]
    /\ pidFile = None
    /\ tokenFile = None
    /\ log = NoLog
    /\ token = [s \in Script |-> None]
    /\ report = [s \in Script |-> None]
    /\ srv = [s \in Script |-> "none"]
    /\ key = [s \in Script |-> None]

-----------------------------------------------------------------------------

Goto(s, from, to) == pc[s] = from /\ pc' = [pc EXCEPT ![s] = to]

\* Variant: no trap, so that ending closes the shell's copy only.
UnlockWithoutTrap(s) ==
    lock' = IF lock = s /\ srv[s] \notin Alive THEN None ELSE lock

\* flock -u releases the description whoever else has a copy of it.
Unlock(s) == lock' = IF lock = s THEN None ELSE lock

\* print_install_results_and_exit, and the EXIT trap it runs into.
Exit(s, code, lines) ==
    /\ pc' = [pc EXCEPT ![s] = "done"]
    /\ report' = [report EXCEPT ![s] =
                    [exitCode |-> code, listeningOn |-> lines, token |-> token[s]]]
    /\ Unlock(s)

-----------------------------------------------------------------------------
(* The install lock, and the checks of the host *)

Begin(s) ==
    /\ Goto(s, "idle", IF HasFlock THEN "lock" ELSE "host")
    /\ UNCHANGED <<lock, files, token, report, srv, key>>

Acquire(s) ==
    /\ Goto(s, "lock", "host")
    /\ lock = None
    /\ lock' = s
    /\ UNCHANGED <<files, token, report, srv, key>>

\* Variant: flock fails and the script goes on.
LockTimeoutIgnored(s) ==
    /\ Goto(s, "lock", "host")
    /\ lock # None
    /\ UNCHANGED <<lock, files, token, report, srv, key>>

\* Thirty seconds without the lock, by flock -w or by the polling loop.
LockTimeout(s) ==
    /\ pc[s] = "lock"
    /\ lock # None
    /\ Exit(s, 1, {})
    /\ UNCHANGED <<files, token, srv, key>>

CheckHost(s) ==
    /\ \/ Goto(s, "host", "install") /\ UNCHANGED <<lock, report>>
       \/ pc[s] = "host" /\ Exit(s, 1, {})
    /\ UNCHANGED <<files, token, srv, key>>

-----------------------------------------------------------------------------
(* Installation *)

CheckInstalled(s) ==
    /\ Goto(s, "install", IF tree.script = "absent" THEN "download" ELSE "probe")
    /\ UNCHANGED <<lock, files, token, report, srv, key>>

\* No archive for the platform, or no tool to download it.
CannotInstall(s) ==
    /\ pc[s] = "install"
    /\ tree.script = "absent"
    /\ Exit(s, 1, {})
    /\ UNCHANGED <<files, token, srv, key>>

\* wget opens its output; the download then ends in one of three ways.
DownloadBegins(s) ==
    /\ pc[s] \in {"download", "downloading"}
    /\ tarball # "partial"
    /\ tarball' = "partial"
    /\ UNCHANGED <<pc, lock, tree, pidFile, tokenFile, log, token, report, srv, key>>

Downloaded ==
    {"good"} \cup (IF "hollow" \in Faults THEN {"hollow"} ELSE {})
             \cup (IF "download" \in Faults THEN {"partial"} ELSE {})

DownloadEnds(s) ==
    /\ \/ Goto(s, "download", "test")
       \/ Goto(s, "downloading", "killed")
    /\ tarball = "partial"
    /\ tarball' \in Downloaded
    /\ UNCHANGED <<lock, tree, pidFile, tokenFile, log, token, report, srv, key>>

DownloadFails(s) ==
    /\ "download" \in Faults
    /\ pc[s] = "download"
    /\ tarball' = "none"
    /\ Exit(s, 1, {})
    /\ UNCHANGED <<tree, pidFile, tokenFile, log, token, srv, key>>

Readable == tarball \in {"good", "hollow"}

\* Variant: the archive is extracted without the test of line 196.
TestTarballSkipped(s) ==
    /\ Goto(s, "test", "extract")
    /\ UNCHANGED <<lock, files, token, report, srv, key>>

TestTarball(s) ==
    /\ \/ Readable /\ Goto(s, "test", "extract") /\ UNCHANGED <<lock, tarball, report>>
       \/ ~Readable /\ pc[s] = "test" /\ tarball' = "none" /\ Exit(s, 1, {})
    /\ UNCHANGED <<tree, pidFile, tokenFile, log, token, srv, key>>

\* tar writes the members in place, in the order of the archive.
ExtractMember(s) ==
    /\ pc[s] \in {"extract", "extracting"}
    /\ tarball # "none"
    /\ tree' \in {[tree EXCEPT !.script = IF tarball = "hollow" THEN "empty" ELSE "file"],
                  [tree EXCEPT !.rest = TRUE]}
    /\ tree' # tree
    /\ UNCHANGED <<pc, lock, tarball, pidFile, tokenFile, log, token, report, srv, key>>

ExtractEnds(s) ==
    /\ Readable
    /\ tree = [script |-> IF tarball = "good" THEN "file" ELSE "empty", rest |-> TRUE]
    /\ \/ Goto(s, "extract", "verify")
       \/ Goto(s, "extracting", "killed")
    /\ UNCHANGED <<lock, files, token, report, srv, key>>

ExtractFails(s) ==
    /\ Readable /\ "disk" \notin Faults => "tar" \in Faults /\ tree.script = "absent"
    /\ \/ pc[s] = "extract" /\ tarball' = "none" /\ Exit(s, 1, {})
       \/ Goto(s, "extracting", "killed") /\ UNCHANGED <<lock, tarball, report>>
    /\ UNCHANGED <<tree, pidFile, tokenFile, log, token, srv, key>>

VerifyInstall(s) ==
    /\ tarball' = "none"
    /\ \/ /\ tree.script = "file"
          /\ Goto(s, "verify", "probe")
          /\ UNCHANGED <<lock, tree, report>>
       \/ /\ tree.script # "file"
          /\ pc[s] = "verify"
          /\ tree' = [script |-> "absent", rest |-> FALSE]
          /\ Exit(s, 1, {})
    /\ UNCHANGED <<pidFile, tokenFile, log, token, srv, key>>

-----------------------------------------------------------------------------
(* Finding the running server, or starting one *)

\* ps shows the server's command line once the forked shell has exec'd it.
Visible(v) == srv[v] \in Alive \ {"forked"}

Running ==
    IF pidFile # None THEN Visible(pidFile) ELSE \E v \in Script : Visible(v)

Probe(s) ==
    /\ Goto(s, "probe", IF Running THEN "read" ELSE "clean")
    /\ PromptExec => \A v \in Script : srv[v] # "forked"
    /\ UNCHANGED <<lock, files, token, report, srv, key>>

\* Variant: the log of the previous server is left in place.
RemoveStaleToken(s) ==
    /\ Goto(s, "clean", "touch")
    /\ tokenFile' = None
    /\ UNCHANGED <<lock, tarball, tree, pidFile, log, token, report, srv, key>>

RemoveStale(s) ==
    /\ Goto(s, "clean", "touch")
    /\ log' = NoLog
    /\ tokenFile' = None
    /\ UNCHANGED <<lock, tarball, tree, pidFile, token, report, srv, key>>

TouchToken(s) ==
    /\ Goto(s, "touch", "token")
    /\ tokenFile' = IF tokenFile = None THEN Blank ELSE tokenFile
    /\ UNCHANGED <<lock, tarball, tree, pidFile, log, token, report, srv, key>>

WriteToken(s) ==
    /\ Goto(s, "token", "fork")
    /\ token' = [token EXCEPT ![s] = s]
    /\ tokenFile' = s
    /\ UNCHANGED <<lock, tarball, tree, pidFile, log, report, srv, key>>

ForkServer(s) ==
    /\ Goto(s, "fork", "pid")
    /\ srv' = [srv EXCEPT ![s] = "forked"]
    /\ UNCHANGED <<lock, files, token, report, key>>

\* Variant: an existing pid file is kept.
WritePidOnce(s) ==
    /\ Goto(s, "pid", "read")
    /\ pidFile' = IF pidFile = None THEN s ELSE pidFile
    /\ UNCHANGED <<lock, tarball, tree, tokenFile, log, token, report, srv, key>>

\* Variant: the server runs in the foreground job and $! is empty.
WritePidEmpty(s) ==
    /\ Goto(s, "pid", "read")
    /\ pidFile' = Blank
    /\ UNCHANGED <<lock, tarball, tree, tokenFile, log, token, report, srv, key>>

WritePid(s) ==
    /\ Goto(s, "pid", "read")
    /\ pidFile' = s
    /\ UNCHANGED <<lock, tarball, tree, tokenFile, log, token, report, srv, key>>

\* Variant: every run installs its own token before it reads the file.
ReadTokenRewritten(s) ==
    /\ Goto(s, "read", "log")
    /\ tokenFile' = s
    /\ token' = [token EXCEPT ![s] = s]
    /\ UNCHANGED <<lock, tarball, tree, pidFile, log, report, srv, key>>

ReadToken(s) ==
    /\ \/ /\ tokenFile # None
          /\ Goto(s, "read", "log")
          /\ token' = [token EXCEPT ![s] = tokenFile]
          /\ UNCHANGED <<lock, report>>
       \/ /\ tokenFile = None
          /\ pc[s] = "read"
          /\ Exit(s, 1, {})
          /\ UNCHANGED token
    /\ UNCHANGED <<files, srv, key>>

\* The redirection that creates the log is done by the forked shell, so the
\* file may not be there yet.
CheckLog(s) ==
    /\ \/ log.there /\ Goto(s, "log", "poll") /\ UNCHANGED <<lock, report>>
       \/ ~log.there /\ pc[s] = "log" /\ Exit(s, 1, {})
    /\ UNCHANGED <<files, token, srv, key>>

\* LISTENING_ON is every matching line of the log.
FindListening(s) ==
    /\ pc[s] = "poll"
    /\ log.lines # {}
    /\ Exit(s, 0, log.lines)
    /\ UNCHANGED <<files, token, srv, key>>

\* Variant: the log is polled without a bound.
PollForever(s) == pc[s] = "poll" /\ log.lines = {} /\ UNCHANGED vars

\* Thirty-five looks at the log, or the libstdc++ error in it.
PollGivesUp(s) ==
    /\ pc[s] = "poll"
    /\ log.lines = {}
    /\ Exit(s, 1, {})
    /\ UNCHANGED <<files, token, srv, key>>

-----------------------------------------------------------------------------
(* The server, as the script uses it *)

\* The forked shell opens the log with truncation and execs the server.
Exec(v) ==
    /\ srv[v] = "forked"
    /\ srv' = [srv EXCEPT ![v] = "starting"]
    /\ log' = [there |-> TRUE, writers |-> log.writers \cup {v}, lines |-> {}]
    /\ UNCHANGED <<pc, lock, tarball, tree, pidFile, tokenFile, token, report, key>>

\* --connection-token-file: a missing or empty file ends the server.
LoadToken(v) ==
    /\ srv[v] = "starting"
    /\ \/ /\ tokenFile \in Script
          /\ srv' = [srv EXCEPT ![v] = "loaded"]
          /\ key' = [key EXCEPT ![v] = tokenFile]
       \/ /\ tokenFile \notin Script
          /\ srv' = [srv EXCEPT ![v] = "dead"]
          /\ UNCHANGED key
    /\ UNCHANGED <<pc, lock, files, token, report>>

\* "Extension host agent listening on ..."; a removed log swallows it.
Listen(v) ==
    /\ srv[v] = "loaded"
    /\ srv' = [srv EXCEPT ![v] = "listening"]
    /\ log' = IF v \in log.writers THEN [log EXCEPT !.lines = @ \cup {v}] ELSE log
    /\ UNCHANGED <<pc, lock, tarball, tree, pidFile, tokenFile, token, report, key>>

\* A crash, or --enable-remote-auto-shutdown.
Die(v) ==
    /\ srv[v] \in Alive
    /\ srv' = [srv EXCEPT ![v] = "dead"]
    /\ UNCHANGED <<pc, lock, files, token, report, key>>

-----------------------------------------------------------------------------
(* Runs that are cut short *)

\* SIGHUP, SIGINT, or SIGPIPE from an echo: the trap releases the lock.
Interrupt(s) ==
    /\ "interrupt" \in Faults
    /\ pc[s] \in {"lock"} \cup Locked
    /\ pc' = [pc EXCEPT ![s] = IF pc[s] = "pid" THEN "lost" ELSE "cut"]
    /\ Unlock(s)
    /\ UNCHANGED <<files, token, report, srv, key>>

\* SIGKILL: no trap; a child in the foreground goes on without its shell.
Kill(s) ==
    /\ "kill" \in Faults
    /\ pc[s] \in {"lock"} \cup Locked
    /\ pc' = [pc EXCEPT ![s] = CASE pc[s] = "download" -> "downloading"
                                 [] pc[s] = "extract" -> "extracting"
                                 [] OTHER -> "killed"]
    /\ UNCHANGED <<lock, files, token, report, srv, key>>

\* The last copy of descriptor 9 is closed: the shell is gone and so is the
\* server that inherited it.
LastClose(s) ==
    /\ pc[s] = "killed"
    /\ lock = s
    /\ srv[s] \notin Alive
    /\ lock' = None
    /\ UNCHANGED <<pc, files, token, report, srv, key>>

-----------------------------------------------------------------------------

Install(s) ==
    \/ CheckInstalled(s) \/ CannotInstall(s)
    \/ DownloadBegins(s) \/ DownloadEnds(s) \/ DownloadFails(s) \/ TestTarball(s)
    \/ ExtractMember(s) \/ ExtractEnds(s) \/ ExtractFails(s) \/ VerifyInstall(s)

Start(s) ==
    \/ RemoveStale(s) \/ TouchToken(s) \/ WriteToken(s) \/ ForkServer(s) \/ WritePid(s)

Answer(s) ==
    \/ ReadToken(s) \/ CheckLog(s) \/ FindListening(s) \/ PollGivesUp(s)

Run(s) ==
    \/ Acquire(s) \/ LockTimeout(s) \/ CheckHost(s)
    \/ Install(s) \/ Probe(s) \/ Start(s) \/ Answer(s)

Server(v) == Exec(v) \/ LoadToken(v) \/ Listen(v) \/ Die(v)

Next ==
    \E s \in Script : Begin(s) \/ Run(s) \/ Server(s) \/ Interrupt(s) \/ Kill(s) \/ LastClose(s)

Spec == Init /\ [][Next]_vars

-----------------------------------------------------------------------------
(* Fairness: a started run goes on, the children of a killed one finish, the *)
(* kernel runs a forked shell and closes descriptors, and a server nobody    *)
(* was told of shuts itself down, because no client can connect to it.       *)

Unreported(v) ==
    \A s \in Script : report[s] # None => v \notin report[s].listeningOn

AutoShutdown(v) == Unreported(v) /\ pc[v] = "killed" /\ Die(v)

Fairness ==
    \A s \in Script : /\ WF_vars(Run(s))
                     /\ WF_vars(Exec(s))
                     /\ WF_vars(LastClose(s))
                     /\ WF_vars(AutoShutdown(s))

FairSpec == Spec /\ Fairness

-----------------------------------------------------------------------------
(* Properties *)

InProgress(s) == pc[s] \in Locked \cup Orphaned

\* With flock at most one run works on the host's files, counting the wget or
\* tar that a killed run left behind (lines 46-79).
InstallerExclusive ==
    HasFlock => \A s, t \in Script : InProgress(s) /\ InProgress(t) => s = t

\* With flock a commit has at most one server that its run recorded or still
\* guards, whatever is killed or interrupted (lines 234-258).
AtMostOneServer ==
    HasFlock /\ PromptExec =>
        \A v, w \in Script :
            /\ srv[v] \in Alive /\ pc[v] # "lost"
            /\ srv[w] \in Alive /\ pc[w] # "lost"
            => v = w

\* A server is started only from an archive that was extracted to its end, unless
\* a run was interrupted; and only from one that has passed the verification,
\* unless a run was killed before it (lines 196-214).
StartsComplete ==
    \A s \in Script :
        pc[s] \in Starting /\ (\A t \in Script : pc[t] # "cut") =>
            /\ tree.rest
            /\ (\A t \in Script : pc[t] # "killed") => tree = Complete

\* A run that reports success names one server, with the token that server
\* accepts (lines 260-292), unless a server was started and never recorded.
ReportCoherent ==
    HasFlock /\ PromptExec /\ (\A s \in Script : pc[s] # "lost") =>
        \A s \in Script :
            report[s] # None /\ report[s].exitCode = 0 =>
                \E v \in Script : /\ report[s].listeningOn = {v}
                                 /\ report[s].token = key[v]

\* No run takes the token or the log away from a recorded server that is up:
\* the next window needs both to reach it (lines 241-252).
KeepsCredentials ==
    HasFlock /\ PromptExec =>
        \A v \in Script :
            srv[v] \in {"loaded", "listening"} /\ pc[v] # "lost" =>
                /\ tokenFile' = tokenFile
                /\ v \in log.writers => v \in log'.writers

CredentialsKept == [][KeepsCredentials]_vars

\* Every run that gets going ends, with a report or cut short: as each begins once,
\* there is again and again none under way (lines 46-292).
Terminates == []<>(\A s \in Script : pc[s] \in {"idle"} \cup Ended)

\* The lock is always given back, even by a run that was killed and whose
\* server inherited it.
LockRecovered == []<>(lock = None)

-----------------------------------------------------------------------------
(* The abstract specification *)

\* A success that names exactly one server and its token tells of that server.
Told(s) ==
    IF report[s] = None THEN None
    ELSE IF report[s].exitCode = 1 THEN "failed"
    ELSE IF \E v \in Script : report[s].listeningOn = {v} /\ report[s].token = key[v]
         THEN CHOOSE v \in Script : report[s].listeningOn = {v}
         ELSE "muddled"

\* The server that is up and was not orphaned.
Up ==
    LET up == {v \in Script : srv[v] \in Alive /\ pc[v] # "lost"}
    IN  IF up = {} THEN None ELSE CHOOSE v \in up : TRUE

Remote == INSTANCE RemoteServer WITH
    holder <- lock,
    started <- {v \in Script : srv[v] # "none"},
    server <- Up,
    told <- [s \in Script |-> Told(s)],
    sound <- \A s \in Script : pc[s] # "lost",
    Failed <- "failed",
    Muddled <- "muddled"

\* With flock the script keeps the promise of RemoteServer: whatever fails or is
\* cut short, each of its commands is one step of the abstract specification or
\* none (lines 46-292).
RemoteServerSpec == Remote!Spec
=============================================================================
