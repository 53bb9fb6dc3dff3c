-------------------------- MODULE InstallCodeServer --------------------------
(***************************************************************************)
(* installCodeServer() of overlay/remote-ssh/src/serverSetup.ts, called by *)
(* one window per run of the script, with the exec() and execPartial() of  *)
(* ssh/sshConnection.ts that carry it.                                     *)
(*                                                                         *)
(* The host is a Windows host, where the run is one of ServerSetupPs1, or  *)
(* a posix one, where server-setup.sh is taken by what it prints.  What    *)
(* the script prints reaches the window piece by piece, and the connection *)
(* may be lost between any two.                                            *)
(***************************************************************************)
EXTENDS ServerSetupPs1, FetchRelease

CONSTANTS
    Hosts,         \* the login shells of the hosts considered
    Settings,      \* what remote.SSH.remotePlatform may say of them
    Local,         \* version and build of this Code Personal
    Wishes         \* remote.SSH.serverVersion, and the titles GitHub lists

WindowsShell == {"powershell", "bash", "cmd"}

ASSUME HostAssumption ==
    /\ Script \subseteq Nat
    /\ Hosts \subseteq {"posix"} \cup WindowsShell
    /\ Settings \subseteq {"unset", "windows", "linux"}

ASSUME WishAssumption == \A w \in Wishes : w.titles \in Seq(Title)

VARIABLES
    host,       \* the login shell of the host
    setting,    \* its remotePlatform
    wish,       \* the setting and the list
    call,       \* call[s]: where the call is
    platform,   \* the platform it has found
    shell,      \* the shell it has found
    release,    \* the release it has chosen
    result      \* the ServerInstallResult

callVars == <<host, setting, wish, call, platform, shell, release, result>>
vars == <<psvars, callVars>>

\* A result comes as its start line, exit code and port, then the rest with the
\* token and the end line.
Port == 1
End == 2

Pieces(s) == IF printed[s] = None THEN 0 ELSE End

CallResult == [listeningOn : Script \cup {None}, token : Script \cup {None}]

TypeOK ==
    /\ ScriptTypeOK
    /\ host \in Hosts
    /\ setting \in Settings
    /\ wish \in Wishes
    /\ call \in [Script -> {"idle", "ready", "running", "done", "failed"}]
    /\ platform \in [Script -> {"unset", "windows", "linux"}]
    /\ shell \in [Script -> WindowsShell]
    /\ result \in [Script -> CallResult \cup {None}]

Init ==
    /\ ScriptInit
    /\ host \in Hosts
    /\ setting \in Settings
    /\ wish \in Wishes
    /\ call = [s \in Script |-> "idle"]
    /\ platform = [s \in Script |-> setting]
    /\ shell = [s \in Script |-> "powershell"]
    /\ release = [s \in Script |-> Local]
    /\ result = [s \in Script |-> None]

Step(s, from, to) == call[s] = from /\ call' = [call EXCEPT ![s] = to]

\* uname -s prints a system that is known, or fails in a way that is; its answer
\* may be lost with the connection, and the next exec() connects again.
\* Calls are numbered in the order in which they are made.
Detect(s) ==
    /\ \A t \in Script : t < s => call[t] # "idle"
    /\ Step(s, "idle", "ready")
    /\ \/ /\ platform[s] # "linux" /\ host # "posix"
          /\ platform' = [platform EXCEPT ![s] = "windows"]
          /\ shell' = [shell EXCEPT ![s] = host]
       \/ UNCHANGED <<platform, shell>>
    /\ UNCHANGED <<psvars, host, setting, wish, release, result>>

\* The command is one for the shell that reads it.
Fits(s) ==
    IF platform[s] = "windows" THEN host = shell[s] ELSE host = "posix"

\* The release is chosen and the script sent; on Windows it begins there.
Send(s) ==
    /\ Step(s, "ready", "running")
    /\ release' = [release EXCEPT ![s] = BestRelease(wish.objective, Local, wish.titles)]
    /\ IF Fits(s) /\ host # "posix" THEN Begin(s) ELSE UNCHANGED psvars
    /\ UNCHANGED <<host, setting, wish, platform, shell, result>>

\* No download URL, a command line too long for cmd, no connection any more.
CannotSend(s) ==
    /\ Step(s, "ready", "failed")
    /\ UNCHANGED <<psvars, host, setting, wish, platform, shell, release, result>>

\* server-setup.sh: a result, or an end without one.
BashRuns(s) ==
    /\ call[s] = "running" /\ host = "posix" /\ Fits(s)
    /\ \/ Goto(s, "idle", "done") /\ UNCHANGED printed
       \/ \E code \in {0, 1} :
            /\ pc[s] = "idle"
            /\ pc' = [pc EXCEPT ![s] = "done"]
            /\ printed' = [printed EXCEPT ![s] = [exitCode |-> code, listeningOn |-> s, token |-> s]]
    /\ UNCHANGED <<files, token, srv, key, apart, callVars>>

\* Variant: exec() is used on Windows as well.
AnsweredAtClose(s) == pc[s] = "done" \/ ~Fits(s)

\* exec() answers when the command has ended and its channel closes, execPartial()
\* also when the end line has come.
Answered(s) ==
    pc[s] = "done" \/ ~Fits(s) \/ (platform[s] = "windows" /\ printed[s] # None)

\* Variant: the end line is not looked for.
WholeFromStart(n) == n >= Port

Whole(n) == n = End

\* parseServerInstallOutput of the first n pieces, and the exit code.
Parse(s, n) ==
    IF Whole(n) /\ printed[s].exitCode = 0
    THEN /\ Step(s, "running", "done")
         /\ result' = [result EXCEPT ![s] =
                [listeningOn |-> printed[s].listeningOn,
                 token |-> IF n = End THEN printed[s].token ELSE None]]
    ELSE Step(s, "running", "failed") /\ UNCHANGED result

Answer(s) ==
    /\ Answered(s)
    /\ Parse(s, Pieces(s))
    /\ UNCHANGED <<psvars, host, setting, wish, platform, shell, release>>

\* The connection is lost, which closes the channel: exec() answers with what has
\* come.  The script ends with it, or goes on without it.
Lose(s) ==
    /\ \E n \in 0..Pieces(s) : Parse(s, n)
    /\ Interrupt(s) \/ UNCHANGED psvars
    /\ UNCHANGED <<host, setting, wish, platform, shell, release>>

-----------------------------------------------------------------------------

Window(s) == Send(s) \/ CannotSend(s) \/ Answer(s)

Remote(s) == Run(s) /\ UNCHANGED callVars

Next ==
    \E s \in Script :
        \/ Detect(s) \/ Window(s) \/ Lose(s)
        \/ Remote(s) \/ BashRuns(s)
        \/ Server(s) /\ UNCHANGED callVars

Spec == Init /\ [][Next]_vars

\* The event loop and the network deliver, the commands of a script return.
FairSpec ==
    /\ Spec
    /\ \A s \in Script : WF_vars(Window(s) \/ Remote(s) \/ BashRuns(s))

-----------------------------------------------------------------------------
(* Properties *)

\* A call succeeds only with the result its own script has printed, with exit
\* code 0 and complete, wherever the output was cut off (lines 227-251, 272-295).
ResultIsReport ==
    \A s \in Script :
        call[s] = "done" =>
            /\ printed[s] # None /\ printed[s].exitCode = 0
            /\ result[s] = [listeningOn |-> printed[s].listeningOn, token |-> printed[s].token]

\* As long as runs keep apart, a commit has one server, although nothing but the look
\* for a node process says that there is one, and the port that a call to a Windows host
\* returns comes with the token this server accepts (server-setup.ps1 128-199).
OneServerAnswers ==
    apart /\ host # "posix" =>
        /\ \A v, w \in Script : srv[v] \in Alive /\ srv[w] \in Alive => v = w
        /\ \A s \in Script :
                result[s] # None /\ result[s].listeningOn # None =>
                    result[s].token = key[result[s].listeningOn]

\* Every call is answered, although on Windows the script stays with the server
\* it has started and its channel stays open (line 227, server-setup.ps1 201-210).
CallEnds == \A s \in Script : call[s] # "idle" ~> call[s] \in {"done", "failed"}

\* With 'closest', the release is one of the local version and no listed build of that
\* version is newer (fetchRelease.ts 75-86).
ClosestChosen ==
    \A s \in Script :
        call[s] = "running" /\ wish.objective = "closest" =>
            /\ release[s].version = Local.version
            /\ \A i \in DOMAIN wish.titles :
                    LET r == SplitRelease(wish.titles[i])
                    IN  ValidRelease(r) /\ r.version = Local.version
                            => NumberOf(r.build) <= NumberOf(release[s].build)

\* package.json:182: the setting "Can take the values: 'match' (default), 'latest',
\* ...": with 'latest' nothing older than a listed release is downloaded.
LatestChosen ==
    \A s \in Script :
        call[s] = "running" /\ wish.objective = "latest" =>
            \A i \in DOMAIN wish.titles : release[s].version[1] >= wish.titles[i].minor
=============================================================================
