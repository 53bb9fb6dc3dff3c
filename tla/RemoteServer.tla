---------------------------- MODULE RemoteServer ----------------------------
(***************************************************************************)
(* What the installation of one commit on one host promises to the         *)
(* windows that run server-setup.sh there, whatever the script does in     *)
(* between: one run at a time has the host, it starts a server only where  *)
(* there is none, and a run that reports success names the server that     *)
(* is up, or one that was and has ended since.                             *)
(*                                                                         *)
(* The one way out of the promise is Orphan: a run that is interrupted     *)
(* after it has started a server and before it has recorded it.            *)
(***************************************************************************)
CONSTANTS
    Script,     \* the runs, and the servers they start
    None,       \* nobody, no server, no report
    Failed,     \* told: a report of failure
    Muddled     \* told: a success that names no server of this host, or a wrong token

VARIABLES
    holder,     \* the run that has the host
    started,    \* the servers started so far
    server,     \* the server that is up
    told,       \* told[s]: what run s has reported
    sound       \* no server has been orphaned

svars == <<holder, started, server, told, sound>>

Init ==
    /\ holder = None
    /\ started = {}
    /\ server = None
    /\ told = [s \in Script |-> None]
    /\ sound = TRUE

Claim(s) ==
    /\ holder = None
    /\ holder' = s
    /\ UNCHANGED <<started, server, told, sound>>

Serve(s) ==
    /\ holder = s
    /\ server = None
    /\ s \notin started
    /\ started' = started \cup {s}
    /\ server' = s
    /\ UNCHANGED <<holder, told, sound>>

\* The server ends by itself.
Stop ==
    /\ server' = None
    /\ UNCHANGED <<holder, started, told, sound>>

\* The names a report may give.
Nameable ==
    IF sound THEN {v \in started : server \in {v, None}} ELSE Script \cup {Muddled}

\* A run reports success and leaves.
Tell(s) ==
    /\ holder = s
    /\ holder' = None
    /\ \E v \in Nameable : told' = [told EXCEPT ![s] = v]
    /\ UNCHANGED <<started, server, sound>>

\* A run gives up, with the host or while it waits for it.
Fail(s) ==
    /\ told[s] = None
    /\ told' = [told EXCEPT ![s] = Failed]
    /\ holder' = IF holder = s THEN None ELSE holder
    /\ UNCHANGED <<started, server, sound>>

\* A run leaves without a report.
Leave(s) ==
    /\ holder = s
    /\ holder' = None
    /\ UNCHANGED <<started, server, told, sound>>

Orphan(s) ==
    /\ holder = s
    /\ holder' = None
    /\ server' = None
    /\ sound' = FALSE
    /\ UNCHANGED <<started, told>>

Next ==
    \/ \E s \in Script : Claim(s) \/ Serve(s) \/ Tell(s) \/ Fail(s) \/ Leave(s) \/ Orphan(s)
    \/ Stop

Spec == Init /\ [][Next]_svars
=============================================================================
