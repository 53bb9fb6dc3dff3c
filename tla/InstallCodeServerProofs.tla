------------------------ MODULE InstallCodeServerProofs ------------------------
(***************************************************************************)
(* Theorems about InstallCodeServer, for any number of windows and runs,   *)
(* any host and any setting.                                               *)
(***************************************************************************)
EXTENDS InstallCodeServer, SequenceTheorems, WellFoundedInduction, TLAPS

-----------------------------------------------------------------------------
(* Type correctness *)

Place == {"idle", "attend"} \cup Working \cup {"done"}

LEMMA GotoType ==
    ASSUME ScriptTypeOK, NEW s \in Script, NEW from, NEW to \in Place, Goto(s, from, to)
    PROVE  pc' \in [Script -> Place]
  BY DEF ScriptTypeOK, Goto, Place

LEMMA PrintType ==
    ASSUME ScriptTypeOK, NEW s \in Script, NEW code \in {0, 1}, NEW port \in Script \cup {None},
           NEW end \in Place, PrintResults(s, code, port, end)
    PROVE  pc' \in [Script -> Place] /\ printed' \in [Script -> Results \cup {None}]
<1> DEFINE r == [exitCode |-> code, listeningOn |-> port, token |-> token[s]]
<1>1. r \in Results
  BY DEF ScriptTypeOK, Results
<1>2. printed' = [printed EXCEPT ![s] = r] /\ pc' = [pc EXCEPT ![s] = end]
  BY DEF PrintResults
<1> HIDE DEF r
<1> QED
  BY <1>1, <1>2 DEF ScriptTypeOK, Place

LEMMA RunTypeOK ==
    ASSUME ScriptTypeOK, NEW s \in Script, Run(s)
    PROVE  ScriptTypeOK'
<1> USE DEF files
<1>1. CASE CheckInstalled(s)
  <2>1. pc' \in [Script -> Place] /\ printed' \in [Script -> Results \cup {None}]
    BY <1>1, GotoType, PrintType DEF CheckInstalled, Quit, Place, Working, ScriptTypeOK
  <2>2. \A t \in Script : pc'[t] = "attend" => pc[t] = "attend"
    BY <1>1 DEF CheckInstalled, Quit, Goto, PrintResults, ScriptTypeOK
  <2> QED
    BY <1>1, <2>1, <2>2 DEF CheckInstalled, ScriptTypeOK, Place
<1>2. CASE Download(s) \/ TestTarball(s)
  <2>1. pc' \in [Script -> Place]
    BY <1>2, GotoType DEF Download, TestTarball, Quit, Place, Working
  <2>2. \A t \in Script : pc'[t] = "attend" => pc[t] = "attend"
    BY <1>2 DEF Download, TestTarball, Quit, Goto, ScriptTypeOK
  <2> QED
    BY <1>2, <2>1, <2>2 DEF Download, TestTarball, Quit, ScriptTypeOK, Place
<1>3. CASE ExtractMember(s) \/ Extracted(s) \/ ExtractFails(s) \/ Verify(s)
  <2>1. pc' \in [Script -> Place]
    BY <1>3, GotoType DEF ExtractMember, Extracted, ExtractFails, Verify, Quit, Place, Working,
       ScriptTypeOK
  <2>2. \A t \in Script : pc'[t] = "attend" => pc[t] = "attend"
    BY <1>3 DEF ExtractMember, Extracted, ExtractFails, Verify, Quit, Goto, ScriptTypeOK
  <2> QED
    BY <1>3, <2>1, <2>2 DEF ExtractMember, Extracted, ExtractFails, Verify, Quit, ScriptTypeOK, Place
<1>4. CASE Probe(s) \/ RemoveStale(s) \/ WriteToken(s) \/ StartServer(s)
  <2>1. pc' \in [Script -> Place]
    BY <1>4, GotoType DEF Probe, RemoveStale, WriteToken, StartServer, Place, Working
  <2>2. \A t \in Script : pc'[t] = "attend" => pc[t] = "attend"
    BY <1>4 DEF Probe, RemoveStale, WriteToken, StartServer, Goto, ScriptTypeOK
  <2>3. tokenFile' \in Script \cup {None} /\ token' \in [Script -> Script \cup {None}]
    BY <1>4 DEF Probe, RemoveStale, WriteToken, StartServer, ScriptTypeOK
  <2>4. log' \in [writer : Script \cup {None}, line : BOOLEAN]
    <3>1. log' = log \/ log' = NoLog
      BY <1>4 DEF Probe, RemoveStale, WriteToken, StartServer
    <3>2. NoLog \in [writer : Script \cup {None}, line : BOOLEAN]
      BY DEF NoLog
    <3>3. log \in [writer : Script \cup {None}, line : BOOLEAN]
      BY DEF ScriptTypeOK
    <3> QED
      BY <3>1, <3>2, <3>3
  <2>5. /\ srv' \in [Script -> {"none", "dead"} \cup Alive]
        /\ \A t \in Script : srv[t] # "none" => srv'[t] # "none"
    BY <1>4 DEF Probe, RemoveStale, WriteToken, StartServer, Alive, ScriptTypeOK
  <2>6. UNCHANGED <<tarball, tree, printed, key, apart>>
    BY <1>4 DEF Probe, RemoveStale, WriteToken, StartServer
  <2> QED
    BY <2>1, <2>2, <2>3, <2>4, <2>5, <2>6 DEF ScriptTypeOK, Place
<1>5. CASE ReadToken(s)
  <2>1. pc' \in [Script -> Place] /\ printed' \in [Script -> Results \cup {None}]
    BY <1>5, GotoType, PrintType DEF ReadToken, Place, Working, ScriptTypeOK
  <2>2. \A t \in Script : pc'[t] = "attend" => pc[t] = "attend"
    BY <1>5 DEF ReadToken, Goto, PrintResults, ScriptTypeOK
  <2> QED
    BY <1>5, <2>1, <2>2 DEF ReadToken, ScriptTypeOK, Place
<1>6. CASE FindListening(s) \/ PollEnds(s)
  <2>1. Leaving(s) \in Place
    BY DEF Leaving, Place
  <2>2. pc' \in [Script -> Place] /\ printed' \in [Script -> Results \cup {None}]
    BY <1>6, <2>1, PrintType DEF FindListening, PollEnds, Place, ScriptTypeOK
  <2>3. \A t \in Script : pc'[t] = "attend" => pc[t] = "attend" \/ srv[t] # "none"
    BY <1>6 DEF FindListening, PollEnds, PrintResults, Leaving, ScriptTypeOK
  <2> QED
    BY <1>6, <2>2, <2>3 DEF FindListening, PollEnds, ScriptTypeOK, Place
<1>7. CASE ServerDied(s)
  BY <1>7 DEF ServerDied, Goto, ScriptTypeOK
<1> QED
  BY <1>1, <1>2, <1>3, <1>4, <1>5, <1>6, <1>7 DEF Run

LEMMA ServerTypeOK ==
    ASSUME ScriptTypeOK, NEW v \in Script, Server(v)
    PROVE  ScriptTypeOK'
<1> USE DEF files, Alive
<1>1. CASE OpenLog(v)
  <2>1. log' \in [writer : Script \cup {None}, line : BOOLEAN]
    <3>1. log' = log \/ log' = [writer |-> v, line |-> FALSE]
      BY <1>1 DEF OpenLog
    <3>2. [writer |-> v, line |-> FALSE] \in [writer : Script \cup {None}, line : BOOLEAN]
      OBVIOUS
    <3>3. log \in [writer : Script \cup {None}, line : BOOLEAN]
      BY DEF ScriptTypeOK
    <3> QED
      BY <3>1, <3>2, <3>3
  <2>2. /\ srv' \in [Script -> {"none", "dead"} \cup Alive]
        /\ \A t \in Script : srv[t] # "none" => srv'[t] # "none"
    BY <1>1 DEF OpenLog, ScriptTypeOK
  <2> QED
    BY <1>1, <2>1, <2>2 DEF OpenLog, ScriptTypeOK
<1>2. CASE LoadToken(v)
  BY <1>2 DEF LoadToken, ScriptTypeOK
<1>3. CASE Listen(v)
  BY <1>3 DEF Listen, ScriptTypeOK
<1>4. CASE Die(v)
  BY <1>4 DEF Die, ScriptTypeOK
<1> QED
  BY <1>1, <1>2, <1>3, <1>4 DEF Server

LEMMA BeginTypeOK ==
    ASSUME ScriptTypeOK, NEW s \in Script, Begin(s) \/ Interrupt(s)
    PROVE  ScriptTypeOK'
  BY DEF Begin, Interrupt, Goto, files, Working, ScriptTypeOK

LEMMA BashTypeOK ==
    ASSUME ScriptTypeOK, NEW s \in Script, BashRuns(s)
    PROVE  ScriptTypeOK'
<1>1. \A code \in {0, 1} : [exitCode |-> code, listeningOn |-> s, token |-> s] \in Results
  BY DEF Results
<1>2. printed' \in [Script -> Results \cup {None}]
  BY <1>1 DEF BashRuns, Goto, ScriptTypeOK
<1> QED
  BY <1>2 DEF BashRuns, Goto, files, ScriptTypeOK

\* What a call makes of its pieces.
LEMMA ParseType ==
    ASSUME TypeOK, NEW s \in Script, NEW n \in 0..Pieces(s), Parse(s, n)
    PROVE  /\ call' \in [Script -> {"idle", "ready", "running", "done", "failed"}]
           /\ result' \in [Script -> CallResult \cup {None}]
<1>1. CASE Whole(n) /\ printed[s].exitCode = 0
  <2>1. printed[s] \in Results
    BY <1>1 DEF Whole, End, Pieces, TypeOK, ScriptTypeOK
  <2> DEFINE r == [listeningOn |-> printed[s].listeningOn,
                   token |-> IF n = End THEN printed[s].token ELSE None]
  <2>2. r \in CallResult
    BY <2>1 DEF Results, CallResult
  <2>3. result' = [result EXCEPT ![s] = r]
    BY <1>1 DEF Parse
  <2> HIDE DEF r
  <2> QED
    BY <1>1, <2>2, <2>3 DEF Parse, Step, TypeOK
<1>2. CASE ~(Whole(n) /\ printed[s].exitCode = 0)
  BY <1>2 DEF Parse, Step, TypeOK
<1> QED
  BY <1>1, <1>2

LEMMA NextTypeOK ==
    ASSUME TypeOK, [Next]_vars
    PROVE  TypeOK'
<1> DEFINE Calls == /\ host' \in Hosts /\ setting' \in Settings /\ wish' \in Wishes
                    /\ call' \in [Script -> {"idle", "ready", "running", "done", "failed"}]
                    /\ platform' \in [Script -> {"unset", "windows", "linux"}]
                    /\ shell' \in [Script -> WindowsShell]
                    /\ result' \in [Script -> CallResult \cup {None}]
<1>1. ASSUME NEW s \in Script, Detect(s)
      PROVE  TypeOK'
  <2>1. host # "posix" => host \in WindowsShell
    BY HostAssumption DEF TypeOK
  <2>2. Calls
    BY <1>1, <2>1 DEF Detect, Step, TypeOK
  <2>3. ScriptTypeOK'
    BY <1>1 DEF Detect, psvars, files, TypeOK, ScriptTypeOK
  <2> QED
    BY <2>2, <2>3 DEF TypeOK
<1>2. ASSUME NEW s \in Script, Send(s) \/ CannotSend(s)
      PROVE  TypeOK'
  <2>1. Calls
    BY <1>2 DEF Send, CannotSend, Step, TypeOK
  <2>2. Begin(s) \/ UNCHANGED psvars
    BY <1>2 DEF Send, CannotSend
  <2>3. ScriptTypeOK'
    BY <2>2, BeginTypeOK DEF psvars, files, TypeOK, ScriptTypeOK
  <2> QED
    BY <2>1, <2>3 DEF TypeOK
<1>3. ASSUME NEW s \in Script, Answer(s) \/ Lose(s)
      PROVE  TypeOK'
  <2>1. \E n \in 0..Pieces(s) : Parse(s, n)
    BY <1>3 DEF Answer, Lose, Pieces, End
  <2>2. Calls
    BY <1>3, <2>1, ParseType DEF Answer, Lose, TypeOK
  <2>3. Interrupt(s) \/ UNCHANGED psvars
    BY <1>3 DEF Answer, Lose
  <2>4. ScriptTypeOK'
    BY <2>3, BeginTypeOK DEF psvars, files, TypeOK, ScriptTypeOK
  <2> QED
    BY <2>2, <2>4 DEF TypeOK
<1>4. ASSUME NEW s \in Script, Remote(s) \/ BashRuns(s) \/ (Server(s) /\ UNCHANGED callVars)
      PROVE  TypeOK'
  <2>1. ScriptTypeOK'
    BY <1>4, RunTypeOK, BashTypeOK, ServerTypeOK DEF Remote, TypeOK
  <2>2. UNCHANGED callVars
    BY <1>4 DEF Remote, BashRuns
  <2> QED
    BY <2>1, <2>2 DEF callVars, TypeOK
<1>5. CASE UNCHANGED vars
  BY <1>5 DEF vars, psvars, callVars, files, TypeOK, ScriptTypeOK
<1> QED
  BY <1>1, <1>2, <1>3, <1>4, <1>5 DEF Next, Window

\* Types are kept by every step of every call, run and server.
THEOREM TypeCorrect == Spec => []TypeOK
<1>1. Init => TypeOK
  BY HostAssumption DEF Init, ScriptInit, TypeOK, ScriptTypeOK, NoLog, WindowsShell
<1> QED
  BY <1>1, NextTypeOK, PTL DEF Spec

-----------------------------------------------------------------------------
(***************************************************************************)
(* What a call returns.  A run prints once, at the end of its work, and a  *)
(* call is answered once; what lies between is a prefix of the output.     *)
(***************************************************************************)

PrintedOnce == \A s \in Script : printed[s] # None => pc[s] \in {"attend", "done"}

ReportInv == PrintedOnce /\ ResultIsReport

\* Only a run that has not printed goes on to print.
LEMMA PrintedForGood ==
    ASSUME TypeOK, PrintedOnce, NEW s \in Script,
           Run(s) \/ BashRuns(s) \/ Begin(s) \/ Interrupt(s) \/ Server(s) \/ UNCHANGED psvars
    PROVE  /\ PrintedOnce'
           /\ \A t \in Script : printed[t] # None => printed'[t] = printed[t]
<1> USE DEF TypeOK, ScriptTypeOK, PrintedOnce, Goto, Quit, PrintResults, files, Working
<1>1. CASE CheckInstalled(s) \/ Download(s) \/ TestTarball(s)
  BY <1>1 DEF CheckInstalled, Download, TestTarball
<1>2. CASE ExtractMember(s) \/ Extracted(s) \/ ExtractFails(s) \/ Verify(s)
  BY <1>2 DEF ExtractMember, Extracted, ExtractFails, Verify
<1>3. CASE Probe(s) \/ RemoveStale(s) \/ WriteToken(s) \/ StartServer(s)
  BY <1>3 DEF Probe, RemoveStale, WriteToken, StartServer
<1>4. CASE ReadToken(s) \/ FindListening(s) \/ PollEnds(s) \/ ServerDied(s)
  BY <1>4 DEF ReadToken, FindListening, PollEnds, ServerDied, Leaving
<1>5. CASE BashRuns(s) \/ Begin(s) \/ Interrupt(s)
  BY <1>5 DEF BashRuns, Begin, Interrupt
<1>6. CASE Server(s) \/ UNCHANGED psvars
  BY <1>6 DEF Server, OpenLog, LoadToken, Listen, Die, psvars
<1> QED
  BY <1>1, <1>2, <1>3, <1>4, <1>5, <1>6 DEF Run

\* A call that succeeds has read its whole output, wherever it was cut off.
LEMMA ParseReport ==
    ASSUME TypeOK, NEW s \in Script, NEW n \in 0..Pieces(s), Parse(s, n)
    PROVE  /\ \A t \in Script : t # s => UNCHANGED <<call[t], result[t]>>
           /\ call'[s] = "done" =>
                /\ printed[s] # None /\ printed[s].exitCode = 0
                /\ result'[s] = [listeningOn |-> printed[s].listeningOn,
                                 token |-> printed[s].token]
<1>1. CASE Whole(n) /\ printed[s].exitCode = 0
  <2>1. n = End /\ printed[s] # None
    BY <1>1 DEF Whole, End, Pieces
  <2> QED
    BY <1>1, <2>1 DEF Parse, Step, TypeOK
<1>2. CASE ~(Whole(n) /\ printed[s].exitCode = 0)
  BY <1>2 DEF Parse, Step, TypeOK
<1> QED
  BY <1>1, <1>2

LEMMA NextReportInv ==
    ASSUME TypeOK, ReportInv, [Next]_vars
    PROVE  ReportInv'
<1>1. ASSUME NEW s \in Script, Detect(s) \/ Send(s) \/ CannotSend(s)
      PROVE  ReportInv'
  <2>1. /\ \A t \in Script : call'[t] = "done" => call[t] = "done"
        /\ result' = result
    BY <1>1 DEF Detect, Send, CannotSend, Step, TypeOK
  <2>2. Begin(s) \/ UNCHANGED psvars
    BY <1>1 DEF Detect, Send, CannotSend
  <2>3. PrintedOnce' /\ \A t \in Script : printed[t] # None => printed'[t] = printed[t]
    BY <2>2, PrintedForGood DEF ReportInv
  <2> QED
    BY <2>1, <2>3 DEF ReportInv, ResultIsReport
<1>2. ASSUME NEW s \in Script, Answer(s) \/ Lose(s)
      PROVE  ReportInv'
  <2>1. PICK n \in 0..Pieces(s) : Parse(s, n)
    BY <1>2 DEF Answer, Lose, Pieces, End
  <2>2. Interrupt(s) \/ UNCHANGED psvars
    BY <1>2 DEF Answer, Lose
  <2>3. PrintedOnce' /\ \A t \in Script : printed[t] # None => printed'[t] = printed[t]
    BY <2>2, PrintedForGood DEF ReportInv
  <2>4. ResultIsReport'
    BY <2>1, <2>3, ParseReport DEF ReportInv, ResultIsReport
  <2> QED
    BY <2>3, <2>4 DEF ReportInv
<1>3. ASSUME NEW s \in Script, Remote(s) \/ BashRuns(s) \/ (Server(s) /\ UNCHANGED callVars)
      PROVE  ReportInv'
  <2>1. UNCHANGED callVars
    BY <1>3 DEF Remote, BashRuns
  <2>2. PrintedOnce' /\ \A t \in Script : printed[t] # None => printed'[t] = printed[t]
    BY <1>3, PrintedForGood DEF ReportInv, Remote
  <2> QED
    BY <2>1, <2>2 DEF callVars, ReportInv, ResultIsReport
<1>4. CASE UNCHANGED vars
  BY <1>4 DEF vars, psvars, callVars, ReportInv, PrintedOnce, ResultIsReport
<1> QED
  BY <1>1, <1>2, <1>3, <1>4 DEF Next, Window

\* Whatever the host prints, wherever its output is cut off and however the windows
\* interleave, a call succeeds only with the complete result of its own script.
THEOREM ResultsAreReports == Spec => []ResultIsReport
<1>1. Init => ReportInv
  BY DEF Init, ScriptInit, ReportInv, PrintedOnce, ResultIsReport
<1>2. TypeOK /\ ReportInv /\ [Next]_vars => ReportInv'
  BY NextReportInv
<1>3. ReportInv => ResultIsReport
  BY DEF ReportInv
<1> QED
  BY <1>1, <1>2, <1>3, TypeCorrect, PTL DEF Spec

-----------------------------------------------------------------------------
(***************************************************************************)
(* The server of a Windows host.  No lock orders the runs there.  While    *)
(* they keep apart, what takes the place of the lock is that a run only    *)
(* begins when no other is at work and every server can be seen; the       *)
(* invariant says what that leaves for a run to find.                      *)
(***************************************************************************)

Works(s) == pc[s] \in Working
Unstarted == {"idle", "install", "download", "test", "extract", "verify", "probe",
              "clean", "token", "start"}
Launching == {"clean", "token", "start"}

NotStarted == \A s \in Script : pc[s] \in Unstarted => srv[s] = "none"

Alone == \A s, t \in Script : Works(s) /\ Works(t) => s = t

\* A server that cannot be seen yet is watched by its own run, or by none.
Watched ==
    \A v, t \in Script :
        srv[v] = "wrapped" /\ Works(t) => t = v /\ pc[t] \in {"read", "poll"}

OneServer == \A v, w \in Script : srv[v] \in Alive /\ srv[w] \in Alive => v = w

NoServer == \A s, v \in Script : pc[s] \in Launching => srv[v] \notin Alive

Exclusive == Alone /\ Watched /\ OneServer /\ NoServer

TokenOfServer == \A v \in Script : srv[v] \in Alive => tokenFile = v

TokenOfRun ==
    \A s \in Script :
        /\ pc[s] = "token" => ~log.line
        /\ pc[s] = "start" => tokenFile = s
        /\ pc[s] = "poll" => token[s] = tokenFile

LogOfServer == \A v \in Script : srv[v] \in {"loading", "loaded", "listening"} => log.writer = v

OwnKey == \A v \in Script : srv[v] \in {"loaded", "listening"} => key[v] = v

\* The key of such a server does not change any more.
HasListened(v) == v \in Script /\ srv[v] \in {"listening", "dead"}

LineOfServer ==
    log.line => /\ HasListened(log.writer)
                /\ tokenFile = log.writer
                /\ key[log.writer] = log.writer

Truthful(r) ==
    r.listeningOn # None => HasListened(r.listeningOn) /\ r.token = key[r.listeningOn]

PrintedToken == \A s \in Script : printed[s] # None => Truthful(printed[s])

Credential ==
    /\ TokenOfServer /\ TokenOfRun /\ LogOfServer
    /\ OwnKey /\ LineOfServer /\ PrintedToken

Apart == apart /\ host # "posix"

ServerInv == NotStarted /\ (Apart => Exclusive /\ Credential)

\* A run moves on and leaves the servers alone.
LEMMA MoveExclusive ==
    ASSUME ScriptTypeOK, Exclusive, NEW s \in Script, NEW to, pc' = [pc EXCEPT ![s] = to],
           srv' = srv,
           to \in Working => Works(s),
           to \in Working /\ pc[s] \in {"read", "poll"} => to \in {"read", "poll"},
           to \in Launching => pc[s] \in Launching \/ \A v \in Script : srv[v] \notin Alive
    PROVE  Exclusive'
<1>1. \A t \in Script : pc'[t] = IF t = s THEN to ELSE pc[t]
  BY DEF ScriptTypeOK
<1>2. Alone'
  BY <1>1 DEF Exclusive, Alone, Works
<1>3. Watched'
  BY <1>1 DEF Exclusive, Watched, Works
<1>4. OneServer'
  BY DEF Exclusive, OneServer
<1>5. NoServer'
  BY <1>1 DEF Exclusive, NoServer
<1> QED
  BY <1>2, <1>3, <1>4, <1>5 DEF Exclusive

LEMMA MoveNotStarted ==
    ASSUME ScriptTypeOK, NotStarted, NEW s \in Script, NEW to, pc' = [pc EXCEPT ![s] = to],
           srv' = srv, to \in Unstarted => pc[s] \in Unstarted
    PROVE  NotStarted'
  BY DEF ScriptTypeOK, NotStarted

\* It may print, as long as it tells the truth.
LEMMA MoveCredential ==
    ASSUME ScriptTypeOK, Credential, NEW s \in Script, NEW to, pc' = [pc EXCEPT ![s] = to],
           UNCHANGED <<tokenFile, log, token, srv, key>>,
           to \notin {"token", "start", "poll"},
           printed' = printed \/ \E r : printed' = [printed EXCEPT ![s] = r] /\ Truthful(r)
    PROVE  Credential'
<1>1. /\ TokenOfServer' /\ LogOfServer' /\ OwnKey' /\ LineOfServer'
  BY DEF Credential, TokenOfServer, LogOfServer, OwnKey, LineOfServer, HasListened
<1>2. TokenOfRun'
  BY DEF ScriptTypeOK, Credential, TokenOfRun
<1>3. \A r : Truthful(r)' <=> Truthful(r)
  BY DEF Truthful, HasListened
<1>4. PrintedToken'
  <2>1. \A t \in Script : printed'[t] = printed[t] \/ Truthful(printed'[t])
    BY DEF ScriptTypeOK
  <2> QED
    BY <1>3, <2>1 DEF Credential, PrintedToken
<1> QED
  BY <1>1, <1>2, <1>4 DEF Credential

\* The installation, and the ends of a run.
LEMMA InstallServerInv ==
    ASSUME ScriptTypeOK, ServerInv, UNCHANGED <<apart, host>>, NEW s \in Script,
           \/ CheckInstalled(s) \/ Download(s) \/ TestTarball(s)
           \/ ExtractMember(s) \/ Extracted(s) \/ ExtractFails(s) \/ Verify(s)
           \/ ServerDied(s) \/ Interrupt(s)
    PROVE  ServerInv'
<1> DEFINE To == {"download", "test", "extract", "verify", "probe", "done"}
<1>1. /\ UNCHANGED <<tokenFile, log, token, srv, key>>
      /\ \E to \in To : pc' = [pc EXCEPT ![s] = to]
      /\ printed' = printed \/ \E r : printed' = [printed EXCEPT ![s] = r] /\ r.listeningOn = None
      /\ \/ pc[s] \in {"install", "download", "test", "extract", "verify"}
         \/ pc[s] \in Working \cup {"attend"} /\ pc' = [pc EXCEPT ![s] = "done"]
  <2> USE DEF Goto, Quit, PrintResults, files, ScriptTypeOK
  <2>1. CASE CheckInstalled(s)
    BY <2>1 DEF CheckInstalled
  <2>2. CASE Download(s) \/ TestTarball(s)
    BY <2>2 DEF Download, TestTarball
  <2>3. CASE ExtractMember(s)
    <3>1. pc' = [pc EXCEPT ![s] = "extract"]
      BY <2>3 DEF ExtractMember
    <3> QED
      BY <2>3, <3>1 DEF ExtractMember
  <2>4. CASE Extracted(s) \/ ExtractFails(s) \/ Verify(s)
    BY <2>4 DEF Extracted, ExtractFails, Verify
  <2>5. CASE ServerDied(s) \/ Interrupt(s)
    BY <2>5 DEF ServerDied, Interrupt
  <2> QED
    BY <2>1, <2>2, <2>3, <2>4, <2>5
<1>2. PICK to \in To : /\ pc' = [pc EXCEPT ![s] = to]
                       /\ \/ pc[s] \in {"install", "download", "test", "extract", "verify"}
                          \/ to = "done"
  <2>1. CASE pc[s] \in {"install", "download", "test", "extract", "verify"}
    BY <1>1, <2>1
  <2>2. CASE pc' = [pc EXCEPT ![s] = "done"]
    BY <2>2
  <2> QED
    BY <1>1, <2>1, <2>2
<1>3. NotStarted'
  BY <1>1, <1>2, MoveNotStarted DEF ServerInv, Unstarted
<1>4. ASSUME Apart'
      PROVE  Exclusive' /\ Credential'
  <2>1. Exclusive /\ Credential
    BY <1>4 DEF ServerInv, Apart
  <2>2. Exclusive'
    BY <1>1, <1>2, <2>1, MoveExclusive DEF Works, Working, Launching
  <2>3. printed' = printed \/ \E r : printed' = [printed EXCEPT ![s] = r] /\ Truthful(r)
    BY <1>1 DEF Truthful
  <2>4. Credential'
    BY <1>1, <1>2, <2>1, <2>3, MoveCredential
  <2> QED
    BY <2>2, <2>4
<1> QED
  BY <1>3, <1>4 DEF ServerInv

\* A run begins when no other is at work and no server is out of sight.
LEMMA BeginServerInv ==
    ASSUME ScriptTypeOK, ServerInv, host' = host, NEW s \in Script, Begin(s)
    PROVE  ServerInv'
<1>1. /\ pc[s] = "idle" /\ pc' = [pc EXCEPT ![s] = "install"]
      /\ UNCHANGED <<tokenFile, log, token, printed, srv, key>>
  BY DEF Begin, Goto, files
<1>2. NotStarted'
  BY <1>1, MoveNotStarted DEF ServerInv, Unstarted
<1>3. ASSUME Apart'
      PROVE  Exclusive' /\ Credential'
  <2>1. Exclusive /\ Credential
    BY <1>3 DEF ServerInv, Apart, Begin
  <2>2. \A t \in Script : ~Works(t) /\ srv[t] # "wrapped"
    BY <1>3 DEF Apart, Begin, Works, OutOfSight
  <2>3. \A t \in Script : Works(t)' => t = s /\ pc'[t] = "install"
    BY <1>1, <2>2 DEF Works, ScriptTypeOK
  <2>4. Alone' /\ Watched'
    BY <1>1, <2>2, <2>3 DEF Alone, Watched
  <2>5. OneServer' /\ NoServer'
    BY <1>1, <2>1, <2>3 DEF Exclusive, OneServer, NoServer, Launching, Works, Working
  <2>6. Credential'
    BY <1>1, <2>1, MoveCredential
  <2> QED
    BY <2>4, <2>5, <2>6 DEF Exclusive
<1> QED
  BY <1>2, <1>3 DEF ServerInv

\* The look for a node process misses no server, because none is out of sight.
LEMMA ProbeServerInv ==
    ASSUME ScriptTypeOK, ServerInv, UNCHANGED <<apart, host>>, NEW s \in Script, Probe(s)
    PROVE  ServerInv'
<1>1. /\ pc[s] = "probe"
      /\ UNCHANGED <<tokenFile, log, token, printed, srv, key>>
  BY DEF Probe, Goto, files
<1>2. PICK to \in {"read", "clean"} : /\ pc' = [pc EXCEPT ![s] = to]
                                      /\ to = "clean" => ~Running
  BY DEF Probe, Goto
<1>3. NotStarted'
  BY <1>1, <1>2, MoveNotStarted DEF ServerInv, Unstarted
<1>4. ASSUME Apart'
      PROVE  Exclusive' /\ Credential'
  <2>1. Exclusive /\ Credential
    BY <1>4 DEF ServerInv, Apart
  <2>2. \A v \in Script : srv[v] # "wrapped"
    BY <1>1, <2>1 DEF Exclusive, Watched, Works, Working
  <2>3. to \in Launching => \A v \in Script : srv[v] \notin Alive
    BY <1>2, <2>2 DEF Running, OutOfSight, Launching
  <2>4. Exclusive'
    BY <1>1, <1>2, <2>1, <2>3, MoveExclusive DEF Works, Working
  <2>5. Credential'
    BY <1>1, <1>2, <2>1, MoveCredential
  <2> QED
    BY <2>4, <2>5
<1> QED
  BY <1>3, <1>4 DEF ServerInv

LEMMA RemoveStaleServerInv ==
    ASSUME ScriptTypeOK, ServerInv, UNCHANGED <<apart, host>>, NEW s \in Script, RemoveStale(s)
    PROVE  ServerInv'
<1>1. /\ pc[s] = "clean" /\ pc' = [pc EXCEPT ![s] = "token"]
      /\ UNCHANGED <<token, printed, srv, key>>
  BY DEF RemoveStale, Goto
<1>2. NotStarted'
  BY <1>1, MoveNotStarted DEF ServerInv, Unstarted
<1>3. ASSUME Apart'
      PROVE  Exclusive' /\ Credential'
  <2>1. Exclusive /\ Credential
    BY <1>3 DEF ServerInv, Apart
  <2>2. \A v \in Script : srv[v] \notin Alive
    BY <1>1, <2>1 DEF Exclusive, NoServer, Launching
  <2>3. log' = NoLog
    <3>1. log.writer # None => log.writer \in Script
      BY DEF ScriptTypeOK
    <3> QED
      BY <2>2, <3>1 DEF RemoveStale
  <2>4. Exclusive'
    BY <1>1, <2>1, <2>2, MoveExclusive DEF Works, Working
  <2>5. TokenOfServer' /\ LogOfServer' /\ OwnKey'
    BY <1>1, <2>2 DEF TokenOfServer, LogOfServer, OwnKey, Alive
  <2>6. ~log'.line
    BY <2>3 DEF NoLog
  <2>7. \A t \in Script : t # s => pc'[t] \notin {"token", "start", "poll"}
    BY <1>1, <2>1 DEF Exclusive, Alone, Works, Working, ScriptTypeOK
  <2>8. TokenOfRun' /\ LineOfServer'
    BY <1>1, <2>6, <2>7 DEF TokenOfRun, LineOfServer, ScriptTypeOK
  <2>9. PrintedToken'
    BY <1>1, <2>1 DEF Credential, PrintedToken, Truthful, HasListened
  <2> QED
    BY <2>4, <2>5, <2>8, <2>9 DEF Credential
<1> QED
  BY <1>2, <1>3 DEF ServerInv

LEMMA WriteTokenServerInv ==
    ASSUME ScriptTypeOK, ServerInv, UNCHANGED <<apart, host>>, NEW s \in Script, WriteToken(s)
    PROVE  ServerInv'
<1>1. /\ pc[s] = "token" /\ pc' = [pc EXCEPT ![s] = "start"]
      /\ tokenFile' = s
      /\ UNCHANGED <<log, printed, srv, key>>
  BY DEF WriteToken, Goto
<1>2. NotStarted'
  BY <1>1, MoveNotStarted DEF ServerInv, Unstarted
<1>3. ASSUME Apart'
      PROVE  Exclusive' /\ Credential'
  <2>1. Exclusive /\ Credential
    BY <1>3 DEF ServerInv, Apart
  <2>2. \A v \in Script : srv[v] \notin Alive
    BY <1>1, <2>1 DEF Exclusive, NoServer, Launching
  <2>3. ~log.line
    BY <1>1, <2>1 DEF Credential, TokenOfRun
  <2>4. Exclusive'
    BY <1>1, <2>1, <2>2, MoveExclusive DEF Works, Working
  <2>5. TokenOfServer' /\ LogOfServer' /\ OwnKey'
    BY <1>1, <2>2 DEF TokenOfServer, LogOfServer, OwnKey, Alive
  <2>6. \A t \in Script : t # s => pc'[t] \notin {"token", "start", "poll"}
    BY <1>1, <2>1 DEF Exclusive, Alone, Works, Working, ScriptTypeOK
  <2>7. TokenOfRun' /\ LineOfServer'
    BY <1>1, <2>3, <2>6 DEF TokenOfRun, LineOfServer, ScriptTypeOK
  <2>8. PrintedToken'
    BY <1>1, <2>1 DEF Credential, PrintedToken, Truthful, HasListened
  <2> QED
    BY <2>4, <2>5, <2>7, <2>8 DEF Credential
<1> QED
  BY <1>2, <1>3 DEF ServerInv

\* The one step that adds a server: no other is up, and the token is its run's own.
LEMMA StartServerInv ==
    ASSUME ScriptTypeOK, ServerInv, UNCHANGED <<apart, host>>, NEW s \in Script, StartServer(s)
    PROVE  ServerInv'
<1>1. /\ pc[s] = "start" /\ pc' = [pc EXCEPT ![s] = "read"]
      /\ UNCHANGED <<tokenFile, log, token, printed, key>>
  BY DEF StartServer, Goto, files
<1>2. CASE srv' = srv
  <2>1. NotStarted'
    BY <1>1, <1>2, MoveNotStarted DEF ServerInv, Unstarted
  <2>2. ASSUME Apart'
        PROVE  Exclusive' /\ Credential'
    <3>1. Exclusive /\ Credential
      BY <2>2 DEF ServerInv, Apart
    <3>2. Exclusive'
      BY <1>1, <1>2, <3>1, MoveExclusive DEF Works, Working, Launching
    <3> QED
      BY <1>1, <1>2, <3>1, <3>2, MoveCredential
  <2> QED
    BY <2>1, <2>2 DEF ServerInv
<1>3. CASE srv' = [srv EXCEPT ![s] = "wrapped"]
  <2>1. NotStarted'
    BY <1>1, <1>3 DEF ServerInv, NotStarted, ScriptTypeOK, Unstarted
  <2>2. ASSUME Apart'
        PROVE  Exclusive' /\ Credential'
    <3>1. Exclusive /\ Credential /\ srv[s] = "none"
      BY <1>1, <2>2 DEF ServerInv, Apart, NotStarted, Unstarted
    <3>2. \A v \in Script : srv[v] \notin Alive
      BY <1>1, <3>1 DEF Exclusive, NoServer, Launching
    <3>3. \A v \in Script : srv'[v] = IF v = s THEN "wrapped" ELSE srv[v]
      BY <1>3 DEF ScriptTypeOK
    <3>4. \A t \in Script : Works(t)' => t = s /\ pc'[t] = "read"
      BY <1>1, <3>1 DEF Exclusive, Alone, Works, Working, ScriptTypeOK
    <3>5. Alone' /\ Watched'
      BY <3>2, <3>3, <3>4 DEF Alone, Watched, Alive
    <3>6. OneServer' /\ NoServer'
      BY <3>2, <3>3, <3>4 DEF OneServer, NoServer, Launching, Works, Working
    <3>7. TokenOfServer' /\ LogOfServer' /\ OwnKey'
      BY <1>1, <3>1, <3>2, <3>3 DEF Credential, TokenOfRun, TokenOfServer, LogOfServer, OwnKey, Alive
    <3>8. TokenOfRun'
      BY <3>4 DEF TokenOfRun, Works, Working
    <3>9. \A v : HasListened(v) => HasListened(v)'
      BY <3>1, <3>3 DEF HasListened
    <3>10. LineOfServer' /\ PrintedToken'
      BY <1>1, <3>1, <3>9 DEF Credential, LineOfServer, PrintedToken, Truthful
    <3> QED
      BY <3>5, <3>6, <3>7, <3>8, <3>10 DEF Exclusive, Credential
  <2> QED
    BY <2>1, <2>2 DEF ServerInv
<1> QED
  BY <1>2, <1>3 DEF StartServer

\* What a run prints is the token of the file and, with a port, of the server
\* that listens there.
LEMMA AnswerServerInv ==
    ASSUME ScriptTypeOK, ServerInv, UNCHANGED <<apart, host>>, NEW s \in Script,
           ReadToken(s) \/ FindListening(s) \/ PollEnds(s)
    PROVE  ServerInv'
<1>1. CASE \E to \in {"done", "attend"} : pc' = [pc EXCEPT ![s] = to]
  <2>1. PICK to \in {"done", "attend"} : pc' = [pc EXCEPT ![s] = to]
    BY <1>1
  <2>2. UNCHANGED <<tokenFile, log, token, srv, key>> /\ pc[s] \in {"read", "poll"}
    <3>1. CASE ReadToken(s) /\ tokenFile # None
      <4>1. pc'[s] = "poll"
        BY <3>1 DEF ReadToken, Goto, ScriptTypeOK
      <4> QED
        BY <2>1, <4>1 DEF ScriptTypeOK
    <3>2. CASE ReadToken(s) /\ tokenFile = None
      BY <3>2 DEF ReadToken, files
    <3>3. CASE FindListening(s) \/ PollEnds(s)
      BY <3>3 DEF FindListening, PollEnds, files
    <3> QED
      BY <3>1, <3>2, <3>3
  <2>3. NotStarted'
    BY <2>1, <2>2, MoveNotStarted DEF ServerInv, Unstarted
  <2>4. ASSUME Apart'
        PROVE  Exclusive' /\ Credential'
    <3>1. Exclusive /\ Credential
      BY <2>4 DEF ServerInv, Apart
    <3>2. Exclusive'
      BY <2>1, <2>2, <3>1, MoveExclusive DEF Works, Working, Launching
    <3>3. printed' = printed \/ \E r : printed' = [printed EXCEPT ![s] = r] /\ Truthful(r)
      <4>1. CASE FindListening(s)
        <5> DEFINE r == [exitCode |-> 0, listeningOn |-> log.writer, token |-> token[s]]
        <5>1. printed' = [printed EXCEPT ![s] = r]
          BY <4>1 DEF FindListening, PrintResults
        <5>2. Truthful(r)
          BY <3>1, <4>1 DEF FindListening, Credential, TokenOfRun, LineOfServer, Truthful
        <5> QED
          BY <5>1, <5>2
      <4>2. CASE ReadToken(s) \/ PollEnds(s)
        <5>1. \/ printed' = printed
              \/ \E code \in {0, 1} : PrintResults(s, code, None, "done")
              \/ \E code \in {0, 1} : PrintResults(s, code, None, Leaving(s))
          BY <4>2 DEF ReadToken, PollEnds
        <5>2. ASSUME NEW code \in {0, 1}, NEW end, PrintResults(s, code, None, end)
              PROVE  \E r : printed' = [printed EXCEPT ![s] = r] /\ r.listeningOn = None
          <6> DEFINE r == [exitCode |-> code, listeningOn |-> None, token |-> token[s]]
          <6>1. printed' = [printed EXCEPT ![s] = r]
            BY <5>2 DEF PrintResults
          <6>2. r.listeningOn = None
            OBVIOUS
          <6> HIDE DEF r
          <6> QED
            BY <6>1, <6>2
        <5> QED
          BY <5>1, <5>2 DEF Truthful
      <4> QED
        BY <4>1, <4>2
    <3> QED
      BY <2>1, <2>2, <3>1, <3>2, <3>3, MoveCredential
  <2> QED
    BY <2>3, <2>4 DEF ServerInv
<1>2. CASE ReadToken(s) /\ pc' = [pc EXCEPT ![s] = "poll"]
  <2>1. /\ pc[s] = "read" /\ token' = [token EXCEPT ![s] = tokenFile]
        /\ UNCHANGED <<tokenFile, log, printed, srv, key>>
    <3>1. pc'[s] = "poll"
      BY <1>2 DEF ScriptTypeOK
    <3>2. tokenFile # None
      BY <1>2, <3>1 DEF ReadToken, PrintResults, ScriptTypeOK
    <3> QED
      BY <1>2, <3>2 DEF ReadToken, Goto, files
  <2>2. NotStarted'
    BY <1>2, <2>1, MoveNotStarted DEF ServerInv, Unstarted
  <2>3. ASSUME Apart'
        PROVE  Exclusive' /\ Credential'
    <3>1. Exclusive /\ Credential
      BY <2>3 DEF ServerInv, Apart
    <3>2. Exclusive'
      BY <1>2, <2>1, <3>1, MoveExclusive DEF Works, Working, Launching
    <3>3. TokenOfRun'
      BY <1>2, <2>1, <3>1 DEF Credential, TokenOfRun, ScriptTypeOK
    <3>4. TokenOfServer' /\ LogOfServer' /\ OwnKey' /\ LineOfServer' /\ PrintedToken'
      BY <2>1, <3>1 DEF Credential, TokenOfServer, LogOfServer, OwnKey, LineOfServer, PrintedToken,
         Truthful, HasListened
    <3> QED
      BY <3>2, <3>3, <3>4 DEF Credential
  <2> QED
    BY <2>2, <2>3 DEF ServerInv
<1>3. \/ \E to \in {"done", "attend"} : pc' = [pc EXCEPT ![s] = to]
      \/ ReadToken(s) /\ pc' = [pc EXCEPT ![s] = "poll"]
  BY DEF ReadToken, FindListening, PollEnds, Goto, PrintResults, Leaving
<1> QED
  BY <1>1, <1>2, <1>3

LEMMA ServerServerInv ==
    ASSUME ScriptTypeOK, ServerInv, UNCHANGED <<apart, host>>, NEW v \in Script, Server(v)
    PROVE  ServerInv'
<1>1. /\ UNCHANGED <<pc, tokenFile, token, printed>>
      /\ \E life \in {"loading", "loaded", "listening", "dead"} : srv' = [srv EXCEPT ![v] = life]
      /\ srv[v] \in Alive
  BY DEF Server, OpenLog, LoadToken, Listen, Die, files, Alive
<1>2. PICK life \in {"loading", "loaded", "listening", "dead"} : srv' = [srv EXCEPT ![v] = life]
  BY <1>1
<1>3. \A w \in Script : srv'[w] = IF w = v THEN life ELSE srv[w]
  BY <1>2 DEF ScriptTypeOK
<1>4. NotStarted'
  BY <1>1, <1>3 DEF ServerInv, NotStarted, Alive
<1>5. ASSUME Apart'
      PROVE  Exclusive' /\ Credential'
  <2>1. Exclusive /\ Credential
    BY <1>5 DEF ServerInv, Apart
  <2>2. Alone' /\ Watched'
    BY <1>1, <1>3, <2>1 DEF Exclusive, Alone, Watched, Works
  <2>3. OneServer' /\ NoServer'
    BY <1>1, <1>3, <2>1 DEF Exclusive, OneServer, NoServer
  <2>4. TokenOfServer'
    BY <1>1, <1>3, <2>1 DEF Credential, TokenOfServer
  <2>5. \A w \in Script : w # v => srv[w] \notin Alive
    BY <1>1, <2>1 DEF Exclusive, OneServer
  <2>6. tokenFile = v /\ v # None /\ \A s \in Script : pc[s] # "token"
    BY <1>1, <2>1, WindowsAssumption DEF Exclusive, NoServer, Launching, Credential, TokenOfServer
  <2>7. CASE OpenLog(v)
    <3>1. srv[v] = "wrapped" /\ log' = [writer |-> v, line |-> FALSE] /\ key' = key
      <4>1. log.writer # None => log.writer \in Script
        BY DEF ScriptTypeOK
      <4> QED
        BY <2>5, <2>7, <4>1 DEF OpenLog
    <3>2. LogOfServer' /\ OwnKey' /\ LineOfServer'
      <4>1. log'.writer = v /\ ~log'.line
        BY <3>1
      <4>2. srv'[v] \in {"loading", "dead"}
        BY <2>7 DEF OpenLog, ScriptTypeOK
      <4> QED
        BY <1>3, <2>5, <4>1, <4>2 DEF LogOfServer, OwnKey, LineOfServer, Alive
    <3>3. TokenOfRun'
      BY <1>1, <2>1, <2>6 DEF Credential, TokenOfRun
    <3>4. PrintedToken'
      BY <1>1, <1>3, <2>1, <3>1 DEF Credential, PrintedToken, Truthful, HasListened
    <3> QED
      BY <2>2, <2>3, <2>4, <3>2, <3>3, <3>4 DEF Exclusive, Credential
  <2>8. CASE LoadToken(v)
    <3>1. /\ srv[v] = "loading" /\ log' = log /\ key' = [key EXCEPT ![v] = v]
          /\ srv'[v] = "loaded"
      BY <2>6, <2>8 DEF LoadToken, files, ScriptTypeOK
    <3>2. \A w : HasListened(w) => HasListened(w)' /\ key'[w] = key[w]
      BY <1>3, <3>1 DEF HasListened, ScriptTypeOK
    <3>3. LogOfServer' /\ OwnKey'
      BY <1>3, <2>1, <3>1 DEF Credential, LogOfServer, OwnKey, ScriptTypeOK
    <3>4. LineOfServer' /\ PrintedToken'
      BY <1>1, <2>1, <3>1, <3>2 DEF Credential, LineOfServer, PrintedToken, Truthful
    <3>5. TokenOfRun'
      BY <1>1, <2>1, <3>1 DEF Credential, TokenOfRun
    <3> QED
      BY <2>2, <2>3, <2>4, <3>3, <3>4, <3>5 DEF Exclusive, Credential
  <2>9. CASE Listen(v)
    <3>1. /\ srv[v] = "loaded" /\ log' = [log EXCEPT !.line = TRUE] /\ key' = key
          /\ srv'[v] = "listening"
      BY <2>9 DEF Listen, ScriptTypeOK
    <3>2. log'.writer = v
      BY <2>1, <3>1 DEF Credential, LogOfServer, ScriptTypeOK
    <3>3. \A w : HasListened(w) => HasListened(w)' /\ key'[w] = key[w]
      BY <1>3, <3>1 DEF HasListened
    <3>4. LogOfServer' /\ OwnKey'
      BY <1>3, <2>1, <2>5, <3>1, <3>2 DEF Credential, LogOfServer, OwnKey, Alive
    <3>5. LineOfServer'
      BY <1>1, <2>1, <2>6, <3>1, <3>2 DEF Credential, OwnKey, LineOfServer, HasListened
    <3>6. PrintedToken'
      BY <1>1, <2>1, <3>3 DEF Credential, PrintedToken, Truthful
    <3>7. TokenOfRun'
      BY <1>1, <2>1, <2>6 DEF Credential, TokenOfRun
    <3> QED
      BY <2>2, <2>3, <2>4, <3>4, <3>5, <3>6, <3>7 DEF Exclusive, Credential
  <2>10. CASE Die(v)
    <3>1. srv'[v] = "dead" /\ log' = log /\ key' = key
      BY <2>10 DEF Die, files, ScriptTypeOK
    <3>2. \A w : HasListened(w) => HasListened(w)' /\ key'[w] = key[w]
      BY <1>3, <3>1 DEF HasListened
    <3>3. LogOfServer' /\ OwnKey'
      BY <1>3, <2>1, <3>1 DEF Credential, LogOfServer, OwnKey
    <3>4. LineOfServer' /\ PrintedToken'
      BY <1>1, <2>1, <3>1, <3>2 DEF Credential, LineOfServer, PrintedToken, Truthful
    <3>5. TokenOfRun'
      BY <1>1, <2>1, <3>1 DEF Credential, TokenOfRun
    <3> QED
      BY <2>2, <2>3, <2>4, <3>3, <3>4, <3>5 DEF Exclusive, Credential
  <2> QED
    BY <2>7, <2>8, <2>9, <2>10 DEF Server
<1> QED
  BY <1>4, <1>5 DEF ServerInv

LEMMA NextServerInv ==
    ASSUME TypeOK, ServerInv, [Next]_vars
    PROVE  ServerInv'
<1>1. host' = host
  BY DEF Next, Detect, Window, Send, CannotSend, Answer, Lose, Remote, BashRuns, vars, callVars
<1>2. CASE UNCHANGED psvars
  BY <1>1, <1>2 DEF psvars, files, ServerInv, NotStarted, Apart, Exclusive, Alone, Watched, Works,
     OneServer, NoServer, Credential, TokenOfServer, TokenOfRun, LogOfServer, OwnKey, LineOfServer,
     PrintedToken, Truthful, HasListened
<1>3. ASSUME NEW s \in Script, Begin(s) \/ Interrupt(s)
      PROVE  ServerInv'
  BY <1>1, <1>3, BeginServerInv, InstallServerInv DEF TypeOK, Interrupt
<1>4. ASSUME NEW s \in Script, Run(s)
      PROVE  ServerInv'
  <2>1. apart' = apart
    BY <1>4 DEF Run, CheckInstalled, Download, TestTarball, ExtractMember, Extracted, ExtractFails,
       Verify, Probe, RemoveStale, WriteToken, StartServer, ReadToken, FindListening, PollEnds,
       ServerDied
  <2> QED
    BY <1>1, <1>4, <2>1, InstallServerInv, ProbeServerInv, RemoveStaleServerInv,
       WriteTokenServerInv, StartServerInv, AnswerServerInv DEF Run, TypeOK
<1>5. ASSUME NEW s \in Script, BashRuns(s)
      PROVE  ServerInv'
  <2>1. host = "posix" /\ srv' = srv /\ pc' = [pc EXCEPT ![s] = "done"]
    BY <1>5 DEF BashRuns, Goto
  <2>2. NotStarted'
    BY <2>1, MoveNotStarted DEF TypeOK, ServerInv, Unstarted
  <2> QED
    BY <1>1, <2>1, <2>2 DEF ServerInv, Apart
<1>6. ASSUME NEW s \in Script, Server(s)
      PROVE  ServerInv'
  <2>1. apart' = apart
    BY <1>6 DEF Server, OpenLog, LoadToken, Listen, Die
  <2> QED
    BY <1>1, <1>6, <2>1, ServerServerInv DEF TypeOK
<1>7. ASSUME NEW s \in Script, Detect(s) \/ Window(s) \/ Lose(s)
      PROVE  Begin(s) \/ Interrupt(s) \/ UNCHANGED psvars
  BY <1>7 DEF Detect, Window, Send, CannotSend, Answer, Lose
<1>8. CASE UNCHANGED vars
  BY <1>2, <1>8 DEF vars
<1> QED
  BY <1>2, <1>3, <1>4, <1>5, <1>6, <1>7, <1>8 DEF Next, Remote

\* What a call has returned is what it has ended with.
ResultOfDone == \A s \in Script : result[s] # None => call[s] = "done"

LEMMA NextResultOfDone ==
    ASSUME TypeOK, ResultOfDone, [Next]_vars
    PROVE  ResultOfDone'
<1> USE DEF TypeOK, ResultOfDone, Step
<1>1. ASSUME NEW s \in Script, Detect(s) \/ Send(s) \/ CannotSend(s)
      PROVE  ResultOfDone'
  BY <1>1 DEF Detect, Send, CannotSend
<1>2. ASSUME NEW s \in Script, Answer(s) \/ Lose(s)
      PROVE  ResultOfDone'
  BY <1>2 DEF Answer, Lose, Parse
<1>3. CASE UNCHANGED <<call, result>>
  BY <1>3
<1>4. ASSUME NEW s \in Script, Remote(s) \/ BashRuns(s) \/ (Server(s) /\ UNCHANGED callVars)
      PROVE  UNCHANGED <<call, result>>
  BY <1>4 DEF Remote, BashRuns, callVars
<1>5. CASE UNCHANGED vars
  BY <1>3, <1>5 DEF vars, callVars
<1> QED
  BY <1>1, <1>2, <1>3, <1>4, <1>5 DEF Next, Window

\* While the runs on a Windows host keep apart, it has at most one server, and every
\* port that a call has returned came with the token its server accepts, for good.
THEOREM ServersAnswer == Spec => []OneServerAnswers
<1>1. Init => ServerInv /\ ResultOfDone /\ ReportInv
  <2> SUFFICES ASSUME Init PROVE ServerInv /\ ResultOfDone /\ ReportInv
    OBVIOUS
  <2>1. NotStarted /\ ResultOfDone /\ ReportInv
    BY DEF Init, ScriptInit, NotStarted, ResultOfDone, ReportInv, PrintedOnce, ResultIsReport
  <2>2. Exclusive
    BY DEF Init, ScriptInit, Exclusive, Alone, Watched, Works, Working, OneServer, NoServer, Alive
  <2>3. Credential
    BY DEF Init, ScriptInit, NoLog, Credential, TokenOfServer, TokenOfRun, LogOfServer, OwnKey,
       LineOfServer, PrintedToken, Alive
  <2> QED
    BY <2>1, <2>2, <2>3 DEF ServerInv
<1>2. TypeOK /\ ServerInv /\ [Next]_vars => ServerInv'
  BY NextServerInv
<1>3. TypeOK /\ ResultOfDone /\ [Next]_vars => ResultOfDone'
  BY NextResultOfDone
<1>4. TypeOK /\ ReportInv /\ [Next]_vars => ReportInv'
  BY NextReportInv
<1>5. ServerInv /\ ResultOfDone /\ ReportInv => OneServerAnswers
  <2> SUFFICES ASSUME ServerInv, ResultOfDone, ReportInv, Apart
               PROVE  /\ \A v, w \in Script : srv[v] \in Alive /\ srv[w] \in Alive => v = w
                      /\ \A s \in Script :
                            result[s] # None /\ result[s].listeningOn # None =>
                                result[s].token = key[result[s].listeningOn]
    BY DEF OneServerAnswers, Apart
  <2>1. OneServer /\ PrintedToken
    BY DEF ServerInv, Exclusive, Credential
  <2>2. ASSUME NEW s \in Script, result[s] # None, result[s].listeningOn # None
        PROVE  result[s].token = key[result[s].listeningOn]
    <3>1. /\ printed[s] # None
          /\ result[s] = [listeningOn |-> printed[s].listeningOn, token |-> printed[s].token]
      BY <2>2 DEF ResultOfDone, ReportInv, ResultIsReport
    <3>2. Truthful(printed[s])
      BY <2>1, <3>1 DEF PrintedToken
    <3> QED
      BY <2>2, <3>1, <3>2 DEF Truthful
  <2> QED
    BY <2>1, <2>2 DEF OneServer
<1> QED
  BY <1>1, <1>2, <1>3, <1>4, <1>5, TypeCorrect, PTL DEF Spec

-----------------------------------------------------------------------------
(***************************************************************************)
(* The release that is chosen.  NumberOf is a fold over the digits of a    *)
(* build; what it returns, and that some build is the newest, is shown by  *)
(* induction over sets of numbers.                                         *)
(***************************************************************************)

LEMMA LeastNumber ==
    ASSUME NEW T \in SUBSET Nat, T # {}
    PROVE  \E n \in T : \A m \in T : n <= m
<1> DEFINE R == OpToRel(<, Nat)
<1>1. IsWellFoundedOn(R, Nat)
  BY NatLessThanWellFounded
<1>2. PICK n \in T : \A m \in T : <<m, n>> \notin R
  <2> HIDE DEF R
  <2> QED
    BY <1>1, WFMin
<1>3. \A m \in T : ~(m < n)
  BY <1>2 DEF OpToRel
<1> QED
  BY <1>3

LEMMA NumberInduction ==
    ASSUME NEW P, 0 \in P, \A n \in Nat : n \in P => n + 1 \in P
    PROVE  Nat \subseteq P
<1> SUFFICES ASSUME Nat \ P # {}
             PROVE  FALSE
  OBVIOUS
<1>1. PICK n \in Nat \ P : \A m \in Nat \ P : n <= m
  BY LeastNumber
<1>2. n # 0 /\ n - 1 \in Nat
  OBVIOUS
<1>3. n - 1 \in P
  BY <1>1, <1>2
<1> QED
  BY <1>2, <1>3

LEMMA MaxIs ==
    ASSUME NEW S \in SUBSET Int, NEW x \in S, \A y \in S : x >= y
    PROVE  Max(S) = x
<1>1. \A z \in S : (\A y \in S : z >= y) => z = x
  BY SMT
<1> QED
  BY <1>1 DEF Max

\* g is the function that the fold defines on the sets of the first n positions of d.
Folds(g, d, n) ==
    g = [s \in SUBSET (1..n) |-> IF s = {} THEN 0 ELSE 10 * g[s \ {Max(s)}] + d[Max(s)]]

LEMMA FoldExists == \A d : \A n \in Nat : \E g : Folds(g, d, n)
<1> TAKE d
<1> DEFINE P == {n \in Nat : \E g : Folds(g, d, n)}
<1>1. 0 \in P
  <2> DEFINE g == [s \in SUBSET (1..0) |-> 0]
  <2>1. \A s \in SUBSET (1..0) : s = {}
    OBVIOUS
  <2>2. Folds(g, d, 0)
    BY <2>1 DEF Folds
  <2> QED
    BY <2>2
<1>2. ASSUME NEW n \in Nat, n \in P
      PROVE  n + 1 \in P
  <2>1. PICK g : Folds(g, d, n)
    BY <1>2
  <2> DEFINE h == [s \in SUBSET (1..(n + 1)) |->
                      IF n + 1 \in s THEN 10 * g[s \ {n + 1}] + d[n + 1] ELSE g[s]]
  <2>2. ASSUME NEW s \in SUBSET (1..(n + 1))
        PROVE  h[s] = IF s = {} THEN 0 ELSE 10 * h[s \ {Max(s)}] + d[Max(s)]
    <3>1. CASE n + 1 \in s
      <4>1. Max(s) = n + 1
        <5>1. s \in SUBSET Int /\ \A y \in s : n + 1 >= y
          OBVIOUS
        <5> QED
          BY <3>1, <5>1, MaxIs
      <4>2. h[s \ {n + 1}] = g[s \ {n + 1}]
        OBVIOUS
      <4> QED
        BY <3>1, <4>1, <4>2
    <3>2. CASE n + 1 \notin s
      <4>1. s \in SUBSET (1..n) /\ s \ {Max(s)} \in SUBSET (1..n) /\ h[s] = g[s]
        <5>1. \A i \in s : i \in 1..n
          BY <3>2
        <5>2. h[s] = g[s]
          BY <3>2
        <5> QED
          BY <5>1, <5>2
      <4>2. h[s \ {Max(s)}] = g[s \ {Max(s)}]
        BY <3>2, <4>1
      <4>3. g[s] = IF s = {} THEN 0 ELSE 10 * g[s \ {Max(s)}] + d[Max(s)]
        BY <2>1, <4>1 DEF Folds
      <4> QED
        BY <4>1, <4>2, <4>3
    <3> QED
      BY <3>1, <3>2
  <2>3. Folds(h, d, n + 1)
    <3> HIDE DEF h
    <3>1. h = [s \in SUBSET (1..(n + 1)) |-> h[s]]
      BY DEF h
    <3> QED
      BY <2>2, <3>1 DEF Folds
  <2> QED
    BY <2>3
<1> HIDE DEF P
<1>3. Nat \subseteq P
  BY <1>1, <1>2, NumberInduction
<1> QED
  BY <1>3 DEF P

\* The digits of a build are a number.
LEMMA NumberIsNatural ==
    ASSUME NEW d \in Digits
    PROVE  NumberOf(d) \in Nat
<1> DEFINE n == Len(d)
           iter == CHOOSE g : Folds(g, d, n)
           P == {i \in Nat : i <= n => iter[1..i] \in Nat}
<1>1. n \in Nat /\ DOMAIN d = 1..n /\ \A i \in 1..n : d[i] \in 0..9
  BY DEF Digits
<1>2. Folds(iter, d, n)
  BY <1>1, FoldExists
<1>3. NumberOf(d) = iter[1..n]
  BY <1>1 DEF NumberOf, FoldLeft, MapThenFoldSet, Folds
<1> HIDE DEF iter
<1>4. 0 \in P
  BY <1>1, <1>2 DEF Folds
<1>5. ASSUME NEW i \in Nat, i \in P
      PROVE  i + 1 \in P
  <2> SUFFICES ASSUME i + 1 <= n
               PROVE  iter[1..(i + 1)] \in Nat
    OBVIOUS
  <2>1. 1..(i + 1) \in SUBSET (1..n) /\ 1..(i + 1) # {}
    <3>1. 1 \in 1..(i + 1) /\ \A j \in 1..(i + 1) : j \in 1..n
      BY <1>1
    <3> QED
      BY <3>1
  <2>2. Max(1..(i + 1)) = i + 1
    <3>1. 1..(i + 1) \in SUBSET Int /\ i + 1 \in 1..(i + 1) /\ \A y \in 1..(i + 1) : i + 1 >= y
      OBVIOUS
    <3> QED
      BY <3>1, MaxIs
  <2>3. (1..(i + 1)) \ {i + 1} = 1..i
    OBVIOUS
  <2>4. iter[1..(i + 1)] = 10 * iter[1..i] + d[i + 1]
    BY <1>2, <2>1, <2>2, <2>3 DEF Folds
  <2>5. iter[1..i] \in Nat /\ d[i + 1] \in 0..9
    BY <1>1, <1>5
  <2> QED
    BY <2>4, <2>5
<1> HIDE DEF P
<1>6. Nat \subseteq P
  BY <1>4, <1>5, NumberInduction
<1> QED
  BY <1>1, <1>3, <1>6 DEF P

\* Of finitely many numbers one is the largest.
LEMMA LargestOf ==
    ASSUME NEW f \in [Nat -> Nat]
    PROVE  \A n \in Nat : \A D \in SUBSET (1..n) :
               D # {} => \E i \in D : \A j \in D : f[j] <= f[i]
<1> DEFINE Has(D) == D # {} => \E i \in D : \A j \in D : f[j] <= f[i]
           P == {n \in Nat : \A D \in SUBSET (1..n) : Has(D)}
<1>1. 0 \in P
  <2>1. \A D \in SUBSET (1..0) : D = {}
    OBVIOUS
  <2> QED
    BY <2>1
<1>2. ASSUME NEW n \in Nat, n \in P
      PROVE  n + 1 \in P
  <2> SUFFICES ASSUME NEW D \in SUBSET (1..(n + 1)), D # {}
               PROVE  \E i \in D : \A j \in D : f[j] <= f[i]
    OBVIOUS
  <2> DEFINE E == D \ {n + 1}
  <2>1. E \in SUBSET (1..n) /\ \A j \in D : j \in E \/ j = n + 1
    OBVIOUS
  <2>2. CASE E = {}
    <3>1. \A j \in D : j = n + 1
      BY <2>1, <2>2
    <3>2. PICK i \in D : i = n + 1
      BY <3>1
    <3>3. f[n + 1] <= f[n + 1]
      OBVIOUS
    <3> QED
      BY <3>1, <3>2, <3>3
  <2>3. CASE E # {}
    <3>1. PICK i \in E : \A j \in E : f[j] <= f[i]
      BY <1>2, <2>1, <2>3
    <3>2. i \in Nat /\ \A j \in D : j \in Nat
      OBVIOUS
    <3>3. CASE n + 1 \in D /\ f[i] <= f[n + 1]
      <4>1. \A j \in D : f[j] <= f[n + 1]
        BY <2>1, <3>1, <3>2, <3>3
      <4> QED
        BY <3>3, <4>1
    <3>4. CASE n + 1 \notin D \/ f[n + 1] <= f[i]
      <4>1. \A j \in D : f[j] <= f[i]
        BY <2>1, <3>1, <3>4
      <4> QED
        BY <4>1
    <3> QED
      BY <3>2, <3>3, <3>4
  <2> QED
    BY <2>2, <2>3
<1> HIDE DEF P
<1>3. Nat \subseteq P
  BY <1>1, <1>2, NumberInduction
<1> QED
  BY <1>3 DEF P

-----------------------------------------------------------------------------
(* The newest build of a version *)

LEMMA SplitIsRelease ==
    ASSUME NEW t \in Title
    PROVE  /\ SplitRelease(t).version[1] \in Nat
           /\ SplitRelease(t).version[2] \in Digits
           /\ SplitRelease(t).build \in Digits
<1>1. t.minor \in Nat /\ t.third \in Seq(0..9) /\ t.third # <<>> /\ t.fourth \in Seq(0..9)
  BY DEF Title, Digits
<1>2. Head(t.third) \in 0..9 /\ Tail(t.third) \in Seq(0..9)
  BY <1>1, HeadTailProperties
<1>3. <<Head(t.third)>> \in Seq(0..9)
  BY <1>2
<1> QED
  BY <1>1, <1>2, <1>3 DEF SplitRelease, Digits

\* Releases of one version are in the order of their builds.
LEMMA SameVersion ==
    ASSUME NEW a, NEW b, a.version = b.version, a.version[1] \in Nat, a.version[2] \in Digits,
           a.build \in Digits, b.build \in Digits
    PROVE  AtLeast(a, b) <=> NumberOf(b.build) <= NumberOf(a.build)
<1>1. /\ NumberOf(a.version[2]) \in Nat
      /\ NumberOf(a.build) \in Nat /\ NumberOf(b.build) \in Nat
  BY NumberIsNatural
<1> QED
  BY <1>1 DEF AtLeast, Rank

LEMMA ClosestIsNewest ==
    ASSUME NEW titles \in Seq(Title), NEW best, best = BestRelease("closest", Local, titles)
    PROVE  /\ best.version = Local.version
           /\ \A i \in DOMAIN titles :
                ValidRelease(SplitRelease(titles[i])) /\ SplitRelease(titles[i]).version = Local.version
                    => NumberOf(SplitRelease(titles[i]).build) <= NumberOf(best.build)
<1> DEFINE r(i) == SplitRelease(titles[i])
           D == {i \in DOMAIN titles : ValidRelease(r(i)) /\ r(i).version = Local.version}
           found == {r(i) : i \in D}
           f == [i \in Nat |-> IF i \in D THEN NumberOf(r(i).build) ELSE 0]
<1>1. /\ best = IF found = {} THEN Local
                ELSE CHOOSE x \in found : \A other \in found : AtLeast(x, other)
  <2> DEFINE valid == {x \in {SplitRelease(titles[i]) : i \in DOMAIN titles} : ValidRelease(x)}
             wanted == {x \in valid : Wanted("closest", Local, x)}
  <2>1. wanted = found
    BY DEF Wanted
  <2>2. best = IF "closest" = "match" \/ wanted = {} THEN Local
               ELSE CHOOSE x \in wanted : \A other \in wanted : AtLeast(x, other)
    BY Zenon DEF BestRelease
  <2> HIDE DEF wanted, found
  <2> QED
    BY <2>1, <2>2
<1>2. \A i \in DOMAIN titles : /\ r(i).version[1] \in Nat
                                /\ r(i).version[2] \in Digits /\ r(i).build \in Digits
  BY SplitIsRelease
<1>3. CASE D = {}
  BY <1>1, <1>3
<1>4. CASE D # {}
  <2>1. \A i, j \in D : AtLeast(r(i), r(j)) <=> NumberOf(r(j).build) <= NumberOf(r(i).build)
    BY <1>2, SameVersion
  <2>2. PICK i \in D : \A j \in D : NumberOf(r(j).build) <= NumberOf(r(i).build)
    <3>1. f \in [Nat -> Nat]
      BY <1>2, NumberIsNatural
    <3>2. Len(titles) \in Nat /\ D \in SUBSET (1..Len(titles))
      OBVIOUS
    <3> HIDE DEF f, D
    <3>3. PICK i \in D : \A j \in D : f[j] <= f[i]
      BY <1>4, <3>1, <3>2, LargestOf
    <3>4. \A j \in D : f[j] = NumberOf(r(j).build)
      BY <3>2 DEF f
    <3> QED
      BY <3>3, <3>4
  <2>3. \A other \in found : AtLeast(r(i), other)
    BY <2>1, <2>2
  <2>4. best \in found /\ \A other \in found : AtLeast(best, other)
    <3> HIDE DEF r
    <3>1. r(i) \in found
      BY <2>2
    <3> HIDE DEF found
    <3> QED
      BY <1>1, <2>3, <3>1
  <2>5. PICK k \in D : best = r(k)
    BY <2>4
  <2>6. \A j \in D : NumberOf(r(j).build) <= NumberOf(best.build)
    BY <2>1, <2>4, <2>5
  <2> QED
    BY <2>5, <2>6
<1> QED
  BY <1>3, <1>4

\* A call that sends its script has chosen by the setting and the list.
ReleaseOfCall ==
    \A s \in Script :
        call[s] = "running" => release[s] = BestRelease(wish.objective, Local, wish.titles)

LEMMA NextReleaseOfCall ==
    ASSUME TypeOK, DOMAIN release = Script, ReleaseOfCall, [Next]_vars
    PROVE  DOMAIN release' = Script /\ ReleaseOfCall'
<1> USE DEF TypeOK, ReleaseOfCall, Step
<1>1. ASSUME NEW s \in Script, Detect(s) \/ CannotSend(s)
      PROVE  DOMAIN release' = Script /\ ReleaseOfCall'
  BY <1>1 DEF Detect, CannotSend
<1>2. ASSUME NEW s \in Script, Send(s)
      PROVE  DOMAIN release' = Script /\ ReleaseOfCall'
  BY <1>2 DEF Send
<1>3. ASSUME NEW s \in Script, Answer(s) \/ Lose(s)
      PROVE  DOMAIN release' = Script /\ ReleaseOfCall'
  BY <1>3 DEF Answer, Lose, Parse
<1>4. CASE UNCHANGED <<call, release, wish>>
  BY <1>4
<1>5. ASSUME NEW s \in Script, Remote(s) \/ BashRuns(s) \/ (Server(s) /\ UNCHANGED callVars)
      PROVE  UNCHANGED <<call, release, wish>>
  BY <1>5 DEF Remote, BashRuns, callVars
<1>6. CASE UNCHANGED vars
  BY <1>4, <1>6 DEF vars, callVars
<1> QED
  BY <1>1, <1>2, <1>3, <1>4, <1>5, <1>6 DEF Next, Window

\* With 'closest' a call downloads the newest listed build of its own version, or its
\* own build when no build of that version is listed, whatever the titles are.
THEOREM ClosestIsChosen == Spec => []ClosestChosen
<1>1. Init => DOMAIN release = Script /\ ReleaseOfCall
  BY DEF Init, ReleaseOfCall
<1>2. TypeOK /\ DOMAIN release = Script /\ ReleaseOfCall /\ [Next]_vars
        => (DOMAIN release = Script /\ ReleaseOfCall)'
  BY NextReleaseOfCall
<1>3. TypeOK /\ ReleaseOfCall => ClosestChosen
  <2> SUFFICES ASSUME TypeOK, ReleaseOfCall, NEW s \in Script,
                      call[s] = "running", wish.objective = "closest"
               PROVE  /\ release[s].version = Local.version
                      /\ \A i \in DOMAIN wish.titles :
                            LET r == SplitRelease(wish.titles[i])
                            IN  ValidRelease(r) /\ r.version = Local.version
                                    => NumberOf(r.build) <= NumberOf(release[s].build)
    BY DEF ClosestChosen
  <2>1. wish.titles \in Seq(Title) /\ release[s] = BestRelease("closest", Local, wish.titles)
    BY WishAssumption DEF TypeOK, ReleaseOfCall
  <2> QED
    BY <2>1, ClosestIsNewest
<1> QED
  BY <1>1, <1>2, <1>3, TypeCorrect, PTL DEF Spec
=============================================================================
