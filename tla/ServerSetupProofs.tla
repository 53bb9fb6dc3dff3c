------------------------- MODULE ServerSetupProofs -------------------------
(***************************************************************************)
(* Theorems about ServerSetup, for any number of runs.                     *)
(***************************************************************************)
EXTENDS ServerSetup, TLAPS

-----------------------------------------------------------------------------
(* Type correctness *)

LEMMA ExitType ==
    ASSUME TypeOK, NEW s \in Script, NEW code \in {0, 1}, NEW lines \in SUBSET Script,
           Exit(s, code, lines)
    PROVE  /\ pc' \in [Script -> PC]
           /\ lock' \in Script \cup {None}
           /\ report' \in [Script -> Report \cup {None}]
<1> DEFINE r == [exitCode |-> code, listeningOn |-> lines, token |-> token[s]]
<1>1. r \in Report
  BY DEF TypeOK, Report
<1>2. report' = [report EXCEPT ![s] = r]
  BY DEF Exit
<1>3. "done" \in PC
  BY DEF PC, Ended
<1> HIDE DEF r
<1> QED
  BY <1>1, <1>2, <1>3 DEF Exit, Unlock, TypeOK

LEMMA GotoType ==
    ASSUME TypeOK, NEW s \in Script, NEW from, NEW to \in PC, Goto(s, from, to)
    PROVE  pc' \in [Script -> PC]
BY DEF TypeOK, Goto

LEMMA InitTypeOK == Init => TypeOK
BY ScriptAssumption DEF Init, TypeOK, PC, Locked, Setup, Starting, Orphaned, Ended, Life, Alive,
   Tarballs, Report, NoLog

LEMMA InstallTypeOK ==
    ASSUME TypeOK, NEW s \in Script, Install(s)
    PROVE  TypeOK'
<1> USE DEF PC, Locked, Setup, Starting, Orphaned, Ended, files
<1>1. CASE CheckInstalled(s)
  BY <1>1, GotoType DEF CheckInstalled, TypeOK, Goto
<1>2. CASE CannotInstall(s)
  BY <1>2, ExitType DEF CannotInstall, TypeOK
<1>3. CASE DownloadBegins(s)
  BY <1>3 DEF DownloadBegins, TypeOK, Tarballs
<1>4. CASE DownloadEnds(s)
  BY <1>4, GotoType DEF DownloadEnds, Downloaded, TypeOK, Tarballs, Goto
<1>5. CASE DownloadFails(s)
  BY <1>5, ExitType DEF DownloadFails, TypeOK, Tarballs
<1>6. CASE TestTarball(s)
  BY <1>6, ExitType, GotoType DEF TestTarball, TypeOK, Tarballs, Goto
<1>7. CASE ExtractMember(s)
  BY <1>7 DEF ExtractMember, TypeOK
<1>8. CASE ExtractEnds(s)
  BY <1>8, GotoType DEF ExtractEnds, TypeOK, Goto
<1>9. CASE ExtractFails(s)
  BY <1>9, ExitType, GotoType DEF ExtractFails, TypeOK, Tarballs, Goto
<1>10. CASE VerifyInstall(s)
  <2>1. /\ tarball' \in Tarballs
        /\ tree' \in [script : {"absent", "empty", "file"}, rest : BOOLEAN]
    <3>1. tree' = tree \/ tree' = [script |-> "absent", rest |-> FALSE]
      BY <1>10 DEF VerifyInstall
    <3>2. tree' \in [script : {"absent", "empty", "file"}, rest : BOOLEAN]
      <4>1. CASE tree' = tree
        BY <4>1 DEF TypeOK
      <4>2. CASE tree' = [script |-> "absent", rest |-> FALSE]
        <5>1. [script |-> "absent", rest |-> FALSE]
                \in [script : {"absent", "empty", "file"}, rest : BOOLEAN]
          OBVIOUS
        <5> QED
          BY <4>2, <5>1
      <4> QED
        BY <3>1, <4>1, <4>2
    <3>3. tarball' = "none"
      BY <1>10 DEF VerifyInstall
    <3> QED
      BY <3>2, <3>3 DEF Tarballs
  <2>2. /\ pc' \in [Script -> PC]
        /\ lock' \in Script \cup {None}
        /\ report' \in [Script -> Report \cup {None}]
    <3>1. CASE Goto(s, "verify", "probe") /\ UNCHANGED <<lock, tree, report>>
      BY <3>1, GotoType DEF TypeOK
    <3>2. CASE Exit(s, 1, {})
      BY <3>2, ExitType
    <3> QED
      BY <1>10, <3>1, <3>2 DEF VerifyInstall
  <2> QED
    BY <1>10, <2>1, <2>2 DEF VerifyInstall, TypeOK
<1> QED
  BY <1>1, <1>2, <1>3, <1>4, <1>5, <1>6, <1>7, <1>8, <1>9, <1>10 DEF Install

LEMMA StartTypeOK ==
    ASSUME TypeOK, NEW s \in Script, Start(s)
    PROVE  TypeOK'
<1> USE DEF PC, Locked, Starting, files
<1>1. CASE RemoveStale(s)
  BY <1>1, GotoType DEF RemoveStale, TypeOK, NoLog
<1>2. CASE TouchToken(s)
  BY <1>2, GotoType DEF TouchToken, TypeOK
<1>3. CASE WriteToken(s)
  BY <1>3, GotoType DEF WriteToken, TypeOK
<1>4. CASE ForkServer(s)
  BY <1>4, GotoType DEF ForkServer, TypeOK, Life, Alive
<1>5. CASE WritePid(s)
  BY <1>5, GotoType DEF WritePid, TypeOK
<1> QED
  BY <1>1, <1>2, <1>3, <1>4, <1>5 DEF Start

LEMMA AnswerTypeOK ==
    ASSUME TypeOK, NEW s \in Script, Answer(s)
    PROVE  TypeOK'
<1> USE DEF PC, Locked, files
<1>1. CASE ReadToken(s)
  BY <1>1, ExitType, GotoType DEF ReadToken, TypeOK
<1>2. CASE CheckLog(s)
  BY <1>2, ExitType, GotoType DEF CheckLog, TypeOK
<1>3. CASE FindListening(s)
  BY <1>3, ExitType DEF FindListening, TypeOK
<1>4. CASE PollGivesUp(s)
  BY <1>4, ExitType DEF PollGivesUp, TypeOK
<1> QED
  BY <1>1, <1>2, <1>3, <1>4 DEF Answer

LEMMA ServerTypeOK ==
    ASSUME TypeOK, NEW v \in Script, Server(v)
    PROVE  TypeOK'
<1> USE DEF Life, Alive, files
<1>1. CASE Exec(v)
  BY <1>1 DEF Exec, TypeOK
<1>2. CASE LoadToken(v)
  BY <1>2 DEF LoadToken, TypeOK
<1>3. CASE Listen(v)
  BY <1>3 DEF Listen, TypeOK
<1>4. CASE Die(v)
  BY <1>4 DEF Die, TypeOK
<1> QED
  BY <1>1, <1>2, <1>3, <1>4 DEF Server

LEMMA RunTypeOK ==
    ASSUME TypeOK, NEW s \in Script, Run(s)
    PROVE  TypeOK'
<1> USE DEF PC, Locked, Setup, Starting, files
<1>1. CASE Acquire(s)
  BY <1>1, GotoType DEF Acquire, TypeOK
<1>2. CASE LockTimeout(s)
  BY <1>2, ExitType DEF LockTimeout, TypeOK
<1>3. CASE CheckHost(s)
  BY <1>3, ExitType, GotoType DEF CheckHost, TypeOK
<1>4. CASE Probe(s)
  BY <1>4, GotoType DEF Probe, TypeOK
<1> QED
  BY <1>1, <1>2, <1>3, <1>4, InstallTypeOK, StartTypeOK, AnswerTypeOK DEF Run

LEMMA NextTypeOK == TypeOK /\ [Next]_vars => TypeOK'
<1> SUFFICES ASSUME TypeOK, [Next]_vars
             PROVE  TypeOK'
  OBVIOUS
<1>1. ASSUME NEW s \in Script, Begin(s)
      PROVE  TypeOK'
  BY <1>1, GotoType DEF Begin, TypeOK, PC, Locked, Setup, files
<1>2. ASSUME NEW s \in Script, Interrupt(s)
      PROVE  TypeOK'
  BY <1>2 DEF Interrupt, Unlock, TypeOK, PC, Ended, files
<1>3. ASSUME NEW s \in Script, Kill(s)
      PROVE  TypeOK'
  BY <1>3 DEF Kill, TypeOK, PC, Ended, Orphaned, files
<1>4. ASSUME NEW s \in Script, LastClose(s)
      PROVE  TypeOK'
  BY <1>4 DEF LastClose, TypeOK, files
<1>5. CASE UNCHANGED vars
  BY <1>5 DEF vars, TypeOK
<1> QED
  BY <1>1, <1>2, <1>3, <1>4, <1>5, RunTypeOK, ServerTypeOK DEF Next

\* Every value the script keeps stays in its range, for any number of runs.
THEOREM TypeCorrect == Spec => []TypeOK
<1>1. Init => TypeOK
  BY InitTypeOK
<1>2. TypeOK /\ [Next]_vars => TypeOK'
  BY NextTypeOK
<1> QED
  BY <1>1, <1>2, PTL DEF Spec

-----------------------------------------------------------------------------
(***************************************************************************)
(* At most one server.  The invariant follows the lock: whoever works on   *)
(* the files holds it, a killed run's server keeps it, and any other live  *)
(* server has its pid in the pid file, where the next run looks.           *)
(***************************************************************************)

Guarded(v) == srv[v] \in Alive /\ pc[v] # "lost"

LockHeld == \A s \in Script : InProgress(s) => lock = s

NotStarted ==
    \A s \in Script :
        pc[s] \in {"idle", "lock", "probe"} \cup Setup \cup Starting \cup Orphaned
            => srv[s] = "none"

Recorded ==
    \A v \in Script :
        Guarded(v) /\ pc[v] # "pid" /\ ~(pc[v] = "killed" /\ lock = v) => pidFile = v

NoOther ==
    \A s, v \in Script :
        /\ pc[s] \in Starting => ~Guarded(v)
        /\ pc[s] = "pid" /\ Guarded(v) => v = s

OneGuarded == \A v, w \in Script : Guarded(v) /\ Guarded(w) => v = w

ServerInv == LockHeld /\ NotStarted /\ Recorded /\ NoOther /\ OneGuarded

\* A step that leaves servers and the pid file alone, and takes run s from a
\* command other than "pid" to one that is neither Starting nor "pid".
LEMMA QuietStep ==
    ASSUME TypeOK, ServerInv, NEW s \in Script, NEW to \in PC,
           pc' = [pc EXCEPT ![s] = to], UNCHANGED <<srv, pidFile>>,
           pc[s] # "pid", to \notin Starting \cup {"pid", "lost"},
           to \in Locked \cup Orphaned => lock' = s,
           to \in {"idle", "lock", "probe"} \cup Setup \cup Orphaned => srv[s] = "none",
           \/ lock' = lock
           \/ lock \in {s, None} /\ ~(pc[s] = "killed" /\ srv[s] \in Alive),
           pc[s] # "lost",
           pc[s] = "killed" => to = "killed"
    PROVE  ServerInv'
<1> USE DEF TypeOK, Guarded
<1>1. LockHeld'
  BY ScriptAssumption DEF ServerInv, LockHeld, InProgress
<1>2. NotStarted'
  BY DEF ServerInv, NotStarted
<1>3. Recorded'
  BY ScriptAssumption DEF ServerInv, Recorded
<1>4. NoOther'
  BY DEF ServerInv, NoOther
<1>5. OneGuarded'
  BY DEF ServerInv, OneGuarded
<1> QED
  BY <1>1, <1>2, <1>3, <1>4, <1>5 DEF ServerInv

LEMMA ExitStep ==
    ASSUME TypeOK, ServerInv, NEW s \in Script, NEW code, NEW lines, Exit(s, code, lines),
           pc[s] \in {"lock"} \cup (Locked \ {"pid"}), UNCHANGED <<srv, pidFile>>
    PROVE  ServerInv'
<1>1. pc' = [pc EXCEPT ![s] = "done"] /\ (lock' = lock \/ lock = s)
  BY DEF Exit, Unlock
<1> QED
  BY <1>1, QuietStep DEF PC, Locked, Setup, Starting, Orphaned, Ended

LEMMA GotoStep ==
    ASSUME TypeOK, ServerInv, NEW s \in Script, NEW from \in Locked \ {"pid"}, NEW to \in PC,
           Goto(s, from, to), UNCHANGED <<lock, srv, pidFile>>,
           to \in Setup \cup {"probe"} => from \in Setup,
           to \notin Starting \cup Orphaned \cup {"pid", "lost", "idle", "lock"}
    PROVE  ServerInv'
<1>1. lock = s
  BY DEF Goto, ServerInv, LockHeld, InProgress
<1>2. to \in Setup \cup {"probe"} => srv[s] = "none"
  BY DEF Goto, ServerInv, NotStarted
<1> QED
  BY <1>1, <1>2, QuietStep DEF Goto, PC, Locked, Setup, Starting, Orphaned, Ended

LEMMA InstallServerInv ==
    ASSUME TypeOK, ServerInv, NEW s \in Script, Install(s)
    PROVE  ServerInv'
<1> USE DEF PC, Locked, Setup, Starting, Orphaned, Ended
<1>1. CASE CheckInstalled(s)
  BY <1>1, GotoStep DEF CheckInstalled, files, Goto
<1>2. CASE CannotInstall(s)
  BY <1>2, ExitStep DEF CannotInstall, files
<1>3. CASE DownloadBegins(s) \/ ExtractMember(s)
  BY <1>3 DEF DownloadBegins, ExtractMember, ServerInv, LockHeld, NotStarted, Recorded, NoOther,
     OneGuarded, Guarded, InProgress
<1>4. CASE Goto(s, "downloading", "killed") /\ DownloadEnds(s)
  BY <1>4, QuietStep DEF DownloadEnds, Goto, ServerInv, NotStarted
<1>5. CASE Goto(s, "download", "test") /\ DownloadEnds(s)
  BY <1>5, GotoStep DEF DownloadEnds
<1>6. CASE DownloadFails(s)
  BY <1>6, ExitStep DEF DownloadFails
<1>7. CASE TestTarball(s)
  BY <1>7, ExitStep, GotoStep DEF TestTarball
<1>8. CASE Goto(s, "extract", "verify") /\ ExtractEnds(s)
  BY <1>8, GotoStep DEF ExtractEnds, files
<1>9. CASE Goto(s, "extracting", "killed") /\ (ExtractEnds(s) \/ ExtractFails(s))
  BY <1>9, QuietStep DEF ExtractEnds, ExtractFails, files, Goto, ServerInv, NotStarted
<1>10. CASE pc[s] = "extract" /\ ExtractFails(s)
  BY <1>10, ExitStep DEF ExtractFails, Goto
<1>11. CASE VerifyInstall(s)
  BY <1>11, ExitStep, GotoStep DEF VerifyInstall
<1> QED
  BY <1>1, <1>2, <1>3, <1>4, <1>5, <1>6, <1>7, <1>8, <1>9, <1>10, <1>11
  DEF Install, DownloadEnds, ExtractEnds, ExtractFails

LEMMA StartServerInv ==
    ASSUME TypeOK, ServerInv, NEW s \in Script, Start(s)
    PROVE  ServerInv'
<1> USE DEF PC, Locked, Setup, Starting, Orphaned, Ended
<1>1. ASSUME NEW from \in Starting, NEW to \in Starting, Goto(s, from, to),
             UNCHANGED <<lock, srv, pidFile>>
      PROVE  ServerInv'
  <2> USE <1>1 DEF Goto, TypeOK, Guarded, ServerInv
  <2>1. LockHeld' /\ NotStarted'
    BY DEF LockHeld, NotStarted, InProgress
  <2>2. Recorded'
    BY DEF Recorded
  <2>3. NoOther' /\ OneGuarded'
    BY DEF NoOther, OneGuarded
  <2> QED
    BY <2>1, <2>2, <2>3
<1>2. CASE RemoveStale(s) \/ TouchToken(s) \/ WriteToken(s)
  BY <1>1, <1>2 DEF RemoveStale, TouchToken, WriteToken
<1>3. CASE ForkServer(s)
  <2> USE <1>3 DEF ForkServer, Goto, TypeOK, Guarded, ServerInv, Alive, files
  <2>1. LockHeld' /\ NotStarted'
    BY DEF LockHeld, NotStarted, InProgress
  <2>2. \A v \in Script : Guarded(v)' => v = s
    BY DEF NoOther
  <2>3. Recorded'
    BY <2>2 DEF Recorded
  <2>4. \A t \in Script : t # s => pc'[t] \notin Starting \cup {"pid"}
    BY DEF LockHeld, InProgress
  <2>5. NoOther' /\ OneGuarded'
    BY <2>2, <2>4 DEF NoOther, OneGuarded
  <2> QED
    BY <2>1, <2>3, <2>5
<1>4. CASE WritePid(s)
  <2> USE <1>4 DEF WritePid, Goto, TypeOK, Guarded, ServerInv
  <2>1. LockHeld' /\ NotStarted'
    BY DEF LockHeld, NotStarted, InProgress
  <2>2. \A v \in Script : Guarded(v)' => v = s
    BY DEF NoOther
  <2>3. Recorded'
    BY <2>2 DEF Recorded
  <2>4. \A t \in Script : t # s => pc'[t] \notin Starting \cup {"pid"}
    BY DEF LockHeld, InProgress
  <2>5. NoOther' /\ OneGuarded'
    BY <2>2, <2>4 DEF NoOther, OneGuarded
  <2> QED
    BY <2>1, <2>3, <2>5
<1> QED
  BY <1>2, <1>3, <1>4 DEF Start

LEMMA AnswerServerInv ==
    ASSUME TypeOK, ServerInv, NEW s \in Script, Answer(s)
    PROVE  ServerInv'
<1> USE DEF PC, Locked, Setup, Starting, Orphaned, Ended, files
<1>1. CASE ReadToken(s)
  BY <1>1, ExitStep, GotoStep DEF ReadToken
<1>2. CASE CheckLog(s)
  BY <1>2, ExitStep, GotoStep DEF CheckLog
<1>3. CASE FindListening(s)
  BY <1>3, ExitStep DEF FindListening
<1>4. CASE PollGivesUp(s)
  BY <1>4, ExitStep DEF PollGivesUp
<1> QED
  BY <1>1, <1>2, <1>3, <1>4 DEF Answer

\* The heart of the argument: a run that finds no server and goes on to start
\* one has looked where every guarded server is recorded.
LEMMA ProbeServerInv ==
    ASSUME HasFlock, PromptExec, TypeOK, ServerInv, NEW s \in Script, Probe(s)
    PROVE  ServerInv'
<1> USE DEF PC, Locked, Setup, Starting, Orphaned, Ended, files
<1>1. CASE Running
  BY <1>1, GotoStep, QuietStep DEF Probe, Goto, ServerInv, LockHeld, InProgress
<1>2. CASE ~Running
  <2> USE <1>2 DEF Probe, Goto, TypeOK, ServerInv
  <2>1. lock = s /\ pc[s] = "probe" /\ pc' = [pc EXCEPT ![s] = "clean"]
    BY DEF LockHeld, InProgress
  <2>2. ASSUME NEW v \in Script, Guarded(v)
        PROVE  FALSE
    <3>1. pidFile = v
      BY <2>1, <2>2 DEF Recorded, LockHeld, InProgress
    <3>2. Visible(v)
      BY <2>2 DEF Visible, Guarded
    <3> QED
      BY <3>1, <3>2, ScriptAssumption DEF Running
  <2>3. \A v \in Script : ~Guarded(v)'
    BY <2>1, <2>2 DEF Guarded
  <2>4. LockHeld' /\ NotStarted'
    BY <2>1 DEF LockHeld, NotStarted, InProgress
  <2>5. Recorded' /\ NoOther' /\ OneGuarded'
    BY <2>3 DEF Recorded, NoOther, OneGuarded
  <2> QED
    BY <2>4, <2>5
<1> QED
  BY <1>1, <1>2

LEMMA ServerServerInv ==
    ASSUME TypeOK, ServerInv, NEW v \in Script, Server(v)
    PROVE  ServerInv'
<1>1. /\ UNCHANGED <<pc, lock, pidFile>>
      /\ \E life \in Life \ {"none"} : srv[v] \in Alive /\ srv' = [srv EXCEPT ![v] = life]
  BY DEF Server, Exec, LoadToken, Listen, Die, files, Life, Alive
<1>2. \A w \in Script : Guarded(w)' => Guarded(w)
  BY <1>1 DEF Guarded, TypeOK
<1>3. LockHeld' /\ NotStarted'
  BY <1>1 DEF ServerInv, LockHeld, NotStarted, InProgress, TypeOK, Alive, Life
<1>4. Recorded' /\ NoOther' /\ OneGuarded'
  BY <1>1, <1>2 DEF ServerInv, Recorded, NoOther, OneGuarded
<1> QED
  BY <1>3, <1>4 DEF ServerInv

LEMMA NextServerInv ==
    ASSUME HasFlock, PromptExec, TypeOK, ServerInv, [Next]_vars
    PROVE  ServerInv'
<1> USE DEF PC, Locked, Setup, Starting, Orphaned, Ended, files
<1>1. ASSUME NEW s \in Script, Begin(s)
      PROVE  ServerInv'
  BY <1>1, QuietStep DEF Begin, Goto, ServerInv, NotStarted
<1>2. ASSUME NEW s \in Script, Acquire(s)
      PROVE  ServerInv'
  BY <1>2, QuietStep DEF Acquire, Goto, ServerInv, NotStarted
<1>3. ASSUME NEW s \in Script, LockTimeout(s) \/ CheckHost(s)
      PROVE  ServerInv'
  BY <1>3, ExitStep, GotoStep DEF LockTimeout, CheckHost
<1>4. ASSUME NEW s \in Script, Interrupt(s)
      PROVE  ServerInv'
  <2>1. CASE pc[s] # "pid"
    BY <1>4, <2>1, QuietStep DEF Interrupt, Unlock
  <2>2. CASE pc[s] = "pid"
    <3> USE <1>4, <2>2 DEF Interrupt, Unlock, TypeOK, ServerInv, Guarded
    <3>1. LockHeld' /\ NotStarted'
      BY ScriptAssumption DEF LockHeld, NotStarted, InProgress
    <3>2. Recorded' /\ NoOther' /\ OneGuarded'
      BY DEF Recorded, NoOther, OneGuarded
    <3> QED
      BY <3>1, <3>2
  <2> QED
    BY <2>1, <2>2
<1>5. ASSUME NEW s \in Script, Kill(s)
      PROVE  ServerInv'
  <2> USE <1>5 DEF Kill, TypeOK, ServerInv, Guarded
  <2>1. LockHeld' /\ NotStarted'
    BY DEF LockHeld, NotStarted, InProgress
  <2>2. Recorded'
    BY DEF Recorded, LockHeld, InProgress
  <2>3. NoOther' /\ OneGuarded'
    BY DEF NoOther, OneGuarded
  <2> QED
    BY <2>1, <2>2, <2>3
<1>6. ASSUME NEW s \in Script, LastClose(s)
      PROVE  ServerInv'
  BY <1>6, QuietStep DEF LastClose, TypeOK
<1>7. CASE UNCHANGED vars
  BY <1>7 DEF vars, ServerInv, LockHeld, NotStarted, Recorded, NoOther, OneGuarded, Guarded,
     InProgress
<1> QED
  BY <1>1, <1>2, <1>3, <1>4, <1>5, <1>6, <1>7, InstallServerInv, StartServerInv,
     AnswerServerInv, ProbeServerInv, ServerServerInv DEF Next, Run

\* The lock alone: a step of run s moves no other run, takes the lock only when
\* it is free, and gives up no lock but its own.
LEMMA NextLockHeld ==
    ASSUME HasFlock, TypeOK, LockHeld, [Next]_vars
    PROVE  LockHeld'
<1> USE DEF PC, Locked, Setup, Starting, Orphaned, Ended, files, LockHeld, InProgress, TypeOK
<1>1. ASSUME NEW s \in Script, NEW code, NEW lines, Exit(s, code, lines)
      PROVE  LockHeld'
  BY <1>1, ScriptAssumption DEF Exit, Unlock
<1>2. ASSUME NEW s \in Script, NEW from \in Locked \cup Orphaned, NEW to \in PC,
             Goto(s, from, to), lock' = lock
      PROVE  LockHeld'
  BY <1>2 DEF Goto
<1>3. ASSUME NEW s \in Script, Install(s)
      PROVE  LockHeld'
  <2>1. CASE CheckInstalled(s) \/ CannotInstall(s)
    BY <1>1, <1>2, <2>1 DEF CheckInstalled, CannotInstall
  <2>2. CASE DownloadBegins(s) \/ DownloadEnds(s) \/ DownloadFails(s)
    BY <1>1, <1>2, <2>2 DEF DownloadBegins, DownloadEnds, DownloadFails
  <2>3. CASE TestTarball(s) \/ VerifyInstall(s)
    BY <1>1, <1>2, <2>3 DEF TestTarball, VerifyInstall
  <2>4. CASE ExtractMember(s) \/ ExtractEnds(s) \/ ExtractFails(s)
    BY <1>1, <1>2, <2>4 DEF ExtractMember, ExtractEnds, ExtractFails
  <2> QED
    BY <1>3, <2>1, <2>2, <2>3, <2>4 DEF Install
<1>4. ASSUME NEW s \in Script, Probe(s) \/ Start(s)
      PROVE  LockHeld'
  BY <1>2, <1>4 DEF Probe, Start, RemoveStale, TouchToken, WriteToken, ForkServer, WritePid
<1>5. ASSUME NEW s \in Script, Answer(s)
      PROVE  LockHeld'
  BY <1>1, <1>2, <1>5 DEF Answer, ReadToken, CheckLog, FindListening, PollGivesUp
<1>6. ASSUME NEW s \in Script, Begin(s) \/ Acquire(s)
      PROVE  LockHeld'
  BY <1>6, ScriptAssumption DEF Begin, Acquire, Goto
<1>7. ASSUME NEW s \in Script, LockTimeout(s) \/ CheckHost(s)
      PROVE  LockHeld'
  BY <1>1, <1>2, <1>7 DEF LockTimeout, CheckHost
<1>8. ASSUME NEW s \in Script, Server(s)
      PROVE  LockHeld'
  BY <1>8 DEF Server, Exec, LoadToken, Listen, Die
<1>9. ASSUME NEW s \in Script, Interrupt(s) \/ Kill(s) \/ LastClose(s)
      PROVE  LockHeld'
  BY <1>9, ScriptAssumption DEF Interrupt, Kill, LastClose, Unlock
<1>10. CASE UNCHANGED vars
  BY <1>10 DEF vars
<1> QED
  BY <1>3, <1>4, <1>5, <1>6, <1>7, <1>8, <1>9, <1>10 DEF Next, Run

\* With flock, two runs are never at work on the host's files at once, even
\* when a killed run has left its wget or tar behind.
THEOREM InstallerIsExclusive == Spec => []InstallerExclusive
<1>1. Init => LockHeld
  BY DEF Init, LockHeld, InProgress, Locked, Setup, Starting, Orphaned
<1>2. CASE HasFlock
  <2>1. TypeOK /\ LockHeld /\ [Next]_vars => LockHeld'
    BY <1>2, NextLockHeld
  <2>2. LockHeld => InstallerExclusive
    BY DEF LockHeld, InstallerExclusive
  <2> QED
    BY <1>1, <2>1, <2>2, TypeCorrect, PTL DEF Spec
<1>3. CASE ~HasFlock
  <2>1. InstallerExclusive
    BY <1>3 DEF InstallerExclusive
  <2> QED
    BY <2>1, PTL
<1> QED
  BY <1>2, <1>3

LEMMA InitServerInv == Init => ServerInv
BY DEF Init, ServerInv, LockHeld, NotStarted, Recorded, NoOther, OneGuarded, Guarded,
   InProgress, Locked, Setup, Starting, Orphaned, Alive

\* With flock, a commit has at most one live server, counting all but those
\* whose run was interrupted before it could write the pid file.
THEOREM ServerIsUnique == Spec => []AtMostOneServer
<1>1. Init => ServerInv
  BY InitServerInv
<1>2. CASE HasFlock /\ PromptExec
  <2>1. TypeOK /\ ServerInv /\ [Next]_vars => ServerInv'
    BY <1>2, NextServerInv
  <2>2. ServerInv => AtMostOneServer
    BY DEF ServerInv, OneGuarded, Guarded, AtMostOneServer
  <2> QED
    BY <1>1, <2>1, <2>2, TypeCorrect, PTL DEF Spec
<1>3. CASE ~(HasFlock /\ PromptExec)
  <2>1. AtMostOneServer
    BY <1>3 DEF AtMostOneServer
  <2> QED
    BY <2>1, PTL
<1> QED
  BY <1>2, <1>3

LEMMA NextKeepsCredentials ==
    ASSUME TypeOK, ServerInv, [Next]_vars, NEW v \in Script,
           srv[v] \in {"loaded", "listening"}, pc[v] # "lost"
    PROVE  tokenFile' = tokenFile /\ (v \in log.writers => v \in log'.writers)
<1>1. Guarded(v)
  BY DEF Guarded, Alive
<1>2. \A s \in Script : pc[s] \notin Starting
  BY <1>1 DEF ServerInv, NoOther
<1>3. ASSUME NEW s \in Script, Start(s)
      PROVE  UNCHANGED <<tokenFile, log>>
  BY <1>2, <1>3 DEF Start, RemoveStale, TouchToken, WriteToken, ForkServer, WritePid, Goto,
     Starting, files
<1>4. ASSUME NEW s \in Script, Server(s)
      PROVE  tokenFile' = tokenFile /\ log.writers \subseteq log'.writers
  <2>1. tokenFile' = tokenFile
    BY <1>4 DEF Server, Exec, LoadToken, Listen, Die, files
  <2>2. CASE Exec(s)
    BY <2>2 DEF Exec, TypeOK
  <2>3. CASE Listen(s)
    BY <2>3 DEF Listen, TypeOK
  <2>4. CASE LoadToken(s) \/ Die(s)
    BY <2>4 DEF LoadToken, Die, files
  <2> QED
    BY <1>4, <2>1, <2>2, <2>3, <2>4 DEF Server
<1>5. ASSUME NEW s \in Script, Install(s) \/ Answer(s) \/ Probe(s)
      PROVE  UNCHANGED <<tokenFile, log>>
  BY <1>5 DEF Install, CheckInstalled, CannotInstall, DownloadBegins, DownloadEnds, DownloadFails,
     TestTarball, ExtractMember, ExtractEnds, ExtractFails, VerifyInstall, Answer, ReadToken,
     CheckLog, FindListening, PollGivesUp, Probe, files
<1>6. ASSUME NEW s \in Script, \/ Begin(s) \/ Acquire(s) \/ LockTimeout(s) \/ CheckHost(s)
                               \/ Interrupt(s) \/ Kill(s) \/ LastClose(s)
      PROVE  UNCHANGED <<tokenFile, log>>
  BY <1>6 DEF Begin, Acquire, LockTimeout, CheckHost, Interrupt, Kill, LastClose, files
<1>7. CASE UNCHANGED vars
  BY <1>7 DEF vars
<1> QED
  BY <1>3, <1>4, <1>5, <1>6, <1>7 DEF Next, Run

\* With flock, no run changes the token file of a recorded server that is up,
\* nor removes its log.
THEOREM CredentialsAreKept == Spec => CredentialsKept
<1>1. CASE HasFlock /\ PromptExec
  <2>1. Init => ServerInv
    BY InitServerInv
  <2>2. TypeOK /\ ServerInv /\ [Next]_vars => ServerInv'
    BY <1>1, NextServerInv
  <2>3. TypeOK /\ ServerInv /\ [Next]_vars =>
          [KeepsCredentials]_vars
    BY NextKeepsCredentials DEF KeepsCredentials
  <2> QED
    BY <2>1, <2>2, <2>3, TypeCorrect, PTL DEF Spec, CredentialsKept
<1>2. CASE ~(HasFlock /\ PromptExec)
  <2>1. [KeepsCredentials]_vars
    BY <1>2 DEF KeepsCredentials
  <2> QED
    BY <2>1, PTL DEF CredentialsKept
<1> QED
  BY <1>1, <1>2

-----------------------------------------------------------------------------
(***************************************************************************)
(* What a successful report says.  While no server is lost, the token file *)
(* belongs to the guarded server, the lines of the log come from the       *)
(* server that owns the token file, and the token a run has read is still  *)
(* the one in the file.                                                    *)
(***************************************************************************)

NoLost == \A s \in Script : pc[s] # "lost"

TokenOfServer == \A v \in Script : srv[v] \in Alive => tokenFile = v

TokenOfRun ==
    \A s \in Script :
        /\ pc[s] = "touch" => tokenFile = None /\ log.lines = {}
        /\ pc[s] = "token" => tokenFile = Blank /\ log.lines = {}
        /\ pc[s] = "fork" => tokenFile = s /\ log.lines = {}
        /\ pc[s] \in {"log", "poll"} => token[s] = tokenFile

LinesOfServer == \A v \in log.lines : tokenFile = v /\ key[v] = v

LoadedOwn == \A v \in Script : srv[v] \in {"loaded", "listening"} => key[v] = v

ReportsServer ==
    \A s \in Script :
        report[s] # None /\ report[s].exitCode = 0 =>
            \E v \in Script : /\ report[s].listeningOn = {v}
                             /\ report[s].token = v
                             /\ key[v] = v

CredentialInv == TokenOfServer /\ TokenOfRun /\ LinesOfServer /\ LoadedOwn /\ ReportsServer

\* A step that moves one run and touches neither its credentials nor any
\* server's.
LEMMA MoveStep ==
    ASSUME TypeOK, CredentialInv, NEW s \in Script, NEW to \in PC, pc' = [pc EXCEPT ![s] = to],
           to \notin {"touch", "token", "fork", "log"}, to = "poll" => pc[s] = "log",
           UNCHANGED <<tokenFile, log, token, report, srv, key>>
    PROVE  CredentialInv'
BY DEF TypeOK, CredentialInv, TokenOfServer, TokenOfRun, LinesOfServer, LoadedOwn, ReportsServer

LEMMA FailStep ==
    ASSUME TypeOK, CredentialInv, NEW s \in Script, Exit(s, 1, {}),
           UNCHANGED <<tokenFile, log, token, srv, key>>
    PROVE  CredentialInv'
<1> DEFINE r == [exitCode |-> 1, listeningOn |-> {}, token |-> token[s]]
<1>1. r.exitCode = 1 /\ report' = [report EXCEPT ![s] = r] /\ pc' = [pc EXCEPT ![s] = "done"]
  BY DEF Exit
<1> HIDE DEF r
<1>2. ReportsServer'
  BY <1>1 DEF TypeOK, CredentialInv, ReportsServer
<1>3. TokenOfServer' /\ LinesOfServer' /\ LoadedOwn'
  BY DEF CredentialInv, TokenOfServer, LinesOfServer, LoadedOwn
<1>4. TokenOfRun'
  BY <1>1 DEF TypeOK, CredentialInv, TokenOfRun
<1> QED
  BY <1>2, <1>3, <1>4 DEF CredentialInv

LEMMA InstallCredentialInv ==
    ASSUME TypeOK, CredentialInv, NEW s \in Script, Install(s)
    PROVE  CredentialInv'
<1> USE DEF PC, Locked, Setup, Starting, Ended, files, Goto
<1>1. CASE CheckInstalled(s) \/ CannotInstall(s)
  BY <1>1, MoveStep, FailStep DEF CheckInstalled, CannotInstall
<1>2. CASE DownloadBegins(s) \/ ExtractMember(s)
  BY <1>2 DEF DownloadBegins, ExtractMember, CredentialInv, TokenOfServer, TokenOfRun,
     LinesOfServer, LoadedOwn, ReportsServer
<1>3. CASE DownloadEnds(s) \/ DownloadFails(s)
  BY <1>3, MoveStep, FailStep DEF DownloadEnds, DownloadFails
<1>4. CASE TestTarball(s) \/ VerifyInstall(s)
  BY <1>4, MoveStep, FailStep DEF TestTarball, VerifyInstall
<1>5. CASE ExtractEnds(s) \/ ExtractFails(s)
  BY <1>5, MoveStep, FailStep DEF ExtractEnds, ExtractFails
<1> QED
  BY <1>1, <1>2, <1>3, <1>4, <1>5 DEF Install

LEMMA StartCredentialInv ==
    ASSUME TypeOK, ServerInv, NoLost, CredentialInv, NEW s \in Script, Start(s)
    PROVE  CredentialInv'
<1> USE DEF CredentialInv, TypeOK, Goto, Starting
<1>1. pc[s] \in Starting => \A v \in Script : srv[v] \notin Alive
  BY DEF ServerInv, NoOther, Guarded, NoLost
<1>2. \A t \in Script : t # s => pc[t] \notin Starting \cup {"log", "poll"}
  <2>1. pc[s] \in Starting \cup {"pid"}
    BY DEF Start, RemoveStale, TouchToken, WriteToken, ForkServer, WritePid
  <2> QED
    BY <2>1 DEF ServerInv, LockHeld, InProgress, Locked
<1>3. CASE RemoveStale(s)
  BY <1>1, <1>2, <1>3 DEF RemoveStale, NoLog, TokenOfServer, TokenOfRun, LinesOfServer, LoadedOwn,
     ReportsServer
<1>4. CASE TouchToken(s) \/ WriteToken(s)
  <2>1. log.lines = {} /\ log' = log
    BY <1>4 DEF TouchToken, WriteToken, TokenOfRun
  <2>2. TokenOfServer' /\ LinesOfServer' /\ LoadedOwn' /\ ReportsServer'
    BY <1>1, <1>4, <2>1 DEF TouchToken, WriteToken, TokenOfServer, LinesOfServer, LoadedOwn,
       ReportsServer
  <2>3. TokenOfRun'
    BY <1>2, <1>4, <2>1 DEF TouchToken, WriteToken, TokenOfRun
  <2> QED
    BY <2>2, <2>3
<1>5. CASE ForkServer(s)
  BY <1>1, <1>5 DEF ForkServer, files, Alive, TokenOfServer, TokenOfRun, LinesOfServer, LoadedOwn,
     ReportsServer
<1>6. CASE WritePid(s)
  BY <1>6 DEF WritePid, TokenOfServer, TokenOfRun, LinesOfServer, LoadedOwn, ReportsServer
<1> QED
  BY <1>3, <1>4, <1>5, <1>6 DEF Start

LEMMA AnswerCredentialInv ==
    ASSUME TypeOK, CredentialInv, NEW s \in Script, Answer(s)
    PROVE  CredentialInv'
<1> USE DEF PC, Locked, Goto, files
<1>1. CASE ReadToken(s) /\ tokenFile # None
  BY <1>1, FailStep DEF ReadToken, CredentialInv, TypeOK, TokenOfServer, TokenOfRun, LinesOfServer,
     LoadedOwn, ReportsServer
<1>2. CASE ReadToken(s) /\ tokenFile = None
  BY <1>2, FailStep DEF ReadToken
<1>3. CASE CheckLog(s) \/ PollGivesUp(s)
  BY <1>3, MoveStep, FailStep DEF CheckLog, PollGivesUp
<1>4. CASE FindListening(s)
  <2> DEFINE r == [exitCode |-> 0, listeningOn |-> log.lines, token |-> token[s]]
  <2>1. /\ report' = [report EXCEPT ![s] = r]
        /\ pc' = [pc EXCEPT ![s] = "done"]
        /\ r.listeningOn = log.lines
        /\ r.token = tokenFile
    BY <1>4 DEF FindListening, Exit, CredentialInv, TokenOfRun
  <2>2. \E v \in Script : log.lines = {v} /\ tokenFile = v /\ key[v] = v
    BY <1>4 DEF FindListening, CredentialInv, LinesOfServer, TypeOK
  <2> HIDE DEF r
  <2>3. ReportsServer'
    BY <1>4, <2>1, <2>2 DEF FindListening, CredentialInv, ReportsServer, TypeOK
  <2>4. TokenOfServer' /\ TokenOfRun' /\ LinesOfServer' /\ LoadedOwn'
    BY <1>4, <2>1 DEF FindListening, CredentialInv, TokenOfServer, TokenOfRun, LinesOfServer,
       LoadedOwn, TypeOK
  <2> QED
    BY <2>3, <2>4 DEF CredentialInv
<1> QED
  BY <1>1, <1>2, <1>3, <1>4 DEF Answer

LEMMA ServerCredentialInv ==
    ASSUME TypeOK, ServerInv, NoLost, CredentialInv, NEW v \in Script, Server(v)
    PROVE  CredentialInv'
<1> USE DEF CredentialInv, TypeOK, Alive, files
<1>1. tokenFile = v /\ \A s \in Script : pc[s] \notin {"touch", "token", "fork"}
  <2>1. srv[v] \in Alive
    BY DEF Server, Exec, LoadToken, Listen, Die
  <2> QED
    BY <2>1 DEF TokenOfServer, ServerInv, NoOther, Guarded, NoLost, Starting
<1>2. CASE Exec(v)
  BY <1>1, <1>2 DEF Exec, TokenOfServer, TokenOfRun, LinesOfServer, LoadedOwn, ReportsServer
<1>3. CASE LoadToken(v) \/ Die(v)
  BY <1>1, <1>3 DEF LoadToken, Die, TokenOfServer, TokenOfRun, LinesOfServer, LoadedOwn,
     ReportsServer
<1>4. CASE Listen(v)
  <2>1. \A w \in log'.lines : w \in log.lines \/ w = v
    BY <1>4 DEF Listen
  <2>2. LinesOfServer' /\ LoadedOwn' /\ TokenOfServer'
    BY <1>1, <1>4, <2>1 DEF Listen, LinesOfServer, LoadedOwn, TokenOfServer
  <2>3. TokenOfRun' /\ ReportsServer'
    BY <1>1, <1>4 DEF Listen, TokenOfRun, ReportsServer
  <2> QED
    BY <2>2, <2>3
<1> QED
  BY <1>2, <1>3, <1>4 DEF Server

LEMMA NextCredentialInv ==
    ASSUME TypeOK, ServerInv, NoLost, CredentialInv, [Next]_vars, NoLost'
    PROVE  CredentialInv'
<1> USE DEF PC, Locked, Setup, Starting, Orphaned, Ended, Goto, files
<1>1. ASSUME NEW s \in Script, Begin(s) \/ Acquire(s) \/ Probe(s)
      PROVE  CredentialInv'
  BY <1>1, MoveStep DEF Begin, Acquire, Probe
<1>2. ASSUME NEW s \in Script, LockTimeout(s) \/ CheckHost(s)
      PROVE  CredentialInv'
  BY <1>2, MoveStep, FailStep DEF LockTimeout, CheckHost
<1>3. ASSUME NEW s \in Script, Interrupt(s) \/ Kill(s)
      PROVE  CredentialInv'
  BY <1>3, MoveStep DEF Interrupt, Kill, TypeOK, NoLost
<1>4. ASSUME NEW s \in Script, LastClose(s)
      PROVE  CredentialInv'
  BY <1>4 DEF LastClose, CredentialInv, TokenOfServer, TokenOfRun, LinesOfServer, LoadedOwn,
     ReportsServer
<1>5. CASE UNCHANGED vars
  BY <1>5 DEF vars, CredentialInv, TokenOfServer, TokenOfRun, LinesOfServer, LoadedOwn,
     ReportsServer
<1> QED
  BY <1>1, <1>2, <1>3, <1>4, <1>5, InstallCredentialInv, StartCredentialInv,
     AnswerCredentialInv, ServerCredentialInv DEF Next, Run

LEMMA LostForEver ==
    ASSUME TypeOK, [Next]_vars, NoLost'
    PROVE  NoLost
<1> SUFFICES ASSUME NEW s \in Script, pc[s] = "lost"
             PROVE  pc'[s] = "lost"
  BY DEF NoLost
<1> USE DEF Goto, Exit, TypeOK, Locked, Setup, Starting, files
<1>1. ASSUME NEW t \in Script, Install(t)
      PROVE  pc'[s] = "lost"
  BY <1>1 DEF Install, CheckInstalled, CannotInstall, DownloadBegins, DownloadEnds, DownloadFails,
     TestTarball, ExtractMember, ExtractEnds, ExtractFails, VerifyInstall
<1>2. ASSUME NEW t \in Script, Start(t) \/ Answer(t) \/ Probe(t)
      PROVE  pc'[s] = "lost"
  BY <1>2 DEF Start, RemoveStale, TouchToken, WriteToken, ForkServer, WritePid, Answer, ReadToken,
     CheckLog, FindListening, PollGivesUp, Probe
<1>3. ASSUME NEW t \in Script, Begin(t) \/ Acquire(t) \/ LockTimeout(t) \/ CheckHost(t)
      PROVE  pc'[s] = "lost"
  BY <1>3 DEF Begin, Acquire, LockTimeout, CheckHost
<1>4. ASSUME NEW t \in Script, Server(t) \/ Interrupt(t) \/ Kill(t) \/ LastClose(t)
      PROVE  pc'[s] = "lost"
  BY <1>4 DEF Server, Exec, LoadToken, Listen, Die, Interrupt, Kill, LastClose
<1>5. CASE UNCHANGED vars
  BY <1>5 DEF vars
<1> QED
  BY <1>1, <1>2, <1>3, <1>4, <1>5 DEF Next, Run

\* With flock, and while no run was interrupted between starting its server
\* and recording it, every success names exactly one server and the token
\* that server accepts.
THEOREM ReportsAreCoherent == Spec => []ReportCoherent
<1>1. CASE HasFlock /\ PromptExec
  <2> DEFINE Inv == NoLost => CredentialInv
  <2>1. Init => Inv
    BY DEF Init, CredentialInv, TokenOfServer, TokenOfRun, LinesOfServer, LoadedOwn,
       ReportsServer, NoLog, Alive
  <2>2. TypeOK /\ ServerInv /\ Inv /\ [Next]_vars => Inv'
    BY LostForEver, NextCredentialInv
  <2>3. Inv => ReportCoherent
    BY DEF ReportCoherent, NoLost, CredentialInv, ReportsServer
  <2>4. TypeOK /\ ServerInv /\ [Next]_vars => ServerInv'
    BY <1>1, NextServerInv
  <2> HIDE DEF Inv
  <2> QED
    BY <2>1, <2>2, <2>3, <2>4, InitServerInv, TypeCorrect, PTL DEF Spec
<1>2. CASE ~(HasFlock /\ PromptExec)
  <2>1. ReportCoherent
    BY <1>2 DEF ReportCoherent
  <2> QED
    BY <2>1, PTL
<1> QED
  BY <1>1, <1>2

-----------------------------------------------------------------------------
(***************************************************************************)
(* What a server is started from.  Whoever finds the server script in the  *)
(* tree finds the rest of the archive too, except while tar is at work, as *)
(* long as no run was cut short there; the test and the verification in    *)
(* between are what tells a hollow archive from a good one.                *)
(***************************************************************************)

NoCut == \A t \in Script : pc[t] # "cut"
NoKilled == \A t \in Script : pc[t] # "killed"
Extracting(s) == pc[s] \in {"extract", "extracting"}
Found == tree.script # "absent"

\* What each stage of the run with the lock has established.
StageOfTree ==
    \A s \in Script :
        /\ Extracting(s) => Readable
        /\ pc[s] = "verify" => tree.rest
        /\ pc[s] \in {"probe"} \cup Starting => Found

TreeExtracted ==
    NoCut /\ Found => tree.rest \/ \E s \in Script : Extracting(s)

TreeVerified ==
    NoCut /\ NoKilled /\ Found =>
        tree = Complete \/ \E s \in Script : Extracting(s) \/ pc[s] = "verify"

TreeInv == StageOfTree /\ TreeExtracted /\ TreeVerified

\* Nobody else works on the files while one run does.
LEMMA AloneInProgress ==
    ASSUME LockHeld, NEW s \in Script, InProgress(s), NEW t \in Script, t # s
    PROVE  ~InProgress(t)
  BY DEF LockHeld

\* A run moves on outside of tar and the verification.
LEMMA MoveTreeInv ==
    ASSUME TypeOK, TreeInv, NEW s \in Script, NEW to, pc' = [pc EXCEPT ![s] = to],
           pc[s] \notin {"extract", "extracting", "verify", "cut", "killed"},
           to \notin {"extract", "extracting", "verify"},
           to \in {"probe"} \cup Starting => Found,
           tree' = tree,
           tarball' = tarball \/ \A t \in Script : ~Extracting(t)
    PROVE  TreeInv'
<1>1. /\ \A t \in Script : /\ Extracting(t)' <=> Extracting(t)
                           /\ pc'[t] = "verify" <=> pc[t] = "verify"
      /\ NoCut' => NoCut
      /\ NoKilled' => NoKilled
      /\ Found' <=> Found
  BY DEF TypeOK, Extracting, NoCut, NoKilled, Found
<1>2. StageOfTree'
  BY <1>1 DEF TypeOK, TreeInv, StageOfTree, Readable
<1>3. TreeExtracted'
  BY <1>1 DEF TreeInv, TreeExtracted
<1>4. TreeVerified'
  BY <1>1 DEF TreeInv, TreeVerified
<1> QED
  BY <1>2, <1>3, <1>4 DEF TreeInv

\* The stages of the other runs while one is at work on the files.
LEMMA OthersAway ==
    ASSUME LockHeld, NEW s \in Script, InProgress(s)
    PROVE  \A t \in Script : t # s =>
               pc[t] \notin {"extract", "extracting", "verify", "probe"} \cup Starting
  BY AloneInProgress DEF InProgress, Locked, Setup, Orphaned

LEMMA ExtractTreeInv ==
    ASSUME "disk" \notin Faults, TypeOK, LockHeld, TreeInv, NEW s \in Script,
           ExtractMember(s) \/ ExtractEnds(s) \/ ExtractFails(s)
    PROVE  TreeInv'
<1>1. Extracting(s) /\ Readable /\ InProgress(s)
  BY DEF ExtractMember, ExtractEnds, ExtractFails, Goto, Extracting, TreeInv, StageOfTree,
     InProgress, Locked, Setup, Orphaned
<1>2. \A t \in Script : t # s =>
          pc[t] \notin {"extract", "extracting", "verify", "probe"} \cup Starting
  BY <1>1, OthersAway
<1>3. CASE ExtractMember(s)
  <2>1. UNCHANGED <<pc, tarball>>
    BY <1>3 DEF ExtractMember
  <2>2. StageOfTree'
    BY <1>1, <1>2, <2>1 DEF StageOfTree, TreeInv, Extracting, Readable, Starting
  <2>3. TreeExtracted' /\ TreeVerified'
    BY <1>1, <2>1 DEF TreeExtracted, TreeVerified, Extracting
  <2> QED
    BY <2>2, <2>3 DEF TreeInv
<1>4. CASE ExtractEnds(s)
  <2>1. /\ UNCHANGED <<tarball, tree>>
        /\ tree.rest /\ (tree.script = "absent" => FALSE)
        /\ \/ pc' = [pc EXCEPT ![s] = "verify"]
           \/ pc' = [pc EXCEPT ![s] = "killed"]
    BY <1>4 DEF ExtractEnds, Goto, files
  <2>2. StageOfTree'
    BY <1>2, <2>1 DEF StageOfTree, Extracting, TypeOK, Starting, Found
  <2>3. TreeExtracted'
    BY <2>1 DEF TreeExtracted
  <2>4. TreeVerified'
    BY <2>1 DEF TreeVerified, NoKilled, TypeOK
  <2> QED
    BY <2>2, <2>3, <2>4 DEF TreeInv
<1>5. CASE ExtractFails(s)
  <2>1. tree.script = "absent" /\ tree' = tree
    BY <1>1, <1>5 DEF ExtractFails
  <2>2. pc' = [pc EXCEPT ![s] = "done"] \/ pc' = [pc EXCEPT ![s] = "killed"]
    BY <1>5 DEF ExtractFails, Exit, Goto
  <2>3. StageOfTree'
    BY <1>2, <2>2 DEF StageOfTree, Extracting, TypeOK, Starting
  <2>4. TreeExtracted' /\ TreeVerified'
    BY <2>1 DEF TreeExtracted, TreeVerified, Found
  <2> QED
    BY <2>3, <2>4 DEF TreeInv
<1> QED
  BY <1>3, <1>4, <1>5

LEMMA VerifyTreeInv ==
    ASSUME TypeOK, LockHeld, TreeInv, NEW s \in Script, VerifyInstall(s)
    PROVE  TreeInv'
<1>1. pc[s] = "verify" /\ InProgress(s) /\ tree.rest
  BY DEF VerifyInstall, Goto, InProgress, Locked, Setup, TreeInv, StageOfTree
<1>2. \A t \in Script : t # s =>
          pc[t] \notin {"extract", "extracting", "verify", "probe"} \cup Starting
  BY <1>1, OthersAway
<1>3. CASE tree.script = "file"
  <2>1. pc' = [pc EXCEPT ![s] = "probe"] /\ tree' = tree
    BY <1>3 DEF VerifyInstall, Goto
  <2>2. tree = Complete
    BY <1>1, <1>3 DEF Complete, TypeOK
  <2>3. StageOfTree'
    BY <1>2, <1>3, <2>1 DEF StageOfTree, Extracting, TypeOK, Starting, Found
  <2>4. TreeExtracted' /\ TreeVerified'
    BY <1>1, <2>1, <2>2 DEF TreeExtracted, TreeVerified
  <2> QED
    BY <2>3, <2>4 DEF TreeInv
<1>4. CASE tree.script # "file"
  <2>1. pc' = [pc EXCEPT ![s] = "done"] /\ ~Found'
    BY <1>4 DEF VerifyInstall, Exit, Found
  <2>2. StageOfTree'
    BY <1>2, <2>1 DEF StageOfTree, Extracting, TypeOK, Starting
  <2>3. TreeExtracted' /\ TreeVerified'
    BY <2>1 DEF TreeExtracted, TreeVerified
  <2> QED
    BY <2>2, <2>3 DEF TreeInv
<1> QED
  BY <1>3, <1>4

\* wget and the test of the archive: tar is not at work meanwhile.
LEMMA DownloadTreeInv ==
    ASSUME TypeOK, LockHeld, TreeInv, NEW s \in Script,
           DownloadBegins(s) \/ DownloadEnds(s) \/ DownloadFails(s) \/ TestTarball(s)
    PROVE  TreeInv'
<1>1. pc[s] \in {"download", "downloading", "test"} /\ InProgress(s) /\ tree' = tree
  BY DEF DownloadBegins, DownloadEnds, DownloadFails, TestTarball, Goto, InProgress, Locked,
     Setup, Orphaned
<1>2. \A t \in Script : t # s =>
          pc[t] \notin {"extract", "extracting", "verify", "probe"} \cup Starting
  BY <1>1, OthersAway
<1>3. \A t \in Script : ~Extracting(t)
  BY <1>1, <1>2 DEF Extracting
<1>4. CASE \E to \in {pc[s], "test", "killed", "done"} : pc' = [pc EXCEPT ![s] = to]
  <2>1. PICK to \in {pc[s], "test", "killed", "done"} : pc' = [pc EXCEPT ![s] = to]
    BY <1>4
  <2>2. to \notin {"extract", "extracting", "verify", "probe"} \cup Starting
    BY <1>1, <2>1 DEF Starting
  <2> QED
    BY <1>1, <1>3, <2>1, <2>2, MoveTreeInv
<1>5. CASE pc' = [pc EXCEPT ![s] = "extract"] /\ Readable /\ tarball' = tarball
  <2>1. Extracting(s)'
    BY <1>5 DEF Extracting, TypeOK
  <2>2. StageOfTree'
    BY <1>2, <1>5 DEF StageOfTree, Extracting, TypeOK, Starting, Readable
  <2>3. TreeExtracted' /\ TreeVerified'
    BY <2>1 DEF TreeExtracted, TreeVerified
  <2> QED
    BY <2>2, <2>3 DEF TreeInv
<1>6. \/ pc' = [pc EXCEPT ![s] = "extract"] /\ Readable /\ tarball' = tarball
      \/ \E to \in {pc[s], "test", "killed", "done"} : pc' = [pc EXCEPT ![s] = to]
  <2>1. CASE DownloadBegins(s)
    BY <2>1 DEF DownloadBegins, TypeOK
  <2>2. CASE DownloadEnds(s) \/ DownloadFails(s) \/ TestTarball(s)
    BY <2>2 DEF DownloadEnds, DownloadFails, TestTarball, Goto, Exit
  <2> QED
    BY <2>1, <2>2
<1> QED
  BY <1>4, <1>5, <1>6

\* What the commands around the installation do to the files and to one run.
LEMMA OtherTreeInv ==
    ASSUME TypeOK, TreeInv, NEW s \in Script,
           \/ Begin(s) \/ Acquire(s) \/ LockTimeout(s) \/ CheckHost(s)
           \/ CheckInstalled(s) \/ CannotInstall(s)
           \/ Probe(s) \/ Start(s) \/ Answer(s)
    PROVE  TreeInv'
<1> DEFINE Before == {"idle", "lock", "host", "install", "probe", "pid", "read", "log", "poll"}
                         \cup Starting
           After == {"lock", "host", "install", "download", "probe", "pid", "read", "log", "poll",
                     "done"} \cup Starting
<1>1. /\ UNCHANGED <<tree, tarball>>
      /\ pc[s] \in Before
      /\ \E to \in After : /\ pc' = [pc EXCEPT ![s] = to]
                           /\ to = "probe" => Found
                           /\ to \in Starting => pc[s] \in {"probe"} \cup Starting
  <2> USE DEF Goto, Exit, files, Starting
  <2>1. CASE Begin(s) \/ Acquire(s) \/ LockTimeout(s) \/ CheckHost(s)
    BY <2>1 DEF Begin, Acquire, LockTimeout, CheckHost
  <2>2. CASE CheckInstalled(s) \/ CannotInstall(s)
    BY <2>2 DEF CheckInstalled, CannotInstall, Found
  <2>3. CASE Probe(s) \/ Start(s)
    BY <2>3 DEF Probe, Start, RemoveStale, TouchToken, WriteToken, ForkServer, WritePid
  <2>4. CASE Answer(s)
    BY <2>4 DEF Answer, ReadToken, CheckLog, FindListening, PollGivesUp
  <2> QED
    BY <2>1, <2>2, <2>3, <2>4
<1>2. PICK to \in After : /\ pc' = [pc EXCEPT ![s] = to]
                          /\ to = "probe" => Found
                          /\ to \in Starting => pc[s] \in {"probe"} \cup Starting
  BY <1>1
<1>3. to \in {"probe"} \cup Starting => Found
  BY <1>2 DEF TreeInv, StageOfTree
<1>4. /\ to \notin {"extract", "extracting", "verify"}
      /\ pc[s] \notin {"extract", "extracting", "verify", "cut", "killed"}
  BY <1>1, <1>2 DEF Starting
<1> QED
  BY <1>1, <1>2, <1>3, <1>4, MoveTreeInv

\* A run that is cut short during tar or the verification leaves a tree that only
\* the conditions on the runs excuse.
LEMMA CutTreeInv ==
    ASSUME TypeOK, TreeInv, NEW s \in Script, Interrupt(s) \/ Kill(s)
    PROVE  TreeInv'
<1>1. /\ UNCHANGED <<tree, tarball>>
      /\ pc[s] \in {"lock"} \cup Locked
  BY DEF Interrupt, Kill, files
<1>2. CASE pc[s] \notin {"extract", "verify"}
  <2>1. \E to \in {"cut", "lost", "downloading", "killed"} : pc' = [pc EXCEPT ![s] = to]
    BY <1>2 DEF Interrupt, Kill
  <2>2. pc[s] \notin {"extract", "extracting", "verify", "cut", "killed"}
    BY <1>1, <1>2 DEF Locked, Setup, Starting
  <2> QED
    BY <1>1, <2>1, <2>2, MoveTreeInv DEF Starting
<1>3. CASE pc[s] \in {"extract", "verify"} /\ Interrupt(s)
  <2>1. pc' = [pc EXCEPT ![s] = "cut"]
    BY <1>3 DEF Interrupt
  <2>2. StageOfTree'
    BY <1>1, <2>1 DEF TreeInv, StageOfTree, Extracting, TypeOK, Starting, Readable, Found
  <2>3. ~NoCut'
    BY <2>1 DEF NoCut, TypeOK
  <2> QED
    BY <2>2, <2>3 DEF TreeInv, TreeExtracted, TreeVerified
<1>4. CASE pc[s] = "extract" /\ Kill(s)
  <2>1. pc' = [pc EXCEPT ![s] = "extracting"]
    BY <1>4 DEF Kill
  <2>2. StageOfTree'
    BY <1>1, <1>4, <2>1 DEF TreeInv, StageOfTree, Extracting, TypeOK, Starting, Readable, Found
  <2>3. Extracting(s)'
    BY <2>1 DEF Extracting, TypeOK
  <2> QED
    BY <2>2, <2>3 DEF TreeInv, TreeExtracted, TreeVerified
<1>5. CASE pc[s] = "verify" /\ Kill(s)
  <2>1. pc' = [pc EXCEPT ![s] = "killed"]
    BY <1>5 DEF Kill
  <2>2. StageOfTree'
    BY <1>1, <2>1 DEF TreeInv, StageOfTree, Extracting, TypeOK, Starting, Readable, Found
  <2>3. ~NoKilled' /\ tree'.rest
    BY <1>1, <1>5, <2>1 DEF NoKilled, TypeOK, TreeInv, StageOfTree
  <2> QED
    BY <2>2, <2>3 DEF TreeInv, TreeExtracted, TreeVerified
<1> QED
  BY <1>2, <1>3, <1>4, <1>5

LEMMA NextTreeInv ==
    ASSUME "disk" \notin Faults, TypeOK, LockHeld, TreeInv, [Next]_vars
    PROVE  TreeInv'
<1>1. CASE UNCHANGED <<pc, tree, tarball>>
  BY <1>1 DEF TreeInv, StageOfTree, TreeExtracted, TreeVerified, Extracting, Readable, Found, NoCut,
     NoKilled
<1>2. ASSUME NEW s \in Script, Install(s)
      PROVE  TreeInv'
  BY <1>2, DownloadTreeInv, ExtractTreeInv, VerifyTreeInv, OtherTreeInv DEF Install
<1>3. ASSUME NEW s \in Script, Server(s) \/ LastClose(s)
      PROVE  UNCHANGED <<pc, tree, tarball>>
  BY <1>3 DEF Server, Exec, LoadToken, Listen, Die, LastClose, files
<1>4. ASSUME NEW s \in Script, Begin(s) \/ Run(s) \/ Interrupt(s) \/ Kill(s)
      PROVE  TreeInv'
  BY <1>2, <1>4, OtherTreeInv, CutTreeInv DEF Run
<1>5. CASE UNCHANGED vars
  BY <1>1, <1>5 DEF vars
<1> QED
  BY <1>1, <1>3, <1>4, <1>5 DEF Next

\* With flock, and a disk that takes what tar writes, a server is started only
\* from an archive that was extracted to its end while no run has been
\* interrupted, and that has been verified while none has been killed.
THEOREM ServersStartComplete ==
    HasFlock /\ "disk" \notin Faults /\ Spec => []StartsComplete
<1> SUFFICES ASSUME HasFlock, "disk" \notin Faults
             PROVE  Spec => []StartsComplete
  OBVIOUS
<1>1. Init => LockHeld /\ TreeInv
  BY DEF Init, LockHeld, InProgress, Locked, Setup, Starting, Orphaned, TreeInv, StageOfTree,
     TreeExtracted, TreeVerified, Extracting, Found
<1>2. TypeOK /\ LockHeld /\ [Next]_vars => LockHeld'
  BY NextLockHeld
<1>3. TypeOK /\ LockHeld /\ TreeInv /\ [Next]_vars => TreeInv'
  BY NextTreeInv
<1>4. LockHeld /\ TreeInv => StartsComplete
  <2> SUFFICES ASSUME LockHeld, TreeInv, NEW s \in Script, pc[s] \in Starting, NoCut
               PROVE  tree.rest /\ (NoKilled => tree = Complete)
    BY DEF StartsComplete, NoCut, NoKilled
  <2>1. InProgress(s) /\ Found
    BY DEF InProgress, Locked, TreeInv, StageOfTree
  <2>2. \A t \in Script : ~Extracting(t) /\ pc[t] # "verify"
    BY <2>1, OthersAway DEF Extracting, Starting
  <2>3. tree.rest
    BY <2>1, <2>2 DEF TreeInv, TreeExtracted
  <2>4. NoKilled => tree = Complete
    BY <2>1, <2>2 DEF TreeInv, TreeVerified
  <2> QED
    BY <2>3, <2>4
<1> QED
  BY <1>1, <1>2, <1>3, <1>4, TypeCorrect, PTL DEF Spec

-----------------------------------------------------------------------------
(***************************************************************************)
(* The script keeps the promise of RemoteServer: ServerSetup implements it *)
(* under the refinement mapping of the instance Remote, for any number of  *)
(* runs and any faults, with flock.  A command of the script is one step   *)
(* of RemoteServer or leaves what it speaks of alone.                      *)
(***************************************************************************)

(* What the mapping adds to the invariants *)

\* A run reports only when it ends.
ReportsAtEnd == \A s \in Script : pc[s] # "done" => report[s] = None

\* A server is named only once it has listened, so its token is settled.
NamedHasListened ==
    /\ \A v \in log.lines : srv[v] \in {"listening", "dead"}
    /\ \A s \in Script : report[s] # None =>
           \A v \in report[s].listeningOn : srv[v] \in {"listening", "dead"}

ReportInv == ReportsAtEnd /\ NamedHasListened

\* A step that reports nothing and changes no line of the log.
LEMMA SilentReportInv ==
    ASSUME TypeOK, ReportInv, NEW s \in Script, NEW to,
           pc' = pc \/ (pc' = [pc EXCEPT ![s] = to] /\ pc[s] # "done"),
           report' = report, log'.lines \subseteq log.lines,
           \A v \in Script : srv'[v] = srv[v] \/ srv[v] \notin {"listening", "dead"} \/ srv'[v] = "dead"
    PROVE  ReportInv'
  BY DEF TypeOK, ReportInv, ReportsAtEnd, NamedHasListened, Report

LEMMA ExitReportInv ==
    ASSUME TypeOK, ReportInv, NEW s \in Script, NEW code \in {0, 1}, NEW lines \in SUBSET log.lines,
           Exit(s, code, lines), UNCHANGED <<log, srv>>
    PROVE  ReportInv'
<1> DEFINE r == [exitCode |-> code, listeningOn |-> lines, token |-> token[s]]
<1>1. /\ report' = [report EXCEPT ![s] = r]
      /\ pc' = [pc EXCEPT ![s] = "done"]
      /\ r.listeningOn = lines
  BY DEF Exit
<1> HIDE DEF r
<1>2. ReportsAtEnd'
  BY <1>1 DEF TypeOK, ReportInv, ReportsAtEnd
<1>3. NamedHasListened'
  BY <1>1 DEF TypeOK, ReportInv, NamedHasListened
<1>4. QED
  BY <1>2, <1>3 DEF ReportInv

LEMMA NextReportInv ==
    ASSUME TypeOK, NotStarted, ReportInv, [Next]_vars
    PROVE  ReportInv'
<1> USE DEF Locked, Setup, Starting, Orphaned, Goto, files
<1>1. ASSUME NEW s \in Script, CheckInstalled(s) \/ DownloadBegins(s) \/ DownloadEnds(s)
                               \/ ExtractMember(s) \/ ExtractEnds(s)
      PROVE  ReportInv'
  BY <1>1, SilentReportInv DEF CheckInstalled, DownloadBegins, DownloadEnds, ExtractMember,
     ExtractEnds
<1>2. ASSUME NEW s \in Script, CannotInstall(s) \/ DownloadFails(s) \/ LockTimeout(s)
                               \/ PollGivesUp(s)
      PROVE  ReportInv'
  BY <1>2, ExitReportInv DEF CannotInstall, DownloadFails, LockTimeout, PollGivesUp
<1>3. ASSUME NEW s \in Script, TestTarball(s) \/ VerifyInstall(s) \/ ExtractFails(s)
      PROVE  ReportInv'
  BY <1>3, SilentReportInv, ExitReportInv DEF TestTarball, VerifyInstall, ExtractFails
<1>4. ASSUME NEW s \in Script, CheckHost(s) \/ ReadToken(s) \/ CheckLog(s)
      PROVE  ReportInv'
  BY <1>4, SilentReportInv, ExitReportInv DEF CheckHost, ReadToken, CheckLog
<1>5. ASSUME NEW s \in Script, FindListening(s)
      PROVE  ReportInv'
  BY <1>5, ExitReportInv DEF FindListening
<1>6. ASSUME NEW s \in Script, Begin(s) \/ Acquire(s) \/ Probe(s)
      PROVE  ReportInv'
  BY <1>6, SilentReportInv DEF Begin, Acquire, Probe
<1>7. ASSUME NEW s \in Script, RemoveStale(s) \/ TouchToken(s) \/ WriteToken(s) \/ WritePid(s)
      PROVE  ReportInv'
  BY <1>7, SilentReportInv DEF RemoveStale, TouchToken, WriteToken, WritePid, NoLog
<1>8. ASSUME NEW s \in Script, ForkServer(s)
      PROVE  ReportInv'
  <2>1. srv[s] = "none"
    BY <1>8 DEF ForkServer, NotStarted
  <2>2. QED
    BY <1>8, <2>1, SilentReportInv DEF ForkServer, TypeOK
<1>9. ASSUME NEW v \in Script, Exec(v) \/ LoadToken(v) \/ Die(v)
      PROVE  ReportInv'
  BY <1>9, SilentReportInv DEF Exec, LoadToken, Die, TypeOK
<1>10. ASSUME NEW v \in Script, Listen(v)
       PROVE  ReportInv'
  <2>1. srv' = [srv EXCEPT ![v] = "listening"] /\ UNCHANGED <<pc, report>>
    BY <1>10 DEF Listen
  <2>2. log'.lines \subseteq log.lines \cup {v}
    BY <1>10 DEF Listen, TypeOK
  <2>3. QED
    BY <2>1, <2>2 DEF TypeOK, ReportInv, ReportsAtEnd, NamedHasListened, Report
<1>11. ASSUME NEW s \in Script, Interrupt(s) \/ Kill(s)
       PROVE  ReportInv'
  <2>1. pc[s] # "done" /\ UNCHANGED <<report, log, srv>>
    BY <1>11 DEF Interrupt, Kill
  <2>2. \E to : pc' = [pc EXCEPT ![s] = to]
    BY <1>11 DEF Interrupt, Kill
  <2>3. QED
    BY <2>1, <2>2, SilentReportInv
<1>12. ASSUME NEW s \in Script, LastClose(s)
       PROVE  ReportInv'
  BY <1>12, SilentReportInv DEF LastClose
<1>13. CASE UNCHANGED vars
  BY <1>13 DEF vars, ReportInv, ReportsAtEnd, NamedHasListened
<1>14. QED
  BY <1>1, <1>2, <1>3, <1>4, <1>5, <1>6, <1>7, <1>8, <1>9, <1>10, <1>11, <1>12, <1>13
  DEF Next, Run, Install, Start, Answer, Server

-----------------------------------------------------------------------------
(* The components of the mapping *)

Started == {v \in Script : srv[v] # "none"}
ToldBy == [s \in Script |-> Told(s)]

LEMMA UpIsNone ==
    ASSUME \A v \in Script : ~Guarded(v)
    PROVE  Up = None
  BY DEF Up, Guarded

LEMMA UpIsNoneNext ==
    ASSUME \A v \in Script : ~Guarded(v)'
    PROVE  Up' = None
  BY DEF Up, Guarded

LEMMA UpIsOne ==
    ASSUME NEW v \in Script, Guarded(v), \A w \in Script : Guarded(w) => w = v
    PROVE  Up = v
<1>1. {w \in Script : srv[w] \in Alive /\ pc[w] # "lost"} = {v}
  BY DEF Guarded
<1>2. QED
  BY <1>1 DEF Up

LEMMA UpIsOneNext ==
    ASSUME NEW v \in Script, Guarded(v)', \A w \in Script : Guarded(w)' => w = v
    PROVE  Up' = v
<1>1. {w \in Script : srv'[w] \in Alive /\ pc'[w] # "lost"} = {v}
  BY DEF Guarded
<1>2. QED
  BY <1>1 DEF Up

LEMMA UpSame ==
    ASSUME \A v \in Script : Guarded(v)' = Guarded(v)
    PROVE  Up' = Up
<1> DEFINE Choice(up) == IF up = {} THEN None ELSE CHOOSE v \in up : TRUE
           S == {w \in Script : srv[w] \in Alive /\ pc[w] # "lost"}
<1>1. S' = S
  BY DEF Guarded
<1>2. Up = Choice(S) /\ Up' = Choice(S')
  BY DEF Up
<1> HIDE DEF S, Choice
<1>3. QED
  BY <1>1, <1>2

\* A step that changes neither reports nor keys tells nothing.
LEMMA ToldSame ==
    ASSUME UNCHANGED <<report, key>>
    PROVE  ToldBy' = ToldBy
  BY DEF ToldBy, Told

\* A run that does not become lost leaves the mapped server and its soundness.
LEMMA MoveKeeps ==
    ASSUME TypeOK, NEW s \in Script, NEW to, pc[s] # "lost", to # "lost",
           pc' = [pc EXCEPT ![s] = to], srv' = srv
    PROVE  Up' = Up /\ NoLost' = NoLost /\ Started' = Started
<1>1. \A v \in Script : Guarded(v)' = Guarded(v) /\ (pc'[v] = "lost" <=> pc[v] = "lost")
  BY DEF Guarded, TypeOK
<1>2. QED
  BY <1>1, UpSame DEF NoLost, Started

-----------------------------------------------------------------------------
(* One step *)

Stutters == UNCHANGED <<lock, Started, Up, ToldBy, NoLost>>

LEMMA MoveStutters ==
    ASSUME TypeOK, NEW s \in Script, NEW to, pc[s] # "lost", to # "lost",
           pc' = [pc EXCEPT ![s] = to], UNCHANGED <<lock, srv, report, key>>
    PROVE  Stutters
  BY MoveKeeps, ToldSame DEF Stutters

LEMMA StutterRefines ==
    ASSUME Stutters
    PROVE  [Remote!Next]_(Remote!svars)
  BY DEF Stutters, Started, ToldBy, NoLost, Remote!svars

\* A run that gives up, with the lock or without it.
LEMMA FailRefines ==
    ASSUME TypeOK, ReportInv, NEW s \in Script, NEW lines, Exit(s, 1, lines),
           pc[s] \notin {"lost", "done"}, lines \in SUBSET Script,
           UNCHANGED <<srv, key>>
    PROVE  Remote!Fail(s)
<1> DEFINE r == [exitCode |-> 1, listeningOn |-> lines, token |-> token[s]]
<1>1. /\ report' = [report EXCEPT ![s] = r]
      /\ pc' = [pc EXCEPT ![s] = "done"]
      /\ lock' = IF lock = s THEN None ELSE lock
      /\ r.exitCode = 1
      /\ r # None
  BY ReportAssumption DEF Exit, Unlock, TypeOK, Report
<1> HIDE DEF r
<1>2. Up' = Up /\ NoLost' = NoLost /\ Started' = Started
  BY <1>1, MoveKeeps
<1>3. Told(s) = None
  BY DEF Told, ReportInv, ReportsAtEnd
<1>4. Told(s)' = "failed"
  BY <1>1 DEF Told, TypeOK
<1>5. \A t \in Script : t # s => Told(t)' = Told(t)
  BY <1>1 DEF Told, TypeOK
<1>6. ToldBy' = [ToldBy EXCEPT ![s] = "failed"]
  BY <1>4, <1>5 DEF ToldBy
<1>7. QED
  BY <1>1, <1>2, <1>3, <1>6 DEF Remote!Fail, ToldBy, NoLost, Started

\* Refinement of one command of a run that has the lock, or waits for it.
Refines == [Remote!Next]_(Remote!svars)

LEMMA FailIsStep ==
    ASSUME NEW s \in Script, Remote!Fail(s)
    PROVE  Refines
  BY DEF Refines, Remote!Next

LEMMA InstallRefines ==
    ASSUME TypeOK, ReportInv, NEW s \in Script, Install(s)
    PROVE  Refines
<1> USE DEF Locked, Setup, Starting, Orphaned, Goto, files
<1>1. CASE CheckInstalled(s) \/ DownloadEnds(s) \/ ExtractEnds(s)
  BY <1>1, MoveStutters, StutterRefines DEF CheckInstalled, DownloadEnds, ExtractEnds, Refines
<1>2. CASE DownloadBegins(s) \/ ExtractMember(s)
  <2>1. UNCHANGED <<pc, lock, srv, report, key>>
    BY <1>2 DEF DownloadBegins, ExtractMember
  <2>2. Stutters
    BY <2>1, UpSame, ToldSame DEF Stutters, Guarded, NoLost, Started
  <2>3. QED
    BY <2>2, StutterRefines DEF Refines
<1>3. CASE CannotInstall(s) \/ DownloadFails(s)
  BY <1>3, FailRefines, FailIsStep DEF CannotInstall, DownloadFails
<1>4. CASE TestTarball(s) \/ VerifyInstall(s) \/ ExtractFails(s)
  <2>1. CASE Exit(s, 1, {})
    BY <1>4, <2>1, FailRefines, FailIsStep DEF TestTarball, VerifyInstall, ExtractFails
  <2>2. CASE \E to : /\ to # "lost" /\ pc[s] # "lost" /\ pc' = [pc EXCEPT ![s] = to]
                     /\ UNCHANGED <<lock, srv, report, key>>
    BY <2>2, MoveStutters, StutterRefines DEF Refines
  <2>3. QED
    BY <1>4, <2>1, <2>2 DEF TestTarball, VerifyInstall, ExtractFails
<1>5. QED
  BY <1>1, <1>2, <1>3, <1>4 DEF Install

LEMMA ForkRefines ==
    ASSUME TypeOK, ServerInv, NEW s \in Script, ForkServer(s)
    PROVE  Remote!Serve(s)
<1>1. /\ pc[s] = "fork" /\ pc' = [pc EXCEPT ![s] = "pid"]
      /\ srv' = [srv EXCEPT ![s] = "forked"]
      /\ UNCHANGED <<lock, report, key>>
  BY DEF ForkServer, Goto
<1>2. lock = s /\ srv[s] = "none" /\ \A v \in Script : ~Guarded(v)
  BY <1>1 DEF ServerInv, LockHeld, InProgress, NotStarted, NoOther, Locked, Starting
<1>3. Up = None
  BY <1>2, UpIsNone
<1>4. Up' = s
  <2>1. Guarded(s)' /\ \A w \in Script : Guarded(w)' => w = s
    BY <1>1, <1>2 DEF Guarded, Alive, TypeOK
  <2>2. QED
    BY <2>1, UpIsOneNext
<1>5. s \notin Started /\ Started' = Started \cup {s}
  BY <1>1, <1>2 DEF Started, TypeOK
<1>6. ToldBy' = ToldBy
  BY <1>1, ToldSame
<1>7. NoLost' = NoLost
  BY <1>1 DEF NoLost, TypeOK
<1>8. QED
  BY <1>1, <1>2, <1>3, <1>4, <1>5, <1>6, <1>7 DEF Remote!Serve, Started, ToldBy, NoLost

LEMMA StartRefines ==
    ASSUME TypeOK, ServerInv, NEW s \in Script, Start(s)
    PROVE  Refines
<1>1. CASE ForkServer(s)
  BY <1>1, ForkRefines DEF Refines, Remote!Next
<1>2. CASE RemoveStale(s) \/ TouchToken(s) \/ WriteToken(s) \/ WritePid(s)
  BY <1>2, MoveStutters, StutterRefines DEF RemoveStale, TouchToken, WriteToken, WritePid, Goto,
     Refines
<1>3. QED
  BY <1>1, <1>2 DEF Start

\* A success names the server that is up, or one that has ended; once a server is
\* orphaned, it names some server or none.
LEMMA TellRefines ==
    ASSUME TypeOK, ServerInv, ReportInv, NoLost => CredentialInv,
           NEW s \in Script, FindListening(s)
    PROVE  Remote!Tell(s)
<1> DEFINE r == [exitCode |-> 0, listeningOn |-> log.lines, token |-> token[s]]
<1>1. /\ pc[s] = "poll" /\ pc' = [pc EXCEPT ![s] = "done"]
      /\ report' = [report EXCEPT ![s] = r]
      /\ lock' = IF lock = s THEN None ELSE lock
      /\ UNCHANGED <<srv, key>>
      /\ r.exitCode = 0 /\ r.listeningOn = log.lines /\ r.token = token[s]
      /\ log.lines # {} /\ log.lines \subseteq Script
      /\ r # None
  BY ReportAssumption DEF FindListening, Exit, Unlock, TypeOK, Report
<1> HIDE DEF r
<1>2. lock = s
  BY <1>1 DEF ServerInv, LockHeld, InProgress, Locked
<1>3. Up' = Up /\ NoLost' = NoLost /\ Started' = Started
  BY <1>1, MoveKeeps
<1>4. \A t \in Script : t # s => Told(t)' = Told(t)
  BY <1>1 DEF Told, TypeOK
<1>5. CASE NoLost
  <2>1. PICK v \in Script : log.lines = {v} /\ token[s] = v /\ key[v] = v /\ tokenFile = v
    BY <1>1, <1>5 DEF CredentialInv, LinesOfServer, TokenOfRun
  <2>2. Told(s)' = v
    <3>1. report'[s].listeningOn = {v} /\ report'[s].token = key'[v]
          /\ report'[s].exitCode = 0 /\ report'[s] # None
      BY <1>1, <2>1 DEF TypeOK
    <3>2. (CHOOSE w \in Script : report'[s].listeningOn = {w}) = v
      BY <3>1
    <3>3. QED
      BY <3>1, <3>2 DEF Told
  <2>3. v \in Started
    BY <2>1 DEF ReportInv, NamedHasListened, Started
  <2>4. Up \in {v, None}
    <3>1. \A w \in Script : Guarded(w) => w = v
      BY <1>5, <2>1 DEF CredentialInv, TokenOfServer, Guarded
    <3>2. QED
      BY <3>1, UpIsNone, UpIsOne
  <2>5. ToldBy' = [ToldBy EXCEPT ![s] = v]
    BY <1>4, <2>2 DEF ToldBy
  <2>6. QED
    BY <1>1, <1>2, <1>3, <1>5, <2>3, <2>4, <2>5
    DEF Remote!Tell, Remote!Nameable, Started, ToldBy, NoLost
<1>6. CASE ~NoLost
  <2>1. Told(s)' \in Script \cup {"muddled"}
    <3>1. report'[s] # None /\ report'[s].exitCode # 1
      BY <1>1 DEF TypeOK
    <3>2. CASE \E v \in Script : report'[s].listeningOn = {v} /\ report'[s].token = key'[v]
      <4>1. (CHOOSE v \in Script : report'[s].listeningOn = {v}) \in Script
        BY <3>2
      <4>2. QED
        BY <3>1, <3>2, <4>1 DEF Told
    <3>3. CASE ~\E v \in Script : report'[s].listeningOn = {v} /\ report'[s].token = key'[v]
      BY <3>1, <3>3 DEF Told
    <3>4. QED
      BY <3>2, <3>3
  <2>2. ToldBy' = [ToldBy EXCEPT ![s] = Told(s)']
    BY <1>4 DEF ToldBy
  <2>3. QED
    BY <1>1, <1>2, <1>3, <1>6, <2>1, <2>2
    DEF Remote!Tell, Remote!Nameable, Started, ToldBy, NoLost
<1>7. QED
  BY <1>5, <1>6

LEMMA AnswerRefines ==
    ASSUME TypeOK, ServerInv, ReportInv, NoLost => CredentialInv, NEW s \in Script, Answer(s)
    PROVE  Refines
<1> USE DEF Goto, files
<1>1. CASE FindListening(s)
  BY <1>1, TellRefines DEF Refines, Remote!Next
<1>2. CASE PollGivesUp(s)
  BY <1>2, FailRefines, FailIsStep DEF PollGivesUp
<1>3. CASE ReadToken(s) \/ CheckLog(s)
  <2>1. CASE Exit(s, 1, {})
    BY <1>3, <2>1, FailRefines, FailIsStep DEF ReadToken, CheckLog
  <2>2. CASE \E to : /\ to # "lost" /\ pc[s] # "lost" /\ pc' = [pc EXCEPT ![s] = to]
                     /\ UNCHANGED <<lock, srv, report, key>>
    BY <2>2, MoveStutters, StutterRefines DEF Refines
  <2>3. QED
    BY <1>3, <2>1, <2>2 DEF ReadToken, CheckLog
<1>4. QED
  BY <1>1, <1>2, <1>3 DEF Answer

LEMMA EndRefines ==
    ASSUME TypeOK, ServerInv, NEW v \in Script, srv[v] \in Alive,
           srv' = [srv EXCEPT ![v] = "dead"], UNCHANGED <<pc, lock>>, ToldBy' = ToldBy
    PROVE  Refines
<1>1. Started' = Started /\ NoLost' = NoLost
  BY DEF Started, NoLost, TypeOK, Alive
<1>2. CASE Guarded(v)
  <2>1. \A w \in Script : ~Guarded(w)'
    BY <1>2 DEF ServerInv, OneGuarded, Guarded, Alive, TypeOK
  <2>2. Up' = None
    BY <2>1, UpIsNoneNext
  <2>3. Remote!Stop
    BY <1>1, <2>2 DEF Remote!Stop, Started, ToldBy, NoLost
  <2>4. QED
    BY <2>3 DEF Refines, Remote!Next
<1>3. CASE ~Guarded(v)
  <2>1. \A w \in Script : Guarded(w)' = Guarded(w)
    BY <1>3 DEF Guarded, Alive, TypeOK
  <2>2. QED
    BY <1>1, <2>1, UpSame, StutterRefines DEF Stutters, Refines
<1>4. QED
  BY <1>2, <1>3

LEMMA ServerRefines ==
    ASSUME TypeOK, ServerInv, ReportInv, NEW v \in Script, Server(v)
    PROVE  Refines
<1>1. ASSUME NEW life \in Alive, srv[v] \in Alive, srv' = [srv EXCEPT ![v] = life],
             UNCHANGED <<pc, lock>>, ToldBy' = ToldBy
      PROVE  Refines
  <2>1. \A w \in Script : /\ Guarded(w)' = Guarded(w)
                          /\ srv'[w] # "none" <=> srv[w] # "none"
    BY <1>1 DEF Guarded, Alive, TypeOK
  <2>2. Stutters
    BY <1>1, <2>1, UpSame DEF Stutters, Started, NoLost
  <2>3. QED
    BY <2>2, StutterRefines DEF Refines
<1>2. CASE Exec(v) \/ Listen(v)
  BY <1>1, <1>2, ToldSame DEF Exec, Listen, Alive
<1>3. CASE LoadToken(v)
  <2>1. \A w \in Script : w # v => key'[w] = key[w]
    BY <1>3 DEF LoadToken, TypeOK
  <2>2. \A s \in Script : report[s] # None => v \notin report[s].listeningOn
    BY <1>3 DEF LoadToken, ReportInv, NamedHasListened
  <2>3. \A s \in Script : Told(s)' = Told(s)
    <3>1. ASSUME NEW s \in Script, report[s] # None
          PROVE  \A w \in Script : report[s].listeningOn = {w} => key'[w] = key[w]
      BY <2>1, <2>2, <3>1
    <3>2. report' = report
      BY <1>3 DEF LoadToken
    <3>3. QED
      BY <3>1, <3>2 DEF Told
  <2>4. ToldBy' = ToldBy
    BY <2>3 DEF ToldBy
  <2>5. QED
    BY <1>1, <1>3, <2>4, EndRefines DEF LoadToken, Alive
<1>4. CASE Die(v)
  BY <1>4, ToldSame, EndRefines DEF Die
<1>5. QED
  BY <1>2, <1>3, <1>4 DEF Server

LEMMA LeaveRefines ==
    ASSUME NEW s \in Script, lock = s, lock' = None,
           UNCHANGED <<Started, Up, ToldBy, NoLost>>
    PROVE  Refines
<1>1. Remote!Leave(s)
  BY DEF Remote!Leave, Started, ToldBy, NoLost
<1>2. QED
  BY <1>1 DEF Refines, Remote!Next

LEMMA CutRefines ==
    ASSUME TypeOK, ServerInv, NEW s \in Script, Interrupt(s) \/ Kill(s) \/ LastClose(s)
    PROVE  Refines
<1>1. CASE Interrupt(s) /\ pc[s] = "pid"
  <2>1. /\ pc' = [pc EXCEPT ![s] = "lost"]
        /\ UNCHANGED <<report, srv, key>>
        /\ lock = s /\ lock' = None
    BY <1>1 DEF Interrupt, Unlock, ServerInv, LockHeld, InProgress, Locked
  <2>2. \A v \in Script : ~Guarded(v)'
    BY <1>1, <2>1 DEF ServerInv, NoOther, Guarded, TypeOK
  <2>3. Up' = None
    BY <2>2, UpIsNoneNext
  <2>4. NoLost' = FALSE
    BY <2>1 DEF NoLost, TypeOK
  <2>5. Remote!Orphan(s)
    BY <2>1, <2>3, <2>4, ToldSame DEF Remote!Orphan, Started, ToldBy, NoLost
  <2>6. QED
    BY <2>5 DEF Refines, Remote!Next
<1>2. CASE Interrupt(s) /\ pc[s] # "pid"
  <2>1. /\ pc' = [pc EXCEPT ![s] = "cut"] /\ pc[s] # "lost"
        /\ UNCHANGED <<report, srv, key>>
        /\ lock' = IF lock = s THEN None ELSE lock
    BY <1>2 DEF Interrupt, Unlock, Locked, Setup, Starting
  <2>2. UNCHANGED <<Started, Up, ToldBy, NoLost>>
    BY <2>1, MoveKeeps, ToldSame
  <2>3. QED
    BY <2>1, <2>2, LeaveRefines, StutterRefines DEF Stutters, Refines
<1>3. CASE Kill(s)
  <2>1. PICK to \in {"downloading", "extracting", "killed"} : pc' = [pc EXCEPT ![s] = to]
    BY <1>3 DEF Kill
  <2>2. pc[s] # "lost" /\ UNCHANGED <<lock, srv, report, key>>
    BY <1>3 DEF Kill, Locked, Setup, Starting
  <2>3. QED
    BY <2>1, <2>2, MoveStutters, StutterRefines DEF Refines
<1>4. CASE LastClose(s)
  <2>1. lock = s /\ lock' = None /\ UNCHANGED <<pc, srv, report, key>>
    BY <1>4 DEF LastClose
  <2>2. UNCHANGED <<Started, Up, ToldBy, NoLost>>
    BY <2>1, UpSame, ToldSame DEF Started, NoLost, Guarded
  <2>3. QED
    BY <2>1, <2>2, LeaveRefines
<1>5. QED
  BY <1>1, <1>2, <1>3, <1>4

LEMMA LockRefines ==
    ASSUME HasFlock, TypeOK, ReportInv, NEW s \in Script,
           \/ Begin(s) \/ Acquire(s) \/ LockTimeout(s) \/ CheckHost(s) \/ Probe(s)
    PROVE  Refines
<1> USE DEF Goto, files
<1>1. CASE Acquire(s)
  <2>1. /\ pc' = [pc EXCEPT ![s] = "host"] /\ pc[s] = "lock"
        /\ lock = None /\ lock' = s /\ UNCHANGED <<srv, report, key>>
    BY <1>1 DEF Acquire
  <2>2. UNCHANGED <<Started, Up, ToldBy, NoLost>>
    BY <2>1, MoveKeeps, ToldSame
  <2>3. Remote!Claim(s)
    BY <2>1, <2>2 DEF Remote!Claim, Started, ToldBy, NoLost
  <2>4. QED
    BY <2>3 DEF Refines, Remote!Next
<1>2. CASE Begin(s) \/ Probe(s)
  BY <1>2, MoveStutters, StutterRefines DEF Begin, Probe, Refines
<1>3. CASE LockTimeout(s)
  BY <1>3, FailRefines, FailIsStep DEF LockTimeout
<1>4. CASE CheckHost(s)
  <2>1. CASE Exit(s, 1, {})
    BY <1>4, <2>1, FailRefines, FailIsStep DEF CheckHost
  <2>2. CASE Goto(s, "host", "install") /\ UNCHANGED <<lock, report>>
    BY <1>4, <2>2, MoveStutters, StutterRefines DEF CheckHost, Refines
  <2>3. QED
    BY <1>4, <2>1, <2>2 DEF CheckHost
<1>5. QED
  BY <1>1, <1>2, <1>3, <1>4

LEMMA NextRefines ==
    ASSUME HasFlock, TypeOK, ServerInv, ReportInv, NoLost => CredentialInv, [Next]_vars
    PROVE  Refines
<1>1. CASE UNCHANGED vars
  <2>1. Stutters
    BY <1>1, UpSame, ToldSame DEF vars, Stutters, Started, NoLost, Guarded
  <2>2. QED
    BY <2>1, StutterRefines DEF Refines
<1>2. QED
  BY <1>1, LockRefines, InstallRefines, StartRefines, AnswerRefines, ServerRefines, CutRefines
  DEF Next, Run

LEMMA InitRefines ==
    ASSUME Init
    PROVE  Remote!Init
<1>1. Up = None
  BY UpIsNone DEF Init, Guarded, Alive
<1>2. \A s \in Script : Told(s) = None
  BY DEF Init, Told
<1>3. {v \in Script : srv[v] # "none"} = {} /\ (\A s \in Script : pc[s] # "lost") = TRUE
  BY DEF Init
<1>4. QED
  BY <1>1, <1>2, <1>3 DEF Init, Remote!Init

\* With flock, and a server that has exec'd before another run looks for it, every
\* behaviour of the script is one of RemoteServer: one run at a time has the host, a
\* server is started only where there is none, a success names the server that is
\* up, and the only way out is a server orphaned by an interrupt.
THEOREM ImplementsRemoteServer == HasFlock /\ PromptExec /\ Spec => RemoteServerSpec
<1> DEFINE Inv == NoLost => CredentialInv
<1>1. Init => ServerInv /\ ReportInv /\ Inv /\ Remote!Init
  <2>1. Init => ReportInv
    BY DEF Init, ReportInv, ReportsAtEnd, NamedHasListened, NoLog
  <2>2. Init => CredentialInv
    BY DEF Init, CredentialInv, TokenOfServer, TokenOfRun, LinesOfServer, LoadedOwn,
       ReportsServer, NoLog, Alive
  <2>3. QED
    BY <2>1, <2>2, InitServerInv, InitRefines
<1>2. ASSUME HasFlock, PromptExec
      PROVE  TypeOK /\ ServerInv /\ ReportInv /\ Inv /\ [Next]_vars
               => ServerInv' /\ ReportInv' /\ Inv' /\ [Remote!Next]_(Remote!svars)
  <2>1. TypeOK /\ ServerInv /\ [Next]_vars => ServerInv'
    BY <1>2, NextServerInv
  <2>2. TypeOK /\ ServerInv /\ Inv /\ [Next]_vars => Inv'
    BY LostForEver, NextCredentialInv
  <2>3. TypeOK /\ ServerInv /\ ReportInv /\ Inv /\ [Next]_vars => [Remote!Next]_(Remote!svars)
    BY <1>2, NextRefines DEF Refines
  <2>4. QED
    BY <2>1, <2>2, <2>3, NextReportInv DEF ServerInv
<1> HIDE DEF Inv
<1>3. CASE HasFlock /\ PromptExec
  BY <1>1, <1>2, <1>3, TypeCorrect, PTL DEF Spec, RemoteServerSpec, Remote!Spec
<1>4. QED
  BY <1>3
-----------------------------------------------------------------------------
(***************************************************************************)
(* The lock is given back.  Who owns it is at work, or was killed and has  *)
(* at most its server left.  A server that the lock depends on was named   *)
(* in no report: the run that would report it would have to hold the lock, *)
(* so no client can connect to it, and it shuts itself down.               *)
(***************************************************************************)

OwnerAtWork == \A s \in Script : lock = s => InProgress(s) \/ pc[s] = "killed"

OwnerUnreported == \A s \in Script : lock = s => Unreported(s)

\* While a run owns the lock, its going on, or the end of a server that no window was
\* told of, gives it back.
LockReturns ==
    \A s \in Script : lock = s =>
        \/ InProgress(s)
        \/ pc[s] = "killed" /\ (srv[s] \in Alive => Unreported(s))

Early == {"idle", "lock", "probe"} \cup Setup \cup Starting \cup Orphaned

LEMMA MoveNotStarted ==
    ASSUME TypeOK, NotStarted, NEW s \in Script, NEW to,
           pc' = pc \/ pc' = [pc EXCEPT ![s] = to],
           to \in Early => pc[s] \in Early,
           srv' = srv
    PROVE  NotStarted'
  BY DEF TypeOK, NotStarted, Early

\* A run has no server before it forks one.
LEMMA NextNotStarted ==
    ASSUME TypeOK, NotStarted, [Next]_vars
    PROVE  NotStarted'
<1> USE DEF Early, Setup, Starting, Orphaned, Locked, Goto, Exit
<1>1. ASSUME NEW s \in Script, Begin(s) \/ Acquire(s) \/ LockTimeout(s) \/ CheckHost(s)
      PROVE  NotStarted'
  BY <1>1, MoveNotStarted DEF Begin, Acquire, LockTimeout, CheckHost
<1>2. ASSUME NEW s \in Script, CheckInstalled(s) \/ CannotInstall(s) \/ DownloadBegins(s)
                               \/ DownloadEnds(s) \/ DownloadFails(s)
      PROVE  NotStarted'
  BY <1>2, MoveNotStarted DEF CheckInstalled, CannotInstall, DownloadBegins, DownloadEnds,
     DownloadFails
<1>3. ASSUME NEW s \in Script, TestTarball(s) \/ ExtractMember(s) \/ ExtractEnds(s)
                               \/ ExtractFails(s) \/ VerifyInstall(s)
      PROVE  NotStarted'
  BY <1>3, MoveNotStarted DEF TestTarball, ExtractMember, ExtractEnds, ExtractFails, VerifyInstall
<1>4. ASSUME NEW s \in Script, Probe(s) \/ RemoveStale(s) \/ TouchToken(s) \/ WriteToken(s)
                               \/ WritePid(s)
      PROVE  NotStarted'
  BY <1>4, MoveNotStarted DEF Probe, RemoveStale, TouchToken, WriteToken, WritePid
<1>5. ASSUME NEW s \in Script, ForkServer(s)
      PROVE  NotStarted'
  BY <1>5 DEF ForkServer, TypeOK, NotStarted
<1>6. ASSUME NEW s \in Script, Answer(s)
      PROVE  NotStarted'
  BY <1>6, MoveNotStarted DEF Answer, ReadToken, CheckLog, FindListening, PollGivesUp
<1>7. ASSUME NEW v \in Script, Server(v)
      PROVE  NotStarted'
  BY <1>7 DEF Server, Exec, LoadToken, Listen, Die, Alive, TypeOK, NotStarted
<1>8. ASSUME NEW s \in Script, Interrupt(s) \/ Kill(s) \/ LastClose(s)
      PROVE  NotStarted'
  BY <1>8, MoveNotStarted DEF Interrupt, Kill, LastClose
<1>9. CASE UNCHANGED vars
  BY <1>9 DEF vars, NotStarted
<1> QED
  BY <1>1, <1>2, <1>3, <1>4, <1>5, <1>6, <1>7, <1>8, <1>9 DEF Next, Run, Install, Start

\* A step of a run that reports nothing and leaves the lock as it is.
LEMMA MoveOwner ==
    ASSUME TypeOK, OwnerAtWork, OwnerUnreported, NEW s \in Script, NEW to,
           pc' = pc \/ pc' = [pc EXCEPT ![s] = to],
           lock = s => to \in Locked \cup Orphaned \cup {"killed"},
           UNCHANGED <<lock, report>>
    PROVE  OwnerAtWork' /\ OwnerUnreported'
<1>1. OwnerAtWork'
  BY DEF TypeOK, OwnerAtWork, InProgress
<1>2. OwnerUnreported'
  BY DEF OwnerUnreported, Unreported
<1> QED
  BY <1>1, <1>2

\* A run that ends with a report owned the lock, or waited for it and names no server.
LEMMA ExitOwner ==
    ASSUME TypeOK, LockHeld, OwnerAtWork, OwnerUnreported,
           NEW s \in Script, NEW code, NEW lines, Exit(s, code, lines),
           InProgress(s) \/ (pc[s] = "lock" /\ lines = {})
    PROVE  OwnerAtWork' /\ OwnerUnreported'
<1> DEFINE r == [exitCode |-> code, listeningOn |-> lines, token |-> token[s]]
<1>1. /\ pc' = [pc EXCEPT ![s] = "done"] /\ report' = [report EXCEPT ![s] = r]
      /\ Unlock(s) /\ r.listeningOn = lines
  BY DEF Exit
<1> HIDE DEF r
<1>2. CASE InProgress(s)
  <2>1. lock' = None
    BY <1>1, <1>2 DEF Unlock, LockHeld
  <2> QED
    BY <2>1, ScriptAssumption DEF OwnerAtWork, OwnerUnreported
<1>3. CASE pc[s] = "lock" /\ lines = {}
  <2>1. lock # s
    BY <1>3 DEF OwnerAtWork, InProgress, Locked, Setup, Starting, Orphaned
  <2>2. lock' = lock
    BY <1>1, <2>1 DEF Unlock
  <2>3. OwnerAtWork'
    BY <1>1, <2>1, <2>2 DEF TypeOK, OwnerAtWork, InProgress
  <2>4. ASSUME NEW v \in Script, lock' = v, NEW t \in Script, report'[t] # None
        PROVE  v \notin report'[t].listeningOn
    BY <1>1, <1>3, <2>2, <2>4 DEF TypeOK, OwnerUnreported, Unreported
  <2>5. OwnerUnreported'
    BY <2>4 DEF OwnerUnreported, Unreported
  <2> QED
    BY <2>3, <2>5
<1> QED
  BY <1>2, <1>3

LEMMA AnswerOwner ==
    ASSUME TypeOK, LockHeld, OwnerAtWork, OwnerUnreported, NEW s \in Script, Answer(s)
    PROVE  OwnerAtWork' /\ OwnerUnreported'
<1>1. InProgress(s)
  BY DEF Answer, ReadToken, CheckLog, FindListening, PollGivesUp, Goto, InProgress, Locked
<1>2. ASSUME NEW to \in Locked, pc' = [pc EXCEPT ![s] = to], UNCHANGED <<lock, report>>
      PROVE  OwnerAtWork' /\ OwnerUnreported'
  BY <1>2, MoveOwner
<1>3. ASSUME NEW code, NEW lines, Exit(s, code, lines)
      PROVE  OwnerAtWork' /\ OwnerUnreported'
  BY <1>1, <1>3, ExitOwner
<1>4. CASE ReadToken(s) \/ CheckLog(s)
  BY <1>2, <1>3, <1>4 DEF ReadToken, CheckLog, Goto, Locked
<1>5. CASE FindListening(s) \/ PollGivesUp(s)
  BY <1>3, <1>5 DEF FindListening, PollGivesUp
<1> QED
  BY <1>4, <1>5 DEF Answer

LEMMA NextOwner ==
    ASSUME HasFlock, TypeOK, LockHeld, NotStarted, ReportInv, OwnerAtWork, OwnerUnreported,
           [Next]_vars
    PROVE  OwnerAtWork' /\ OwnerUnreported'
<1> USE DEF Setup, Starting, Orphaned, Locked, Goto, InProgress
<1>1. ASSUME NEW s \in Script, Begin(s)
      PROVE  OwnerAtWork' /\ OwnerUnreported'
  BY <1>1, MoveOwner DEF Begin, OwnerAtWork
<1>2. ASSUME NEW s \in Script, Acquire(s)
      PROVE  OwnerAtWork' /\ OwnerUnreported'
  <2>1. srv[s] = "none"
    BY <1>2 DEF Acquire, NotStarted
  <2>2. Unreported(s)
    BY <2>1 DEF Unreported, ReportInv, NamedHasListened
  <2>3. lock' = s /\ report' = report /\ pc' = [pc EXCEPT ![s] = "host"]
    BY <1>2 DEF Acquire
  <2> QED
    BY <2>2, <2>3 DEF TypeOK, OwnerAtWork, OwnerUnreported, Unreported
<1>3. ASSUME NEW s \in Script, LockTimeout(s) \/ CheckHost(s)
      PROVE  OwnerAtWork' /\ OwnerUnreported'
  BY <1>3, MoveOwner, ExitOwner DEF LockTimeout, CheckHost
<1>4. ASSUME NEW s \in Script, CheckInstalled(s) \/ CannotInstall(s) \/ DownloadBegins(s)
                               \/ DownloadEnds(s) \/ DownloadFails(s)
      PROVE  OwnerAtWork' /\ OwnerUnreported'
  BY <1>4, MoveOwner, ExitOwner DEF CheckInstalled, CannotInstall, DownloadBegins,
     DownloadEnds, DownloadFails
<1>5. ASSUME NEW s \in Script, TestTarball(s) \/ ExtractMember(s) \/ ExtractEnds(s)
                               \/ ExtractFails(s) \/ VerifyInstall(s)
      PROVE  OwnerAtWork' /\ OwnerUnreported'
  BY <1>5, MoveOwner, ExitOwner DEF TestTarball, ExtractMember, ExtractEnds, ExtractFails,
     VerifyInstall
<1>6. ASSUME NEW s \in Script, Probe(s) \/ Start(s)
      PROVE  OwnerAtWork' /\ OwnerUnreported'
  BY <1>6, MoveOwner DEF Probe, Start, RemoveStale, TouchToken, WriteToken, ForkServer, WritePid
<1>7. ASSUME NEW s \in Script, Answer(s)
      PROVE  OwnerAtWork' /\ OwnerUnreported'
  BY <1>7, AnswerOwner
<1>8. ASSUME NEW v \in Script, Server(v)
      PROVE  OwnerAtWork' /\ OwnerUnreported'
  BY <1>8 DEF Server, Exec, LoadToken, Listen, Die, OwnerAtWork, OwnerUnreported, Unreported
<1>9. ASSUME NEW s \in Script, Kill(s)
      PROVE  OwnerAtWork' /\ OwnerUnreported'
  BY <1>9, MoveOwner DEF Kill
<1>10. ASSUME NEW s \in Script, Interrupt(s) \/ LastClose(s)
       PROVE  OwnerAtWork' /\ OwnerUnreported'
  <2>1. /\ lock' = lock \/ lock' = None
        /\ lock' # s /\ report' = report
        /\ \A t \in Script \ {s} : pc'[t] = pc[t]
    BY <1>10, ScriptAssumption DEF Interrupt, LastClose, Unlock, TypeOK
  <2> QED
    BY <2>1, ScriptAssumption DEF OwnerAtWork, OwnerUnreported, Unreported
<1>11. CASE UNCHANGED vars
  BY <1>11 DEF vars, OwnerAtWork, OwnerUnreported, Unreported
<1> QED
  BY <1>1, <1>2, <1>3, <1>4, <1>5, <1>6, <1>7, <1>8, <1>9, <1>10, <1>11 DEF Next, Run, Install

\* Without flock the lock belongs to nobody.
LEMMA NextUnlocked ==
    ASSUME ~HasFlock, TypeOK, lock = None, \A s \in Script : pc[s] # "lock", [Next]_vars
    PROVE  lock' = None /\ \A s \in Script : pc'[s] # "lock"
<1> USE ScriptAssumption DEF TypeOK, Goto, Exit, Unlock
<1>1. ASSUME NEW s \in Script, Begin(s) \/ Acquire(s) \/ LockTimeout(s) \/ CheckHost(s)
      PROVE  lock' = None /\ \A t \in Script : pc'[t] # "lock"
  BY <1>1 DEF Begin, Acquire, LockTimeout, CheckHost
<1>2. ASSUME NEW s \in Script, CheckInstalled(s) \/ CannotInstall(s) \/ DownloadBegins(s)
                               \/ DownloadEnds(s) \/ DownloadFails(s)
      PROVE  lock' = None /\ \A t \in Script : pc'[t] # "lock"
  BY <1>2 DEF CheckInstalled, CannotInstall, DownloadBegins, DownloadEnds, DownloadFails
<1>3. ASSUME NEW s \in Script, TestTarball(s) \/ ExtractMember(s) \/ ExtractEnds(s)
                               \/ ExtractFails(s) \/ VerifyInstall(s)
      PROVE  lock' = None /\ \A t \in Script : pc'[t] # "lock"
  BY <1>3 DEF TestTarball, ExtractMember, ExtractEnds, ExtractFails, VerifyInstall
<1>4. ASSUME NEW s \in Script, Probe(s) \/ Start(s)
      PROVE  lock' = None /\ \A t \in Script : pc'[t] # "lock"
  BY <1>4 DEF Probe, Start, RemoveStale, TouchToken, WriteToken, ForkServer, WritePid
<1>5. ASSUME NEW s \in Script, Answer(s) \/ Server(s)
      PROVE  lock' = None /\ \A t \in Script : pc'[t] # "lock"
  BY <1>5 DEF Answer, ReadToken, CheckLog, FindListening, PollGivesUp, Server, Exec, LoadToken,
     Listen, Die
<1>6. ASSUME NEW s \in Script, Interrupt(s) \/ Kill(s) \/ LastClose(s)
      PROVE  lock' = None /\ \A t \in Script : pc'[t] # "lock"
  BY <1>6 DEF Interrupt, Kill, LastClose
<1>7. CASE UNCHANGED vars
  BY <1>7 DEF vars
<1> QED
  BY <1>1, <1>2, <1>3, <1>4, <1>5, <1>6, <1>7 DEF Next, Run, Install

\* Whatever is killed or cut short, the lock is never left to a run that has ended,
\* nor to a server that a window uses: its owner is at work, or was killed and left at
\* most a server that was reported to nobody.
THEOREM LockIsGivenBack == Spec => []LockReturns
<1>1. CASE HasFlock
  <2>1. Init => LockHeld /\ NotStarted /\ ReportInv /\ OwnerAtWork /\ OwnerUnreported
    BY ScriptAssumption, InitServerInv DEF Init, ServerInv, ReportInv, ReportsAtEnd,
       NamedHasListened, NoLog, OwnerAtWork, OwnerUnreported
  <2>2. TypeOK /\ LockHeld /\ [Next]_vars => LockHeld'
    BY <1>1, NextLockHeld
  <2>3. TypeOK /\ NotStarted /\ [Next]_vars => NotStarted'
    BY NextNotStarted
  <2>4. TypeOK /\ NotStarted /\ ReportInv /\ [Next]_vars => ReportInv'
    BY NextReportInv
  <2>5. /\ TypeOK /\ LockHeld /\ NotStarted /\ ReportInv /\ OwnerAtWork /\ OwnerUnreported
        /\ [Next]_vars
        => OwnerAtWork' /\ OwnerUnreported'
    BY <1>1, NextOwner
  <2>6. OwnerAtWork /\ OwnerUnreported => LockReturns
    BY DEF OwnerAtWork, OwnerUnreported, LockReturns
  <2> QED
    BY <2>1, <2>2, <2>3, <2>4, <2>5, <2>6, TypeCorrect, PTL DEF Spec
<1>2. CASE ~HasFlock
  <2> DEFINE Free == lock = None /\ \A s \in Script : pc[s] # "lock"
  <2>1. Init => Free
    BY DEF Init
  <2>2. TypeOK /\ Free /\ [Next]_vars => Free'
    BY <1>2, NextUnlocked
  <2>3. Free => LockReturns
    BY ScriptAssumption DEF LockReturns
  <2> HIDE DEF Free
  <2> QED
    BY <2>1, <2>2, <2>3, TypeCorrect, PTL DEF Spec
<1> QED
  BY <1>1, <1>2
=============================================================================
