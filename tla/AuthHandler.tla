---------------------------- MODULE AuthHandler ----------------------------
(***************************************************************************)
(* One SSH authentication: the handler that getSSHAuthHandler() of         *)
(* overlay/remote-ssh/src/authResolver.ts makes for the keys that          *)
(* IdentityFiles gathers, called by the loop of the vendored ssh2 client   *)
(* (vendor/ssh2/lib/client.js), against a server that accepts, refuses,    *)
(* asks questions or is satisfied in part, a user who answers, errs or     *)
(* cancels, and the readyTimeout that runs meanwhile.                      *)
(***************************************************************************)
EXTENDS Integers, IdentityFiles

CONSTANTS
    Preferred,       \* preferredAuthentications
    MaxStages,       \* bound: partial successes the server asks for
    MaxRounds        \* bound: questions of one keyboard-interactive request

Method == {"publickey", "password", "keyboard-interactive"}

RETRY_COUNT == 3    \* PASSWORD_RETRY_COUNT and PASSPHRASE_RETRY_COUNT

ASSUME HandlerAssumption == Preferred \subseteq Method
ASSUME ServerAssumption == MaxStages \in Nat /\ MaxRounds \in Nat \ {0}

VARIABLES
    turn,         \* who acts: gatherIdentityFiles, the handler, the server, the user at a prompt, or nobody
    trying,       \* the method of the request sent last
    methodsLeft,  \* what the server has said can continue
    keys,         \* identityKeys still to be shifted
    passphrases,  \* passphraseRetryCount of the key at hand
    passwords,    \* passwordRetryCount
    keyboards,    \* keyboardRetryCount
    stages,       \* partial successes so far
    rounds,       \* questions of this keyboard-interactive request
    cancelled,    \* the user has cancelled a password or keyboard prompt
    outcome,      \* of the connection attempt
    tried         \* the keys offered, or found to be of no use

authVars == <<turn, trying, methodsLeft, keys, passphrases, passwords, keyboards, stages, rounds, cancelled, outcome, tried>>
vars == <<gatherVars, authVars>>

Prompt == {"passphrase", "password", "keyboard"}

TypeOK ==
    /\ turn \in {"gather", "handler", "server", "nobody"} \cup Prompt
    /\ trying \in {"nothing", "none"} \cup Method
    /\ methodsLeft \subseteq Method
    /\ GatherTypeOK
    /\ keys \in Seq(SSHKey)
    /\ tried \subseteq Key
    /\ passphrases \in 0..RETRY_COUNT
    /\ passwords \in 0..RETRY_COUNT
    /\ keyboards \in -MaxRounds..RETRY_COUNT
    /\ stages \in 0..MaxStages
    /\ rounds \in 0..MaxRounds
    /\ cancelled \in BOOLEAN
    /\ outcome \in {"open", "ready", "refused", "lost"}

Init ==
    /\ GatherInit
    /\ turn = "gather"
    /\ trying = "nothing"
    /\ methodsLeft = {}
    /\ keys = <<>>
    /\ tried = {}
    /\ passphrases = 0
    /\ passwords = RETRY_COUNT
    /\ keyboards = RETRY_COUNT
    /\ stages = 0
    /\ rounds = 0
    /\ cancelled = FALSE
    /\ outcome = "open"

-----------------------------------------------------------------------------

\* The connection is made when the keys are there.
GetHandler ==
    /\ turn = "gather" /\ AllRead
    /\ turn' = "handler"
    /\ keys' = Gathered
    /\ UNCHANGED <<trying, methodsLeft, passphrases, passwords, keyboards, stages, rounds, cancelled, outcome, tried>>

Gather ==
    \/ turn = "gather" /\ Reads /\ UNCHANGED authVars
    \/ GetHandler /\ UNCHANGED gatherVars

-----------------------------------------------------------------------------
(* The handler, called with methodsLeft *)

Allowed(m) == m \in methodsLeft \cap Preferred
KeysLeft == Allowed("publickey") /\ keys # <<>>

\* Variant: passwords are asked for without a limit.
PasswordsUnlimited == Allowed("password")

PasswordsLeft == Allowed("password") /\ passwords > 0
KeyboardsLeft == Allowed("keyboard-interactive") /\ keyboards > 0

\* callback(request): the request goes to the server.
Send(m) == turn' = "server" /\ trying' = m /\ rounds' = 0

\* callback(false): 'error', and the end of the connection if there still is one.
GiveUp ==
    /\ turn' = "nobody"
    /\ outcome' = IF outcome = "open" THEN "refused" ELSE outcome

TryNone ==
    /\ turn = "handler" /\ trying = "nothing"
    /\ Send("none")
    /\ UNCHANGED <<methodsLeft, keys, passphrases, passwords, keyboards, stages, cancelled, outcome, tried>>

\* What the handler finds in the private half of a key it has not parsed.
OnDisk(k) == disk[k.file].private

\* callback(null), and an agent that fails, have the handler called again.
TryKey ==
    /\ turn = "handler" /\ trying # "nothing" /\ KeysLeft
    /\ keys' = Tail(keys)
    /\ tried' = tried \cup {Head(keys).key}
    /\ LET k == Head(keys)
           ready == k.parsed /\ (k.agentSupport \/ k.isPrivate)
       IN  \/ ready /\ Send("publickey") /\ UNCHANGED passphrases
           \/ k.agentSupport /\ UNCHANGED <<turn, trying, rounds, passphrases>>
           \/ ~ready /\ OnDisk(k) = "key" /\ Send("publickey") /\ UNCHANGED passphrases
           \/ ~ready /\ OnDisk(k) \in {"absent", "invalid"} /\ UNCHANGED <<turn, trying, rounds, passphrases>>
           \/ /\ ~ready /\ OnDisk(k) = "locked"
              /\ turn' = "passphrase"
              /\ passphrases' = RETRY_COUNT
              /\ UNCHANGED <<trying, rounds>>
    /\ UNCHANGED <<methodsLeft, passwords, keyboards, stages, cancelled, outcome>>

AskPassword ==
    /\ turn = "handler" /\ trying # "nothing" /\ ~KeysLeft /\ PasswordsLeft
    /\ turn' = "password"
    /\ UNCHANGED <<trying, methodsLeft, keys, passphrases, passwords, keyboards, stages, rounds, cancelled, outcome, tried>>

TryKeyboard ==
    /\ turn = "handler" /\ trying # "nothing" /\ ~KeysLeft /\ ~PasswordsLeft /\ KeyboardsLeft
    /\ Send("keyboard-interactive")
    /\ UNCHANGED <<methodsLeft, keys, passphrases, passwords, keyboards, stages, cancelled, outcome, tried>>

NothingLeft ==
    /\ turn = "handler" /\ trying # "nothing" /\ ~KeysLeft /\ ~PasswordsLeft /\ ~KeyboardsLeft
    /\ GiveUp
    /\ UNCHANGED <<trying, methodsLeft, keys, passphrases, passwords, keyboards, stages, rounds, cancelled, tried>>

-----------------------------------------------------------------------------
(* The user *)

\* A passphrase opens the key, does not (and is asked again while tries
\* remain), or is not given: the next key then.
GivePassphrase ==
    /\ turn = "passphrase"
    /\ \/ passphrases' = passphrases - 1 /\ Send("publickey")
       \/ /\ passphrases' = passphrases - 1
          /\ turn' = IF passphrases > 1 THEN "passphrase" ELSE "handler"
          /\ UNCHANGED <<trying, rounds>>
       \/ turn' = "handler" /\ UNCHANGED <<passphrases, trying, rounds>>
    /\ UNCHANGED <<methodsLeft, keys, passwords, keyboards, stages, cancelled, outcome, tried>>

GivePassword ==
    /\ turn = "password"
    /\ passwords' = passwords - 1
    /\ Send("password")
    /\ UNCHANGED <<methodsLeft, keys, passphrases, keyboards, stages, cancelled, outcome, tried>>

CancelPassword ==
    /\ turn = "password"
    /\ passwords' = passwords - 1
    /\ cancelled' = TRUE
    /\ GiveUp
    /\ UNCHANGED <<trying, methodsLeft, keys, passphrases, keyboards, stages, rounds, tried>>

\* Variant: the answers are not counted.
AnswerKeyboardUncounted ==
    /\ turn = "keyboard"
    /\ turn' = "server"
    /\ UNCHANGED <<trying, methodsLeft, keys, passphrases, passwords, keyboards, stages, rounds, cancelled, outcome, tried>>

AnswerKeyboard ==
    /\ turn = "keyboard"
    /\ keyboards' = keyboards - 1
    /\ turn' = "server"
    /\ UNCHANGED <<trying, methodsLeft, keys, passphrases, passwords, stages, rounds, cancelled, outcome, tried>>

\* Variant: a cancelled question counts as one wrong answer.
CancelKeyboardOnce ==
    /\ turn = "keyboard"
    /\ cancelled' = TRUE
    /\ keyboards' = keyboards - 1
    /\ turn' = "server"
    /\ UNCHANGED <<trying, methodsLeft, keys, passphrases, passwords, stages, rounds, outcome, tried>>

\* The count is cleared, then decremented; too few answers are sent.
CancelKeyboard ==
    /\ turn = "keyboard"
    /\ cancelled' = TRUE
    /\ keyboards' = -1
    /\ turn' = "server"
    /\ UNCHANGED <<trying, methodsLeft, keys, passphrases, passwords, stages, rounds, outcome, tried>>

-----------------------------------------------------------------------------
(* The server, while the connection is open *)

\* The answers to this request were cut short: they are refused.
Short == cancelled /\ rounds > 0

Accepts ==
    /\ turn = "server" /\ outcome = "open" /\ ~Short
    /\ outcome' = "ready"
    /\ UNCHANGED <<turn, trying, methodsLeft, keys, passphrases, passwords, keyboards, stages, rounds, cancelled, tried>>

\* The methods that can continue are first told when "none" is refused.
Refuses ==
    /\ turn = "server" /\ outcome = "open"
    /\ turn' = "handler"
    /\ IF trying = "none" THEN methodsLeft' \in SUBSET Method ELSE UNCHANGED methodsLeft
    /\ UNCHANGED <<trying, keys, passphrases, passwords, keyboards, stages, rounds, cancelled, outcome, tried>>

SatisfiedInPart ==
    /\ turn = "server" /\ outcome = "open" /\ trying \in Method /\ ~Short
    /\ stages < MaxStages
    /\ stages' = stages + 1
    /\ turn' = "handler"
    /\ methodsLeft' \in SUBSET Method
    /\ UNCHANGED <<trying, keys, passphrases, passwords, keyboards, rounds, cancelled, outcome, tried>>

AsksQuestion ==
    /\ turn = "server" /\ outcome = "open" /\ trying = "keyboard-interactive" /\ ~Short
    /\ rounds < MaxRounds
    /\ rounds' = rounds + 1
    /\ turn' = "keyboard"
    /\ UNCHANGED <<trying, methodsLeft, keys, passphrases, passwords, keyboards, stages, cancelled, outcome, tried>>

\* readyTimeout, or a lost connection.  A prompt stays open, and its answer is
\* handled when it comes.
ReadyTimeout ==
    /\ outcome = "open" /\ turn # "gather"
    /\ outcome' = "lost"
    /\ UNCHANGED <<turn, trying, methodsLeft, keys, passphrases, passwords, keyboards, stages, rounds, cancelled, tried>>

-----------------------------------------------------------------------------

Handler == TryNone \/ TryKey \/ AskPassword \/ TryKeyboard \/ NothingLeft
User == GivePassphrase \/ GivePassword \/ CancelPassword \/ AnswerKeyboard \/ CancelKeyboard
Server == Accepts \/ Refuses \/ SatisfiedInPart \/ AsksQuestion

\* The handler also goes on after an answer that came too late.
Next == Gather \/ ((Handler \/ User \/ Server \/ ReadyTimeout) /\ UNCHANGED gatherVars)

Spec == Init /\ [][Next]_vars

\* Files can be read, the client runs, the server answers, and so does the user.
FairSpec ==
    Spec /\ WF_vars(Gather)
         /\ WF_vars(Handler /\ UNCHANGED gatherVars)
         /\ WF_vars(User /\ UNCHANGED gatherVars)
         /\ WF_vars(Server /\ UNCHANGED gatherVars)

-----------------------------------------------------------------------------
(* Properties *)

\* The keys that may be used: those that a readable file names, and those the
\* agent holds unless IdentitiesOnly confines it to the files.
Usable(f) == disk[f].public = "key" \/ disk[f].private \in {"locked", "key"}
Admissible ==
    {KeyIn[f] : f \in {f \in File : Usable(f)}} \cup (IF identitiesOnly THEN {} ELSE Range(agent))

\* While the server takes keys, the user is asked for a password only after every
\* key that may be used has been tried, in whatever order the files were read,
\* and no other key has been (identityFiles.ts 44-163, authResolver.ts 462-526).
EveryKeyTried ==
    /\ turn = "password" /\ Allowed("publickey") => Admissible \subseteq tried
    /\ tried \subseteq Admissible

\* The keys that gatherIdentityFiles can tell from a file without a passphrase.
Legible == {KeyIn[f] : f \in {f \in File : "key" \in {disk[f].public, disk[f].private}}}

\* The user is not asked for a passphrase while the agent holds an untried key
\* that may be used and is known to be (identityFiles.ts 37 and 150-163).
AgentBeforePassphrase ==
    turn = "passphrase" =>
        Range(agent) \cap (IF identitiesOnly THEN Legible ELSE Key) \subseteq tried

\* Once the user has cancelled a password or a question, nothing more is asked
\* on this connection (lines 539-545 and 563-566).
CancelIsFinal == cancelled => turn \notin Prompt

\* keyboard-interactive is refused before it has asked anything.
RefusesUnasked == Refuses /\ trying = "keyboard-interactive" /\ rounds = 0

\* The authentication ends of itself, however often the user errs and without
\* the help of readyTimeout, unless the server goes on refusing
\* keyboard-interactive without a question (lines 450-451, 501, 547 and 564).
AuthenticationEnds == <>(outcome # "open") \/ []<><<RefusesUnasked>>_vars
=============================================================================
