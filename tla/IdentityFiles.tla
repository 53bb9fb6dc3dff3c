--------------------------- MODULE IdentityFiles ---------------------------
(***************************************************************************)
(* gatherIdentityFiles() of overlay/remote-ssh/src/ssh/identityFiles.ts:   *)
(* the identity files of a host are read side by side and collected in the *)
(* order in which they are finished; then the keys of the agent are        *)
(* matched with them.                                                      *)
(*                                                                         *)
(* A key pair is a member of Key.  A file is what its two halves on disk   *)
(* are; KeyIn says which pair it holds.                                    *)
(***************************************************************************)
EXTENDS Sequences, SequencesExt

CONSTANTS
    File,            \* the identity files of the host, or the default ones
    Key,             \* key pairs, in files and in the agent
    KeyIn,           \* the pair in each file
    Disk,            \* what the files may be
    Agents           \* what the agent may hold; nothing also when it cannot be asked

PublicFile == {"absent", "invalid", "key"}
PrivateFile == {"absent", "invalid", "locked", "key"}

ASSUME FileAssumption ==
    /\ KeyIn \in [File -> Key]
    /\ Disk \subseteq [File -> [public : PublicFile, private : PrivateFile]]
    /\ Agents \subseteq Seq(Key)

VARIABLES
    disk,            \* the files
    agent,           \* the keys in the agent, in its order
    identitiesOnly,  \* IdentitiesOnly yes
    reading,         \* the half of each file that is read next, or "done"
    fileKeys         \* the keys collected so far

gatherVars == <<disk, agent, identitiesOnly, reading, fileKeys>>

NoFile == "none"

\* parsedKey is there or not; of an SSHKey without it only the name is known.
SSHKey == [file : File \cup {NoFile}, key : Key, parsed : BOOLEAN,
           agentSupport : BOOLEAN, isPrivate : BOOLEAN]

GatherTypeOK ==
    /\ disk \in Disk
    /\ agent \in Agents
    /\ identitiesOnly \in BOOLEAN
    /\ reading \in [File -> {"public", "private", "done"}]
    /\ fileKeys \in Seq(SSHKey)

GatherInit ==
    /\ disk \in Disk
    /\ agent \in Agents
    /\ identitiesOnly \in BOOLEAN
    /\ reading = [f \in File |-> "public"]
    /\ fileKeys = <<>>

Read(f, half) == reading[f] = half /\ UNCHANGED <<disk, agent, identitiesOnly>>

Collect(f, parsed, isPrivate) ==
    /\ reading' = [reading EXCEPT ![f] = "done"]
    /\ fileKeys' = Append(fileKeys, [file |-> f, key |-> KeyIn[f], parsed |-> parsed,
                                     agentSupport |-> FALSE, isPrivate |-> isPrivate])

Skip(f) == reading' = [reading EXCEPT ![f] = "done"] /\ UNCHANGED fileKeys

\* Variant: a .pub file that is no key ends the file, as the private half is not tried.
ReadPublicOnly(f) ==
    /\ Read(f, "public")
    /\ \/ disk[f].public = "key" /\ Collect(f, TRUE, FALSE)
       \/ disk[f].public = "invalid" /\ Skip(f)
       \/ /\ disk[f].public = "absent"
          /\ reading' = [reading EXCEPT ![f] = "private"]
          /\ UNCHANGED fileKeys

ReadPublic(f) ==
    /\ Read(f, "public")
    /\ \/ disk[f].public = "key" /\ Collect(f, TRUE, FALSE)
       \/ /\ disk[f].public # "key"
          /\ reading' = [reading EXCEPT ![f] = "private"]
          /\ UNCHANGED fileKeys

\* A private key with a passphrase is left to the authentication handler.
ReadPrivate(f) ==
    /\ Read(f, "private")
    /\ \/ disk[f].private = "key" /\ Collect(f, TRUE, TRUE)
       \/ disk[f].private = "locked" /\ Collect(f, FALSE, FALSE)
       \/ disk[f].private \in {"absent", "invalid"} /\ Skip(f)

Reads == \E f \in File : ReadPublic(f) \/ ReadPrivate(f)

AllRead == \A f \in File : reading[f] = "done"

-----------------------------------------------------------------------------
(* The keys in the order in which they are tried *)

FromAgent(k) ==
    [file |-> NoFile, key |-> k, parsed |-> TRUE, agentSupport |-> TRUE, isPrivate |-> FALSE]

Holding(files, k) == {i \in DOMAIN files : files[i].parsed /\ files[i].key = k}

\* One key of the agent: it takes the first parsed file of the same key along.
Match(found, k) ==
    LET same == Holding(found.files, k)
        i == CHOOSE j \in same : \A l \in same : j <= l
    IN  IF same # {}
        THEN [found EXCEPT !.preferred = Append(@, [found.files[i] EXCEPT !.agentSupport = TRUE]),
                           !.files = RemoveAt(@, i)]
        ELSE IF identitiesOnly THEN found
        ELSE [found EXCEPT !.agent = Append(@, FromAgent(k))]

Matched == FoldLeft(Match, [preferred |-> <<>>, agent |-> <<>>, files |-> fileKeys], agent)

\* Variant: the files come before the keys that only the agent has.
FilesFirst == Matched.preferred \o Matched.files \o Matched.agent

Gathered == Matched.preferred \o Matched.agent \o Matched.files
=============================================================================
