------------------------------ MODULE SSHConfig ------------------------------
(***************************************************************************)
(* overlay/remote-ssh/src/ssh/sshConfig.ts: the user's and the system's    *)
(* configuration, with the files they include, as one list of sections.    *)
(*                                                                         *)
(* A line opens a Host section with its names or a Match section, is an    *)
(* Include with the files it matches in glob's order, or something else.   *)
(* A section holds the lines after it: the ssh-config package sees an      *)
(* Include of the file itself only before the first section.               *)
(***************************************************************************)
EXTENDS Integers, Sequences, SequencesExt

CONSTANT Pattern    \* the names with ?, * or a leading !

Host(names) == [kind |-> "Host", names |-> names]
Include(files) == [kind |-> "Include", files |-> files]
Match == [kind |-> "Match"]
Other == [kind |-> "Other"]

IsHostSection(line) == line.kind = "Host"
IsSection(line) == line.kind \in {"Host", "Match"}
IsIncludeDirective(line) == line.kind = "Include"

\* SSHConfig.parse: the lines that belong to no section, and the sections.
TopLevel(file) ==
    FoldLeft(LAMBDA lines, line :
                IF IsSection(line) \/ ~\E l \in Range(lines) : IsSection(l)
                THEN Append(lines, line) ELSE lines,
             <<>>, file)

\* config.splice(i, 1, ...lines)
Spliced(config, i, lines) == SubSeq(config, 1, i - 1) \o lines \o SubSeq(config, i + 1, Len(config))

\* The lines that replace an Include, given what each file expands to.
Included(line, expanded) == FlattenSeq([k \in DOMAIN line.files |-> expanded[line.files[k]]])

\* Variant: the includes are replaced in the order in which they are found.
ExpandForward(config, expanded) ==
    LET upTo[i \in 0..Len(config)] ==
            IF i = 0 THEN config
            ELSE IF IsIncludeDirective(config[i])
                 THEN Spliced(upTo[i - 1], i, Included(config[i], expanded)) ELSE upTo[i - 1]
    IN  upTo[Len(config)]

\* From the last to the first, so that the positions found still hold.
Expand(config, expanded) ==
    LET from[i \in 1..(Len(config) + 1)] ==
            IF i > Len(config) THEN config
            ELSE IF IsIncludeDirective(config[i])
                 THEN Spliced(from[i + 1], i, Included(config[i], expanded)) ELSE from[i + 1]
    IN  from[1]

\* Files that include each other in a circle are read for ever: there are none here.
ParseSSHConfigFromFile(disk, path) ==
    LET expanded[p \in DOMAIN disk] == Expand(TopLevel(disk[p]), expanded)
    IN  expanded[path]

LoadFromFS(disk) ==
    ParseSSHConfigFromFile(disk, "config") \o ParseSSHConfigFromFile(disk, "ssh_config")

\* Variant: patterns count as hosts.
GetAllSections(config) ==
    FoldLeft(LAMBDA hosts, line :
                IF IsHostSection(line) /\ line.names[1] \notin Range(hosts)
                THEN Append(hosts, line.names[1]) ELSE hosts,
             <<>>, config)

\* The first name of each section, unless it is a pattern, once.
GetAllConfiguredHosts(config) ==
    FoldLeft(LAMBDA hosts, line :
                IF IsHostSection(line) /\ line.names[1] \notin Pattern \cup Range(hosts)
                THEN Append(hosts, line.names[1]) ELSE hosts,
             <<>>, config)
=============================================================================
