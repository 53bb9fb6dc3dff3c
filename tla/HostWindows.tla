----------------------------- MODULE HostWindows -----------------------------
(***************************************************************************)
(* The windows of the editor around ssh hosts: extension.ts (activation),  *)
(* commands.ts, hostTreeView.ts and remoteLocationHistory.ts of            *)
(* overlay/remote-ssh/src.                                                 *)
(*                                                                         *)
(* Every window runs its own extension.  It copies the stored history when *)
(* it is activated and from then on writes its copy, whole, over what is   *)
(* stored; windows learn nothing of each other's writes.                   *)
(***************************************************************************)
EXTENDS SSHDestination, SSHConfig, FiniteSets

CONSTANTS
    Window,     \* bound: windows, each opened once
    Path,       \* folders on the hosts
    Hostname,   \* the names of hosts, in configurations and in destinations
    Typed,      \* the destinations that the user types
    Foreign,    \* authorities of another extension, with the destination meant
    Disk,       \* what the configuration files may hold: names for contents,
    Content     \* Content[d][file] for each of them

VARIABLES
    disk,       \* the configuration files
    store,      \* globalState: the locations of each host, newest first
    win,        \* the life of each window
    authority,  \* all that follows the first "ssh-remote+", None in a local window
    folder,     \* the folder of the window, if any
    goal,       \* the destination the user meant
    history,    \* remoteLocationHistory of each window
    tree,       \* the hosts that each window shows, and the files they are read from
    visited,    \* the locations opened and not deleted since
    behind,     \* the windows whose history lacks a write of another
    orderly     \* no window that is behind has written

vars == <<disk, store, win, authority, folder, goal, history, tree, visited, behind, orderly>>

HostsOf(d) == GetAllConfiguredHosts(LoadFromFS(Content[d]))

\* getChildren
Tree(d) == [files |-> d, hosts |-> HostsOf(d)]

\* A file includes files that lie deeper than it does: there is no circle.
Deeper(files, depth) ==
    \A p \in DOMAIN files : \A line \in Range(files[p]) :
        IsIncludeDirective(line) => \A q \in Range(line.files) : depth[q] < depth[p]

\* There are both files; each is a list of lines.  A name in one is a host or a pattern,
\* an Include matches some of the files.
ASSUME ContentAssumption ==
    \A d \in Disk :
        LET files == Content[d]
        IN  /\ {"config", "ssh_config"} \subseteq DOMAIN files /\ IsFiniteSet(DOMAIN files)
            /\ \A p \in DOMAIN files :
                /\ files[p] \in Seq(Range(files[p]))
                /\ \A line \in Range(files[p]) :
                    /\ IsHostSection(line) => line.names[1] \in Hostname \cup Pattern
                    /\ IsIncludeDirective(line) => line.files \in Seq(DOMAIN files)
            /\ \E depth \in [DOMAIN files -> 1..Cardinality(DOMAIN files)] : Deeper(files, depth)

\* A host from the configuration is a destination without user and port.
Alias(h) == Destination(h, None, None)

Destinations == Typed \cup {Alias(h) : h \in Hostname}

\* The authority of a window that is opened for a destination.
AuthorityOf(d) == Lowercased(ToEncodedString(Spelled(d)))

\* None is neither a text nor a destination nor a folder.
ASSUME NameAssumption ==
    /\ \A d \in Destinations :
        /\ d = Destination(d.hostname, d.user, d.port)
        /\ d.hostname \in Hostname /\ d.hostname \in Seq(Range(d.hostname))
        /\ \A part \in {d.user, d.port} \ {None} : part \in Seq(Range(part))
        /\ None \notin {AuthorityOf(d), d}
    /\ None \notin Path \cup {Tree(d) : d \in Disk}

\* Another extension writes a destination as the hex of a JSON object.
ASSUME ForeignAssumption ==
    \A f \in Foreign :
        /\ f.meant.hostname \in Hostname /\ None \notin {f.authority, f.meant}
        /\ \E o \in DOMAIN Object : f.authority = <<o>> /\ f.meant = Object[o]

NoHistory == [h \in Hostname |-> <<>>]

IsHistory(x) == DOMAIN x = Hostname /\ \A h \in Hostname : Range(x[h]) \subseteq Path

TypeOK ==
    /\ disk \in Disk
    /\ IsHistory(store)
    /\ win \in [Window -> {"none", "starting", "open", "closed"}]
    /\ folder \in [Window -> Path \cup {None}]
    /\ \A w \in Window :
        /\ IsHistory(history[w])
        /\ tree[w] # None <=> win[w] = "open"
        /\ tree[w] # None => tree[w].files \in Disk /\ Range(tree[w].hosts) \subseteq Hostname
        /\ authority[w] = None <=> goal[w] = None
        /\ goal[w] # None => goal[w].hostname \in Hostname
    /\ visited \subseteq Hostname \X Path
    /\ behind \subseteq {w \in Window : win[w] = "open"}
    /\ orderly \in BOOLEAN

Init ==
    /\ disk \in Disk
    /\ store = NoHistory
    /\ win = [w \in Window |-> "none"]
    /\ authority = [w \in Window |-> None]
    /\ folder = [w \in Window |-> None]
    /\ goal = [w \in Window |-> None]
    /\ history = [w \in Window |-> NoHistory]
    /\ tree = [w \in Window |-> None]
    /\ visited = {}
    /\ behind = {}
    /\ orderly = TRUE

-----------------------------------------------------------------------------
(* The editor *)

\* The extensions of these windows end.
Ended(windows) ==
    /\ history' = [w \in Window |-> IF w \in windows THEN NoHistory ELSE history[w]]
    /\ tree' = [w \in Window |-> IF w \in windows THEN None ELSE tree[w]]
    /\ behind' = behind \ windows

\* A window starts, in the place of another or beside it.
Starts(w, auth, path, meant, replaced) ==
    /\ win' = [v \in Window |-> IF v = w THEN "starting" ELSE IF v \in replaced THEN "closed" ELSE win[v]]
    /\ authority' = [authority EXCEPT ![w] = auth]
    /\ folder' = [folder EXCEPT ![w] = path]
    /\ goal' = [goal EXCEPT ![w] = meant]
    /\ Ended(replaced)
    /\ UNCHANGED <<disk, store, visited, orderly>>

OpenLocalWindow(w) == win[w] = "none" /\ Starts(w, None, None, None, {})

\* From the list of recently opened folders.
OpenRecent(w) ==
    /\ win[w] = "none"
    /\ \/ \E f \in Foreign, p \in Path : Starts(w, f.authority, p, f.meant, {})
       \/ \E v \in Window :
            /\ win[v] = "closed" /\ folder[v] # None
            /\ Starts(w, authority[v], folder[v], goal[v], {})

\* File > Open Folder in a window that is connected: it starts again.
OpenFolder(w) ==
    /\ win[w] = "open" /\ authority[w] # None /\ folder[w] = None
    /\ \E p \in Path : folder' = [folder EXCEPT ![w] = p]
    /\ win' = [win EXCEPT ![w] = "starting"]
    /\ Ended({w})
    /\ UNCHANGED <<disk, store, authority, goal, visited, orderly>>

CloseWindow(w) ==
    /\ win[w] = "open"
    /\ win' = [win EXCEPT ![w] = "closed"]
    /\ Ended({w})
    /\ UNCHANGED <<disk, store, authority, folder, goal, visited, orderly>>

-----------------------------------------------------------------------------
(* RemoteLocationHistory *)

\* Variant: a location that is there already is put in front once more.
AddedAgain(h, host, path) == [h EXCEPT ![host] = <<path>> \o @]

Added(h, host, path) ==
    IF path \in Range(h[host]) THEN h ELSE [h EXCEPT ![host] = <<path>> \o @]

\* hostLocations.filter(l => l !== path)
Without(locations, path) ==
    FoldLeft(LAMBDA kept, l : IF l # path THEN Append(kept, l) ELSE kept, <<>>, locations)

Removed(h, host, path) == [h EXCEPT ![host] = Without(h[host], path)]

\* globalState.update
Written(w) ==
    /\ store' = history'[w]
    /\ behind' = (behind \cup {v \in Window : win[v] = "open"}) \ {w}
    /\ orderly' = (orderly /\ w \notin behind)

\* activate(): the history is read, the window's own location added; the tree is
\* filled.
Activate(w) ==
    /\ win[w] = "starting"
    /\ win' = [win EXCEPT ![w] = "open"]
    /\ tree' = [tree EXCEPT ![w] = Tree(disk)]
    /\ IF folder[w] = None
       THEN /\ history' = [history EXCEPT ![w] = store]
            /\ UNCHANGED <<store, behind, orderly, visited>>
       ELSE /\ history' = [history EXCEPT ![w] =
                    Added(store, DestinationOf(authority[w]).hostname, folder[w])]
            /\ IF history'[w] = store THEN UNCHANGED <<store, behind, orderly>> ELSE Written(w)
            /\ visited' = visited \cup {<<goal[w].hostname, folder[w]>>}
    /\ UNCHANGED <<disk, authority, folder, goal>>

-----------------------------------------------------------------------------
(* Commands and the tree of hosts *)

\* openRemoteSSHWindow: a host picked or typed in the prompt, or taken from the
\* tree; in this window or in a new one.
OpenRemoteSSHWindow(w, v) ==
    /\ win[w] = "none" /\ win[v] = "open"
    /\ \E d \in Typed \cup {Alias(h) : h \in Range(HostsOf(disk)) \cup Range(tree[v].hosts)},
          replaced \in {{}, {v}} :
        Starts(w, AuthorityOf(d), None, d, replaced)

Locations(v) ==
    {l \in Range(tree[v].hosts) \X Path : l[2] \in Range(history[v][l[1]])}

OpenRemoteSSHLocationWindow(w, v) ==
    /\ win[w] = "none" /\ win[v] = "open"
    /\ \E l \in Locations(v), replaced \in {{}, {v}} :
        Starts(w, AuthorityOf(Alias(l[1])), l[2], Alias(l[1]), replaced)

DeleteHostLocation(v) ==
    /\ win[v] = "open"
    /\ \E l \in Locations(v) :
        /\ history' = [history EXCEPT ![v] = Removed(@, l[1], l[2])]
        /\ visited' = visited \ {l}
    /\ Written(v)
    /\ tree' = [tree EXCEPT ![v] = Tree(disk)]
    /\ UNCHANGED <<disk, win, authority, folder, goal>>

\* A file is saved in window v, whose tree is refreshed if it is the user's own file,
\* not if it is an included one.
SaveConfig(v) ==
    /\ win[v] = "open"
    /\ disk' \in Disk \ {disk}
    /\ tree' = [tree EXCEPT ![v] =
                    IF Content[disk']["config"] # Content[disk]["config"] THEN Tree(disk') ELSE @]
    /\ UNCHANGED <<store, win, authority, folder, goal, history, visited, behind, orderly>>

Refresh(v) ==
    /\ win[v] = "open" /\ tree[v].files # disk
    /\ tree' = [tree EXCEPT ![v] = Tree(disk)]
    /\ UNCHANGED <<disk, store, win, authority, folder, goal, history, visited, behind, orderly>>

Next ==
    \E w \in Window :
        \/ OpenLocalWindow(w) \/ OpenRecent(w) \/ OpenFolder(w) \/ CloseWindow(w)
        \/ Activate(w) \/ DeleteHostLocation(w) \/ SaveConfig(w) \/ Refresh(w)
        \/ \E v \in Window : OpenRemoteSSHWindow(w, v) \/ OpenRemoteSSHLocationWindow(w, v)

Spec == Init /\ [][Next]_vars

-----------------------------------------------------------------------------
(* Properties *)

\* The authority of the window has a "+" of its own.
Cut(w) == authority[w] # None /\ "+" \in Range(authority[w])

\* commands.ts:19-21, 34, 43: the host picked, or the destination typed as
\* [user@]hostname[:port], is what the resolver of the new window reads back from the
\* lowercased authority, as long as no "+" is in it: of user+tag@host it reads "user"
\* (authResolver.ts:117).
DestinationReached ==
    \A w \in Window :
        authority[w] # None /\ ~Cut(w) => DestinationOf(authority[w]) = goal[w]

\* No location is stored twice under a host, whichever window writes over which.  Unless
\* a window wrote a history that lacked another's write, or was opened for a destination
\* with a "+", what is stored is what was opened and not deleted, under the host the user
\* meant (remoteLocationHistory.ts 19-36, 39-55).
HistoryKept ==
    /\ \A h \in Hostname : IsInjective(store[h])
    /\ orderly /\ (\A w \in Window : ~Cut(w)) =>
        {l \in Hostname \X Path : l[2] \in Range(store[l[1]])} = visited

\* The host names in the order in which ssh reads the files, includes in place.
NamesOfLine(line, read) ==
    CASE IsHostSection(line) -> <<line.names[1]>>
      [] IsIncludeDirective(line) -> Included(line, read)
      [] OTHER -> <<>>

ReadingOrder(files) ==
    LET read[p \in DOMAIN files] ==
            FlattenSeq([i \in DOMAIN TopLevel(files[p]) |-> NamesOfLine(TopLevel(files[p])[i], read)])
    IN  read["config"] \o read["ssh_config"]

\* The tree shows every host of the files once, where it is first read, and no
\* pattern (sshConfig.ts 74-104, 118-131).
HostsInOrder ==
    \A t \in {tree[w] : w \in {v \in Window : win[v] = "open"}} :
        LET names == ReadingOrder(Content[t.files])
            first == [h \in Range(names) |-> SelectInSeq(names, LAMBDA n : n = h)]
        IN  /\ Range(t.hosts) = Range(names) \ Pattern
            /\ \A i, j \in DOMAIN t.hosts : i < j => first[t.hosts[i]] < first[t.hosts[j]]
=============================================================================
