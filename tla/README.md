# Code Personal: a TLA+ verification

Code Personal is a rebuild of VS Code (this repository's `overlay/`, `scripts/` and
workflows) with a bundled extension, Code Personal Remote - SSH
(`overlay/remote-ssh/`). The extension is a program of its own: it connects to a
host over SSH, installs and starts a server there, and forwards the editor's
traffic to it. Nearly all the state, concurrency and failure handling of the
repository is in it, and in the workflow that publishes releases; those are what
is modelled here.

Paths of the extension are given relative to `overlay/remote-ssh/src/`.

## 1. The system

### How the parts interact

The editor calls `RemoteSSHResolver.resolve` (`authResolver.ts`) at startup and
after each disconnection, with one resolver per window. `resolve` reads settings
and the ssh configuration (`ssh/sshConfig.ts`, `ssh/sshDestination.ts`), gathers
keys (`ssh/identityFiles.ts`), opens a chain of `SSHConnection`s
(`ssh/sshConnection.ts`) over ProxyJump hosts or a ProxyCommand process, and gives
the ssh2 client an authentication handler that prompts the user. Over the final
connection it runs `installCodeServer` (`serverSetup.ts`), which pipes
`scripts/server-setup.sh` (or `.ps1`) into a remote shell; the script prints where
the server listens and its token. A tunnel (`addTunnel`, or a SOCKS server and a
forwarding server) leads to it, and its local port is the result. `dispose` gives
everything back. Independently, `release.yml` plans, builds and publishes releases
whose server archive the script downloads.

### Inventory

| Component | State it keeps | Operations | What is hard | What makes it correct |
| --- | --- | --- | --- | --- |
| `scripts/server-setup.sh` | on the host: lock file and its descriptor, archive, extracted tree, pid, token and log files, server processes | lock, check, download, test, extract, verify, probe, start, report | several windows at once; a run killed at any command; a fork that is not yet an `exec`; failing downloads and `tar` | one installer at a time, one server per commit, a report that names a live server and its token, only whole installations started, every run ends |
| `scripts/server-setup.ps1` | the same files, no lock | the same, then a watch over the server it has started | a server that cannot be found yet; a log that cannot be deleted; overlapping runs | one server with one token, for runs that keep apart |
| `serverSetup.ts` | none beyond the call | detect platform and shell, choose the release, send the script, parse the result | output cut off anywhere; a script that never ends on Windows; a shell wrongly guessed | a result is one the script has printed, complete; every call is answered |
| `ssh/sshConnection.ts`: `connect` | memoized promise, ssh2 Client, retry counter, last error, reconnect timer | `connect`, `ready`, `error`, `close`, reconnection | uses that arrive in any phase share one promise | one live Client, a bounded number of retries, every use answered |
| `ssh/sshConnection.ts`: tunnels | `activeTunnels`, a `net.Server` per tunnel, local sockets | `addTunnel`, `closeTunnel`, `close` | asynchronous `listen` and `close` between a look at the registry and its update | registry and servers agree; closing comes to an end |
| `authResolver.ts`: `resolve`, `dispose` | fields for connections, process, agent session, SOCKS server, tunnels, label formatter | attempts, agent session, tunnels, dispose | every attempt overwrites fields whose objects live on | results lead through their own connection; nothing is kept twice; dispose gives all back |
| `authResolver.ts`: authentication handler | keys left, retry counters | choose a method, prompt, answer | prompts, partial successes and `readyTimeout` interleave | order of the methods, finality of a cancellation, an end |
| `ssh/identityFiles.ts` | the keys collected so far | read key files in parallel, match with the agent | completion order; one pair in several files and the agent; public halves that are no keys | every key that may be used is offered, the agent's before any passphrase, none against `IdentitiesOnly` |
| `common/ports.ts` | none | find a free port | none in use: only `findRandomPort` has callers | – |
| `remoteLocationHistory.ts` | a copy of one stored record per window | add, remove | windows write whole copies over each other | what is stored is what was opened and not deleted, while no window that is behind writes |
| `ssh/sshDestination.ts` | none | parse, encode into an authority, decode | the editor lowercases authorities; two encodings are told apart by trial | a destination comes back from its authority |
| `ssh/sshConfig.ts`, `ssh/hostfile.ts` | none | read files with their includes, list hosts | positions that shift while includes are spliced in; nested includes | the hosts in the order in which ssh reads them |
| `fetchRelease.ts`, `serverConfig.ts` | none | split titles, order releases, choose one | two schemes of titles, numeric order of builds, strict semver | the newest release that the setting asks for |
| `.github/workflows/release.yml`, `scripts/plan.mjs`, `scripts/collect.mjs` | GitHub releases and their assets, queued runs | trigger, plan, build, draft, upload, publish | a plan hours older than the upload; drafts left by failures | a published release is whole and never changes; the latest version is published |
| `overlay/verifier/adapter.cjs` | none | verify with the bundled key, then with the registry's | error paths | every result has the code the editor expects |
| `overlay/moduleignore.mjs` | none | last matching rule wins | order of rules | agreement with a reference definition |
| other `overlay/*.mjs`, `scripts/*` | the build directory | substitution, packaging, smoke tests | none: straight-line steps | – |
| `extension.ts`, `commands.ts`, `hostTreeView.ts` | the hosts a window shows | activate, prompt, open windows, delete locations, refresh | several windows, files that change under them | what is picked or typed is what the new window connects to |
| `common/{logger,disposable,files,platform}.ts`, `utils/` | none | – | none: library code | – |
| `vendor/ssh2` | third-party | – | – | its authentication loop is modelled where the handler depends on it |

`PROJECT.json` lists the same components with their status, and every hazard at the
line where it bites together with the properties that would catch it. Some happen in the
model and no property excludes them, because nothing in the code prevents them and no
document speaks of them; their note says so.

## 2. The modules

| Module | Models | Uses | TLC instances | Proofs |
| --- | --- | --- | --- | --- |
| `ServerSetup` | `scripts/server-setup.sh` and the server as the script uses it | refines `RemoteServer` | `MCServerSetup` | `ServerSetupProofs` |
| `RemoteServer` | what the runs of the script promise together | – | through `ServerSetup` | `ServerSetupProofs` |
| `ServerSetupPs1` | `scripts/server-setup.ps1` | – | through `InstallCodeServer` | `InstallCodeServerProofs` |
| `FetchRelease` | `fetchRelease.ts`, as operators | – | through `InstallCodeServer` | `InstallCodeServerProofs` |
| `InstallCodeServer` | `installCodeServer` of `serverSetup.ts`, `exec` and `execPartial` | `ServerSetupPs1`, `FetchRelease` | `MCInstallCodeServer` | `InstallCodeServerProofs` |
| `IdentityFiles` | `ssh/identityFiles.ts` | – | through `AuthHandler` | `AuthHandlerProofs` |
| `AuthHandler` | `getSSHAuthHandler` and the ssh2 loop that calls it | `IdentityFiles` | `MCAuthHandler` | `AuthHandlerProofs` |
| `SSHConnection` | `connect()` of `ssh/sshConnection.ts` | – | `MCSSHConnection` | `SSHConnectionProofs` |
| `SSHTunnels` | `addTunnel`, `closeTunnel`, `close` | – | `MCSSHTunnels` | `SSHTunnelsProofs` |
| `Resolver` | `resolve`, the agent session, `openTunnel`, `dispose` | – | `MCResolver` | `ResolverProofs` |
| `SSHDestination` | `ssh/sshDestination.ts`, as operators | – | through `HostWindows` | `HostWindowsProofs` |
| `SSHConfig` | `ssh/sshConfig.ts`, as operators | – | through `HostWindows` | `HostWindowsProofs` |
| `HostWindows` | `extension.ts`, `commands.ts`, `hostTreeView.ts`, `remoteLocationHistory.ts` | `SSHDestination`, `SSHConfig` | `MCHostWindows` | `HostWindowsProofs` |
| `ReleasePipeline` | the release workflow and `plan.mjs` | – | `MCReleasePipeline` | `ReleasePipelineProofs` |

In each module an action is one uninterruptible piece of the code: a command of a
script, a callback of the event loop, the code between two `await`s, a step of a
job. Operators commented "Variant:" are altered forms of the operator they precede;
nothing uses them, and with one in place of the original TLC finds the property
that `PROJECT.json` pairs it with violated. They show that the property depends on
that detail of the code.

**ServerSetup.** `Script` is the set of runs; a server and a token are named by the
run that made them, because a run starts at most one server and brings one fresh
token. `pc[s]` is the next command: `lock` (lines 46-79), `host`, `install`,
`download`, `test`, `extract`, `verify` (81-221), `probe` (233-241), `clean` to
`fork` (241-254), `pid` (255), `read` (260-265), `log` and `poll` (267-292).
`lock` is the owner of the open file description behind descriptor 9: a killed run
still holds it through `wget`, `tar` or the server it has started (`LastClose` gives
it back when the last of them closes it). `tree` says whether the server script
exists and whether the rest of the archive does, the two things line 167 cannot
tell apart. `srv[v]` takes a server from `forked` (it exists, but its command line
is still the script's) over `starting` and `loaded` (it has read its token file) to
`listening` and `dead`. `Faults` names the failures of a host: a download that
fails, a `tar` that stops before it has written the server script (`"tar"`) or
anywhere (`"disk"`), an archive whose server script is empty, SIGHUP
or SIGPIPE (the trap of line 76 runs), SIGKILL (nothing runs).

**RemoteServer.** One run at a time holds the host; it starts a server only where none
is up; a success names a server that was started and, if one is up, that one. `sound`
turns false with the one exception, a run interrupted after it has started a server and
before it has recorded it (`Orphan`). `ServerSetup` implements it with `holder` the owner
of the lock, `started` the servers that were forked, `server` the one that is alive and
was not orphaned, `told` what the reports amount to, and `sound` the absence of a lost
run (the `INSTANCE` at the end of the module).

**ServerSetupPs1.** The same files without a lock. A server is found by a node process,
which it becomes only after the hidden PowerShell that carries it has opened the log
(`wrapped`, then `loading`, `loaded`, `listening`). The log of a living server can be
neither deleted nor opened again. A run that has started a server stays with it
(`attend`) after it has printed its result. `apart` records that no run has begun while
another was at work or a server out of sight.

**InstallCodeServer.** One call per run: `Detect` (123-150), `Send` (152-236), `Answer`
(238-270). A result is printed in two pieces, the second with the end line; `Lose` closes
the channel after any number of them and either ends the script or leaves it running.
On a posix host the script is reduced to what it prints (`BashRuns`), as `ServerSetup`
has the rest. A shell that was guessed wrongly, or could not be asked, makes the command
fail (`Fits`).

**FetchRelease, SSHDestination, SSHConfig.** Pure operators. Titles keep their digits,
because the schemes are told apart by them. A destination is a sequence of pieces cut
where a decoder distinguishes them: `@`, `:`, `+`, capital letters, runs that are or are
not hexadecimal; `DestinationOf` is how the resolver and the history read an authority,
`split('+')` first. A configuration file is a sequence of lines: sections of Host and
Match, includes, others.
`Expand` replaces includes from the last to the first, as lines 99-101 do.

**IdentityFiles.** A file is what its two halves on disk are; `ReadPublic` and
`ReadPrivate` are the code between two `await`s of one file, and files interleave.
`Gathered` is the loop that matches the agent's keys with the files'.

**HostWindows.** Each window has its own extension: its copy of the history, its tree.
A window is opened once and may be closed, replaced, reloaded with a folder, or opened
again from the list of recent folders, which is where its authority comes back
lowercased. `goal` is the destination the user meant, `visited` what the history should
hold, `behind` the windows whose copy lacks a write of another.

**SSHConnection.** The n-th promise of `connect()` and its Client are both called n.
`slot` is `__$connectPromise`; `use[u]` is a call of `exec`, `shell`, `forwardOut` or
a tunnel's socket that starts with `connect().then(...)`. `Ready`, `Fail`, `Closed`
are the listeners of lines 239-262, `Again` the timer of line 255, `Adopt` the
resolution of one promise with another. `reconnect` is chosen at the start: the
extension leaves it off, the class supports both.

**SSHTunnels.** One connection: calls of `addTunnel` with their names, the server of
each call from `bound` (after `listen`, before its event) to `closed`, local sockets
with the stage of their forwarding, `closeTunnel`, and `close()` with the servers it
waits for. A socket whose `forwardOut` fails is destroyed by the SOCKS forwarder and
left open ("hung") by the plain one. `overlapped` is no state of the code: it remembers
the names that were asked for while a call for them was pending.

**Resolver.** `at[a]` is what attempt a waits for. `self` holds the resolver's fields
exactly as the code shares them between attempts (`proxies`, `main`, `process`,
`session`, `socks`, `tunnels`, `label`); the objects they name live in their own
variables, so that an object that is no longer named but still alive is visible.
Connection `<<a, 0>>` is the final connection of attempt a and `<<a, i>>` its i-th
jump; a connection here is an `SSHConnection` without reconnection, reduced to
opening, up and down.

**AuthHandler.** `turn` says who acts: the handler, the server, nobody, or the user
at one of three prompts. The handler is called with the methods that can continue
and keeps its keys and counters, as the closure of lines 449-453 does. `ReadyTimeout`
may end the connection under an open prompt; the answer is still handled when it
comes.

**ReleasePipeline.** `run[r]` is a place for a workflow run. The concurrency group
lets one run be active and one wait; a new one replaces the one that waits, so two
places are enough. `release[t]` is a GitHub release: its state, for each asset
whether it is missing, from an earlier build or from the current one, the commit its
tag points to, and (for the properties) the commit the current build is from.

## 3. What is checked

| Run | Instance | Shows |
| --- | --- | --- |
| `setup_faults` | 3 runs, flock, all faults but a `tar` that stops half-way, fairness | `InstallerExclusive`, `AtMostOneServer`, `ReportCoherent`, `StartsComplete`, `CredentialsKept`, `Terminates`, `LockRecovered`, and that it implements `RemoteServer` (`RemoteServerSpec`) |
| `setup_tar` | 2 runs, `tar` may stop anywhere | `StartsComplete` fails (finding 1) |
| `install_windows` | 2 calls to a Windows host with bash, or a posix host; remotePlatform unset or wrong; all faults, a lost connection | `ResultIsReport`, `OneServerAnswers`, `ClosestChosen`, `CallEnds` |
| `release_latest` | the same without faults, titles as `release.yml` writes them | `LatestChosen` fails (finding 3) |
| `host_windows` | 3 windows, 2 configurations with nested includes and a Match section, 3 hosts, typed destinations with user and port and with a `+` | `DestinationReached`, `HistoryKept`, `HostsInOrder` |
| `destination_hex` | an address that begins with 34. is typed | `DestinationReached` fails (finding 4) |
| `connect_retry` | 3 uses, up to 4 Clients, reconnection on or off | `OneLiveClient`, `BudgetKept`, `EveryUseSettles` |
| `tunnels_close` | 3 calls that may overlap, 2 names, 2 sockets, a dropping connection | `RegistryAgrees`, `CloseEnds` |
| `resolver_again` | 2 attempts: plain to a port or a socket path, ProxyCommand or 2 jumps, with or without agent, dynamic forwarding on or off in each | `ResultOnOwnConnection`, `AgentSocketLives`, `OwnTunnelsClosed`, `AttemptSettles`, `FirstChainReleased` |
| `resolver_parent` | 2 attempts through a jump host | `ConnectionReleased` fails (finding 2) |
| `auth_prompts` | 3 files on 3 disks, 3 agents, 1 partial success, 2 questions, timeout | `EveryKeyTried`, `AgentBeforePassphrase`, `CancelIsFinal`, `AuthenticationEnds` |
| `release_publish` | 2 versions, 2 commits of one revision, 1 manual run, 2 failures | `PublishedIsWhole`, `PublishedStays`, `LatestIsPublished` |

The passing runs also check the type invariant `TypeOK`. Each property is stated
in words above its definition.

### Bounds, and why they are enough

- Three runs of the script: one that is killed or interrupted, one that finds what
  it left, one that interferes. Most of the safety invariants are proved for any
  number of runs.
- Two calls of `installCodeServer`: one starts a server, the other finds it, cannot find
  it yet, or finds what it left. Calls begin in the order of their numbers, which loses
  nothing, as they are alike. Bash for Windows stands for the three shells, which differ
  in how the command is quoted and in nothing that happens afterwards.
- Three windows, one of them opened from another or in the place of another while the
  third writes the history; symmetric. One folder per host is enough for two windows to
  disagree about it. The configurations have an include before another, two that
  include the same file, patterns, a host that is named twice, and a Match section that
  holds an Include. They differ in the user's own file, so that a save always refreshes
  the tree of its window; that the save of an included file does not is in `SaveConfig`
  and in the proofs, but in no run. One of the typed destinations has a `+` of its own.
- Three identity files: two of one pair, one with a passphrase; the three disks have
  between them each kind of half, valid, invalid, absent and locked. Three agents: none,
  one with a key of its own and one of a file, one with the locked key.
- A run starts once. A window that connects again is another run.
- `MaxPromises = 4` with `ReconnectTries = 2`: a first connection, the two retries
  the budget allows, and one more. At the bound nothing happens that would lead to
  a further reconnection (`Bound`), so no property holds because of it.
- Three `addTunnel` calls on two names: two calls collide on one name, before or after the
  first has its port, while the third keeps another tunnel open. Two sockets: one that is
  piped while the other hangs, or both at one server.
- Two attempts: all the resolver's hazards are about what one attempt leaves for the
  next. `SwitchedConfig` lets the second read another setting than the first; the setting
  is off for hosts with neither agent nor ProxyCommand, whose steps do not depend on it.
  Attempts follow each other, as the proposed API's description of `resolve`
  says; `Quiet` keeps `dispose` out of an attempt, because the code has no way to
  stop one and promises nothing for it.
- `MaxStages = 1`, `MaxRounds = 2`: one widening of what the server accepts, and a
  request with more than one question. The retry counters are the code's own.
- `ReleasePipeline`: two failures leave a draft with a stale mixture of files and
  then disturb its repair. Both commits have one revision, which is the case in
  which a draft changes hands. Schedules are unbounded.

### Fairness, and why the code justifies it

- `ServerSetup`: a command of a run that is not killed returns (the waits of the
  script are bounded: 30 s for the lock, 35 polls); a forked child gets to `exec`;
  the kernel closes descriptors. A server no client was told of ends by
  `--enable-remote-auto-shutdown`. Nothing is assumed of faults.
- `SSHConnection`, `SSHTunnels`, `Resolver`: the event loop delivers what is due. A
  handshake ends because ssh2 arms `readyTimeout`; 'close' follows 'error'; a
  connection ends once its transport or its `end()` does; the remote sshd answers the
  opening of a channel. Nothing is assumed of the peers of forwarded sockets, so `close()`
  may wait for ever (`sshConnection.ts:203`): `CloseEnds` says that it ends unless, from
  some point on, a socket of a tunnel it waits for is held by its peer (`Held`): piped
  through a live connection, or hung because its `forwardOut` failed. In `Resolver`,
  accordingly, a connection on which `close()` was called ends when it has no tunnels
  (`Ends`), as a jump host has none, or when its transport or process does;
  `FirstChainReleased` is about those cases, and a direct connection with tunnels is left
  to `CloseEnds`.
- `InstallCodeServer`: what is printed or closed reaches the window, and a command of a
  script returns. Nothing is assumed of servers, which may neither listen nor die.
- `HostWindows` states no fairness: its properties are safety properties.
- `AuthHandler`: files can be read, the client runs, the server answers, and so does the user.
  `AuthenticationEnds` allows for one exception, a server that refuses
  keyboard-interactive for ever without asking anything.
- `ReleasePipeline`: cron fires again and again, a free group starts a waiting run,
  a job step ends (`timeout-minutes`). Failures are finite in number.

### Findings

1. `setup_tar`: a failed `tar -xf` leaves what it wrote; the next run takes it for an
   installation and starts it (`server-setup.sh:203`).
2. `resolver_parent`: `dispose` closes the first jump ever opened, not the parent of the
   connection in use (`authResolver.ts:585`).
3. `release_latest`: the titles this project gives its releases have no build number, so
   the filter of `fetchRelease.ts:75` drops them all, and "latest" means the local version.
4. `destination_hex`: a host name whose beginning is hexadecimal for a JSON number is
   decoded as that number and loses its host (`sshDestination.ts:44`).

## 4. What is proved

Every safety property that a passing run checks is also a theorem about its module, for
every value of the constants that satisfies the module's assumptions. Six theorems have
a hypothesis of their own, a constant or a condition on one, which is named and justified
below: `HasFlock` and `PromptExec`, a `tar` that does not stop half-way, `Quiet`,
`Legible`. None is there for the proof alone: the property fails, or is not meant to hold,
without it.

A `TypeCorrect` in each module states `Spec => []TypeOK` (`ReleaseTypeCorrect` for the
pipeline). `TypeInv` is `TypeOK` where it was not inductive by itself: what an attempt has
read is a configuration (`Resolver`), a promise follows one that was made
(`SSHConnection`), an authority and its destination belong together (`HostWindows`).

### `ServerSetupProofs`: any number of runs, any faults, any flags

- `InstallerIsExclusive`. The invariant is `LockHeld`: a run between the lock and its
  result owns the lock, counting the children of a killed one. Each step moves one
  run, takes the lock only when it is free and gives up no lock but its own.
- `ServerIsUnique`. That there is one server is not inductive: a second would be
  started if the probe did not see the first. `ServerInv` adds what the probe relies
  on: a run that has not forked has no server (`NotStarted`), a server whose run is
  past line 255 is the one in the pid file (`Recorded`), while a run is between the
  probe and line 255 there is no other server (`NoOther`), and there is one at most
  (`OneGuarded`). The exception `lost` is a run interrupted between lines 254 and 255.
- `CredentialsAreKept`, an action property from the same invariant: a step that removes
  or rewrites the token or log belongs to a run past a probe that saw nothing.
- `ReportsAreCoherent`: `CredentialInv` relates the token file, the token a run has
  read, the token a server has loaded and the lines of the log. "Lost" runs stay lost
  (`LostForEver`), so the theorem may assume there are none.
- `ServersStartComplete`: `TreeInv` says what each stage has established about the tree,
  and that whoever finds the server script finds the rest of the archive, unless `tar`
  is at work (`TreeExtracted`) or was cut short, and the verified rest once nobody was
  killed (`TreeVerified`). Its hypothesis `"disk" \notin Faults` is that `tar` does not
  stop anywhere but before the server script; the code does not ensure it, and
  `setup_tar` is the counterexample (finding 1).
- `ImplementsRemoteServer`: the script refines `RemoteServer` under the mapping of the
  instance. Initial states map to initial states; then every command is a step of
  `RemoteServer` or a stutter, command by command. Beyond the invariants above it needs
  that a report is made at the end only, and names servers that have listened, because
  what was told must not change with a token loaded later (`ReportInv`).
- `LockIsGivenBack` needs neither flock nor `PromptExec`: the owner of the lock is at work
  or was killed (`OwnerAtWork`), and no report names its server (`OwnerUnreported`). A
  server that inherited the lock from a killed run is thus one that no window was told
  of, which is what its own end, `AutoShutdown`, requires.

`HasFlock` is line 48's test: without flock the script says it goes on unprotected, and
nothing is promised. `PromptExec` is that a forked child has executed its command before
another run looks for it; between the two its command line is still the script's and no
`ps` can tell it (line 233). It is part of the properties that need it.

### `InstallCodeServerProofs`: any calls, hosts, settings and lists of releases

- `ResultsAreReports`: a run prints once, when it is past its work (`PrintedOnce`), so what
  a channel has carried is a beginning of what was printed, and only the whole parses.
- `ServersAnswer`: without a lock, what keeps the servers of a Windows host one is that
  runs keep `apart`. Under it `Exclusive` says what a run then finds: it is alone,
  whatever server cannot be seen yet is watched by its own run (`Watched`), and none is up
  while one is about to be started (`NoServer`). `Credential` follows a token from the
  file to the server, to the line of the log and to the printed result.
- `ClosestIsChosen`: the number that a row of digits spells is a number, and among finitely
  many releases of one version one has the largest, each by induction over the length;
  a call keeps what it has chosen until it downloads it (`ReleaseOfCall`).

### `HostWindowsProofs`: any windows, hosts, folders and configurations

- `DestinationsAreReached`: what an authority stands for is an invariant (`Meant`): a window
  that is opened for a destination has the lowercased encoding of its text as authority.
  The rest is that reading an authority undoes this. A text that is spelled
  [user@]hostname[:port] parses to its parts (`ParseSpelled`), `parseEncoded` undoes the
  encoding and the lowercasing (`RoundTrip`), and `split('+')` leaves an authority alone
  that has no plus of its own (`Uncut`). `Legible` says what the code needs besides: a host
  name and a port hold no `@` and no `:`, and a user name no `:` (so not the address of an
  IPv6 host), the text holds no `\xNN` of its own, and its beginning is not the hex of a
  number. `destination_hex` is the counterexample without the last (finding 4). A window
  with a plus in its authority is the property's own exception (`Cut`): of user+tag@host
  the code reads "user" (`authResolver.ts:117`), so that the resolver connects to another
  host than was typed.
- `HistoryIsKept`: a window that is not behind has exactly what is stored (`Current`), and
  so loses nothing when it writes its copy whole. It needs `DestinationsAreReached`, since
  a location is filed under the host the resolver reads back; a folder of user+tag@host is
  filed under "user" (`remoteLocationHistory.ts:42`, `49`), and of such windows, as of a
  window that writes a copy that is behind, the property says only that no location is
  stored twice, which holds always (`Single`).
- `HostsAreInOrder`: the property reads a configuration line by line, going into the files
  of an Include where it stands (`ReadingOrder`); the code expands each file into a list,
  splicing from the last Include to the first, and then collects names. Splicing from the
  end leaves every earlier position where it was found, so a file expands to its lines with
  each Include replaced by what its files expand to (`ExpandIs`). Includes lie deeper than
  the file that has them, so both readings are defined for every file (`DepthRecursion`)
  and name the same hosts in the same order (`FilesRead`, by induction over the depth). Of
  a list of names the loop keeps each host where it comes first (`HostsOfLines`), which is
  what the tree must show, as no two hosts first occur at one place (`ShownInOrder`).

### `SSHConnectionProofs`, `SSHTunnelsProofs`

- `ClientsAreExclusive`: only the newest Client can be live, and a `close` handler that
  waits for its timer is that Client's (`Newest`): the memoized promise is cleared only by
  the listeners of the Client it belongs to.
- `BudgetIsKept`: the Clients of a row without a `ready` were all counted (`Counted`).
- `RegistryIsCoherent`: an entry is a server with a port (`Entries`), however calls
  overlap: the callbacks of a server that closes or fails delete the entry of its name,
  whichever server it is for by then. Conversely a server with a port is under its name (`Found`) as long as no call
  for that name came while another was pending, for then a pending call is alone with its
  name, which is free (`Waiting`). `overlapped` remembers the names for which that is not
  so: `addTunnel` looks at the registry before an asynchronous `listen` that writes it, and
  two such calls leave a listening server that no name leads to and that `close()` does not
  close. The callers in `authResolver.ts` wait for each call, and give tunnels names of
  their own; `addTunnel` itself does not ensure what its comment says, "Add new tunnel if
  not exist" (line 275).
- `CloseWaitsForAnswers`: what overlapping calls leave behind is a server without an entry,
  never an entry without its server (`ClosingInv`), so `close()` tells every server it
  waits for to close.
- `UsesAreAttended`: a pending promise has a live Client or its timer, and one that follows
  follows a later one (`Links`). As the promises of any set have a last one (`LastPromise`,
  by induction), a row of promises leads to one that will be settled.

### `ResolverProofs`: any number of attempts and jumps

Attempts follow each other (`Sequential`), which is an invariant because `Resolve` waits
for it.

- `ResultsOnOwnConnection`: an attempt about to open its tunnel finds in the field the
  newest SOCKS server there was, and that is its own if it has read dynamic forwarding on
  (`OwnSocks`). The setting is read anew in each attempt (line 129) and the field is never
  cleared (282, 395), so that an attempt that has read it off uses the SOCKS server of an
  earlier one, whose connection may have gone. That happens in the run and is not excluded
  by the property: no document says what such an attempt should do.
- `AgentSocketsLive`: terminals get the path of the newest attempt (`EnvIsNewest`), whose
  channel nobody but `dispose` closes (`ChannelOpen`).
- `TunnelsAreClosed`, under `Quiet`: `dispose` runs between attempts. The resolver remembers
  the tunnel of every result until then (`DisposedInv`). A `dispose` that comes while an
  attempt waits misses the tunnel that the attempt opens afterwards, as TLC shows at once.
- `FirstChainsAreClosed`, under `Quiet`: the first connection remembered is the first jump of
  an attempt that has jumps, and an attempt with jumps finds one remembered (`ProxiesInv`).
  So `dispose` closes what carries the connection in use. Where the first jump is of another
  attempt it does not, as `resolver_parent` shows (finding 2).

### `AuthHandlerProofs`: any files, keys, agents and limits

- `EveryKeyIsTried`: whatever the order of the reads, what is collected is what the files
  read so far hold (`FilesRead`); matched with the agent's keys, by induction over them,
  that is what may be used (`GatheredKeys`); and the keys tried and left are together that
  all the time (`KeysTried`).
- `AgentComesFirst`: the second half of `KeysTried`: before a key that may need a
  passphrase, all the agent's have been tried.
- `CancellingIsFinal`: a cancelled password or question leaves no counter with which another
  prompt could be opened; the handler may be called once more, and finds nothing (`CancelEnds`).
- `StepsDwindle`: a measure (`StepsLeft`) of what is left to be used up (`Stock`: keys,
  passwords, answers, stages) and of how near the turn is to the next use (`Distance`) falls
  with every step after the keys are gathered. The exception is a keyboard-interactive
  request that the server refuses without a question, which costs nothing (only `prompt`
  counts, line 569); `AuthenticationEnds` allows a server to do so for ever.

### `ReleasePipelineProofs`: any runs, assets, commits, versions and failures

- `PublishedReleasesAreWhole`, `PublishedReleasesStay` (an action property), both from
  `ReleaseInv`: one run is active (`OneActive`, the concurrency group), what it has
  planned is still unpublished (`Planned`: the plan is old but nobody else could
  publish since), and what it uploads is its own build (`Publishing`). Without
  `OneActive` the plan could be overtaken, and neither theorem would hold.

### Assumptions on constants

The modules' `ASSUME`s, evaluated by TLC on every run: sets are disjoint from the marks
`None` and `Blank`, limits are numbers, the list of
releases is a sequence of titles, whose third part has a digit (`WishAssumption`),
configurations are finitely many files of finitely many lines, name hosts or patterns and
include each other in no circle (`ContentAssumption`),
another extension writes the hex of a destination (`ForeignAssumption`), and the codes of
capital letters differ and hold no capital and no hex of JSON (`DestinationAssumption`).

### Folds

The number a row of digits spells, the matching of keys, the list of hosts and the
removal of a location are loops in the code and folds (`FoldLeft`) in the model. That such a fold is
defined, and what it returns, is proved by induction over sets of numbers (`LeastNumber`,
`NumberInduction`, `FoldExists`), which needs no theorem with an operator parameter. The
same way a recursion over the files that include each other is defined for every file
(`DepthRecursion`), and what holds of a file when it holds of the files it includes holds
of all (`DepthInduction`).

### Only model-checked

- All liveness, which is out of the prover's reach: `Terminates`, `LockRecovered`,
  `CallEnds`, `CloseEnds`, `EveryUseSettles`, `AttemptSettles`, `FirstChainReleased`,
  `AuthenticationEnds`, `LatestIsPublished`. What five of them rest on is proved, for every
  value of the constants; that fairness then leads to the end is what TLC checks:

  | Liveness | Proved |
  | --- | --- |
  | `LockRecovered` | `LockIsGivenBack`: the owner is at work, or what it left ends by itself |
  | `CloseEnds` | `CloseWaitsForAnswers`: every server waited for was told to close |
  | `EveryUseSettles` | `UsesAreAttended`: every use waits for something that will happen |
  | `FirstChainReleased` | `FirstChainsAreClosed`: what carries the connection was told to close |
  | `AuthenticationEnds` | `StepsDwindle`: every step uses something up |
- The four properties of the runs that expect a violation.

## 5. What is not modelled

- The contents of files, messages and logs; quoting and templates of the scripts.
- The sed of `product.json` (`server-setup.sh:223-231`): it changes nothing the
  properties tell apart.
- Two servers' versions: `pid`, `token` and `log` files belong to one commit. Runs of
  different commits share the lock file only.
- `connect()` with an invalid configuration (`sshConnection.ts:225-231`): no caller
  produces it.
- The error dialog of the first attempt and the mapping of errors to the editor's
  `NotAvailable` and `TemporarilyNotAvailable`.
- Two steps of one event loop that nothing comes between: `Activate` and
  `DeleteHostLocation` take the read or the update of `globalState` together with what
  follows it (the editor keeps the value in memory), and `ServerSetupPs1!RemoveStale`
  deletes log and token at once.
- In the authentication loop: a server that changes `methodsLeft` with a plain refusal
  (the model lets it after `none` and after a partial success); a keyboard-interactive
  request without questions, which ssh2 answers by itself.
- An `uname` that answers 'windows32' (`serverSetup.ts:130`): the shell stays PowerShell,
  which is right for a host that has it, as where `uname` is unknown, and wrong otherwise,
  as where the platform is set and the answer lost; both ways are in the model.
- In the release workflow, a `gh release view` that fails for another reason than that
  there is no release (`release.yml:127`): `gh release create` then fails, as at any step.
- Typed destinations that can be read in two ways, such as the address of an IPv6 host;
  `SSHDestination` takes the last `@` and the last `:` as the code does, but the runs type
  destinations that [user@]hostname[:port] spells in one way.
- "Re-run failed jobs" of a workflow run. Whole runs are re-run by `Dispatch`.
- The pid file and the edit of `product.json` in `server-setup.ps1`: the first is read by
  nobody there, the second changes nothing the properties tell apart.
- What a login shell of a posix host does with the command of `installCodeServer`: it ends
  with a result or without.
- `findServerInstallPath`, a lookup in settings; `getHostConfiguration`, which is the
  ssh-config package's `compute`; `addNewHost` and `openSSHConfigFile`, which open an editor.
- Configuration files that include each other in a circle: the code reads them for ever.
- `common/ports.ts` and `ssh/hostfile.ts`: nothing calls them but `findRandomPort`, which
  asks the system.
- `overlay/verifier`, `overlay/moduleignore.mjs`, the build scripts: stateless or
  straight-line code that its own tests and smoke runs exercise.

## 6. Plan

Done, in the order of importance: `ServerSetup` with its proofs, `SSHTunnels`,
`SSHConnection`, `Resolver`, `AuthHandler`, `ReleasePipeline` with its proofs;
`RemoteServer` and its refinement, `InstallCodeServer` with `ServerSetupPs1` and
`FetchRelease`, `IdentityFiles` inside `AuthHandler`, `HostWindows` with `SSHDestination`
and `SSHConfig`.

Proved since: the refinement of `RemoteServer`, the safety properties of every module, and
what the liveness properties rest on (section 4).

Next:

1. Modules: `SSHSession`, in which the sockets of `SSHTunnels` are uses of
   `SSHConnection`; the `install` step of `Resolver` composed with `InstallCodeServer`.
