# flar: a TLA+ verification project

flar runs a coding agent (claude, codex, agy, copilot, reasonix, kimi, pool,
qwen or mimo) in a bubblewrap sandbox. This directory holds TLA+ models of what
flar does around the agent, TLC configurations that check them on small
instances, and proofs, checked by TLAPS, for all instances. Paths are relative
to the root of the repository: `src/x.go:n` is line n of its file `x.go`.

Contents: [inventory](#inventory), [modules](#modules), [runs](#runs),
[theorems](#theorems), [disagreements](#where-code-and-documents-disagree),
[limits](#what-is-only-model-checked-and-what-is-not-modelled), [plan](#plan).

Run `tlc -config X.cfg M` for the runs listed below and `tlapm MProofs.tla` for
the proofs. `PROJECT.json` lists the lines each definition stands for.

## Inventory

flar is one process on the host, the sandbox it starts, and copies of its own
binary in the sandbox (`--internal-proxy`, `--internal-secretsvc`).

    host                                   | sandbox (pid namespace, own network)
    main -- PrepareConfigDir, seeding      |
      |  -- HttpProxy, PortProxy  <--unix sockets-->  RunSandboxProxy <-- agent
      '-- RunSandbox -- bwrap monitor ===== pid 1 -- agent
                                           |   RunSecretService <-- agy

### Supervision of bwrap: `RunSandbox`, src/container.go:1074-1242

* State: two pipes (options, seccomp filter), the pid of the agent in a
  variable shared between goroutines, a channel of four signals, one more
  channel for the result of writing the options.
* Operations: open the pipes, start bwrap, write the options (own goroutine),
  look for the agent's pid in /proc (own goroutine), forward the first SIGTERM
  or SIGHUP to the agent and kill bwrap on the next (own goroutine), wait for
  bwrap, report its status as an exit code.
* Interaction: bwrap reads the options until end of file, forks the sandbox's
  pid 1, which forks the agent, reaps it and reports its status; the kernel
  kills the namespace with pid 1; orphans become children of pid 1.
* Hard: four goroutines and three processes; a pipe that fills; bwrap dying at
  any moment; signals before the agent exists or after it has ended.
* Correct when: the agent has all its options or does not run; the code
  returned is the agent's; descriptors are closed on every path; a signal
  reaches the agent and nothing else; RunSandbox returns.

### Session: `main`, src/main.go:185-262, and the accept loops of src/proxy.go

* State: the directory with copied credentials (`PrepareConfigDir`,
  src/config.go:11-160), the directory with the sockets, the HTTP proxy and the
  port proxies, each with a listener and a loop on its own goroutine.
* Operations: make the directories, start the proxies, run the sandbox, close
  the proxies one by one, remove the directories, exit.
* Hard: a failure half way (os.Exit skips every defer); an Accept that returns
  while the listener is being closed; Close waiting for a loop.
* Correct when: the sandbox starts with everything in place; nothing is left
  after it; Close returns, and no connection is handled after it.

### HTTP proxy: src/proxy.go:89-312

* State: per request what was looked up and which address was chosen.
* Operations: parse the destination, resolve and check, dial, tunnel (CONNECT)
  or forward a request, copy the response, Close.
* Interaction: RunSandboxProxy connects to its socket for each connection in
  the sandbox; it is the only way out of an isolated sandbox.
* Hard: a resolver whose answers change between two lookups; answers of
  several kinds of addresses; redirects; ends that go away at any moment.
* Correct when: only permitted addresses are dialed, and no handler outlives
  both of its ends.

### Relays: src/proxy.go:60-79 (PortProxy) and 314-349 (RunSandboxProxy)

* State: per connection two copies and two connections.
* Operations: accept, dial the next hop, copy both ways, close both when the
  first copy ends.
* Interaction: two relays in a chain, TCP to a unix socket to TCP.
* Hard: the first end tears everything down while data is under way; a dial
  that fails after the hop in front of it was set up; half-open connections.
* Correct when: nothing is lost or held back while the streams are open, a
  response that ends properly arrives whole, and connections are released.

### Per-project session stores: pool.go, codex.go, kimi.go, mimo.go, copilot.go, agy.go

* State: one directory per agent and project, named by a slug of the project's
  path (src/config.go:272-282): $XDG_STATE_HOME/flar/AGENT/SLUG, by default in
  ~/.local/state, for codex, kimi, pool and mimo (src/codex.go:58-63), and
  ~/.copilot/.flar/SLUG and ~/.gemini/antigravity-cli/.flar/SLUG for copilot and
  agy. It has sessions, perhaps a database and an index, and a marker once it was
  seeded. It outlives runs.
* Operations: look for the marker; refresh configuration; copy or filter the
  host's sessions of this project; write the index; write the marker.
* Interaction: the store is bound in the sandbox, where the agent continues
  its sessions; the agent on the host writes the originals meanwhile; another
  flar may use the same store.
* Hard: crashes and errors between any two steps; a database that is first
  copied whole and then filtered; no locks.
* Correct when: no session of another project is ever in reach of a sandbox; a
  store is seeded once and completely; what was continued is never lost.

### Configuration and the choice of the agent: src/main.go:41-166, 274-404

* State: none; the settings are a function of the flags, the project's
  `.flar.json`, the global file and the agents that are installed.
* Operations: read one of the two files (the project's wins as a whole, without
  network, ports and cache), let flags win over it, fill in defaults, look for
  an agent, reject what is not valid.
* Hard: several sources with rules of their own; the project's file comes with
  a repository that need not be trusted.
* Correct when: that file cannot widen the sandbox by any combination.

### Temporary configuration and mounts: src/config.go:11-476, src/container.go:317-383, 504-988

* State: a temporary directory with a filtered copy of the agent's
  configuration; a list of bwrap options, made once, that bwrap applies in order.
* Operations: copy with a list of names to skip, or of names to take; bind the
  copy, then the store or the live directory of the project in or over it; bind
  the project, flar and the agent; name the variables the sandbox gets.
* Interaction: what is skipped by the copy has to be what is mounted over it.
* Hard: the two lists are in different files; a late mount hides an early one.
* Correct when: the sandbox shows the agent's configuration and the project's
  own history only, and everything that has to outlive it is the original.

### Startup script of the sandbox: src/container.go:465-499

* State: the relays and the secret service, started in the background.
* Operations: start a relay per port, sleep, start the secret service, look for
  its socket up to fifty times, execute the agent.
* Hard: it waits for a time or a file, never for an event; helpers may die.
* Correct when: the agent is started whatever becomes of the helpers.

### Secret service for agy: src/secretsvc.go:37-526

* State: per connection a buffered reader, whether the handshake is over, and
  the serial of the last reply.
* Operations: the part of D-Bus and of the Secret Service API that agy's
  keyring library calls, for one token: accept, handshake, read a message,
  dispatch, reply.
* Interaction: agy's keyring library in the sandbox; the startup script waits
  for the socket.
* Hard: messages in pieces, or several at once, also together with the last
  line of the handshake; clients that are silent, wrong, or gone; a full socket.
* Correct when: each call is answered once, in order, with its own serial,
  whatever other clients do, and connections are released.

### Seccomp filter: src/container.go:405-456

* A BPF program of eleven instructions with relative jumps. It refuses the
  ioctl TIOCSTI under its numbers on x86_64 and aarch64, and allows everything
  else, other architectures included.

### The rest

* The scan of OpenSSL's configuration for `.include` lines, which finds more files
  to bind (src/container.go:162-298), the agents' command-line flags (990-1052),
  usage and logging: look-ups and text without state.

## Modules

Every module stands for the handlers it names, one action per step that another
process, goroutine or failure can come between. Definitions whose comment says
what is wrong with them (`ReportBare`, `CopyReadLast`, ...) are plausible errors
in the code; they occur in no specification and are there to test the
properties: put in the place of the right definition, each makes its property
fail.

### SandboxRun, SandboxRunProofs

The four goroutines of `RunSandbox` (`pc["main"]`, `"writer"`, `"lookup"`,
`"handler"`), the pipe as counts (`written`, `got`), the open ends of both pipes
(`fds`), the signals in the channel (`sigs`), bwrap's monitor (`mon`,
`monStatus`), the sandbox's pid 1 as the list of its children (`kids`) and the
agent. Actions of bwrap, the kernel and the agent are external: modelled from
how the code uses them. A blob of options is a number of units, one of
`BlobSizes`, that the pipe holds `PipeCap` of.

Each thing that can fail before the start is an action: the two pipes
(`OpenArgsPipe`, `OpenSeccompPipe`), the write of the filter (`WriteFilter`) and
the start itself; each has its own list of ends to close. The handler takes a
signal, loads the pid, swaps its flag and then asks or kills in four steps
(`TakeSignal`, `LoadPid`, `SwapFlag`, `SendTerm` or `KillMonitor`), for the
lookup, the agent and bwrap go on between them. Others may kill the monitor at
any time (`KilledFromOutside`; `BwrapDies` before there is a sandbox).

### Session

`main` as a program counter over its stages; per proxy its socket file,
listener, accept loop, queue of connections and the handlers started. Proxy 0
is the HTTP proxy. RunSandbox is one stage, of any duration. `Killed` is the
death of flar at any moment, without any cleaning up.

### HttpProxy, MCHttpProxy, HttpProxyProofs

The handler of each request as a program counter. `Answers` is the set of
results a lookup may have: `Resolve` takes any of them at any time, which is a
resolver that can say something else each time it is asked. `Refused` and
`Chosen` are `resolveAndCheck` on the whole answer. Addresses are of four kinds
(IPv4 and IPv6 loopback, private, public); `isLocalOrPrivateIP`'s ranges are the
kind private. `gone` and `ended` are the requests whose client, or destination,
has closed its connection. A tunnel has two copies, a response one; `writing`
are those that are blocked in a write, because the end they write to does not
read (`WriteBlocks`, `EndReads`). Such a copy does not see that the end it reads
from has closed (`CopyEnds`). A redirect is a response like any other
(`Respond`): the request the agent then makes is a new one.

### Relay, RelayProofs

One connection through `NRelays` relays. A link has a buffer for each
direction; `fin` and `shut` are the ends that will not write any more and that
are closed. A relay dials, runs one `io.Copy` for each direction (`copy`:
between two chunks, with a chunk in hand, done) and closes the right connection,
then the left one, as its deferred calls do. `CloseEnd` is close(2): what was
unread is dropped, and then the peer is reset and may lose what was under way
to it. The client and the server do what they want.

### SeedStore, MCSeedStore, ForkOnce, SeedStoreProofs

One specification for the six stores: they go through the same steps with
different policies (`PoolPolicy` ... `AgyPolicy`: is configuration copied; do
rows come from a snapshot that is filtered, by insertion, or is there no
database; how are sessions attributed; is an index copied, rebuilt or absent; do
errors stop the run). `agent` is one of `Agents`, chosen at the start.
`store[s][c]` says how many turns of session c in store s are the host's and how
many were made in a sandbox. Runs are processes of flar, which can stop at any
step (`Abandon`). Sessions that cannot be opened, read or parsed are passed over
without an error (`AttributeSessions`), and the marker is written all the same.
`storeConfig` is one file of the configuration (0: absent): refreshing adds and
overwrites but removes nothing (`Refreshed`), and the agent may change or remove
what it finds (`EditConfig`). A store is named by a slug, and `SlugOf` may give
two projects the same. `Shared` are the agents whose stores several runs may use
at once, `Wiped` those whose data the user may remove from the host.

`ForkOnce` is the abstract specification: a store is forked from the host once,
filtered, and afterwards only the agent in the sandbox changes it. SeedStore
implements it under the mapping that a store without marker is nothing yet.

### SecretService, CallServer, MCSecretService, SecretServiceProofs

Per connection: how many words of four bytes the client has written (`sent`),
how many are in the buffered reader (`fetched`) and how many were taken from it
(`pos`); what a word holds follows from the client's `script`, a sequence of
items (first byte, lines, messages) with their places. `Fetch` is a read of
whatever has arrived; `ReadNul`, `SaslLine`, `Begin`, `ReadMessage` and
`BadMessage` take one item each once it is complete, and reply through `pend`
and `WriteReply`, which waits while the socket is full. The clients write
ahead as far as they like, cut what they write, and leave. `Reply` has the kind
of the answer, the serial it answers and its own.

`CallServer` is the abstract specification: questions are asked in order, and each
that has an answer is answered once, in order, with its own answer. SecretService
implements it: `asked` is the number of items that were sent completely, `answers`
are the replies a client has read and those in its socket.

### ConfigResolution, SandboxMounts, SeccompFilter, Launch, MCLaunch, MountsProofs, LaunchProofs

`Launch` composes the three others: one start of an agent, from flags and files
to the agent's first instruction. ConfigResolution is `LoadConfig`, the flags,
the defaults and `autoDetectAgent` as functions (`Resolve`, `Valid`).
SandboxMounts has the mounts as the sequence of options they are (`Mounts`), and
what such a sequence shows at a path: `View` is the source of the last mount
over it, `Visible` says whether a file of the host is seen anywhere in the
sandbox. `HostFiles` are the files that the nine agents keep, each of a class
(configuration, history of this project, history of others); `CopySpecs` says
what `PrepareConfigDir` copies: a .claude.json or a list of projects in it that
cannot be parsed is copied whole (`ClaudeJson`). The memory directory that
mimo's sandbox gets is named by an id in the store's database, which the agent
can write (`memory` of a host), and a live directory that cannot be made is not
bound and nothing is said (`live`). `Exposed` names what these let through.
`Apart` and `FilesApart` are not code: they are the hosts that the theorems
about mounts speak of. SeccompFilter is the program, and a machine that runs it.
In `Launch`, `ResolveSettings`, `Prepare` and `BuildOptions` are main's steps,
`StartRelays`, `Slept`, `StartService` and `Look` are the script's, and
`BindHelper`, `ListenHelper` and `HelperExits` those of the relays and the
service. `MCLaunch` builds the inputs.

## Runs

Deadlock is not checked: all of these systems come to an end (flar exits, a
connection is closed, a bound is reached), so there are final states by design.

| run | module, cfg | shows |
|---|---|---|
| sandbox | SandboxRun | Blobs that fit the pipe and one that does not, three signals for a channel of two, agents that exit, crash or leave orphans, a monitor that is killed by others: options complete (`AgentHasAllOptions`), the right code once an agent was started (`ReportedStatus`), no leak (`NoDescriptorLeak`), right pid while the agent runs (`PidOfLiveAgent`), a request before the kill (`GracefulFirst`); RunSandbox returns after bwrap (`ExitReturns`), and after two signals (`TwoSignalsReturn`), provided that the pipe holds what bwrap has not read. |
| sandbox_hang | SandboxRun, SandboxRunHang | Violation: with a larger blob it need not return (`BwrapExitReturns`). |
| sandbox_status | SandboxRun, SandboxRunStatus | Violation: a bwrap that read nothing of its options has its status returned as the agent's (`NoStatusWithoutOptions`). |
| session | Session | Everything is in place when the sandbox starts (`ReadyBeforeRun`), nothing is left after a run (`NothingLeft`) nor after a failed start (`FailureUndone`, sockets and their directory), no connection is handled after Close (`NoHandlerAfterClose`), which ends (`CloseEnds`). |
| session_config | Session, SessionConfig | Violation: a failed start leaves the copied credentials. |
| http_proxy | MCHttpProxy, HttpProxy | Only permitted addresses are dialed (`OnlyPermitted`), nothing at all for mixed answers (`MixedRefused`), the right one of the checked addresses (`DialsChecked`), handlers end also out of a blocked write (`HandlersEnd`). |
| relay | Relay | No chunk is lost or doubled while the streams are open (`Conserved`), idle connections stay (`OpenWhileUsed`), a response that ends properly arrives whole (`CompleteResponse`), every connection is released (`ChainCloses`). |
| seed_stores | MCSeedStore, SeedStores | All six stores: sessions of the own slug only (`Isolation`), all that could be read when marked (`SeedComplete`), index without dead names (`IndexNamesPresent`), copilot's configuration that of this run (`ConfigCurrent`), no turn lost (`NoClobber`), refinement of ForkOnce (`ForksOnce`). |
| seed_concurrent | MCSeedStore, SeedConcurrent | Violation: two first runs at once expose the unfiltered snapshot. |
| keyring | MCSecretService, SecretService | A client as go-keyring's, a wrong one, a big-endian one or none at all, next to a silent one: refinement of CallServer (`ServesCalls`); every call is answered and every connection released, whatever the other client does (`Served`). |
| launch | MCLaunch, Launch | Settings a project's file cannot widen (`ProjectCannotWiden`), mounts that show the own history, and of others only what `Exposed` names (`OnlyOwnHistory`), and hide nothing that has to be in place (`InPlace`), a filter that refuses TIOCSTI and nothing else (`TiocstiDenied`), a script that reaches the agent (`AgentStarts`). |
| launch_env | MCLaunch, LaunchEnv | Violation: the sandbox gets other agents' credentials from flar's environment. |

### Bounds

* SandboxRun: the blob is 3 units for a pipe of 2 (it must be drained for the
  writer to end), or 2 for 2 (it need not be). Three signals overflow the channel,
  which holds two here and four in the code: the handler tells the first signal
  from the later ones and no more. Exit codes: zero and another; two fatal
  signals, one of them the one flar sends, and two the monitor may be killed with.
* Session: two port proxies, so that one can fail after another has started;
  two connections to each proxy, so that one can wait in the queue while the
  other is accepted.
* HttpProxy: two requests, so that one is served while another one is checked or
  the server closes; answers of up to two different addresses of four kinds, which
  is every pair of kinds in either order, and none. The proofs cover the rest.
* Relay: two relays, as in the code; links of two chunks and three chunks each
  way, so that a sender can be blocked by a full link, with a chunk in each copy.
* SeedStore: three projects, two with one slug; one has two sessions (so that one
  is copied before a crash and one is not); two runs of any project, one turn each
  on the host and in the sandbox; a configuration file that is there, is not, or
  is the agent's own.

* SecretService: sizes are counted in words, as lengths are padded to eight bytes
  at most; a client writes whole items, and one or five words of one, so that a
  message is cut in its header and in its fields. The socket holds one reply, so
  that the service waits in a write. The second client is silent, and blocks
  whoever waits for it.
* Launch: files and flags with each field set or not, and present, absent or
  not to be parsed; one allowed port that is not the HTTP proxy's and one that
  is. The script looks for the socket three times, not fifty: what matters is
  that it may give up before the socket is there. Projects in the home directory,
  elsewhere and in /tmp, apart from the agents' own directories; an agent's
  program in /usr, in the home directory, and a link from there to /usr; hosts on
  which live directories cannot be made, .claude.json cannot be parsed, or mimo's
  database names another project. The
  XDG directories are the default ones.

### Fairness

* SandboxRun: weak fairness of each goroutine and of bwrap, which are scheduled
  when they can run. Nothing makes the agent end: `TwoSignalsReturn` does not
  depend on it.
* Session: weak fairness of main and the accept loops; `Accept` on an open
  listener may fail for a time, and on a closed one returns. The end of the
  sandbox is no part of it.
* HttpProxy: weak fairness of the handlers: a lookup and a dial end with a
  result or a timeout of the system, and a copy ends when it can see that an end
  has closed. A copy that is blocked in a write cannot, so that it is also assumed
  that the end it writes to reads on in the end, or closes (`EndReads`).
  Destinations need neither answer nor close.
* Relay: weak fairness of each copy and relay, and of the client and the server
  reading while they are open. The last is needed: a server that never
  reads keeps a relay in a write, and the relay then does not see that the
  client has gone. Nothing makes either of them send or close.

* SecretService: weak fairness of the listener and of each connection's
  goroutine, and of a client that is still there and has a reply to read: one that
  does not read may keep its own goroutine in a write for ever. Nothing makes a
  client write or leave.
* Launch: weak fairness of main and the script; none of the helpers, which may do
  nothing at all.

## Theorems

For all values of the constants that satisfy the assumption of the module
(`SizesAssumption`, `StatusAssumption`, `ConstantsAssumption`,
`ProxyAssumption`, `RelayAssumption`, `SessionAssumption`, `LaunchAssumption`,
`ScriptsAssumption`; TLC evaluates them in the runs, and with `ApartAssumption`
of MCLaunch the hypotheses of the two theorems about mounts on that run's
hosts). In each proof module the type invariant comes first (`TypeCorrect`),
then invariants of growing strength, each shown for one step under those before
and combined with PTL.

* SandboxRunProofs. `PipeInvariant` says for each place of `main` which pipe
  ends are open, and how far the writer is; the step that matters is that flar's
  own read end is open as long as the writer writes, so that EPIPE cannot occur
  (which is why the status of a bwrap that read nothing is reported).
  `AgentHasAllOptionsHolds` and `NoDescriptorLeakHolds` follow.
  `ReportedStatusHolds` needs how the statuses of agent, monitor and `Wait`
  depend on each other (`StatusInv`), `PidOfLiveAgentHolds` that the agent is
  the first child as long as it lives (`PidInv`), `GracefulFirstHolds` what the
  handler knows at each of its steps (`AskInv`): a pid that was stored before
  the first signal is the one the handler loads, and once its flag is set it has
  asked, or is about to.
* HttpProxyProofs. `Inv` says that a handler past the check holds an address that
  was checked for its port and answer. `FirstInSet` needs that a non-empty set
  of indices has a least element, for sequences of any length; `Least` gets
  it from the library's theorem that < is well-founded on the naturals.
* RelayProofs. `Dialing`: relays dial one after the other, so the server is not
  connected while any is dialing. `Quiet`: while the client and the server go on
  nothing has ended in links, copies and relays. `OpenWhileUsedHolds` follows.
  What a link and the copies hold is counted as the number of elements of a set
  (`Chunks`, `Writing`), so that a step adds or removes one element of it
  (`HeldPlus`, `TotalMinus`, ...) and no induction is needed. `ConservedHolds`
  follows with `Idle` (a relay that has not dialed holds nothing) and `Ended`
  (an end that is finished was finished by whoever owns it), for a read moves a
  chunk from a link to a copy, a write moves it on, and only a finished end
  drops one. `CompleteResponseHolds` needs more than its own statement: `Draining`
  says that, once the server has closed, having heard everything, nothing of the
  response is lost (`Kept`), and that when anything of relay k is over, the
  response has passed relay k. That holds because nothing is under way upwards
  then (`NoneAdded`, `UpEmpty`), so that no write there can fail and end a copy,
  and because a copy downwards ends at an end of stream, which is behind the
  last chunk, or at an end that only a relay that was passed has closed.
* SeedStoreProofs. `IsolationHolds` is about the four stores that take no
  snapshot: it assumes nothing of slugs, of concurrent runs or of the host's
  data. Stores filled from files are pure at all times (`PureFiles`, under any
  interleaving), for a session that is copied is the run's project's, and so has
  its slug. For codex and mimo `IsolationOfSnapshots` has the hypothesis that
  they are run one at a time and keep their data on the host, which the run
  seed_concurrent shows to be needed: their stores are pure only while no run is
  between snapshot and filter (`PureSnapshots`), and a run in its sandbox is
  past that (`Alone`, `Unmarked`). `NoClobberHolds` and `ForksOnceHolds` need
  `Marked` (a sandbox runs on a marked store only) and `Fresh` (a store without
  marker has nothing of a sandbox in it), for the stores that stop on an error
  (all but agy's), with one run at a time. Under the same conditions:
  `SeedCompleteHolds` from `Filling`, how far a seeding has come at each of its
  stages with the sessions that the host had when it began and that the seeding
  could read; it needs that the host still has them (`HostKeeps`, `NoneGone`),
  that they are the project's (`HadOwn`), and that nobody else is in the store
  (`Alone`, used through `OthersLeave`). `IndexNamesPresentHolds` from `Naming`:
  what was copied is there, and what an index written from it names; an index of
  an interrupted seeding may name more, so that the invariant speaks of it only
  after the index step. `ConfigCurrentHolds` from `InPlace`: the host's file is
  in the store at every stage between the copy of the configuration and the
  sandbox. A marked store loses no session in any step (`MarkedStoreStep`),
  which carries the first two through the sandbox.
* SessionProofs, for any number of ports. `TypeInv` counts connections (waiting,
  accepted, handled) to bound the handlers. `DiskInv` says for each place of
  `main` which directories there are; `LoopInv` that a loop returns only when it
  was told to, and that ports are started in their order; `PlaceInv` which
  proxies are up at each place. The order matters: `CloseChan` stops at the first
  port that was not started, and only since they were started in order are all
  of them closed then. The four properties follow from the conjunction.
* LaunchProofs. `TiocstiDeniedHolds` is `FilterExact`, which runs the filter
  symbolically: `StepLoad`, `StepJump` and `StepReturn` say what each
  instruction does, `ReachesReturn` follows the jumps by cases on architecture
  and number. `ResolveNoWider` is about the functions alone, for any flags and
  files; `SettingsStay` carries it over to the states. `Checked` is the
  invariant of the other two theorems: from the validation on, the settings name
  one of the nine agents, and its program was found on the host of the run. What
  remains is a statement about lists of mounts.

  `InPlaceHolds` rests on MountsProofs, for any project, programs and settings.
  A list `Shows` a source at a path when one of its mounts does and none after
  it is at or above the path, and `Misses` a path when none of its mounts is;
  both carry over to longer lists (`ShowsRight`, `ShowsLeft`, `MissConcat`), and
  `ShowsView` leads back to `View`. `MountsParts` names the six parts of
  `Mounts`. For each thing that must be in place one part shows it and the later
  ones miss it, or show it as it is (`KeepsFacts`): `ProjectInPlace`,
  `FlarInPlace`, `AgentInPlace`, `SessionsInPlace`, `SecretInPlace`,
  `CacheInPlace`, `NetInPlace`. The hypothesis is `Apart`: the project is not
  inside a directory that is mounted over later, no program is at or above the
  other one, the project or a place of sessions, and nothing of the host is
  where flar puts its sockets. The first is a real restriction (see below for
  projects inside an agent's directory); the second holds because programs are
  files and not flar itself, the third because /run/flar-net is flar's. The
  provers do not know that a literal is in STRING; `Part` adds those the model
  names.

  `OnlyOwnHistoryHolds` asks of every mount's source that it is `Open`: an
  agent's file at or below it is the agent's own or in the project.
  `HostFilesPlaced` says where each of the files of the nine agents is, by the
  parts of its path, and `FileOwners` whose files are below a name in the home
  directory; `MountsOpen` goes through the mounts and `CopiesMine` through the
  rules of `PrepareConfigDir`, agent by agent. So the order of the mounts does
  not matter to it: no source shows foreign history even where no other mount
  covers it, but for the two that `Exposed` names (`ClaudeExposed`,
  `MemoryOpen`). Its hypothesis, `FilesApart`, is that no program is at or above
  such a file.

* SecretServiceProofs, for any connections, any lengths of messages and any
  pieces of them. `ScriptsAssumption` says of a script only that its items follow
  each other without a gap and that messages come after BEGIN. `Conn` is the
  invariant of one connection: some number k of items has been taken (`Taken`),
  the reader is where item k ends, the serial is the number of calls among them,
  and the answers read, in the socket and in hand are as many as the questions
  among them. `NextIs` is the point at which the framing matters: where item k
  ends, the next item is item k + 1 and no other (`EndGrows`). `Advance` is the
  step that all readings have in common. `ServesCallsHolds` follows: a reply
  written is the answer to item k, whose turn it is in CallServer (`TakenAsked`,
  `WriteReplyAnswers`); a client's write asks (`WriteAsks`), all else stutters.

## Where code and documents disagree

Shown by a run each (PROJECT.json, "findings"): sandbox_hang, sandbox_status,
session_config, seed_concurrent and launch_env above. In sandbox_status, bwrap
dies before it has read its options, which fit the pipe: flar's own read end
keeps the write from failing, and the comment at src/container.go:1184-1188
counts on EPIPE.

Met while modelling, without a run of their own:

* The lookup of the agent's pid may run after the agent was reaped and store the
  pid of an orphan (src/container.go:1146); the comment at 1132-1138 says that
  the agent is pid 1's only child at that point. `LookupFindsAgent` of SandboxRun
  fails with the constants of SandboxRun.cfg.
* Two projects whose paths differ in punctuation only (/p/a-b, /p/a/b) have one
  slug, and one store (src/config.go:272), and find each other's sessions there.
  src/README.md:142 says that a sandbox can only ever see its own project's
  conversations, src/pool.go:55-56 that other projects' sessions stay invisible.
  `Isolation` therefore speaks of slugs (`Belongs`), and projects A and C of the
  run seed_stores have the same.
* .claude.json is copied whole, with the history of all projects, when it or its
  list of projects cannot be parsed (src/config.go:296-309; the first is said in
  the comment at 288-289).
* The id by which mimo's memory directory is mounted comes from a database in
  the store, which the agent can write (src/mimo.go:236-251). Another id mounts
  another project's memory.
* A live directory that cannot be made is not bound (src/container.go:710, 783,
  853, 887): sessions go to the temporary copy and are lost, without a message.
* Files of copilot's configuration that the host no longer has, or that the
  sandboxed agent has added, stay in the store (src/config.go:395-435).
* src/secretsvc.go:57-58 says that the service serves "the first (and only)
  client" and blocks until its connection ends. It serves any number, at the same
  time, until an Accept fails, and one failed Accept ends it for good.
* src/container.go:486, "Wait for the proxies to bind and start listening": the
  script sleeps for 0.2 s (`Slept` is enabled whatever the relays have done).
* `-allow-port 9090` and the relay of the HTTP proxy want the same port in the
  sandbox; whichever relay binds first stays (`Taken`).
* A project's file takes the place of the global one as a whole, so that it can
  drop the user's network, ports and cache, and turn off `ask`
  (src/main.go:281-292; src/README.md:88 calls `ask` safe). Neither widens the
  sandbox.
* A project inside the agent's own directory (~/.claude/skills/x) is hidden by
  the copy that is mounted after it, and what the agent writes there is lost
  with the temporary directory. `InPlace` is checked, and proved, for projects
  elsewhere. Likewise a project that is the home directory hides the mounts made
  below it before.
* Without a temporary configuration (PrepareConfigDir failed) no store is bound
  either, pool's included, of which src/container.go:830-832 says that it is bound
  "regardless of whether the config exists".
* An agent's program that is a link from the home directory into /usr is not found
  in the sandbox: src/container.go:930 looks at the link's target only, and does
  not mount the link. The premise of `InPlace` leaves it out.
* An agent without directories on the host has its sessions in the sandbox's
  home only; they are not kept.
* agy's marker may fail to be written and the run goes on (src/agy.go:54): the
  next run seeds over what was continued. NoClobber leaves agy out.
* agy's recency index is read from the host a second time after the
  conversations were copied (src/agy.go:129), and may name one that was not.
* A host without the database makes codex and mimo write the marker at once
  (src/codex.go:78, src/mimo.go:109), also when a killed run has left an
  unfiltered snapshot in the store. With `Wiped = {"mimo"}` TLC finds it.
* The comment at src/proxy.go:229-231 says that private addresses are
  reachable on allowed ports; the code, rightly, never dials them.
* A client that half-closes its connection after its request loses the response
  (src/proxy.go:78): the relays do not support half-closing, and nothing says
  they do. CompleteResponse is stated for clients that do not.

## What is only model-checked, and what is not modelled

Liveness (`ExitReturns`, `TwoSignalsReturn`, `CloseEnds`, `HandlersEnd`,
`ChainCloses`, `Served`, `AgentStarts`) rests on fairness and ENABLED, which
TLAPS does not reason about. Induction over data needs theorems with operator
parameters, which its backends cannot instantiate (the least-element argument
above is a way around that for two lemmas); RECURSIVE definitions are out of
reach for its SMT backend and none is used. Every invariant that a passing run
checks is proved, with the two refinements, for all values of the constants that
satisfy the assumptions and the hypotheses stated in the theorem. The copies of
`CopySpecs` and the lists of mounts are not recursive, so that they could be
proved about by cases.

Not modelled: the contents of messages, files and databases, but for what the
properties tell apart; the scan of OpenSSL's `.include` lines, the agents'
command-line flags, usage and logging; the text of the git configuration; `--dir`,
`--symlink`, /proc and /dev; bwrap, the kernel, agents and remote services, but
for how flar uses them. A conversation of agy is copied whole, though its WAL is
a file of its own (src/agy.go:66-87): nothing in flar keeps the two together, so
there is no property to check.

## Plan

Done: SandboxRun, SeedStore with ForkOnce, Session, HttpProxy, Relay, in this
order, because the first two hold what a user loses most by (a hanging or
misreported run, a foreign or lost conversation); then SecretService with
CallServer, and Launch with ConfigResolution, SandboxMounts and SeccompFilter,
which decide what the sandbox is given.

Left, in this order:

1. agy's WAL files as files of their own in SeedStore, if flar comes to copy them
   together.
2. An abstract pipe that Relay implements: counts of chunks sent and received.
3. The agents' command-line flags (src/container.go:990-1052).
