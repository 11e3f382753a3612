# FerrumProxy: TLA+ verification

FerrumProxy is a Minecraft-oriented TCP/UDP proxy (Rust, `src/src/`), a "shared
relay" that lends public ports to clients behind NAT (same crate), two clients for
that relay (TypeScript, `src/FerrumClient/src/`, and Tauri,
`src/FerrumClient/src-tauri/`, with a React window in `src/FerrumClient/frontend/`),
a web manager that supervises proxy processes (`src/FerrumGUI/`, with a React page in
`frontend/`) and a Geyser plugin that copies certificates (`src/FerrumGeyser/`).

## Inventory

| part | source | what is hard about it | module |
|---|---|---|---|
| relay leases and queue | `shared_relay.rs` 304-678, 1750-1787 | handlers race for ports and queue slots; one notification per RELEASE | `PortLease`, `LeaseTable` |
| relay TCP side | `shared_relay.rs` 1521-1557, 1789-1832, 1926-2027 | a port is re-leased while the old loop and old tunnels still exist | `RelayTcp` |
| relay UDP side | `shared_relay.rs` 1559-1725, 1834-1924 | a socket outlives its lease; a full channel blocks the loop | `RelayUdp` |
| relay client (CLI) | `FerrumClient/src/relayShareClient.ts` | a refresh interleaves with stop and with tunnel loops | `ShareClient` |
| local share service | `FerrumClient/src/sharedServiceManager.ts` | start and stop wait for sockets while traffic arrives | `LocalShare` |
| window of the desktop client | `FerrumClient/frontend/src/App.tsx` | configuration and server lists arrive in any order; commands and polls cross | `ClientForm`, `ClientView` |
| desktop client, backend | `FerrumClient/src-tauri/src/main.rs` | cancel racing the CONNECT answer | only what the window sees |
| UDP proxy | `udp.rs` | two tasks own one session; two clocks for one mapping | `UdpSession` |
| process supervisor | `FerrumGUI/src/processManager.ts`, `index.ts`, `services.ts` | exit event racing stop and start | `Supervisor` |
| self-update | `FerrumGUI/src/selfUpdate*.ts`, `systemdUpdate.ts` | failure or power cut between two renames | `SelfUpdate`, `Supervisor` |
| accounts, rate limits, manager proxy | `FerrumGUI/src/authManager.ts`, `managerProxy.ts`, `index.ts` | time windows; one bucket for several limits | `GuiGate` |
| configuration, certificates, firewall | `FerrumGUI/src/configManager.ts`, `certificateDomains.ts`, `index.ts` | a request takes minutes, others go on; temporary rules on every exit path | `GuiConfig` |
| release download | `FerrumGUI/src/downloader.ts`, `index.ts` | a cache asked twice in one update | `ReleaseCache` |
| instance data | `FerrumGUI/src/index.ts`, `ipAnalytics.ts` | read, wait, write back | `PerfCache`, `InstanceData`, `IpAnalytics` |
| web page | `FerrumGUI/frontend/src/App.tsx`, `useWebSocket.ts`, `guiRestart.ts`, `ConfigEditor.tsx`, ... | answers, pushes and clicks in any order | `ConfigPage`, `InstanceList`, `UpdatePage` |
| DDoS guard of the proxy | `ddos_guard.rs` | permits on every exit path; idle addresses are forgotten | `DdosGuard`, `AddressLimits` |
| certificate sync of the Geyser plugin | `FerrumGeyser/.../CertificateSync.java` | a kill between two files; a reload that fails or takes long | `CertificateSync` |
| TCP proxy, runtime, manager API, address blocks, notifications, codecs | the rest of `src/src/` | see "Not modelled" | |

## Modules

### The relay and the proxy

The relay is where independent tasks share state. Every control connection, public
connection, listener and tunnel is a Tokio task, each map of `SharedRelayState` has its
own lock, so one action is what a task does under one lock, and tasks interleave
between them.

* `LeaseTable` - what the relay promises about ports: a port has one holder, a token
  one port, a pinned token only its port.
* `PortLease` - the CONNECT and RELEASE handlers, with the queue, its counters, and
  Tokio's `Notify` (oldest sleeper first, one stored permit).
* `RelayTcp`, `RelayUdp` - extend `PortLease` with what a lease starts: the accept
  loop, the tunnels and the public connections; the UDP loop, the socket
  registration, the tunnel handlers and their bounded channels.
* `UdpSession` - the session table of the UDP proxy: the receive loop that handles a
  datagram, one upstream task per session, and the backend's own idea of which socket
  it has a PROXY header for.
* `DdosGuard` - permits, token buckets, violations and blocks of each address, and the
  removal of idle addresses; `AddressLimits` is the same guard with a memory that
  forgets no address.
* `PortLeaseProofs`, `RelayTcpProofs`, `RelayUdpProofs`, `UdpSessionProofs` - the
  theorems; those about the guard are in `LimitProofs`.

### The clients

* `ShareClient` - `RelayShareClient` of the CLI: the main flow (start, stop), the
  heartbeat with its refresh, whose rejection nobody handles and which may end the
  process, and for each allocation a TCP loop (it stands for the pool of eight), a UDP
  loop with its wait for `bind()`, or both, against a relay reduced to its lease table
  that may lose commands, answer late or go away.
* `LocalShare` - `SharedServiceManager`: start and stop between their waits, TCP
  connections, UDP peers with their idle clean-up, the bandwidth window, the counts.
* `ClientForm` - the form of the window: relay, token, the selection among official
  servers, the debounced save and the reload.
* `ClientView` - two further parts of the window: the share session polled from the
  backend, and the life of the Leaflet map.
* `ShareClientProofs` - the theorem about `ShareClient`.

### The web GUI

`Common` holds the constant `None` and three helpers.

* `Supervisor` - `ProcessManager`, the instance records and the routes, exit handler,
  restart timers, self-update and boot that drive them.
* `SelfUpdate` - the executable, its `.new` and `.old`, through download, restart plan,
  swap, script and roll-back, with failures and power cuts. No file is synced: what the
  system has not written back yet (`unwritten`) may be torn by a cut.
* `GuiGate` - token bucket, blocks, login lock-out, account, sessions, and the
  credential that goes to the manager API.
* `GuiConfig` - PUT config and POST letsencrypt with certbot and the firewall rule that
  is opened for it.
* `ReleaseCache` - which release is shown, installed and recorded.
* `PerfCache` - the totals of the performance page and their file.
* `InstanceData` - the place on the map and the manager port of an instance.
* `IpAnalytics` - the join of logins and connections by address, and the lookups.
* `ConfigPage`, `InstanceList`, `UpdatePage` - three parts of the page in the browser.
* `SupervisorProofs`, `LimitProofs` (gate and DDoS guard), `GuiProofs` (release,
  executable, firewall) - the theorems.

### The Geyser plugin

* `CertificateSync` - polls, the copied pair of files, the configuration and the reload,
  with failures, time-outs and kills.

`MC*` modules fix constants (and symmetry sets) for TLC. `MCParts` and `MCPartsLive` put
several modules that share no state side by side: the variable `part` is chosen in the
initial state, only that part moves, and the others stand still in one initial state,
so the states of the sum are those of the parts added up, not multiplied.

### State and code

| module | variables | code |
|---|---|---|
| `PortLease` | `port_allocations`, `waiting_clients`, `waiting_priority_clients`, `permit`, `waiters` | fields of `SharedRelayState`; `permit` and `waiters` are Tokio's `Notify` (external) |
| | `pc`, `reply`, `port`, ... of a connection | locals of `handle_connect` and `allocate_or_wait_for_port` |
| `RelayTcp` | `listener`, `public`, `tunnel`, `tcp_tunnels` | the tasks of `start_relay_port`, `relay_tcp_connection` and the TUNNEL handler, and the map of idle tunnels |
| `RelayUdp` | `loop`, `udp_sockets`, `udp_tunnels`, `tunnel` | the tasks of `start_udp_relay_port`, the two maps, the UDP_TUNNEL handlers with their channels |
| `ShareClient` | `main`, `heartbeat`, `cmd`, `loop`, `generation`, `endpoint` | the async functions between two awaits and the fields they share; `loop` by kind (TCP, UDP) and generation |
| `UdpSession` | `sessions`, `session`, `loop`, `gauge`, `mapping` | the session map, `UdpSession` and its task, the receive loop, the metric; `mapping` is the backend (external) |
| `Supervisor` | `record`, `processes`, `intentional`, `attempts`, `task`, `exiting`, `restarts` | `ServiceManager.data`, `ProcessManager.processes`, `intentionalStops`, `restartAttempts`, handlers and timers between two awaits |
| `SelfUpdate` | `file`, `unwritten`, `running`, `updateStep`, `helper`, `unit` | the three files, what of them is not on the disk yet (external), the process, `performGuiSelfUpdate` and its route, the installer script, what `systemctl show` says (external) |
| `GuiGate` | `sec`, `failures`, `auth`, `session`, `settingUp` | `securityStateByClient`, `loginFailures`, `AuthManager` and its session map, setups that wait for the disk |
| `GuiConfig` | `conf`, `job`, `certs`, `rules` | config.yml, the handlers in flight, `/etc/letsencrypt/live` and the host's firewall (external) |
| `ReleaseCache` | `latest`, `inFlight`, `target`, `inst` | `releaseCache`, fetches in flight, locals of the update and create routes, record and binary |
| `PerfCache` | `cacheFile`, `tmpFile`, `poll`, `proc` | performance-cache.json, its temporary file, the handlers, the counters of the process |
| `InstanceData` | `metadata`, `looking`, `updatingMeta`, `managerPort`, `search`, `updatingPort` | `publicMetadata` and `managerPort` of the record, the handlers that look them up, and the record an update of the binary took before the download |
| `IpAnalytics` | `players`, `connections`, `byIp`, `tracked`, `geo` | the two files, the maps of `buildIpAnalytics`, the geo part of the cache |
| `ConfigPage`, `InstanceList`, `UpdatePage`, `ClientForm`, `ClientView` | the names of the React states and refs | the components, with requests and messages in flight |
| `DdosGuard` | `states`, `permits` | the map of `IpProtectionState`, the guards that connections hold |
| `CertificateSync` | the names of the plugin's fields and files | `CertificateSync.java`; Geyser's configuration and reload (external) |
| `LocalShare` | `status`, `start`, `stops`, `open`, `udpPeers`, `windowBytes` | fields of `SharedServiceManager`, its calls between two waits, the sockets |

History variables are read by properties only. Some name a circumstance in which the
code does lose something, so that the property can say that nothing else does it:
`untidy` (a command was lost, or stop met a heartbeat), `trouble` (a send failed),
`wrong` (in a cache of counters: a sample came late, or under the start time of another
process), `crossed` and `typed` (two searches for a port at once; a port typed in, or
written back by an update), `belated` (a certificate arrived on a page that had
changed), `overtaken` (an older answer after a newer push), `stale` (the same for the
list of instances, or a GET that failed, until the next good list), `missed` (an
initialisation that began before the page was open), `unowned` and `abandoned` (progress
of another page; targets a rate limit gave up), `changed`, `moved` and `unsaved` (the
user changed the form; a list gave the saved address to another relay or the file
failed; the last save failed), `overlapped` and `straggler` (a start during another; a
datagram during stop), `stranded` (the script gave up or the power failed), `torn` (a
power cut tore the executables that were not on the disk yet), `unreverted` (the old
executable could not be put back), `uncleaned` (closing the firewall rule failed).
Others record what a property compares with: `quiet`,
`told`, a tunnel's `stale`, `stopped`, `settled`, `work`, `mixed`, `original`, `headed`,
`bare`, `burst`, `superseded`.

Granularity. Rust tasks interleave at every lock and await; an action is what happens
under one lock. JavaScript handlers run alone up to the next real wait, so an action is
that stretch, including the calls it makes; an event of React and the effects it
triggers are one action. Time is left out (a wait may end by its limit at any moment)
or counted in ticks with every age capped at the largest threshold it is compared with.

## Runs

| run | instance | what it shows |
|---|---|---|
| `lease_safety` | 4 clients, 2 ports, queue of 1, a pinned and a roaming token, an edit of the token file | `LeaseSound`: counters equal the queued handlers, sleepers are the registered ones, a lease belongs to the handler that was told OK, a token has one lease. `ImplementsLeaseTable`: every step is one of `LeaseTable` |
| `relay_tcp` | 2 leases of 1 port, 2 tunnels, 1 public connection | `TunnelsSound`: a tunnel serves one connection. `QuietLeaseKept`: a lease granted on a quiet port keeps its listener and meets only its own tunnels. `ReleasedListenerStops` |
| `relay_udp` | 2 leases of 1 port, 2 tunnels, channel of 1, receive errors | `QuietLeaseServed`: a lease granted on a quiet port keeps loop and socket. `NewerTunnelKept`: an old tunnel handler removes no newer registration. `ReleasedLoopStops`, `FreePortWakesWaiter` |
| `share_client` | a TCP or a UDP client with 1 outage and lost commands, or 2 clients without; 2 ports, 4 generations | `LeaseAgreed`: leases are accounted for and nobody loses a port to another client. `OldLoopsEnd`: loops of old allocations end, but for three kinds it names. `FalseAlarmHarmless`: a false alarm ends in a served client |
| `udp_session` | 1 peer, 2 sessions, 2 targets, failing and lost sends | `SessionsSound`: map, gauge and task agree. `HeaderAgrees`: the PROXY header and the backend's mapping do. `HandshakeKept`: a retransmission aborts no handshake. `IdleSessionsEnd` |
| `supervisor` | 1 instance, 2 handlers, 2 pids, 1 restart of the GUI | `ProcessesSound`: one process per instance. `StopsTold`: markers match exits, a requested stop stays. `UpdateAlone`: a self-update meets no process and its flags do not outlive it |
| `parts` | ten parts, see below | what handlers, files and pages keep |
| `parts_live` | eight parts, see below | what must end or come back, and what the DDoS guard promises |
| `relay_udp_handover`, `share_client_reserve`, `udp_header_error`, `supervisor_stale_pid` | small instances | the disagreements listed below |

The properties of `parts`, one part each: `ConfigSound` (a listener that is to have a
certificate has one when the file names it; what was saved meanwhile is not written
back older), `FirewallKept` (the administrator's rule stays, temporary ones go),
`ReleaseSound` (nothing is recorded that is newer than what runs; a new instance is not
older than the cache allows), `PerfSound` (nothing but a sample out of order is counted
twice, and a clear ends the excess), `InstanceSound` (what an operator set is overwritten
only by a lookup or an update that was already waiting; ports differ), `PageHonest` (a
page saves the instance it shows, keeps a draft, and says "saved" only of what the
server, which rewrites what it is sent, has put on the disk), `ListSound` (the list and
its marks settle on the records), `FormSound` (a form nobody changed is saved as it was
found, and what is shown is what is saved), `ShareSound` (nothing is left
of a stopped share; counts are right; a header comes first), `GateSound` and
`SetupWinsOnce` (limits, blocks and lock-outs end, no credential is elevated, the first
account wins).

Those of `parts_live`: `AnalyticsSound` and `EveryAddressAsked` (totals come from the
authoritative file, every address is looked up in the end), `ViewSound` and
`ViewFollows` (no session runs unseen, the window follows it, the map appears),
`UpdatesEnd` (progress shown on the page ends, a waiting page reloads), `SelfSound` and
`ComesBack` (there is an executable to start at every step, a GUI at rest runs what is
installed, and after a self-update it runs again), `CertificatesKept` (certificate and key belong together, a renewal is
applied), `GuardSound` and `ForgetsNothing` (the guard counts what holds a permit, and
removing idle addresses is invisible).

### Bounds

What goes wrong on a port takes an old and a new lease, hence two leases of one port;
three clients would only add a third owner to the same races, and the number of clients
and ports is what the theorems leave open. A queue of one makes it full and lets a
second client be refused; a channel of one makes it full with one datagram. Two
sessions of one peer are an old and a new one: sessions of different peers share only
the gauge. Two handlers of the GUI between awaits, beside exit handlers and timers, are
every pair of routes that can meet; instances interact only through the self-update,
which treats them alike. `MaxGeneration`, `MaxOutages`, `MaxPending`, `MaxBoots`,
`MaxMishaps`, `MaxRevision` and `IdleBudget` cap counters; each lets the case it counts
happen at least once more than the property needs. `MaxAttempts` is 1 in the run
instead of 5, which makes giving up happen soon.

Two runs restrict how many things happen in one behaviour (`FewSpec`): `relay_udp` has
a second lease or a second tunnel, not both; `share_client` has one client, with TCP
loops or with a UDP loop, an outage and lost commands, or two of which one has no loops
(clients meet in the lease table only) and nothing is lost. The theorems need neither
bound. `MCParts` has the constraint `Bounds`: two requests of a page or of the releases
at once, one of them alone with a certificate; one draft; one installation and one
update of a binary; one of two requests for the counters clears them; a save of the form
that fails does so before the user types; and nothing is followed after a circumstance
that a property excepts anyway. `parts_live` has two exit codes, 0 and one other, and
every set of them may count as success or prevent a restart. The limits of the gate and
of the guard have the shape of the defaults, scaled down.

Deadlock is not checked where a system may rest: a relay or a client with nothing to do.

### Fairness

Fairness is weak fairness of the steps of the program's own tasks (Tokio and Node run
what is runnable; timers fire), and of the delivery over the loopback interface of the
wake-up connection and datagram to a loop that is waiting. Nothing is assumed of users,
players or operators, and no failure is ever obliged to happen. `ShareClient` also
assumes of the relay, its peer, that it executes a command it has received, answers a
tunnel or closes it (a TCP loop gives up by itself), and comes back after an outage; a
session that is piped, or a UDP tunnel that is served, is not obliged to end, and
`OldLoopsEnd` says so. `UdpSession` takes strong fairness of the clock, because the model stops it while a
datagram is handed to the kernel. In `CertificateSync` the plugin's and Geyser's steps
are fair and the number of failures is bounded, since a renewal that fails for ever is
never applied. In the sums of parts, fairness of a part counts while it is the part
that moves.

## Proofs

The theorems hold for every value of the constants that satisfies the named assumption
of the module. Each was checked by TLC first, its inductive invariant included.

| theorem | states | assumption |
|---|---|---|
| `PortLeaseProofs`: `LeaseSoundCorrect`, from `LeaseTypeCorrect`, `SleepersCorrect`, `LeaseConsistentCorrect`, `OneRelayCorrect`, `QueueAccountingCorrect` | `LeaseSpec => []LeaseSound` | `PortLeaseAssumption`: finitely many handlers |
| `PortLeaseProofs`: `LeaseTableImplemented`, `PortsToldCorrect` | `LeaseSpec` implements `LeaseTable`; a handler knows the port it was told | the same |
| `RelayTcpProofs`: `TcpKeepsLeases`, `TcpInvariantCorrect`, `TunnelsSoundCorrect`, `QuietLeaseKeptCorrect` | the relay with its TCP side is still that of `PortLease`; tunnels are not shared; a lease on a quiet port is served and meets only its own tunnels | `RelayTcpAssumption` |
| `RelayUdpProofs`: `UdpTypeCorrect`, `UdpKeepsLeases`, `NewerTunnelCorrect`, `QuietLeaseServedCorrect` | the same for the UDP side; channels keep their capacity; registrations of newer tunnels stay | `RelayUdpAssumption` |
| `UdpSessionProofs`: `SessionsSoundCorrect`, `HeaderAgreesCorrect`, `HandshakeKeptCorrect` | any number of peers, sessions and targets, any time-outs | `UdpSessionAssumption` |
| `ShareClientProofs`: `LeaseAgreedCorrect` | any number of clients, ports, allocations and outages | `ShareClientAssumption` |
| `SupervisorProofs`: `ProcessesSoundCorrect`, `StopsToldCorrect`, `UpdateAloneCorrect` | any number of instances, handlers, pids, restarts and attempts | `SupervisorAssumption` |
| `LimitProofs`: `GuardCorrect`, `GuardForgetsNothing` | the guard's counts; `GuardSpec` implements `AddressLimits` | `DdosGuardAssumption`, which includes that a bucket fills within the retention time |
| `LimitProofs`: `GateSoundCorrect`, `SetupWinsOnceCorrect` | any number of browsers and passwords, any limits | `GuiGateAssumption`: a block outlasts the refill of one request, the pruning time that of a bucket |
| `GuiProofs`: `ReleaseSoundCorrect`, `SelfSoundCorrect`, `FirewallKeptCorrect` | any number of versions, cache times, exit codes, requests and firewall tools | the modules' assumptions |

### The inductive invariants

*Leases.* None of the invariants but the type invariant is inductive alone, so they are
proved in an order in which each may use the ones before. `QueueAccounting` is about a
counter and a set of handlers: `notify_one` moves a handler out of sleep, and without
`SleepersRegistered` it could move one that is not in the queue. `LeaseConsistent` ties
a port to the handler that was told OK; the refinement needs it to read the pinned port
of a lease from that handler.

*Relay, TCP.* `ListenersKnown`, `WakesKnown`, `PublicKnown` and `TunnelsKnown` say where
each task can be, given the lease it belongs to; `TunnelsDistinct` that no tunnel is
queued twice or queued and taken; `QuietAlone` that a lease granted on a quiet port
stays the only one with anything on that port until its RELEASE. The last is the heart
of it: everything that could disturb such a lease is either a wake-up meant for an older
lease, or a tunnel of one, and neither can appear where nothing was left.

*Relay, UDP.* `PlacesKnown` is the counterpart; `SocketsOpened` says who opened a
registered socket, `QuietAlone` the same as above.

*UDP sessions.* `LoopKnown` and `MapServed` tie the entry in the map to the task that
serves it, `ResetIsDue` a replaced session to the idle time that justified it, and
`ClocksAgree` relates the two clocks that decide about a mapping: the proxy's time since
its last datagram is never longer than the backend's.

*Relay client.* `TasksKnown` says where main flow, heartbeat and loops are together (a
heartbeat that rests has no command in flight); `Room` that generations are used in
order; `OwnRelease` that a release that is still under way names a port of that client;
`LateUntidy` that an answer after its socket is gone has been recorded as such;
`HoldsEndpoint` that the endpoint is the lease.

*Supervisor.* `TasksKnown`, `EntryOwned` (an entry in the process map belongs to the
process that runs, or to the exit handler that will remove it), `StopAwaited` (a marker
of an intended stop has its exit ahead) and `OneUpdate`.

*DDoS guard.* `AgesOrdered`: whatever lowers a bucket or counts a violation also sets
last_seen, so by the time an address is old enough to be removed its buckets are full
and its violations forgiven.

*Gate.* `BucketDrawn` (what was let through since the last tick has been taken from one
bucket, which nothing filled again), `BlockCounts` (a client at the limit of violations
is blocked, or has been quiet as long as a block lasts), `LockOutlastsWindow` (at the
threshold of failures lock and age of the record together last as long as the
lock-out, so the record has left the window when the lock ends).

*Release.* `FetchesKnown`: what is in flight or cached was published, and was replaced
no longer ago than it has been under way; the second manifest of an update is not older
than the first. `RecordedFirst`: an update records no later version than it installs.

*Executable.* `StepsKnown` and `FilesKnown`: which of the three files exist at each step
of the update and of the script, for both ways of restarting, and which of them are
complete unless a power cut tore what was not on the disk (`torn`); the running version
is the installed one unless a roll-back failed (`unreverted`).

*Firewall.* `RulesOwned`: the rules of a tool are at most the administrator's and one
for each request that has still to close its own, and where the administrator has one,
at least those.

### Only model-checked

* All liveness properties (`ReleasedListenerStops`, `ReleasedLoopStops`,
  `FreePortWakesWaiter`, `OldLoopsEnd`, `FalseAlarmHarmless`, `IdleSessionsEnd`,
  `EveryAddressAsked`, `UpdatesEnd`, `ViewFollows`, `ComesBack`, `CertificatesKept`):
  proofs under fairness are beyond the provers used here.
* `ConfigSound`: what is written went through `Distinct`, a fold over a sequence, and
  what a fold computes needs an induction over data.
* `AnalyticsSound` for the same reason: its sums are folds.
* `PerfSound`, `InstanceSound`, `PageHonest`, `ListSound`, `FormSound`, `ShareSound`
  and `ViewSound`: not yet proved.

## Disagreements found

* `relay_udp_handover`: after RELEASE the old UDP loop keeps its socket until it is
  woken. A CONNECT that gets the port before that cannot bind, and the new lease never
  gets UDP (`shared_relay.rs` 1840), while the tests expect READY of every lease and
  the same port at once after a RELEASE.
* `share_client_reserve`: `stop()` breaks a heartbeat in flight, which then leases a
  port for the stopped client (`relayShareClient.ts` 98); the documentation says that
  no port is reserved permanently.
* `udp_header_error`: a send that fails once makes the next datagram carry the header
  into a mapping the backend still has (`udp.rs` 806), against the comment at 843.
* `supervisor_stale_pid`: the update route saves the record it looked up before the
  download, with the pid of the process it has stopped (`index.ts` 3038); the pages
  show a record with a pid as running.

Weaker than one might expect, and stated in that form: `QuietLease...` speak of leases
granted when nothing of earlier leases is left on the port; `StopStays` of stops while
no earlier crash is being handled (a restart timer that is already armed survives a
start and a stop); `OneProcess` of the processes of one GUI (a GUI that was killed
leaves processes its successor does not adopt); the limit of five restarts is reached
only by starts that fail, because a successful spawn forgets the attempts;
`CertificatesKept` leaves out a poll that shares a reload which had timed out and read
the older configuration (`overtaken`); `OldLoopsEnd` leaves out a TCP session that goes
on, a UDP loop of a client that has not stopped and that got through to the relay after
its allocation was replaced (the inner `while`, `relayShareClient.ts` 334, does not look
at the generation), and one whose tunnel broke during `bind()`; `ExecutableKept` leaves
out a cut before the exchanged executables have reached the disk; `ForgetsNothing`
leaves out configurations whose buckets take longer to fill than an idle address is
kept; `ReleasedLoopStops` speaks of loops that were receiving; and every history variable named above under
"a circumstance in which the code does lose something".

## Plan

1. Theorems for the remaining parts: `LocalShare`, `PerfCache`, `InstanceData`,
   `InstanceList`, `ConfigPage`, `ClientForm` and `ClientView`.
2. `ShareSession`: the desktop client's backend against the lease table of the relay;
   cancellation against the CONNECT answer, the monitor, ghost tunnels.
3. `TcpProxy`: accept, admission by `DdosGuard`, fail-over between targets, half close.
4. `ConfigStore`: manager API, configuration file, live address blocks and firewall
   rules; lost updates, and what a restart reloads.
5. The pong cache in `RelayUdp`.

## Not modelled

The TCP proxy, the runtime, the manager API and its secrets, the address blocks, the
notification queue and the backend of the desktop client are listed in the inventory
and not modelled yet, or only as far as another part sees them. Byte formats, logging,
metrics other than the session gauge, TLS and QUIC, HTTP rewriting, the NetherNet
signalling, kernel tuning, rendering and texts have no state shared between steps, or
are libraries. The data carried by a connection is not modelled; a paired connection or
a tunnel is one state. Errors of writing `services.json` and of the log files are left
out.

Places that deserve a property and have none yet: `shared_relay.rs` 354, 598, 1651 and
1849; `udp.rs` 860; `FerrumGUI/src/index.ts` 1508, 3011 and 3119; `services.ts` 88;
`processManager.ts` 57; `managerProxy.ts` 5; `manager_api.rs` 577; `src-tauri/src/main.rs`
1108.
