# vpn.io in TLA+

TLA+ modules of vpn.io (a TLS VPN in Go: server, client, privileged helper, certificate
authority, VLESS node, bot, desktop app), the TLC runs that check them and the theorems that TLAPS proves.
Everything is translated from the Go sources under `src/`; `PROJECT.json` maps each
definition to its lines and lists the runs, their mutants, the hazards they are for and the
theorems.

Contents: [the system](#the-system) · [modules](#modules-and-the-code) · [runs](#runs-and-bounds) ·
[fairness](#fairness) · [proofs](#what-is-proved) · [noticed](#noticed-while-modelling) ·
[limits](#what-is-only-model-checked-and-what-is-not-modelled) · [plan](#plan) ·
[running it](#running-the-tools)

## The system

| component | state it keeps | operations | talks to |
|---|---|---|---|
| tunnel server (`internal/tunnel/server`) | registry of sessions by name and by address, one handler and one writer goroutine per session, shutdown latch | accept, handshake, kick, admit, serve, reject, tear down, shut down | address pool, limiter, revocation checker, TUN |
| address pool (`internal/ipalloc`) | free addresses, lease per client name | Allocate, Release | called by the server |
| connection limiter (`limiter.go`) | total and per-source slots, penalty timers | acquire, release | called by the server |
| TUN router (`router.go`) | outbound queue per session | route, enqueue, drop | registry, writer goroutines |
| tunnel client (`internal/tunnel/client`) | reconnect loop, endpoint ring, leak guard / route / DNS managers | connect, configure, run, reconnect, tear down | server, route, firewall, dns |
| routes, firewall (`internal/route`, `internal/firewall`) | what is installed in the kernel | install, re-point, remove | called by the client |
| resolver (`internal/dns`) | a snapshot in memory, a durable backup on disk, the host's resolver | apply, restore, clear, reconcile | called by the client and by the helper when it starts |
| helper daemon (`internal/helper`, `internal/ipc`) | the one running engine, its state | connect, disconnect, status, serve, shut down | GUI and ctl over IPC, client engine |
| certificate authority (`internal/ca`, `internal/revoke`) | key, certificates, issue ledger, deny list | issue, revoke, unrevoke, back up, restore | CLI and bot (separate processes), server's checker |
| revocation checker, health report (`revoke.go`, `health.go`, `tls.go`) | cached deny list with the mtime and size it was read at | look up, report | every handshake, every health probe |
| invites (`internal/invite`) | token store | generate, redeem | bot, CLI |
| VLESS node (`internal/vless`, `cmd/vpn-vless`, `packaging/server`) | client list, Xray configuration, the running Xray | init, add, remove, render, apply | bot, CLI, systemd |
| bot process (`cmd/vpn-bot`) | update offset, update in hand, uploads | poll, handle, upload, shut down, give up | Telegram, CA, invites, VLESS |
| watchdog (`internal/watchdog`) | failure counter, alert and warning latches | poll, observe | health endpoint, the bot's owner |
| desktop app (`cmd/vpn-gui`, `internal/profilestore`, `internal/control`, `internal/profile`) | the draft profile and its saved copy | import, pick, connect, reconnect, poll, save | helper daemon |

How they interact:

- **Server.** `Run` accepts connections and starts one `handleConn` goroutine for each. A
  handler takes a limiter slot, performs the handshake (which asks the revocation checker),
  kicks a previous session of its name and waits for that session's `doneCh`, leases an
  address, registers, starts a writer goroutine and reads until the connection ends. The
  registry, the pool and the limiter each have a mutex of their own, and none is held
  across another's call: the order of the critical sections *is* the protocol.
  `shutdown` runs beside all this and works on a snapshot of the registry.
- **Client.** The reconnect loop calls `connectOnce`, which resolves, re-pins the host route
  to the server, dials, reads AssignIP, protects, routes, sets the resolver, and then runs
  a session of three goroutines. A poller of the TUN device reports its death on a channel
  that the loop and the session both receive from. What was changed in the host is undone
  once, at the end of `Run`.
- **Helper.** Control connections are served concurrently; their commands meet in one
  `Controller`. A `Disconnect` waits outside the mutex for the session that it found.
- **Operator side.** The CLI tools and the bot are separate processes that share
  directories: a deny list and an invite store under a file lock, an issue ledger and
  certificate files under none, the VLESS client list and the Xray configuration under a
  second file lock. The server looks at the deny list at every handshake and decides by its
  mtime and size whether to read it. Who changes the Xray configuration does not restart
  Xray: a systemd path unit notices the file and starts a script that debounces, compares
  times and restarts. The bot's watchdog asks the server's health endpoint, whose report
  uses the same deny-list checker as a handshake.
- **Desktop.** The webview calls the app's bound methods concurrently; each holds the mutex
  of the draft for its critical sections and saves to disk outside it. The helper, a
  process of its own, changes the resolver of the host and may die with it changed.

What is hard about each, and what makes it correct:

| part | hard because of | correct means |
|---|---|---|
| server admission | reconnects that kick, time out or collide; teardown that is several critical sections | the two indexes agree, an address has one owner, `Done()` means gone |
| server shutdown | handlers in any position while a snapshot is swept | `Run` returns |
| limiter | a slot changes hands from the handler to a timer; cancellation in between | counts are exact, caps hold, failures per window are bounded, every slot comes back |
| client session | a select between three sources; deadlines renewed while they are being cut | the verdict is right, nobody blocks on the result channel, no use after close, teardown ends |
| reconnect loop | a ring entered anywhere, reset by success; a one-shot death report | every endpoint once between waits, each exit has its cause, cancellation always works |
| helper | overlapping Connect/Disconnect, a session that dies meanwhile, a stop | one session at a time, Disconnect means down, the exit leaves nothing |
| client path | every host command may fail, networks and server addresses change | nothing is orphaned, the leak block outlives the routes, a stale pin-hole is curable |
| credentials | several processes over the same files, crashes between two writes | a revoked client is locked out, a name has one live certificate, a token issues once |
| VLESS node | two files written one after the other, a service that reads one of them some time later | no access the list does not record, links that were sent work, revoked ones stay out, no change is lost |
| deny-list checker | a cache over a clock that is coarser than the writes | the list on disk is the one enforced |
| watchdog | sequences of good and bad polls, messages that get lost, restarts | the owner's last news is the truth as the watchdog knows it |
| bot process | acknowledgement by the *next* request, four goroutines, three ways out | no update is lost, a stop and a surrender end the process |
| resolver | every command may fail, a crash at any step, one backup for several services | a resolver in the tunnel can always be put right |
| desktop draft | saves outside the mutex, credentials picked file by file | the saved profile is what the user sees, a key meets its own servers only |

## Modules and the code

| module | models | its actions are |
|---|---|---|
| `VpnServer` | `server.go`, `session.go`, `router.go`'s life cycle, `ipalloc` | the critical sections, channel operations and blocking calls of handlers, writers, accept loop, TUN reader and shutdown |
| `SessionTable` | the abstract specification of registry and pool | `Open` and `Close` a row |
| `Slots` | the abstract specification of the limiter | `Give` a slot, `TurnAway`, `TakeBack` |
| `OneTunnel` | the abstract specification of the helper daemon | `Begin` and `End` a tunnel, `AskStop`, `Answer`, `Report` |
| `ConnLimiter` | `limiter.go` and its use in `handleConn` | `acquire`, the deferred release, the timer's callback, the clock |
| `ClientSession` | `runSession`, `connReader`, `outboundPump`, `keepalive`, `connWriter` | one per blocking call or channel operation of each goroutine |
| `ReconnectLoop` | `reconnect.go`, `endpoints.go`, the phases of `connectOnce`, the device poller | one per phase of an attempt and per way out of the loop |
| `HelperDaemon` | `runDaemon`, `ipc.Server`, `helper.Controller` | one per critical section of the controller, per step of a handler, per step of a session |
| `ClientPath` | `client.go`'s `preparePath` and `ensure*`, `internal/route`, `internal/firewall`, resolver order | one per step of an attempt and of the teardown; each host command may fail |
| `VlessNode` | `vless/store.go`, `apply.go`, `cmd/vpn-vless`, the VLESS half of `cmd/vpn-bot`, `apply-config.sh`, the path unit and the service | one per load and write of a file, one per state change of the service |
| `NodeHealth` | `revoke.Checker`, `health.go`, the deny-list check of a handshake | a replacement or loss of the file, a look at it, start and stop of the server, ageing of its certificate |
| `Watchdog` | `watchdog.go` beside `NodeHealth` (which it extends) | a poll, its observation, a warning that falls due, a restart |
| `BotProcess` | `cmdServe`, `pollUpdates`, `handleCallback` | one per blocking call or `select` case of the poller, the main loop, an upload, the watchdog's goroutine |
| `HostResolver` | `internal/dns` on its three platforms | one per command or file written; each may fail, the helper may die between any two |
| `ProfileDraft` | `app.go`'s draft, `profilestore`, `control.Client`, the bundle of `internal/profile` | one per critical section or file access of a bound method |
| `Credentials` | `ca.go` and `ledger.go` (issue, re-issue), `revoke.Store`, `invite.Store`, `filelock`, the commands of `vpn-ca` and `vpn-bot` | one per load and per save of a file; any command may end in an error or a crash between two |

`MC…` modules only name the model values, the symmetry and (for the server and the credentials) the state
constraint of an instance; `…_proofs` modules hold the theorems. Two of them instantiate
modules that share no state, where a product could show nothing more than its factors do.
`MCDesktop` takes `ProfileDraft`, `HostResolver` and `ClientPath` (what the user's machine
keeps) and lets one move while the others are as at first. `MCRetryLoops` takes
`ReconnectLoop` and `BotProcess` (the two loops that retry and give up), which have fairness:
there one of them has come to its end before the other begins, in a state that asks nothing
of its fairness, so that each is checked under its own fairness alone.

**VpnServer.** A member of `Conn` is a TCP connection together with its `handleConn`
goroutine. `pc[c]` follows that function from top to bottom: `handshake`, `lookup`
(`registry.ByCN`), `kick` (`prev.close()`), `join` (the select on `prev.Done()` and
`kickJoinTimeout`), `allocate`, `register`, `assign` (write AssignIP), `serve`
(`sessionReader`), then the deferred part `close`, `drain` (`sessWG.Wait`), `unregister`,
`release`, `signal` (`close(doneCh)`). `closed`, `done`, `reject` are the session's
channels; `link` says whether the socket still carries data (a peer that went, a past
deadline and `Conn.Close` all end it). `writing` is a writer inside a blocking write. The
pool keeps the subnet arithmetic of `ipalloc.New` (`Candidates`: no network address, no
broadcast, no gateway) and hands out the lowest free address. The limiter appears only as
one more reason to refuse; the two share no state.

**ConnLimiter.** `phase` is where the handler is; `total` and `perIP` are the limiter's
fields, with `perIP` as a map that really grows and loses keys. Two stopwatches per
connection, both stopping at `Penalty`, carry all of time that the code compares: since
the failure, and since the penalty timer was started.

**ClientSession.** A deadline is `none`, `future` or `past`. `st[g]` is where a goroutine
is; a value of `Results` means it has returned and is about to send. `armed` is
`connReader`'s own flag. The server may stop sending, stop reading, or the link may break,
independently.

**ReconnectLoop.** `pc` is the loop's position; the attempt's phases are those between
which something different bounds the wait: `connect` (operating system), `handshake`
(nothing but the context), `firstFrame` (`HandshakeTimeout`), `assigned` (local set-up),
`session`. `failed` and `alerts` are ghosts that record the history the ring and the
alert counter are supposed to summarise; they do not guard any action.

**HelperDaemon.** `cur` stands for the pair (`cancel`, `done`) of the controller, which are
always set and cleared together. `Disconnect` is three steps because it drops the mutex.
A session goes `running` → `returned` (engine) → `closed` (device) → `over` (under the lock).

**ClientPath.** Variables that begin with `k` are the kernel's: host routes per server
address, tunnel routes, firewall table, resolver. The others are the client's records of
them. `stuck` collects what the host refused to remove, the only excuse the properties
accept besides a guard that was given up (`leakguardOff`). The gateway query may fail or answer with the tunnel's own gateway.

**Credentials.** A process is the bot or a shell; `op[p]` is its command, `pc[p]` the next
access to a file: `invites`/`tokens` (load and save the token store), `serials`
(`ClientSerials`), `current` (`ClientSerial`), `deny`/`amend` (load and save the deny list,
once per serial in `todo[p]`), `append`/`record` (load and save the ledger), `write` (the
certificate), `told` (success is reported). Two variables hold the file locks; the copies
are what a process has loaded. `Return` ends a command at any point, which stands for
success, an error (also the lock's timeout) and the death of the process: its locks are
freed. `certs`, `restored`, `due` and `redeemed` are ghosts. `Before` gives names a
certificate from before the ledger existed. Nothing keeps two processes from issuing or
un-revoking at the same time, in the code or in the model; the ghost `crossed` remembers
that two of them did. `OneLiveProfile` and `RevokeCutsOff` speak of the time before that,
`TokenIssuesOnce` and `NoRevocationLost` of all time, and the run `ledger_race` shows what
the crossing may cost. What a revoke, an invitation or a redemption overlaps with is free.
Tokens here grant a profile; one that grants only VLESS issues no certificate.

**VlessNode.** A client is a pair of a name and a credential. `list` is `clients.json`,
`config` the set of credentials that `config.json` grants. `pc[p]` follows a command of the
bot or the shell: `lock`, `load`, `list` (the first write), `config` (the second), and for
the bot `send` (the link) and `confirm` (`WaitApplied`). `CmdLink` and `PrintLink` are
`vpn-vless link`, which reads the list with no lock and prints later. `Fail` ends a command
anywhere.
`newer` is what `apply-config.sh` computes from two timestamps with a granularity of a
second: whether the service started after the file was written, for which the same second
does not count. `script` is the debounced script between its lines: `asleep`, then the stat
of the file (`older` or `newer` than the service), then the time when the service started,
then the restart or the end. The path unit does not watch meanwhile, and `late` (a ghost)
says that the file was written after the stat. `padded` says that the operator typed the
name with a space around it: `vpn-vless` compares what was typed and stores what was trimmed.
`cut`, `unwritten`, `wiped`, `sent`, `printed` and `dead` are ghosts: what an interrupted
removal left in the configuration and an interrupted addition left out of it, an `init` that
blanked the configuration of a list, and what was said to users.

**NodeHealth, Watchdog.** The clock is relative: `fresh` says that the file was written in
the current tick, `stamped` that the cache carries the file's mtime. `Enforced` is what a
handshake made now would refuse, computed as `IsRevoked` does. `masked` (a ghost) marks a
save that looks to the checker like the list it has cached. `obs` is a poll's outcome on
its way to `Observe`, so that the node may change in between. `Tell` is a message that may
get lost; `lost` and `forgot` are the two excuses of `OwnerKnows`.

**BotProcess.** Updates are numbered; `dropped` is Telegram's side of the offset. The poller
hands an update to `main` over an unbuffered channel (`TakeUpdate` is the joint step).
`crashed` and `refused` are ghosts: what the process died with, and taps turned away. A poll
that fails may have reached Telegram all the same, which then drops what the poll confirmed.

**HostResolver.** `saved` is the runner's memory, `backup` the file that survives it; a
setting is `own`, `auto` or `tunnel`. `todo` is what a loop over services has left. `faults`
(a ghost) records what has gone wrong, and each property names the faults it excepts.

**ProfileDraft.** A set of three credential files is the profile they belong to, or `Mixed`.
`note[c]` is a call's snapshot of the draft. `picked`, `spoiled` and `foreign` are ghosts:
files picked and not yet saved, saves that overlapped or failed, and a list of addresses
that may have met another profile's credentials.

## Runs and bounds

| run | instance | distinct states | shows |
|---|---|---|---|
| `server_admission` | 3 connections, 3 names, 2 addresses, symmetric, constraint `Running` | 145 171 | `LeaseHasOneOwner`, `HandlerLeavesNothing`, `ImplementsSessionTable` |
| `server_shutdown` | 2 connections of 1 name, full `Spec` | 58 409 | `KickedSessionEnds`, `ShutdownTerminatesUnlessLate` |
| `limiter` | 4 connections, 2 sources, caps 2 and 3, penalty 1 | 505 348 | `FailuresThrottled`, `ImplementsSlots`, `PenalizedSlotReturns` |
| `session` | idle timeout and keepalives on | 230 768 | `SessionOfLoop`, `ConnUsedSafely`, `TeardownEndsOnceQuiet`, `HungServerIsNoticed` |
| `helper_daemon` | 3 control connections, 2 sessions, 2 accept failures | 207 792 | `ImplementsOneTunnel`, `ExitLeavesNothing`, `StopEndsDaemon` |
| `credentials` | bot and shell, 2 names (one with an older certificate), 3 serials, 2 tokens, symmetric, constraint `FirstInvited` | 4 427 516 | `OneLiveProfile`, `RevokeCutsOff`, `TokenIssuesOnce`, `NoRevocationLost` |
| `vless` | bot and shell, 2 names, 2 credentials, symmetric, constraint `FollowPrinted` | 5 608 410 | `NoInvisibleAccess`, `SentLinksWork`, `DeadStaysOut`, `NoChangeLost` |
| `node_watch` | 2 serials, alert after 3 bad polls | 725 760 | `EnforcesTheList`, `OwnerKnows`, `OutageIsAlerted` |
| `retry_loops` | 3 endpoints entered at the second, limit 3, exponent up to 2; 4 updates (2 of them taps), 1 upload slot, 2 failed polls, 3 starts | 421 490 | `RoundsArePaced`, `CancelEndsLoop`, `DeadDeviceEndsLoop`; `NothingIsLost`, `StopEnds`, `GivingUpEnds` |
| `desktop` | 2 profiles with overlapping address lists, 2 calls; 3 platforms, 2 services; 2 server addresses, 2 gateways; symmetric in calls and services | 3 764 459 | `SavedIsDraft`, `KeyStaysHome`; `Recoverable`, `CrashIsCured`; `CleanExit`, `GuardedWhileRouted`, `PinRecovers` |

Two more runs check what a comment of the code says and the code does not keep. TLC finds
each violated:

| run | instance | violated | by |
|---|---|---|---|
| `session_teardown` | as `session`, with the idle timeout and without keepalives | `TeardownEnds`: a past deadline makes every parked read and write return (`client.go:840-847`) | a reader that renews its deadline after the teardown has set the past one, for as long as the server sends |
| `ledger_race` | as `credentials` | `LedgerCoversCerts`: the ledger records every certificate ever signed (`ledger.go:14`) | the bot and the shell, which issue at the same time |

Why these are enough:

- *Server.* Three connections let a kicked session, its kicker and a third that kicks the
  kicker (or takes the last address) be in flight at once; no step of a handler reads the
  state of more than one other. Two addresses for three names make the pool run out.
  Liveness needs no symmetry and no constraint, so `server_shutdown` has a smaller instance
  of its own, where both connections carry one name and every kick is exercised.
- *Limiter.* With caps 2 and 3, four connections reach either cap first, with one to spare
  that is refused. One tick of penalty already separates "now" from "long enough ago".
- *Session.* The goroutines are fixed by the code; nothing is cut except packet contents.
- *Reconnect.* Three endpoints are the least for which entering the ring in the middle
  differs from both ends. The exponent saturates in the code too.
- *Helper.* Two handlers can overlap in Disconnect while a third connects; two sessions
  are what a snapshot of the wrong session needs.
- *Path.* A moved server and a changed network need two of each; a third adds nothing, as
  the manager remembers one server and one gateway.
- *Credentials.* Two processes are enough for every lost update, as each file is loaded and
  saved once per step. Three serials are a certificate, its re-issue and a re-issue of
  that; two tokens let one be minted and swept while the other is redeemed. `FirstInvited`
  mints tokens for the first name only (the shell issues for both), and lets no token expire
  once issuing commands have crossed: from then on only `TokenIssuesOnce` and
  `NoRevocationLost` are at stake, and expiry only ever refuses.
- *VLESS.* The lock, the two files and the service are one each, so two processes meet every
  way two can; two credentials let a name be added, removed and added again, or stand beside
  another name. `FollowPrinted` follows one credential of `vpn-vless link` at a time, until
  it leaves the list: `printed` guards nothing.
- *Watch.* A file that is spoiled by its rights keeps its stamps, one that is written over
  does not: the two are told apart as the checker does. With two serials two different lists
  can have the same size, which is what fools the cache. Three bad polls are the program's own default, and leave room for a flap.
- *Bot.* Four updates make batches with a tap in the middle and at the end of an upload that
  occupies the only slot; two restarts let a death follow a death.
- *Desktop.* Lists that overlap let an address be remembered across an import; two calls are
  what one overwriting the other takes. Two services have one set and one not when it fails.

Bounds on the model itself: each `Conn`, `Handler` and `Session` is used once; `MaxAttempt`
caps the back-off exponent; stopwatches stop at `Penalty`; `alerts` and the watchdog's count
stop at their limits; `MaxStarts` caps how often the bot is started.

The type invariants are proved, for every module, and no run spends time on them.

Every property of a passing run has a mutant in `PROJECT.json`: a definition of the model
changed the way a plausible bug would change the code (the "Plausible bugs" and "Fault"
operators, next to what they stand for), under which TLC finds that property violated.

Deadlock is checked for the server (its only stop is `Terminated`). The other systems may
really stop: the limiter's connections are all served, a session or a client has ended, the
daemon has exited; no serial, token, credential or update is left; an app or a node that
nobody uses does nothing.

## Fairness

No run assumes that a peer, a user, an operator or a network does anything.

- *Server.* Weak fairness for steps of handlers, writers and shutdown that only need the
  scheduler, and for timers (handshake, kick-wait). A read or write on a closed connection
  returns. `WriterRejects` is strongly fair: Go's `select` chooses among ready cases at
  random, so a pending rejection is not passed over for ever. Steps in which a peer sends and
  `WriteOK` are not fair: a client may idle, and a peer may never read.
- *Limiter.* The deferred release and the timer callback run; time passes.
- *Session.* Goroutines run; a deadline that is set passes; a TUN write ends. Strong
  fairness for `StopWriter` (a ready `select` case) and `Lock` (a contended `sync.Mutex`,
  which Go makes starvation-free). The server owes nothing.
- *Reconnect.* The loop's code and timers; the operating system's connect timeout;
  `HandshakeTimeout` for the first frame; set-up; and an abort once the context is done.
  No fairness for the TLS handshake or a running session: nothing in the code bounds them. A
  session looks at its context and its device (`SessionLooks`), which takes it as far as its
  teardown; none for the end of that, because the code owes none (`session_teardown`).
  `CancelEndsLoop` and `DeadDeviceEndsLoop` say so: the loop ends, or is held in a teardown
  for ever (`HeldInTeardown`). When a teardown does end is `TeardownEndsOnceQuiet`.
- *Helper.* `Serve`, its watcher, `runDaemon`; a handler's read ends within
  `requestTimeout`; Disconnect's steps; the closing of a session whose engine has
  returned. Nothing is assumed of the engine, not even that one that was cancelled returns:
  the read deadline described under [noticed](#noticed-while-modelling) is where it may not.
  `StopEndsDaemon` says that a stop ends the daemon unless an engine that was cancelled holds
  it for ever (`HeldByEngine`).
- *Watch.* The watchdog's loop polls and observes. A poll that the server can answer is
  answered in the end and not timed out every time (strong fairness of `PollAnswered`).
  Nothing is assumed of messages: each may be lost.
- *Bot.* Goroutines run; a request to Telegram, an upload and the handling of a message end,
  one way or the other. Strong fairness for `SeeSignal`: a `select` that finds the signal
  ready again and again takes it. No fairness for Telegram, signals, supervisors or crashes.
- *Path*, *Credentials*, *VLESS*, *Desktop.* Safety only.

## What is proved

`tlapm` checks every proof from nothing; they hold for all values of the constants under
the named assumption of each module (`ConstAssumption`, `LimiterAssumption`, …), which TLC
evaluates in each run. Most theorems have the form `Spec => []…`. The others are three
refinements of an abstract specification (`RegistryImplementsTable`,
`LimiterImplementsSlots`, `DaemonImplementsOneTunnel`), two that tie one detailed module to
the next (`SessionImplementsPhase`, `LoopIsTheEngine`), and statements about steps
(`AddNeverOverwrites`, `RevocationsKept`, `LoopWindsUp`, among others). Every safety property that a
passing run checks is proved. Four of the proof modules hold the theorems of two systems, each part
under a heading of its own.

The client and its helper form a chain, each link a theorem: a session implements the
session phase of the loop (`SessionImplementsPhase`); the loop keeps the terms on which the
daemon runs an engine (`LoopIsTheEngine`: it returns once, and without an error only when
its context was cancelled); the daemon implements `OneTunnel`.

- **`VpnServer_proofs`.** None of the properties is inductive alone: that `Release(cn)`
  frees the right address depends on the name having one owner, which depends on
  `Allocate`'s refusal, which depends on the pool being exact. The inductive invariant is
  `TypeOK`, `Named`, `IndexesAgree`, `PoolExact` and `LeaseHasOneOwner` together; each is
  proved to survive each group of actions from all of them. `TeardownOrdered` relates a
  handler's position to its verdict, writer and socket; with it follow
  `HandlerLeavesNothing` and, from `LeaseHasOneOwner`, that `Registry.Add` never
  overwrites (`AddNeverOverwrites`, the obligation that the comment on `Add` puts on its
  caller). `RegistryImplementsTable` maps rows to entries of `byCN` and shows that
  `Register` is an `Open`, `Unregister` a `Close` and every other step a stutter. The kick
  timeout is covered: a handler that gave up waiting is refused by the pool.
  `KickedSessionIsLeaving` and `ShutdownReachesAll` are the safety halves of the two liveness
  properties: in every state, whoever is waited for can go on by itself (`LeavesAlone`). The
  invariant `Doomed` says what a session that was told to go may still be doing,
  and `Swept` that the snapshot and what was closed of it cover the registry.
- **`ConnLimiter_proofs`.** `CountsExact` is inductive with the types; it is about
  cardinalities, so each step is one application of the lemmas on adding or removing one
  holder. The caps follow, and so does `LimiterImplementsSlots`: `acquire` refuses exactly
  when there is no room, and the slots that are out are those of handlers and of penalty
  timers. For `FailuresThrottled` the invariant `Throttling` says that as long as the server
  runs, an address' recent failures all still hold a slot.
- **`ClientSession_proofs`.** `Safe` is the conjunction of the types, which state each
  goroutine may be in (`Places`), that the holder of the lock is the one writing, that the
  channel has room for everyone who has not sent, that a `nil` anywhere has a cancelled
  context behind it (`NilsCaused`), and that the device's death is either unreported,
  buffered or the verdict. `SessionImplementsPhase` follows from it: its verdict
  is one of the three ways in which `ReconnectLoop` lets an attempt's session begin to end,
  with the device's report spent and the user's cancellation in place as that module says
  (`SelectDecides`), and the end of its teardown is that module's `SessionReturns`
  (`CloseEndsPhase`).
- **`ReconnectLoop_proofs`.** `RoundsArePaced` needs an invariant about modular walks: with
  `tried = k`, the failed endpoints are the `k` that end before `idx` on the ring (`Walk`,
  `Passed`). `Streak` relates `alerts` to the code's counter; `Causes` carries why an
  attempt ended until the loop acts on it; `LoopIsTheEngine` rests on it. `LoopWindsUp` is
  the variant that stands behind `CancelEndsLoop`: the distance to the end, `StepsToGo`,
  falls with every step of a cancelled loop.
- **`HelperDaemon_proofs`.** `Owner` (at most one session between start and `over`, and
  `cur` names it), `Kept` (a Disconnect's target is over or still current), `Leaving`
  (after Serve no handler is left, so nothing starts a session behind `main`'s back).
  `DaemonImplementsOneTunnel` needs `Asked` besides: a session that is cancelled and not yet
  over has the Disconnect that cancelled it still waiting. Without it the end of a session
  could be blamed on a failure that was a request, or the other way round.
- **`ClientPath_proofs`.** The invariant `Path` = types, `Places` (which steps are possible
  with which managers), `Routes` (`RecordsCoverKernel`), `Guard` (firewall records against
  the kernel), `Behind` (the leak block stands while the default is in the tunnel),
  `Resolver`, `Refreshed`. The route manager's three calls are lemmas of their own, proved
  from their definitions with all their failures.

- **`Credentials_proofs`.** `StoreInv` holds whatever runs at a time: types, `Calls` (the
  position tells the command), `Locked` (a process inside a critical section holds the
  lock and its copy is the file), `Spent`. From it follow `TokenIssuesOnce` and
  `NoRevocationLost`. `CertInv` holds until issuing commands have crossed, `crossed \/ CertInv` is what
  is inductive, and the theorems about certificates say `crossed \/ …` as the properties do.
  It is `One` (at most one command is issuing), `Fresh` (a drawn serial is no certificate's
  yet), `Owned`, `Target`, `Recorded` (the ledger entry precedes the certificate),
  `LedgerCoversCerts`, `FirstSuperseded` (a name enters the ledger only after its older
  certificate is denied), `OneLiveNow`, and two that follow a command through its stages,
  `Superseded` and `CuttingOff`. None goes without the others: a re-issue denies what the
  ledger lists, so one live profile needs the ledger to cover the certificates, and a revoke
  that falls back to the certificate on disk needs one live profile. That the ledger covers
  them is a step of this argument and no theorem: without `~crossed` it is false
  (`ledger_race`).

- **`Credentials_proofs`, NodeHealth and Watchdog.** `Trusted`: a cache that the checker has no
  reason to doubt is the list on disk, or a save looks like it (`masked`). `OwnerKnows` is
  inductive: it changes only with a message, and a message that is not lost settles it.
- **`VlessNode_proofs`.** `AccessParts`: who is between load and last write holds the lock
  (`Exclusive`), so its copy is the list with its own change (`Copied`); credentials on the
  list are distinct and were all minted. `Out` and `Gone` anticipate what the bot is about to
  say: a credential joins them when the configuration is written, before it joins `sent` or
  `dead`. A link that `vpn-vless link` prints was read from the list, with nothing locked, and
  `Listed` says how far the list is granted: except for a credential that is being added or
  whose addition was cut short. `NoChangeLost` needs `Behind`: a service that honours
  something else than the file says did not start after the file changed, so that whoever
  looks at the file now has it restarted.
- **`VlessNode_proofs`, BotProcess.** `Acknowledged` strengthens `NothingIsLost` from what
  Telegram has dropped to whatever the poller has asked past: the next request drops that.
- **`ClientPath_proofs`, HostResolver.** As long as nothing was dropped or taken for the
  host's own (`Fine`), a change in progress has a backup behind it (`Backed`), snapshots and
  backups do not point into the tunnel (`OwnSettings`), and the loops have put right what is
  no longer in `todo` (`Progress`); without any fault an idle helper is `Clean`.
- **`HelperDaemon_proofs`, ProfileDraft.** While saves have not overlapped (`Alone`), the one
  that is saving holds the draft as it was and still is (`Held`), and every set of
  credentials that has a list has its own (`Home`). `RoundTrip` is the lemma that a bundle
  brings back what was put in, in both versions of the file.

## Noticed while modelling

Places where the code and its comments part, or where a property needs an exception. Each is
a clause of a checked property or a choice of the model, named here.

*Server and client*

- After `kickJoinTimeout` the server says "admitting anyway" (`server.go:343-349`), but the
  pool still holds the name's lease, so the client is refused with `no_ip`. In the model the
  verdict of such a handler is `held`; `LeaseHasOneOwner` shows that the refusal is what
  keeps the pool right.
- `shutdown` (`server.go:275`) closes the sessions of one snapshot; a handler that registers
  after it is closed by nobody and `Run` waits for its client.
  `ShutdownTerminatesUnlessLate` shows that this is the only way for `Run` not to return.
- `connReader` re-arms its read deadline without looking at the context (`client.go:881`), so
  it can replace the past deadline that the teardown has set; while the server keeps sending,
  the teardown hangs (run `session_teardown`), and with it the reconnect loop
  (`HeldInTeardown`) and the helper's last Disconnect (`HeldByEngine`).
  `TeardownEndsOnceQuiet` is what is left.
- With two or more endpoints `succeeded` at AssignIP resets the ring (`endpoints.go:123`), so a
  server that boots the client right after AssignIP is dialled on without a wait, which
  `reconnect.go:16-17` sets out to prevent. `RoundsArePaced` holds with "since the last
  success". And `endpoints.go:118` says that the next reconnect starts at the endpoint that
  worked, while the loop advances past it before it dials again.
- Nothing bounds the TLS handshake (`client.go:370`): an endpoint that accepts and never answers
  holds the reconnect loop until the user cancels (`CancelEndsLoop` holds all the same).
- `client.go:637-644` says that a full-tunnel session never comes up unprotected without
  `AllowInsecureLeak`, while a failed re-point (`client.go:616-621`) gives protection up for
  the rest of the run (`leakguardOff` in `GuardedWhileRouted` and `ConnectedIsGuarded`).
  `client.go:595-597` says that after a skipped refresh the old pin-hole stands, while for a
  moved server `PinServer` has removed it already.

*Credentials*

- `appendIssued` (`ledger.go:79`) loads and renames with no file lock, although the bot and
  `vpn-ca issue-client` are separate processes: two that overlap lose one's entry, and its
  certificate works and is not in the ledger (run `ledger_race`). From then on a later re-issue
  or revoke of the name may miss it: hence `crossed` in `OneLiveProfile` and `RevokeCutsOff`.
- A pre-ledger certificate that a half-failed re-issue denied and `unrevoke` restored is no
  longer on disk after the next re-issue and was never in the ledger (`LostSight` in
  `OneLiveProfile` and `RevokeCutsOff`).
- `invite/store.go`'s `saveLocked` does not sync its directory as the other two stores do.

*VLESS node, checker, bot*

- A removal that dies between its two writes leaves a credential in the configuration that
  the list does not name (`cut` in `NoInvisibleAccess`). Trying again does not repair it: the
  client is not on the list, so `Remove` answers that there is nothing to remove. Any later
  complete write does, and so does `vpn-vless render`.
- `vpn-vless link` takes no lock and does not look at the configuration (`main.go:255`): its link
  may be of an addition between its two writes, and of one that died there until the next
  complete write (`BeingAdded`, `unwritten` in `SentLinksWork`).
- A change written while `apply-config.sh` runs is seen by nobody if it comes after the script's
  stat (`apply-config.sh:32`): the path unit does not watch, and the script may find the
  service, which somebody else has restarted meanwhile, newer than the file it saw and end
  with "already applied". Nothing is then pending until the next change or restart (`late` in
  `NoChangeLost`).
- `vpn-vless init` takes no lock; one that is slow blanks the configuration of a list that
  another process has begun in the meantime (`wiped` in `SentLinksWork`).
- `vpn-vless add " bob"` escapes the check for a name that has access already: it compares
  what was typed and stores what was trimmed (`padded`).
- The bot says "The link is dead now." (`main.go:917`) when the unit is active, which it still is
  until the debounced restart begins. `DeadStaysOut` says what holds: the files never grant
  it again; and `NoChangeLost`, that the restart is coming, but for the window above.
- A rewrite of the deny list in the tick of the one that was read, with as many bytes, is
  never noticed unless somebody looks while the tick lasts, although `revoke.go:305-320`
  describes the window as closing that gap (`masked` in `EnforcesTheList`).
- A message of the watchdog that is lost is not sent again, neither an alert nor the
  all-clear (`lost` in `OwnerKnows`).
- When polling is given up (`main.go:312-316`), `wg.Wait` waits for the watchdog's goroutine, and
  nothing cancels its context: with `-watch` the process neither polls nor exits
  (`GivingUpEnds` excepts it).
- An update that was in hand when the process died is delivered again; a token redeemed in
  the meantime then answers that it is invalid, although its profile may not have arrived.

*Desktop*

- `rememberEndpoint` (`app.go:234`) saves outside the mutex a snapshot taken inside it, and `save`
  reads the list of addresses under a second lock: an import in between is overwritten on
  disk by old credentials beside a new list (`spoiled`, `foreign`).
- `rememberEndpoint` also saves a draft whose files were picked one by one and not checked.
- No path clears `endpoints` but an import, so after picking files or typing a server,
  `Reconnect` (`app.go:451`) dials the list of the profile that was imported before (`foreign`).
- On Linux the durable backup is removed in a `defer` also when the restore failed
  (`dns_linux.go:150`; macOS keeps it), so the recovery that it exists for finds nothing.
- A session that starts over leftovers of a crash (`vpn-client` does not reconcile) snapshots
  the tunnel's resolver as the host's own. A backup left by a failed `Apply` reverts, at the
  next start, what the user may have changed since.

## What is only model-checked, and what is not modelled

Only model-checked: all liveness (the prover has no rules for fairness and `ENABLED`):
`KickedSessionEnds`, `ShutdownTerminatesUnlessLate`, `PenalizedSlotReturns`,
`TeardownEndsOnceQuiet`, `HungServerIsNoticed`, `CancelEndsLoop`, `DeadDeviceEndsLoop`,
`StopEndsDaemon`, `OutageIsAlerted`, `StopEnds`, `GivingUpEnds`. For the first two and for
`CancelEndsLoop` the state or step property that carries the argument is proved
(`KickedIsLeaving`, `SweepReachesAll`, `CancelledLoopWindsUp`); what fairness adds is TLC's.

Only proved, and in no run: the type invariants, `TablesExact`, `AddIsFresh`,
`KickedIsLeaving`, `SweepReachesAll`, `CountsExact`, `CapsHold`, `NilMeansCancelled`,
`SendNeverBlocks`, `DeviceDeathIsKept`, `ExitsHaveCauses`, `GivesUpOnlyOnRun`,
`CancelledLoopWindsUp`, `EngineOfHelper`, `ControllerAgrees`, `DisconnectMeansDown`,
`RecordsCoverKernel`, `ConnectedIsGuarded`, `DialPassesGuard`, `RememberedIsListed`. (TLC
agreed with each on the instances of the table before it was proved.)

Not modelled: the contents of packets, certificates and JSON; formatting, logging and
command lines (a host command is its effect or its failure); real time beyond the order of
the timers; operating-system permissions. Unmodelled components, each with its reason, are
in `PROJECT.json`. They are of three kinds: encodings and cryptography, which have no steps
to interleave (frames, JSON, PEM, the CA's backup archive, links and configurations); what
the operating system does (the TUN driver, socket permissions, the Windows service manager,
the tray); and the packets themselves. A session's packets are best effort, and the code
keeps no state about them: what happens to one that is queued on a session that has just
ended is that its writer is gone. The wait between two reconnects is one expression (a
shift, a ceiling, a jitter) that unit tests cover; `ReconnectLoop` keeps the counter in it.

`ClientSession`, `ReconnectLoop` and `HelperDaemon` cut the client at function boundaries.
They are not run as one product; the theorems of the chain above say that the inner module does
what the outer one takes for granted. They are about safety: that a session which
should return does return depends on the server. `ClientPath` is apart: an
attempt may fail in it at any point. `Credentials` and `NodeHealth` meet in the deny list:
for the one it is a set, for the other a file that the server may be late to read. Each
module therefore allows more than the code does, which is sound for safety.

## Plan

The modules of the first plan are written. What could still be added, in order of worth:

1. **Compositions.** `HostResolver` in the place of `ClientPath`'s resolver flag, with a
   helper that dies while routes are installed; `ClientPath` under `ReconnectLoop`.
2. **Abstract specifications** of the operator's side: a set of live credentials per name,
   implemented by `Credentials`; a register for the deny list, implemented by `NodeHealth`
   wherever nothing is masked.
3. **The Windows service** (`service_windows.go`): start, stop and re-install against a
   service manager that answers late.
4. **Back-off operators** as pure functions against their documented range.

## Running the tools

In this directory: `tlasany M.tla` parses, `tlc -workers 2 -config X.cfg MCM.tla` checks a
run, `tlapm M_proofs.tla` checks the proofs.
