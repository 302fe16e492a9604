# A TLA+ model of the relay and VPN controller

This directory is a verification development of the Go program in `src/`: a local
HTTP proxy that carries browser traffic through Google Apps Script deployments,
an exit node, an Xray process or Google's own front, with a web panel that starts
and stops it. The specifications are modules that TLC model-checks on small instances;
what matters most is also proved with TLAPS for every value of the constants.

`PROJECT.json` ties it together: which module models which component, which lines
each definition stands for (`map`), the runs with their properties, a faulty variant
of the code for each property that the run must reject (`mutants`; the faulty operators
are marked `Fault:` and used by no specification), the hazards, the findings and the theorems.

Paths below are relative to `src/`; `relay.go` is `fronter/relay.go`.

## 1. Inventory

| component | code | state | operations | modelled |
|---|---|---|---|---|
| rate limiter | `relay.go:26-68` | a bucket of tokens per host under a mutex | `allow` | `RateLimiter` |
| script pool | `relay.go:135-193, 213-309, 349-380, 465-472, 670-687` | `blacklist`, `devAvailable` | `getScriptIDs`, `blacklistScript`, the failover loops, the health checker | `ScriptPool` |
| request coalescing | `relay.go:72-77, 209-213, 313-347` | `coalesceMap`, groups, sleeping goroutines | `coalescedGet`, polling, clean-up | `SharedFetch`, `Coalesce` |
| proxy control | `gui/server.go:613-648`, `gui/v2ray.go:23-58`, `proxy/server.go:33-98` | globals `proxyServer`, `proxyRunning`; per server `stopCh`, `listener` | start, stop, connect, accept loop, closer | `ProxyControl` |
| connection handling | `proxy/server.go:106-171`, `proxy/connect.go`, `proxy/http.go` | one connection, what is dialed for it, copying goroutines | route, tunnel, two TLS loops, plain request | `Connection` |
| GitHub and Codespace | `gui/github_codespace.go:22-379`, `gui/server.go:654-675` | `ghState` under `ghMu` (for writes), the token in `cfg` | login, logout, fork, create, stop, delete, status | `Codespace`, `GitHubMode` |
| Xray and V2Ray processes | `gui/github_codespace.go:382-554`, `proxy/v2ray.go` | `xrayCmd`, `v2rayCmd`, a mutex each, the processes | start, stop, connect | `XrayProcess`, `GitHubMode` |
| configuration | `config/config.go`, `gui/server.go:502-507, 654-675`, `gui/v2ray.go:60-93`, `gui/index.html:1077-1145` | global `cfg`, one file per mode, the panel's copy | load, save, add, delete, login, logout, restart | `Configuration`, `Controller` |
| certificate authority | `mitm/mitm.go`, `cert/cert.go`, `proxy/connect.go:88-90, 121-123` | files `ca.key` and `ca.crt`, a manager per connection, what the system trusts | make, read, sign, install | `CAStore`, `Controller` |
| status and log hub | `gui/server.go:434-474, 836-894` | `logClients` under `clientsMu`, the connections, the mutex of package `log` | register, greet, broadcast, log | `LogHub`, `Controller` |
| relay envelope | `relay.go:416-666` | none | build the request, find and decode the answer | no |
| deployed Apps Script and Worker | `gui/server.go:38-434` | none (text handed out) | `doPost`, `_doBatch` | its answers, in `ScriptPool` |
| WebSocket frames | `ws/ws.go` | none | encode, decode | no: imported by nobody |
| unused transports | `fronter/tunnel.go`, `fronter/types.go` | none | - | no: used by nobody |
| panel and system integration | `index.html`, `gui/index.html`, `main.go`, `utils.go` | the page | I/O | no |

How they interact. The panel calls the HTTP API of `gui`, each call in a goroutine of
its own; the handlers share `cfg`, `proxyServer`, `proxyRunning` and `ghState`. A start makes
a `proxy.Server`, whose accept loop spawns a goroutine for each connection; a connection
calls the relay's `Do`, and `Do` asks the rate limiter, then coalescing or the failover loop,
which asks the blacklist, which the health checker changes. `handleXrayStart` reads
the VLESS link that the goroutine of a create put into `ghState`; `ConnectV2Ray` runs the
same program under another global. Every intercepted connection makes a certificate manager, which reads
the CA's files or makes them, and the panel's installation does the same. Whatever is
logged, by any goroutine, is broadcast to the pages, and so is each change of the status. Its goroutines
end together, when the window is closed or a goroutine panics; what is left is the files, and the Xray
processes, which nothing kills and which the next run of the program does not know of.

What is hard. Almost everything shared is read without its lock, or read under it and used
after it: the slice of script ids, the globals of the proxy, `ghState`, `cfg`. Goroutines
outlive the request that made them (the accept loop, the closer, the clean-up of a group, the
create, the health checker) and write when they end. Files are truncated and then written,
in pairs or by two at once, and the program may end in between. Calls time out after having been
carried out. Tunnels have two directions that end in either order. The correctness
conditions, component by component:

- *rate limiter*: no window lets more through than burst plus rate, and no request is
  refused without need, across the fractions that refused calls write back;
- *script pool*: a request fails only for a reason the pool may give; blacklisting never empties
  the pool; entries last their term; a script that is well comes back;
- *coalescing*: one fetch per URL at a time, everyone answered alike, nobody left waiting,
  results forgotten, and no response body shared;
- *proxy control*: the status is true, what listens can be stopped, nothing panics or spins,
  a stopped server closes its port for good;
- *connection*: in `github` mode nothing goes round Xray; answers come in the order of
  the requests; nothing dialed stays open; tunnels deliver what was sent, and end;
- *Codespace*: ready means a whole, ready Codespace that nobody has stopped or deleted; the status creating always ends;
- *processes*: while the program runs, it has started none that is alive and that its owner cannot kill;
- *configuration*: what is in memory is on the disk, and what was said to be stored stays;
- *certificate authority*: key and certificate are a pair, the one the system trusts, and can be read;
- *hub*: pages show the true status, and who logs comes back.

## 2. Plan

| order | module | depends on | state |
|---|---|---|---|
| 1 | `RateLimiter`, `RateLimiterProofs` | - | checked and proved |
| 2 | `ScriptPool`, `ScriptPoolProofs` | - | safety checked and proved, liveness checked |
| 3 | `SharedFetch` (abstract), `Coalesce`, `CoalesceProofs` | `Coalesce` implements `SharedFetch` | checked, refinement checked and proved |
| 4 | `Switch` (abstract), `ProxyControl`, `ProxyControlProofs` | `ProxyControl` implements `Switch` | checked and proved, the refinement too |
| 5 | `Connection`, `ConnectionProofs` | answers of the relay as in `ScriptPool` and `SharedFetch` | checked and proved |
| 6 | `Codespace`, `XrayProcess`, `GitHubMode` (composes them), `GitHubModeProofs` | - | checked and proved |
| 7 | `Configuration` | - | checked and proved |
| 8 | `LogHub` | - | safety checked and proved, liveness checked |
| 9 | `CAStore` | - | checked and proved |
| 10 | `Controller` (composes 7 to 9 at the end and restart of the program), `ControllerProofs` | `Configuration`, `LogHub`, `CAStore` | checked and proved |
| 11 | `Envelope`: `extractRelayJSON`, `decompressByEncoding` and the assembly of the response as pure operators, against a reference | - | left: parsing and decoding, see section 7 |
| 12 | an abstract `Pool` (a set of scripts that serves or justly refuses) that `ScriptPool` implements | `ScriptPool` | left: `FailureJustified` and `Served` say it directly |

## 3. Modules and what they say of the code

### RateLimiter
`allow` runs under `rl.mu` from end to end, so a call is one action: `Grant` or `Refuse`,
both of which refill and write back. Tokens are counted in `Interval`-ths of a token, so
that the refill is exact; the rounding of `float64` is abstracted. `grants` and `verdict` are
history. The properties speak of the history alone: `WindowBound` (no window lets more
through), `RefusalJustified` (no refusal without need: the limiter is exactly its contract).

### ScriptPool
A process is a request or the health checker. Its steps are the critical sections:
`GetIDs` (with the fallback to all ids and the dropping of expired entries), `Send` (which
reads `devAvailable`), `AnswerTransient`/`AnswerJSON` (what Google may return in the script's
condition; either may set the latch, which looks at the first byte only), then `Succeed`, `Fail`, `FailForGood` (`blacklistScript`) or `HealthOk` (deletion).
Requests are relayed, sent by the exit-node path (which reads the latch without its
mutex and may miss a write) or single. Conditions of scripts (up, out of quota, unreachable)
are chosen at each answer. `ids` has the same id twice where the configuration lists it twice.
Time is bounded by `MaxTime`, ten minutes are `BlacklistFor`.
Properties: `FailureJustified`, `NeverDry`, `BlacklistPersists`, `Served`; `RequestsEnd`,
`HealedScriptReturns`.

### SharedFetch, Coalesce
`SharedFetch` is the promise: the sharing callers of a URL gather in rounds; a round has one fetch,
all who wait are answered alike when it ends, late callers too until it is forgotten. `Coalesce`
has the groups, the polling, the goroutine that deletes by key five seconds later, and the
reading of the response body afterwards. A caller whose group is done counts as answered
(`StateOf`), although it polls only later: that is the refinement mapping. Properties:
`KeepsPromise` (the refinement), `SingleFlight`, `WholeBody`, `WaitersReturn`, `EntriesForgotten`;
`TimerOwnsEntry`, a part of the proofs' invariant, is why the third round cannot start early.

### Switch, ProxyControl
`Switch` is the promise to a user who waits for one request to end before the next: the status goes on, then one server
serves or the status goes off again; what serves is taken off, and the status follows; what was taken off
never serves again. `ProxyControl` is the code.
Each access to a global is a step, as there is no lock; a handler and each goroutine have a
program counter. A server bears the name of the call that made it. `Create` may leave nil
in `proxyServer`, as `NewServer`'s result does after an error; `CloseStopCh` panics, which
net/http recovers; `Enter` on nil takes the process down, as nothing recovers the goroutine.
`OneAtATime` chooses between requests that wait for quiet and requests that overlap.
With it: `IsSwitch` (the refinement: `Switch`'s turn is read off where the handlers and goroutines stand, its
servers off the listeners), `Stoppable`, `NoPanic`; `StatusTrue`, which says the part of it about the quiet states directly, is
proved. However they overlap: `NeverSpins`, `StoppedCloses`.
When they overlap `NotRunningSaidTruly` fails (section 6).

### Connection
One accepted connection, as connections share nothing but counters and the relay.
What the client sends is a stream of units, and `handleConn`'s one `Read` returns any
prefix of what has come. `Route` is the table of mode and domain class of `handleConnect`
(`HandleConnect`); then there are the raw tunnel with its pump goroutine (`Dial`, `Pump`, `Copy`,
`CopyEnds`, `PumpEnds`), the SNI-rewrite loop (`FrontDial`, `Fronted`), the relay loop (`Relayed`)
and the plain request (`Http...`). The client may half-close, vanish or break off at any time;
the far end may close or reset. No write to the client has a deadline: `full` says that the next one
waits until the client reads (`ClientReads`) or is gone, and every write goes through `Write`, which
waits for `Room`. In a tunnel the handler may then be in a write when the far end resets (`Stuck`).
Properties: `AllThroughSocks`, `AnswersInOrder`, `ClosedBehind`, `TunnelDelivers`; `TunnelEnds`,
`RelayEnds`, both for clients that go on reading or go away (`ClientTakes`).

### Codespace, XrayProcess, GitHubMode
`Codespace` cuts each handler where it waits for GitHub or takes `ghMu`; a create's goroutine
is `SetGHError`, `Posted`, `Look`, `Ready`. The last look cannot be told from a look that found
the Codespace available, in the code as in `Ready`. The token is whose account it is for, and
the panel's copy of it is what `SaveConfig` writes back. A handler sets one of two parts of
`ghState` at a time, `Account` or `Machine`. `XrayProcess` has the two owners of
processes; a `Cmd` is named after the call that made it, and `Counts` is the code's test for a
running one, which stays true of a process that has died, as nobody calls `Wait`. `GitHubMode`
composes them at the point where they meet, the read of the VLESS link, and at the end of the program,
`Restart`: requests and goroutines end, the globals are those of a new program, and processes stay
(`left`), owned by nobody; `NoOrphan` speaks of those that the running program has started. `asked` is the
Codespace in the URL of a stop or deletion; `over` is history, the Codespaces whose stop or deletion GitHub has answered.
Properties: `ReadyWhole`,
`CreatingIsWorking`, `CreatingEnds`; `NoOrphan`.

### Configuration
A configuration is its mode, its V2Ray list, its token and the rest (`Settings`). Nothing locks `cfg`, so a
request is cut where it reads `cfg` and where it writes it: `ReadList` and `AddEntry` or `DeleteEntry`, `SetToken`
for login and logout, then `CopyConfig` (the argument of `SaveMode`), `Truncate` and `Fill` (the two
halves of `os.WriteFile`). `PanelLoad` and `PanelSave` are what the page does with its copy, `TakeOver` and `TakeList`
the assignment `cfg = newCfg`. The list is the set of its entries; that two `append`s to one slice may
write to the same place is the choice of `Appended`. `LoadMode` takes a file that is missing, truncated
or in pieces (`Blank`, `Torn`) for none. `alone`, `behind` and `told` are history. Properties: `DiskHasMemory`,
`AddedStays`. Both say what undisturbed requests may rely on, whatever disturbed ones did before.

### CAStore
A maker is an intercepted connection or an installation; each has a manager of its own and
goes through `loadOrCreateCA`: `LookForKey` decides, then `OpenKey`, `WriteKey`, `OpenCrt`,
`WriteCrt`, or `ReadKey`, `ReadCrt`. A key or certificate is named after the maker that generated it, so a
pair is two equal names. `Panics` is the nil block that `pem.Decode` returns for an empty or missing file:
net/http recovers it for an installation (`Recovered`), for a connection it ends the program (`CAPanic`).
`Installed` reads `ca.crt` once more. `disturbed` is history. Property: `CASound`.

### LogHub
A client is the handler of one WebSocket: `Upgrade`, `Register` under `clientsMu`, `ReadStatus`, the first
message outside the mutex (`Greet`, `Greeted`), the read loop, `Leave`. A sender is a log line (through
package `log`, whose mutex it then holds, or by `broadcastLog`) or a handler that has set
`proxyRunning` (`Flip`, `AskStatus`). A broadcast takes `clientsMu`, and the clients in any order (`Choose`); a
write waits while the client has `Buffer` writes unread. When the first message and a broadcast
meet, gorilla/websocket lets either write fail or panic (`Spoilt`, `WriteFails`, `Breaks`). `HubPanic` is
what ends the program. Properties: `StatusShown`, `LoggersReturn`.

### Controller
Composes the three where they meet: `Restart`, the program ends at any time (the window is closed,
the machine stops) and `StartGUI` begins anew, with the files as they were left; `Dies`, it ends because
of a panic, of the CA's or of the hub's.

## 4. Runs

`tlc -config X.cfg M` in this directory; each run takes seconds to a minute or two.

| run | module, cfg | question | bounds, and why they do |
|---|---|---|---|
| `limiter` | `RateLimiter`, `MCRateLimiter` | does the bucket let through exactly what its contract allows? | 2 hosts, 2 tokens per 3 units, 6 units: two whole refills, fractions of a third, a full bucket again |
| `pool` | `MCScriptPool`, `MCPool` | is every failure justified? | 2 scripts, a relayed and an exit request, the health checker; no script, one, one listed twice; entries of 1 unit in 2 units, so that they expire within a loop |
| `pool_live` | `MCScriptPool`, `MCPoolLive` | does every request end, and a well script come back? | entries outlast the clock, so that only the health checker can bring a script back |
| `pool_bad_target` | `MCScriptPool`, `MCPoolBadTarget` | finding | 2 requests, one for a bad target |
| `coalesce` | `MCCoalesce`, `MCCoalesce` | does coalescing keep its promise? | 3 callers that share, so that a third round can start beside two; 1 that does not |
| `coalesce_gets` | `MCCoalesce`, `MCCoalesceGets` | finding | the bodies that the two handlers pass |
| `control_settled` | `MCProxyControl`, `MCControlSettled` | is it one switch if requests wait: a true status, one server, that stops? | 3 starts, 2 stops, 1 V2Ray connection, a port that changes |
| `control_overlap` | `MCProxyControl`, `MCControlOverlap` | what holds however they overlap? | 2 starts, 2 stops, 1 connection: a server can be stopped twice, started twice, and be nil |
| `control_rapid` | `MCProxyControl`, `MCControlRapid` | finding | 3 starts, 2 stops |
| `connection` | `MCConnection`, `MCConnection` | is one connection served well, on every route? | every mode that routes differently, a host of every class, 3 pipelined requests, 2 units back; a client that may stop reading before any write |
| `github` | `MCGitHubMode`, `MCGitHubMode` | is the status of a Codespace sound, and can every process be stopped? | 2 creates, and one of every other request, without Xray; 3 starts of Xray, so that one can fail and two overlap, 1 stop, 2 connections, beside a Codespace that one login, create and delete make come and go; an end of the program at any point, any number of times; 3 looks instead of 20, one account |
| `controller` | `MCController`, `MCController` | do configuration, CA and hub keep what they hold, across restarts? | requests to one of the three at a time; any 3 of 2 additions, 1 deletion, 2 saves, a login and a logout, 2 modes; 2 connections and an installation; any 3 of 2 pages, 2 log lines and 2 changes of the proxy, 1 unread write |

`MCController` and `MCGitHubMode` restrict the composed specification (`MCSpec`): the components share no variable, so
that interleaving the requests of several of them only multiplies their states; `Controller`'s shared
steps, `Dies` and `Restart`, happen in all of them, and so does the `Restart` of `GitHubMode`. `Limit` is three requests to the configuration and three users
of the hub: two that overlap and one that follows (or precedes) them, which is what each property is about.
Of two requests that are alike the first by name comes first.

Bounds on counters: `MaxTime` (clock), `MaxData`/`MaxBack` (units on a connection), `Polls` (looks at
a new Codespace: 20 in the code). Every other bound is the number of requests. Each request
is made at most once and runs to its end, so deadlock is switched off (`CHECK_DEADLOCK FALSE`) where the
system rests when all requests have been served; the limiter and the pool never rest.

Fairness is what the Go runtime gives: a goroutine that can run does. Calls of the relay and of GitHub's
client end by their 25-second and 30-second timeouts; `time.Sleep` returns; the ticker
of the health checker ticks. A handler, a log line and a broadcast go on if they
can (`HubFairness`), and a panic ends the program (`WF_vars(Dies)`); that pages read or go away is a premise of
`LoggersReturn`, not a fairness.

A connection is fair in what the handler does alone (`~Stuck /\ Handle`): it reads what has come, goes on after the relay has
answered, and writes what the client has room for. That the client makes room or goes away is `ClientTakes`, the premise of
`TunnelEnds` and `RelayEnds`: without it both fail, as `io.Copy` (`connect.go:85`) and `resp.Write`
(`connect.go:158`, `http.go:60`) wait for ever for a client that stays and does not read. Of the other copying goroutine
only its end after the handler has closed both connections is fair (`pc = "ended" /\ PumpEnds`), as its writes may wait
for a far end. Nothing is assumed of dialing, of a plain request's passage to Xray, or of Google's response in the SNI-rewrite loop (`Upstream`), which
the code waits for without a deadline: `TunnelEnds` begins when the far end of a tunnel closes, and `RelayEnds` speaks of the
relay's routes. Nor is anything assumed of the clock, of the arrival of requests, or of what GitHub and far ends do.

## 5. What is proved

All theorems hold for every value of the constants that satisfies the named assumption
in the component's module; the assumptions only say which constants are disjoint, of which type,
or not zero.

- `RateLimiterProofs`: `TypeCorrect`, `LimiterBounds`, `LimiterTight`. `WindowBound` is not
  inductive, as it says nothing of tokens. `Envelope` bounds the tokens by the slack of every
  window that ends at the bucket's last call; `Tight` says some window has exactly that slack,
  which is what makes a refusal necessary.
- `ScriptPoolProofs`: `TypeCorrect`, `FailuresAreJustified`, `PoolNeverDry`, `EntriesPersist`, `WellScriptServes`,
  `NoneAskedTwice`, `OnlyOutOfQuota`.
  `Covered`: a slot is still to be asked, or its script was asked or excused when the request looked;
  `Dated`: an entry is no younger than the last permanent error. `WellInv`: a script that nothing has
  spoiled (`Spotless`, which is never regained) has answered whoever asked it (`Answers`), so a request that failed never asked it,
  against `FailureJustified`. `Asked`: what a request has asked is a slot it has left behind (`LeftBehind`), so that the
  action property `AskedOnce` follows: a request sends to a script once for each time it is configured, whatever
  was answered. `OwnFault`: where every target can be fetched and every script has the key it is sent, an answer
  that blacklists comes from a script that was out of quota.
- `CoalesceProofs`: `TypeCorrect`, `OneFlight`, `CleanUpIsOwn`, `BodiesWhole` (`Own`, `BodyInv`), `AnswersAreOwn`,
  `NoneStranded`, `NilBodiesCoalesce`, and `Refinement`, that `Coalesce` implements `SharedFetch`, one lemma per action. `Leading` (who fetches has its group in the map),
  `Entries` (what is in the map has its fetch or its clean-up ahead), `Joined`, `Results`, `Returned`.
  `NobodyStranded` is what must hold for `WaitersReturn` and `EntriesForgotten` to be possible: who waits has someone that fetches,
  and what is in the map has its fetch or its clean-up ahead. `OwnAnswer`: an answer is one's own or that of one's URL.
- `ProxyControlProofs`: `TypeCorrect`, `NoSpin`, `AllTended` and `StaysClosed` however requests overlap (`Fresh`, `Own`,
  `Targets`, `ListenerSteps`). The last two are the safety half of `StoppedCloses`: an open listener has a loop that is
  about to serve it or a goroutine that waits to close it (`Tended`), and a closed one is never opened again
  (`ClosedForGood`, an action property). Under `OneAtATime`: `StatusIsTrue`, `NotRunningIsTrue`, `AlwaysStoppable` and
  `NeverPanics`: at most one request or goroutine is busy (`OneBusy`), what listens is the server of the globals (`Opened`,
  `Running`), and what each program counter may find (`CallPhases`, `LoopPhases`). `Refinement`, that
  `ProxyControl` then implements `Switch`, goes one action at a time, with one more invariant (`Listened`: a
  goroutine that waits to close a listener has one).
- `ConnectionProofs`: `TypeCorrect`, `ThroughSocks`, `InOrderAnswers`, `NothingLeftOpen`, `TunnelIsWhole`.
  `Place` (which route a program counter belongs to), `Counted` (answers against requests
  taken), `NoneCut`, `InOrder`, `Conns`, `Quiet`. Besides, from the same invariant: `OnlyByRelay`, that the proxy itself
  dials nothing for a request the relay carries, whatever fails on the way (`RelayOnly`), and `OnlyAskedIsAnswered`, that no answer runs ahead of the
  requests taken (`AnsweredWasAsked`).
- `GitHubModeProofs`: `TypeCorrect`, `WholeWhenReady`, which needs that nobody can have named, let alone ended, a Codespace
  whose create has not ended (`Fresh`, `Naming`), `WorkBehindCreating`, which is inductive with the
  types, and `NoneOrphaned`, which needs that a start that prepares holds the mutex (`Owner`)
  and found no process (`Vacant`). `Restart` is shown to keep each half.
- `ControllerProofs`: `TypeCorrect`, `MemoryOnDisk`, `EntriesKept`, `AuthoritySound`, `RunningShown`, `MutexesReleased`. The invariant
  has three parts that every step of the others leaves alone, and `Restart` is shown to keep
  each. `ConfigInv` relates a lone request's progress to memory and disk: before it writes, the panel's copy
  or the list it has read contains what was told; when it has copied, the copy is what is in
  memory; when it has written, so is the file. `CAInv`: the maker keeps its own pair until it reads one
  (`OwnPair`), and as long as nobody was disturbed the files are in exactly one of three states, not made, being made by
  one maker at a known place, or made. `HubInv`: who holds the mutex is in the loop (`Locked`), who reads is in the map (`InMap`), and a client
  shows the status or is still to be told by a broadcast that has read it (`UpToDate`). `MutexesHeld`, the
  safety part of `LoggersReturn`: who holds `clientsMu` or log's mutex is on its way to release it, and who waits for
  log's holds neither.

Three theorems say what the findings of section 6 come from: `OnlyOutOfQuota` (with no bad target and no wrong key
`BlacklistMeansScriptFault` holds), `NilBodiesCoalesce` (with nil bodies `GetsCoalesce` holds), `NotRunningIsTrue`
(with requests that wait for quiet `NotRunningSaidTruly` holds); the runs check those properties where the
premise is not met, and find them violated. Only proved, and checked by no run, are `AskedOnce`, `TimerOwnsEntry`, `OwnAnswer`, `NobodyStranded`,
`StatusTrue`, `Tended`, `ClosedForGood`, `RelayOnly`, `AnsweredWasAsked` and `MutexesHeld`.

Every safety property the passing runs check is proved. Only model-checked: liveness (`RequestsEnd`, `HealedScriptReturns`, `WaitersReturn`, `EntriesForgotten`,
`StoppedCloses`, `TunnelEnds`, `RelayEnds`, `CreatingEnds`, `LoggersReturn`), as the installed backends handle neither
fairness with `ENABLED` nor induction over data. No module uses a `RECURSIVE` operator.

## 6. Findings

1. `pool_bad_target`: `relay.go:188` says a script is blacklisted "only ... for truly permanent or
   quota-related errors"; one request for a target the script cannot fetch blacklists a script that
   is well.
2. `coalesce_gets`: `relay.go:209` says GET requests are coalesced; both callers pass a
   body that is empty but not nil, so none is.
3. `control_rapid`: a start, a stop and a start in quick succession leave a proxy that listens, says it is
   not running and cannot be stopped: the goroutine reads `proxyServer` when it runs
   (`gui/server.go:629`), and any error of `Start` clears `proxyRunning`.

Noted while reading, and not checked, for want of a promise or because they are plain from the text:

- the panel says load is balanced over the ids (`index.html:292`); the loop always starts with the first
  healthy one (`relay.go:217`);
- keys of accounts are ignored, `AuthKey` is sent to every script (`relay.go:370`; `ScriptPool.KeyFor`);
- modes `worker`, `exit_node` and `v2ray` dial a CONNECT's target directly;
- the SNI-rewrite loop passes over an error in writing the response (`connect.go:117`), and dials
  once per request without closing until the connection ends;
- bytes that come in the same `Read` as a CONNECT are dropped;
- a save of the panel with a copy loaded before a login erases the token
  (`gui/server.go:673`), while the status still says authenticated;
- a Codespace is called ready after twenty looks, whatever its state
  (`gui/github_codespace.go:287`); stop and delete take any answer of GitHub for success; of two overlapping
  creates only the last Codespace is kept, and the other can no longer be stopped from the panel;
- after an end of the program between the two writes of the CA, or with a second connection in that
  moment, `ca.key` is there and `ca.crt` is not, and from then on every intercepted connection
  panics, which ends the program (`mitm/mitm.go:54`); installing the CA again does not repair it;
- a WebSocket upgrade that fails leaves a nil connection in `logClients`, and the next line that is logged
  ends the program (`gui/server.go:837`);
- a client that stays and does not read holds its handler, with all it has dialed, for ever (`connect.go:85, 158`, `http.go:60`);
- an Xray process outlives the program, keeps its port, and cannot be stopped by the next run
  (`gui/github_codespace.go:534`, `proxy/v2ray.go:43`);
- a page that stops reading stops whoever logs, the proxy's handlers included (`gui/server.go:860`);
- entries added under a mode other than `apps_script` are not in `cfg` after a restart (`gui/server.go:507`);
- `StartHealthCheck` has no end: each start leaves one more health checker behind;
- buckets of the rate limiter are never dropped.

## 7. Abstractions and limits

- Accesses to globals without a lock are single steps in some order (sequentially consistent); a
  torn read, which Go does not rule out, is not modelled, except that the exit path may miss
  a write of `devAvailable`.
- Deployment ids have at least the 12 characters that log lines cut.
- A port is free for a server once the listener that held it is closed; other programs are covered by
  a `Listen` that fails for reasons of its own.
- `handleV2RayConnect` is called with the id of a configuration there is.
- GitHub's accepted answer to a create names the Codespace; a name is never used twice. (The code accepts one without a
  name too, and then calls a Codespace ready that stop and delete do not find.) A stop or deletion counts as made
  when GitHub has answered it: one that was carried out and whose answer was lost leaves the status as it was.
- After an end of the program the token of the new run is any: which file is loaded is in `Controller`.
- `Codespace` has one mode's configuration; a save under another mode's name is in `Configuration`.
- In `Configuration`, handlers that only read `cfg` are left out, and so are `ListenHost`, which a start sets
  in memory when LAN sharing is on and does not save, and the page's own settings file. `WriteFile` is a truncation and one write.
  The panel first asks for the mode `welcome`, of which there is no file.
- In `CAStore`, a write is whole or not begun; nobody else removes or edits the files. Generating
  a key and reading it do not fail for other reasons.
- In `LogHub`, how much a connection takes unread is a number of writes, and a broken connection is one that
  has closed. The ping and the mode in a status are left out.
- On a connection, the TLS handshake succeeds only if the first `Read` took the CONNECT and nothing
  else; a request body that breaks off is relayed as what was read. A plain request is taken whole, body
  included, before it is dialed for; in `github` mode the code dials first and passes the body on as it comes. Room for a write
  is there or not: how much of an answer a client has taken when it stops reading is not modelled. `Stats` is left out.
- Not modelled: the parts listed as "no" in section 1 (the relay envelope has no state and no concurrency, and
  is JSON, base64 and decompression; the others are used by nobody, or are text, or I/O); parsing, encoding, compression and
  cryptography anywhere; the panel's page; Windows-specific code.
