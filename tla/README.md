# zosma-cowork in TLA+

This directory keeps the TLA+ models of zosma-cowork beside its code: what the
control plane, the daemon and the channel between them do when sockets break,
processes restart and events interleave. TLC checks the models on small
instances (`MC*.tla` with their `.cfg` files), and TLAPS checks the proofs in
`*Proofs.tla` for every value of the constants. `PROJECT.json` lists the parts
of the system, the runs, for every definition the lines it models, the hazards
each property is for, and the mutants (a plausible bug in one definition) that
show each property can fail.

    tlc -workers 4 -config FleetSafety.cfg MCFleetChannel     # one run
    tlapm FleetProofs.tla                                     # one proof module

## 1. The system

zosma-cowork lets a person run the Pi coding agent on their own machines and
reach it from a browser or a desktop shell.

```
 browser UI (apps/web) --HTTP, SSE--> Next.js routes (apps/web/app/api, lib)
                                           |  POST /ipc, /ipc/stream (loopback HTTP)
 desktop shell (apps/desktop, Tauri)       v
      | starts and stops the         daemon (apps/daemon)
      | web and daemon processes           |  function calls
                                           +--> sessions of the Pi SDK, in the daemon
 operator --REST--> control plane (apps/control-plane) <--WebSocket, dialled by-- daemon
 zosma.ai accounts <-- OAuth broker (apps/oauth-broker) <-- browser, web lib/zosma-auth
```

The connector that dials the control plane is a building block: it is written
and tested, but nothing in the daemon's start-up creates one yet
(docs/TECH.md:57).

| part | state it keeps | operations | who it talks to |
|---|---|---|---|
| control plane server (`apps/control-plane/src/server.ts`) | `connections`, `registryMirror`, per-socket `machineId` | hello, response and ack frames; push, ack, read, revoke, re-admit over REST | command store; daemons' sockets |
| command store (`store.ts`) | journals of commands, acks and replies; registry; tombstones; in-memory copies, loaded lazily | `append`, `ack`, `recordReply`, `pending`, `reply`, `register`, `revoke`, `clearRevocation` | disk |
| daemon connector (`apps/daemon/src/outbound/connector.ts`) | socket, watermark, attempts, `revoked`, pending requests, pong clock | dial, reconnect, heartbeat, run a pushed command, answer and ack, outgoing request with timeout | control plane |
| approval broker (`apps/daemon/src/approval`) | pending entries with timers, history of verdicts | request, resolve, cancel, timeout, reconnect | Pi sessions, clients over `/ipc` |
| Pi sessions (`apps/daemon/src/pi`) | table of live sessions, warm session, UI asks, turn flags | warm-up, start, resume, prompt, steer, cancel, close, dispose | Pi SDK, approval broker, session store, path cache |
| session store (`packages/protocol/src/store.ts`) | the session index, one JSON file | load, add, remove | disk |
| daemon server (`server.ts`, `orchestrator.ts`, `signal.ts`, `index.ts`) | readiness, the shutdown in progress | dispatch, stream, shut down | all daemon parts |
| daemon instance and identity (`instance.ts`, `identity.ts`) | lock file, identity file | acquire, release, load or create | disk |
| read side (`apps/daemon/src/read`) | session list, generation, path caches, model catalogue | list, rename, delete, invalidate, install | session files on disk |
| files and git RPC (`files`, `git`) | none beyond the work tree | read, write with a hash precondition, list, status, diff, worktrees | disk, git |
| auth RPC (`auth/rpc.ts`, `credential-store.ts`) | login registry, credential file with a lock | begin, answer, cancel, finish a login; modify credentials | providers, disk |
| web event stream (`apps/web/lib`) | one event connection per session, translation state, streaming message | connect, translate, end | daemon, browser |
| web Zosma sign-in (`apps/web/lib/zosma-auth`) | pending transaction, session, provider entry of models.json | start, complete, refresh, disconnect | OAuth broker, router, daemon |
| desktop shell (`apps/desktop`) | owned server process | start, stop, close window, sidecar supervision | sidecar |
| OAuth broker (`apps/oauth-broker`) | none | authorise, callback, exchange | Firebase, account service |
| web components and hooks, website, docs | UI state | rendering | – |

### What is hard, and what makes each part correct

* **Fleet channel.** Two processes, a network that breaks on either side at any
  time, journals that are read lazily. Correct when a command is neither lost
  nor settled without a result, when replay never repeats what is answered,
  when one machine has one live registration and a revoked one gets nothing.
* **Connector requests.** A reply racing its timeout, a socket that closes with
  requests pending, `stop()` during a dial. Correct when every request settles
  once, and none outlives its socket.
* **Approvals.** A user's answer racing a timeout, a client's verdict and a
  reconnect that asks again; a session that closes with asks open. Correct when
  nothing is allowed that nobody allowed, every ask is resolved once, and the
  agent's call returns with that verdict.
* **Pi sessions.** Two callers resuming the same session, a start that meets the
  warm-up, a close that meets a resume, a steer that ends while its turn goes
  on. Correct when a chat has a session of its own, the session a caller was
  given is live, no session is lost to close and dispose, and every call returns.
* **Session index.** Rewrites of one file by calls that overlap. Correct when
  the file always parses and keeps what the finished calls recorded.
* **Caches and files.** Session list caches invalidated while they are being
  filled, read-modify-write of the session index and of credentials, stale
  lock files. Correct when a change that returned is visible afterwards, and
  when one of two writers is not silently dropped.
* **Turns.** Prompts, steers and watches of one session share an array of
  listeners that shrinks while an event is passed along it. Correct when the
  end of a turn reaches who waits for it and the session does not stay claimed.
* **Web stream.** A connection that two callers share, with a deadline, a retry
  and a session that changes under it. Correct when there is one stream, a
  wanted session never falls silent, and what was closed stays closed.
* **Zosma sign-in.** Requests that read two files, ask a server, and write the
  files after the answer. Correct when a failure changes nothing, a disconnected
  key opens nothing, and a paste deletes no model.
* **Desktop.** Starting and stopping the server while the window closes.
  Correct when no server process is left behind and none is stopped twice.

## 2. Plan

In order; modules with a `*` are done.

1. `CommandStore`*, `FleetChannel`*, `CommandLedger`*, `FleetLedger`*: the
   control plane, the connector's command side and what they promise together.
2. `ApprovalBroker`*, `ApprovalDecisions`*: the broker with the UI asks of the
   sessions behind it, and what they promise together.
3. `SessionStore`*, `PiSessions`*: the life of sessions, with the index.
4. `PiTurns`*: turns, steering, abort and watches of one session.
5. `SessionList`*: list scans, generations and path caches.
6. `ConnectorRpc`*: the connector's own requests, heartbeat, reconnect and stop.
7. `EventConnection`*: the browser's connection to a session's events.
8. `ZosmaAuth`*: the sign-in to the router.
9. Not done: `LoginSessions` (OAuth logins in the daemon), `InstanceLock` (the
   daemon's lock file), `FilesWrite`, `OwnedServer` (the desktop shell's server)
   and `Negotiation`. Section 7 says what speaks against each.

Each has one run for its properties, small instances of two or three actors, and
a violation run only where code and documentation disagree. Every safety
property a run checks is also proved (section 5).

## 3. The modules

### Fleet channel

`CommandStore` is `apps/control-plane/src/store.ts`: one variable per journal
(`log`, `ackFile`, `replyFile`), the in-memory maps (`acked`, `replies`), which
machines' journals were read (`loaded`), the registry and the tombstones. Every
method has a synchronous body, so each is one action; `LoadMachines` is the lazy
`loadMachine`, taken by exactly the operations that call it. That `ack` and
`recordReply` do not load, and write their journal only when the machine is
already loaded, is kept, because it decides what a restart forgets.

`FleetChannel` puts the server and the connectors around it.

| code | model |
|---|---|
| `connections`, `registryMirror`, `c.machineId`, `readyState` | `connections`, `mirror`, `registered`, `pEnd` |
| hello handling, refusal codes 4003 and 4004 | `AcceptHello`, `RefuseHello` |
| `replay()` | `BeginReplay`, `ReplayNext` (one command at a time), `EndReplay` |
| response and ack frames | `ReceiveResponse`, `ReceiveAck` |
| REST push, ack, get, revoke, register | `Push`, `OperatorAck`, `OperatorRead`, `OperatorRevoke`, `OperatorReadmit` |
| connector `dial`, close event, request handler, its completion | `Dial`, `DaemonCloseEvent`, `ReceiveCommand`, `FinishCommand` |
| sockets | `up`, `down`: frames in flight; each end breaks on its own (`DaemonLosesSocket`, `PlaneLosesSocket`) and the other notices later |
| process restarts | `RestartDaemon`, `RestartPlane` |

*Atomicity.* Both programs are single-threaded event loops. On the plane, every
`await` in a handler is on a store method with a synchronous body, so the
continuation runs before the next I/O event and a handler is not interleaved
with another. The exception is kept: several frames read from a socket at once
are handed over one after the other synchronously, so frames behind a hello can
be handled between its acceptance and its replay. `Coalesce` switches that on.
The daemon's handlers are asynchronous and finish whenever they like.

*Abstractions.* A reply is the number of the handler run that produced it.
Manifests, names, tokens and timestamps are left out, and so are torn journal
lines. A socket is used again once both ends are closed. The machine id of a
daemon does not change while it runs, so close code 4002 never occurs. A
graceful stop of the plane closes the sockets as `RestartPlane` does. TCP is
reduced to one fact: `unconfirmed` has the sockets the plane wrote to when nobody
was there any more, whose close it will hear; a half-open socket it does not
write to is not among them. `Listed` is `machines()`: the mirror and, over it,
the machines that have a connection.

`CommandLedger` is the promise without the machinery. A command is submitted,
started, answered and settled; the plane lives several lives, in each of which it
comes to hold more of the queue (`held`, the machines whose journals it has
read). An answer or an ack of a command it holds is kept; one of a command it
does not hold is only remembered, and forgotten when the life ends. `FleetLedger`
instantiates the ledger over the channel's state. The channel's history variable
`lives` counts the `RestartPlane` steps (where `CountLives` is set: nothing else
reads it), and in the ledger only `Restart` raises
it: so whatever is forgotten is forgotten at a restart of the plane, and only
that which was not kept.

### Approval broker

`ApprovalBroker` is `approval/broker.ts` with the approval part of
`pi/session.ts`, as `index.ts` wires them.

| code | model |
|---|---|
| `entries`, the entries' timers, `resolvedHistory` | `entries`, `timers`, `history` |
| `request()` up to its await, and after it | `Request`; `RequestDecided`, `RequestOvertaken` |
| `approval:resolve`, `approval:cancel` | `Resolve` |
| `timeout()` | `Timeout` |
| `reconnect()`: its loop, and after each await | `Reconnect`, `ServeNext`; `ReconnectDecided`, `ReconnectUndecided` |
| `pendingUi`, `approvalUiIds` of a session | `ui` (the UI ask of a caller), `uiIds` |
| the user's reply, the UI ask's timer | `Answer`, `UiTimeout` |
| `close()`, and a resume of the id | `CloseSession`, `ResumeSession` |

An ask is a call of `request()`, numbered; a caller is who awaits its UI ask:
that call or a `reconnect()`. An action is one turn of the event loop up to its
await; the continuations a settled UI ask makes due are microtasks, so nothing
else runs before they have (`Quiet`). `askApproval`'s `finally` runs before the
broker's code after the await, so `complete()` finds no id there any more. The
UI ask's timer has the broker's length and is set after it. `Reusable` holds the
correlation ids a client may send again; the others are the UUIDs that native
asks draw. `dispose()` (no caller outside the tests), validation, and `canAsk`
(always true for Pi) are left out.

`ApprovalDecisions` is the promise without timers, UI asks and sessions: asks are
made, people say what they allow, an ask is decided once and allowed only if
somebody allowed it, and its maker is told once, that it is pending or what an
ask of its id was decided with. `ApprovalBroker` instantiates it (`Decisions`):
the history is the decisions, what calls return is what their makers are told.

### Pi sessions and their index

`SessionStore` is `packages/protocol/src/store.ts`. A rewrite of the index is
five steps: the call (`Submit`), the read, open-and-truncate, write and rename.
Since a rename moves a file that another call may still have open, files are
inodes: `target` is the one behind `sessions.json`, `temp` the one behind the
temporary name, and `content` says what each holds (whole, empty or torn text,
and its records). Two calls that write one inode leave whole text of the later,
or torn text. A write fails when the disk is full; a rename fails when another
call has moved the file. Text so long that it is written in several pieces is
not modelled (it only adds torn states).

`PiSessions` is the adapter's session life.

| code | model |
|---|---|
| `sessions`, `prewarm`, `warmInFlight`, `closed` | `table`, `prewarmed`, `WarmInFlight`, `disposed` |
| `warmSession()` | `WarmUp`, `WarmUpDone`, `WarmUpFails` |
| `start()` | `StartOwn`, `StartDefault`; phase `waiting` while it awaits the warm-up |
| `resume()` by file, by id | `ResumeFile`; `ResumeRecord`, `RecordRead` |
| `spawn()` up to the factory, after it, after `add()` | `Spawn`; `FactoryDone`, `FactoryFails`; `FinishAdd`, `FailAdd` |
| `close()` up to `remove()`, after it | `Close`; `FinishRemove`, `FailRemove` |
| `dispose()` | `Dispose`: a close of every listed session in one step |

A call is made once, and what it is (start, resume, close) is decided when it is
made; the session object a call creates, and the id of a new session, are named
after the call, so "two live objects of one id" can be said. `PiSession.close()`
calls `onClose`, which takes the id off the table before the index is touched.
The starts that wait for the warm-up run in the turn that ends it: one takes the
session, each other goes on to open its own. `raced` (ghost) collects the ids
that a call began to open or close while another was opening or closing them;
`expected` and `overlapped` (ghosts) say what serial rewrites should leave. A
session can be resumed by file once it has been opened, or was recorded before
the start. Left out: turns (plan item 4), the `closed` state a `pi:update` may
set, a `start` with the id of a live session, the path cache.

### Session list

`SessionList` is `listAllSessions()` of `apps/daemon/src/read/sessions.ts` and
what depends on it.

| code | model |
|---|---|
| `__piSessionListCache`, `...Generation`, `...Promise` with its generation | `cache`, `generation`, `promise` with `scan[promise].gen` |
| `__piSupplementalSessions`, `__piSessionPathCache` | `extra`, `known` |
| `listAllSessions()`: cached, joined, begun | the three disjuncts of `Serve`; `List`, `ForceList` |
| `SessionManager.listAll()` (SDK): directory, then file by file | `OpenDir`, `ReadFile` |
| `loadAllSessions()` after it; the `then` and `finally` of the promise | `ScanListed`; `ScanEnd`, `ScanFails` |
| `renameSession()`, `deleteSession()` | `Rename`, `Delete` up to the path, `RenameFile`, `DeleteFile` with it; `Resolved` when a list came first |
| end of `pi:start`; the session's first write | `Start`; `FirstWrite` |
| the cached list turns five minutes old | `Expire` |

Calls are numbered in the order in which they are made; sessions start, and write
their files, at any moment. A file is its version; a rename adds one. `renameSession()` and `deleteSession()`
run from the path to their end without an `await`, so that part is one step, and
so is the resumption of all callers of a scan (`Quiet`: nothing comes between
them). A scan that was overtaken asks again under its own name. `floor` and
`dead` (ghosts) are what a list has to show and to leave out, taken when it is
called; `found` (ghost) has the sessions that a scan which counted has found. Left
out: two files with one id, the map from paths to ids, the parent a delete writes
into the files of child sessions, `pi:resume`'s overlay entry, and the web tier's
own path cache.

### Turns of one session

`PiTurns` is `prompt`, `streamTurn`, `cancel`, `update` and `close` of
`pi/adapter.ts` over `run()` and the listeners of `pi/session.ts`.

| code | model |
|---|---|
| the entry of the session, `entry.state`, `promptRunning` | `open`, `state`, `promptRunning` |
| `session.listeners`, an array | `listeners` (all there were, in order) and `on` (those still in it) |
| `prompt()`, `streamTurn()` with a prompt: up to the await, `run()` over, after it | `Prompt`, `PromptRefused`; `RunEnds`, `RunFails`; `Returned` |
| `streamTurn()` without a prompt (a watch): begin, end event, return | `Watch`, `Ending`, `Leave` |
| the SDK emits an event; each `run()` subscribed is given it | `Native`; `Push` |
| `emit()`'s `for...of` over the array | `Visited`, `Emit` |
| `mapPiEvent`, `synthesizeEnd` | `Events`; the end that `RunEnds` emits |
| `cancel()`, `update()`, `close()` | `Cancel`, `Aborted`, `AbortFails`; `Update`; `Close` |

A watch adds two listeners, the sink and then the stop that ends it; the stop
takes itself out of the array the loop walks over, so the next listener is
passed over. `Visited` says who is: a listener behind an odd number of stops. An
event is one of three kinds: an end (`agent_end`), the settled end, any other.
The agent may emit any of them while a run is subscribed, and settles a run
whenever it likes, which covers a steer and a follow-up that return at once.
`given`, `seen` and `behind` are ghosts. Left out: the payloads, titles,
compaction, forks, and changes of model and thinking level.

### Outbound connector, from its owner's side

`ConnectorRpc` is `outbound/connector.ts` without pushed commands, which
`FleetChannel` has.

| code | model |
|---|---|
| `ws`, `readyState`, the `ws.on(...)` of a socket | `ws`, `sock`, `heard` |
| `stopped`, `revoked`, `heartbeatTimer`, `lastPongAt` | `stopped`, `revoked`, `heartbeat`, `quiet` |
| `reconnectTimer`, and timers it no longer refers to | `reconnect`, `armed` |
| `pending`, the entries' timers, the promises | `pending`, `timer`, `outcome` |
| `start()`, `stop()`, `request()` | `Start`, `Stop`, `Request` |
| `dial()`; `open`, `message`, `close` events | `Dial`; `Opened`, `Pong`, `Response`; `CloseEvent` |
| timers | `ReconnectFires`, `HeartbeatTick`, `RequestTimeout` |
| the callback of `ws.send` | `Sent`, `SendFails` |
| the network | `LinkDies`, `SocketBreaks`, `ClosesUnheard` |

A timer fires at any time after it is set; delays are left out, and so are the two
failures that end in an unhandled error (section 7). A socket that is closed and that nothing refers to stands for the next one, so two suffice for an
old one that is closing beside a new one.

### Event connection

`EventConnection` is `apps/web/lib/agent-event-connection.ts`.

| code | model |
|---|---|
| `current`, its source, its promise, `ready` | `current`, `src`, `of`, `attempt`, `ready` |
| the retry timer; `retryGeneration` | `retry`; `fresh` (the calls of the current generation) |
| `shouldMaintain()` | `demand` |
| `ensureConnected()` up to its await, and after it | `EnsureConnected`; `Resumed` |
| `maintain()`; its catch | `Maintain`; `Caught` |
| events of the source, the deadline, the retry timer | `Connected`, `StartupError`, `SourceFails`, `ReadyTimeout`, `RetryFires` |
| the `EventSource` itself | `SourceOpens`, `SourceDrops` |
| `close()`; the hook that changes its mind | `Close`; `DemandChanges` |

The continuations of a promise are steps of their own (`Resumed`, `Caught`); no
source and no timer comes before them (`Quiet`), but calls may, as a listener can
make them. `kept` and `closed` are ghosts.

### Zosma sign-in

`ZosmaAuth` is `apps/web/lib/zosma-auth/index.ts` with the files of `state.ts`
and `models-json.ts` and the cookies of `session.ts`.

| code | model |
|---|---|
| `zosma-auth-pending.json` (an expired one is none) | `pending` |
| the provider's entry of `models.json` | `entry`: key and models |
| a call between two answers of a server | `request` |
| a save that is under way: whose, its step, the snapshot it took | `save` |
| browsers' session cookies | `cookies` |
| `startZosmaAuth` up to its fetch; its answer | `Start`; `StartAnswered` |
| `completeZosmaAuth` up to each fetch | `Complete`; `TokenAnswered` |
| `refreshZosmaModels`, `authenticateWithKey`, `disconnectZosmaAuth`, `cancelZosmaAuth` | `Refresh`, `Paste`, `Disconnect`, `DisconnectAnswered`, `Cancel` |
| no catalog comes | `CatalogFails` |
| `saveCatalogAndVerify`: snapshot and `upsertProvider`; reload and check; `restoreProvider` | `Write`; `Verify`; `Restore` |
| the web server stops | `Restart` |

A save has awaits of settled promises only (`productionDeps`), so no other
request comes into it (`Quiet`); a stop of the process can (`Restart`). The write
fails when the file cannot be written, the rollback for the same reason; the
check fails when a model is not in the file that is read again, which happens to
models whose id is blank (`Blank`): `writeModelsConfig()` leaves them out. `gone`
(ghost) has the keys that a disconnect removed while no request under way held
them, until somebody gets them again; `kept` (ghost) is the entry that the last
request to succeed left. Left out: the device id, addresses of the servers, the
mapping of catalog fields, the cookie's format, and the status read.

## 4. The runs

| run | instance | shows |
|---|---|---|
| `fleet_delivery` | 1 machine, 2 sockets, 2 commands, 2 faults, frames read together | acks stay behind replies; one live registration; first starts in push order; a command is written to a socket once; answered commands are not resent; a channel at rest has left no command behind (`NothingStranded`, what `EventuallyAnswered` needs of the states) |
| `fleet_service` | 1 command, 2 sockets, 2 faults, 2 revocations, fairness | a listed machine is registered, or hung up on; a revoked one gets nothing; a command is started again only at the cost of a fault (`RerunsArePaid`; the revocations matter here: they cost a socket and no fault); the refinement of `CommandLedger`; a pushed command is answered, unless a revocation or a half-open registration keeps the machine out |
| `approval_served` | 2 asks of one session, a reconnecting client, fairness | only what somebody allowed is allowed; `request()` returns the first verdict; a timed ask is resolved and returns |
| `approval_once` | 2 ids of 2 sessions, 3 requests, one id sent again, no reconnect | the refinement of `ApprovalDecisions`: an ask resolves once, with an allow only if somebody gave one; a resolved ask holds no caller |
| `pi_sessions` | the warm-up and 2 requests, 1 recorded session, fairness | one chat per session; handles are live; open sessions are listed; serial rewrites are exact; every call returns |
| `pi_turns` | 3 calls, symmetry | a session is not left running; a turn's end ends the watches; who listens first hears the end |
| `session_list` | 3 calls, one session with a file and one that may be started, fairness | lists are fresh, the overlay's part of them included; scans are shared; listed sessions are found; every call returns |
| `connector_rpc` | 2 sockets, 2 requests, 2 starts, fairness | a promise has its entry and timer; the connector always dials or listens; one socket is watched; `stop()` is final; requests settle; a half-open socket is dropped |
| `event_connection` | 2 sources, 2 sessions, 2 callers, fairness | one stream; nothing revives after `close()`; a wanted session has a source or a retry; every call returns |
| `zosma_auth` | 3 requests, 2 keys, 3 models of which one has a blank id, 2 states | a disconnected key opens nothing; a paste deletes no model; a save that fails leaves no trace |
| `approval_hang`, `stream_end_sunk` | the smallest that shows it | statements of the repository that the code does not keep (section 6) |

*Bounds.* Fleet: two sockets let an old connection be half-open while the next
one registers; a third could only repeat that, as at most one is open on the
daemon's side. Two commands give an order and a replay with an answered and an
unanswered one. Two faults give a break during the recovery from a break, or a
break and a restart. Two revocations allow revoke, re-admit, revoke. Symmetry
(sockets and commands) is used only in `fleet_delivery` and, over calls, in
`pi_turns`, whose properties are invariants and action properties. Approvals:
`reconnect()` iterates over the asks of one session, so two asks of one session
give an ask ahead of and one behind its cursor; three requests over two ids give
an id that is used again while, and after, its first ask is pending, next to
another session's ask. Sessions: two requests and the warm-up are three calls
that can open, wait for, resume and close one id, with rewrites that overlap.
Turns: three calls give two watches and a stream, in every order of joining, so a
listener behind one stop, behind two, and in front of them; two runs that are
subscribed at once beside a watch or a cancel. List: three calls give a scan, a
change that overtakes it, and a caller that joins one of the two scans; two files
let a change fall between the reads of one scan. As sessions start by themselves,
three calls are also a list that finds a new session, its delete, and a list
after it, which must not show it from the overlay. Connector: two sockets are an
old and a new one, two requests go one over each, two starts give a start after a
stop. Event connection: two callers can wait for two different sources, one of
them discarded; a third source could only be one that nobody waits for. Sign-in:
three requests are two savers and a disconnect between them; two models and a
blank one give catalogs that differ and one that fails its check; two states are
a transaction and the one that replaces it. The proofs hold without these bounds.
`CHECK_DEADLOCK FALSE` is set where every call is made and over, a state in which
the modelled part of the program has nothing left to do.

*Fairness.* Fleet (`FleetChannel!Fairness`): weak fairness on handling a frame
that arrived (event loop), on a handler's end (handlers return or throw), on the
daemon's noticing a broken socket (its heartbeat), and on dialling (the reconnect
timer re-arms after every close). The plane sends no pings, so its noticing is
fair (`WillNotice`) only for a socket that it closes itself (`ws` ends those
after its own timeout) or that it wrote to (TCP gives up on data that nobody
confirms); also for a socket that is not a registration, which affects nobody and
only gives its name back to be used again. A registered, half-open, idle socket
may stay for ever, and `EventuallyAnswered` excepts the machine it keeps out
(`HalfOpen`). Operators and faults have none. Approvals: weak fairness on continuations
(microtasks run), strong fairness on timers, which stay set while other turns
come in between; no fairness on users and clients. Sessions: weak fairness on
the steps of a call under way (file operations end, the SDK's factory returns or
throws); none on the making of calls. List: weak fairness on the steps of a scan
and on callers that it has resumed; a scan may fail, and need not. Connector:
weak fairness on timers that are set (an interval ticks, a timeout fires), on
silence that lasts, and on the close event of a socket that closes (`ws` emits
it after its own timeout at the latest); none on answers, the network, `start()`
and `stop()`. Event connection: weak fairness on continuations, strong fairness
on the deadline of a source, which other turns disable for a moment; none on
sources and owners.

## 5. The proofs

* `FleetProofs`: `TypeCorrect`, with a lemma on the helpers' types and one step
  per action. Two inductive invariants over it. `Registrations` relates
  `connections`, `registered`, `turn`, the sockets' states and the tombstones.
  `OneLiveSocket` is one of its parts, but not inductive alone: it needs that a
  closed socket is not registered, or a dial would revive a stale registration.
  From it follow `LiveSocketIsRegistered` and, with the lemma that only a push and a replay write commands (`WhoWrites`),
  `RevokedMachineGetsNothing`. `ListedMachinesAreRegistered` adds `MirrorInv` (the
  mirror is part of the registry, and a connection has a record): a machine that is
  listed although it was revoked is listed for its connection, and `Registrations`
  says that the plane has hung up on that. `History` says where commands, replies and acks
  come from: only logged commands are in flight or run, every reply comes from a
  run, a loaded machine has in memory what its journal has, and an ack travels
  behind a reply. From it follow `AckNeverOvertakesReply`,
  that no answered command is written again (`WritesUnanswered`), and, with
  `AcksAreRead` (a loaded machine has the acks of its journal too), the refinement
  `ChannelImplementsLedger`: only `RestartPlane` raises `lives`, so no other step
  may forget, and that one forgets exactly what was not written down.
  `OnceInv` adds what a socket has seen: the log has no command twice, a hello is
  the first frame of its socket and nothing is written before it, so a replay
  starts on a socket nothing was written to, and what it has still to look at
  (`ReplayAhead`) stays unwritten, as no push is served during it. With
  `WritesUnanswered` this is `WrittenOnce` (`NeverResent`). `OrderInv` is about all commands of a machine at once. Its core is
  `AllAccounted`: on a socket that is accepted and open at both ends, every
  command of the machine is in front of the replay's cursor, on its way, being
  handled, on its way back, answered, or acked. With it a command can only be
  written behind those pushed before it (`SentInOrder`), and the handlers are
  started in that order (`StartedInOrder`). When the channel is at rest only
  "answered" and "acked" are left: `NothingIsStranded`, with no hypothesis on how
  many faults there were. `AckIsReal` closes the circle: an ack in the store comes
  from a run or from the operator, so what is skipped was not lost.
  `EveryRerunIsPaid` (`RerunsArePaid`) bounds the repetitions: `runs[c] <= 1 + faults`.
  Its invariant keeps accounts (`AllPaid`): a start that is on its way is owed, and
  the one start that is free is a credit that lasts while its socket holds at the
  plane, or the daemon is halted by a revocation. That no other step takes the
  credit away needs `SocketInv`: a daemon has one socket at a time and none while
  halted, what is in flight was written to this socket once, and a socket that is
  refused as a duplicate was never written to.
* `ApprovalProofs`: `TypeCorrect`; `NothingIsAutoApproved` and
  `FirstVerdictWins` under `Reusable = {}`, from the invariant `ConsentInv`
  (where every recorded and every due verdict comes from); and
  `AskedOnceResolvesOnce` (`ResolvesOnce`, `ResolvedIsReleased`, and that an ask
  is pending until it is resolved) under `Reconnecters = {}`, from `ReleaseInv`
  (an open UI ask belongs to a pending ask and is the one the session has
  mapped). Both assumptions are needed: section 6 says what happens without them.
  `BrokerKeepsItsPromise` is the refinement of `ApprovalDecisions`, also under
  `Reconnecters = {}` and for ids that are sent again. `PromiseInv` adds to
  `ReleaseInv` that a UI ask settles as an allow only if its ask was allowed
  (`RepliesConsent`, which `ConsentInv` shares), and that a call which still asks
  has been told nothing. That the UI ask which `complete()` dismisses is that of
  the resolved ask (`MappedAsks`) follows from the uniqueness of ids in the one
  invariant, and from the pending ask being the mapped one in the other.
  `TimersFollowAsks` needs neither assumption: a timer runs exactly for the
  pending timed asks, whichever ask had the id before. With it,
  `TimedAsksAreWatched`: a timed ask is resolved or has its timer, and its call
  has returned or awaits a UI ask with a timer of its own.
* `PiProofs`: `TypeCorrect`; `OneChat` from `WarmIsGivenOnce` (the warm session
  is in prewarm, or was given to one start, never both); `OpenListed` from
  `SessionInv`: listed sessions are open, an id that no two calls raced for is
  being opened by one call and is not listed meanwhile; `HandlesLive` from
  `HandlesAreLive`, which adds the calls still in `add()`. `RecordsArePersisted`
  ties the index to sessions that were once opened, so that a new session never
  meets its own id there. `SerialExact` has an invariant of its own, `IndexInv`:
  a call rewrites the index exactly while it adds or removes, and once
  (`RewritesOfCalls`); a file it is about to make is neither the index nor the
  temporary file (`FilesAreNew`); and a rewrite that is alone has, at each step,
  what it is to leave (`SerialRewrites`). It assumes `IsFiniteSet(Calls)`, because
  the ghost `overlapped` compares a cardinality with 1. `NobodyIsStuck` uses it
  too: a call that adds or removes is the one that rewrites the index, and a start
  waits only while the warm-up is under way (`WaitersHaveAWarmUp`), whether that
  ends well, its factory throws or its `add()` fails.
* `SessionListProofs`: `TypeCorrect`; `OneScan` from `Joining` (a scan of the
  current generation is the one that may be joined, and none is under way while
  a list is cached); `ListedFound` from `Finding` (whatever a list may be
  answered from is known by its path); `ListsFresh` from `Freshness`: the files,
  the cached list and the scans of the current generation all reach the versions
  that any waiting caller relies on, and have nothing that was deleted. The
  property alone is not inductive, since it says nothing of scans half way. Its
  part about the overlay has an invariant of its own, `Overlay`: what a scan that
  counted has found had a file, is out of the overlay, and is not put there again,
  since a session starts once and before it has a file.
  `Advances` collects what all steps have in common, and `ReachKept` is the one
  lemma about it that most steps need. `NoWaiterIsLost` (`WaitersHaveAScan`) rests
  on `Joining`: the scan that a call joins, or is moved to when its own was
  overtaken, is one that is under way.
* `TurnsProofs`: `TypeCorrect`; `TurnsEndWatches` from `WatchInv`: the stop of a
  watch is directly behind its sink, which never takes itself out, so no two
  stops are neighbours and every stop is visited; hence a run whose latest event
  is an end has ended the watches it found. `TurnsReleaseTheClaim` from
  `ClaimInv` (a claim that a turn has set has a prompt under way).
  `FirstHearsTheEnd` from `HearInv`: a listener with no stop in front of it is
  always visited, and stays in that place, as listeners join at the end.
* `ConnectorProofs`: `TypeCorrect`; `RequestsAreOwned` and `AlwaysDialling` from
  `Listening` (a socket with listeners is not closed, and the one in use is
  listened to until it is); `OneSocketIsWatched` and `StoppedStaysStopped` from
  `StartedOnce`, which adds that a timer to dial is set only while no socket is
  up: without it a dial could meet a socket that is still open.
* `EventProofs`: `TypeCorrect`, `StreamsAreOne`, `CloseIsFinal` and `DemandStaysMet`
  from one invariant. The hard part is `DemandIsMet`, which speaks of quiet states
  only: between them a session may have neither source nor retry while a failure
  is on its way to a caller that will set one (`WillRetry`, `Kept`). That such a
  caller is not overtaken needs `Newer` and `StillOpen` (what a waiter returns to
  is its own source, or one that is not ready yet), `Unrefused` (a refusal calls
  the retries off first) and `Silent`. `WaitersAreAnswered` needs only that the
  promise of a source is pending while the source is the current one
  (`PendingIsCurrent`): whatever discards a source settles what is waited for.
* `ZosmaProofs`: `TypeCorrect`; `DisconnectStands` from `NowhereLeft`: a
  disconnected key is not only out of the entry, but with no request that could
  write it back. `PastesKeep` is an action property, and `PasteFacts` goes through
  the steps of a save. `ErrorsLeaveNoTrace` needs `SaveFits`: from the write of a
  save to its end, its snapshot is the entry that the last request to succeed left,
  because nothing but a stop of the server comes in between.

The assumptions on constants are those of the modules: `TargetAssumption` (a
command has a machine), `ConnAssumption` (a socket has a dialler, `NoConn` is
none), `OwnerAssumption` and its companions (an id has a session), and
`StoreAssumption`, `PiAssumption`, `ListAssumption`, `ConnectorAssumption`,
`EventConnectionAssumption`, `ZosmaAuthAssumption` (calls, ids, sockets and the
model values for "none" are distinct; `Callers` are numbers; models with a blank
id are models). `ChannelImplementsLedger` also assumes `CountLives`, without which
there is no history variable to speak of restarts with. No bound on the number of machines,
sockets, commands, faults, asks, sessions, calls, keys or sources.

Only model-checked are the liveness properties `EventuallyAnswered`,
`TimedAskIsServed`, `EveryCallReturns` (of three modules), `EveryRequestSettles`
and `HalfOpenIsDropped`, which are out of the prover's reach. What they need of
the states is proved, for every instance: nobody waits for something that is
over. `NothingIsStranded` says it of commands, `TimedAsksAreWatched` of timed
asks, `NobodyIsStuck`, `NoWaiterIsLost` and `WaitersAreAnswered` of calls,
`RequestsAreOwned` and `AlwaysDialling` of the connector. What is left to TLC is
that fair steps reach the end of each wait.

## 6. Where code and documentation differ

Shown by runs that end in a violation:

* After a `reconnect()` two UI asks of one approval are open and only the later
  is known to the session; resolving the approval leaves the other open and the
  agent's call waiting for it (`approval_hang`).
* A stream or a second watch behind a watch is passed over when the turn ends, so
  it returns without having been given an end, against "resolves once the turn's
  terminal event has been sunk" (`stream_end_sunk`). The listeners of a watch
  outlive its client's connection (`adapter.ts:375`), so one client that
  connects again is enough.

Met while modelling, and outside the runs. Fleet channel:

* A handler may run twice: a reply lost with its socket makes the replay run the
  command again, while the connector's header (`connector.ts:13`) and
  docs/TECH.md:51 promise that replay has no duplicate side effects.
* An operator's ack made before the machine's journals were read is forgotten at
  the next restart: `ack` skips the journal of a machine that is not loaded
  (`store.ts:136`), and then never writes it. A result can be lost by the same
  condition in `recordReply` (`store.ts:146`) while its ack is kept.
* The plane has no ping and no keepalive. A registered socket whose other end went
  away without a close stays the registration until the plane writes to it, and
  every redial is refused with 4004 (`server.ts:155-160`). A command that had
  reached the daemon when, say, its machine lost power, and that was not answered,
  then waits for the next push, without bound, against "replay making dropped
  connections harmless" (docs/TECH.md:148). `EventuallyAnswered` therefore excepts
  such a machine.
* A machine that was revoked is listed with `revoked: false` until its socket is
  closed (`server.ts:226-238`, `:282-284`); the test of the revocation waits for
  the close before it lists (`server.test.mjs:121`). `ListedIsRegistered` therefore
  excepts a machine that the plane has hung up on.
* A re-admitted machine is missing from `GET /machines` until it connects
  (`server.ts:291`).

Approvals:

* `reconnect()` drops an ask with the decision of its own UI ask without looking
  whether it is still pending, so an ask can be resolved twice, or a later ask of
  the same id be dropped (`broker.ts:157`), against "resolves exactly once via the
  user's reply" (`apps/daemon/src/index.ts:78`); `approval_once` therefore has no
  reconnecting client.
* An id that is sent again can be given the verdict of its first use from the
  history, which is never emptied (`broker.ts:120`), an allow among them, though its
  own ask is pending, against "never from a default, a missing reply, or a timeout"
  (`broker.ts:10`); `approval_served` therefore has no reusable id.

Sessions, their index and their list:

* Two resumes of a cold session open it twice: `spawn()` looks the id up before
  the factory and lists it after (`adapter.ts:249`, `:259`), with no promise in
  flight to share. The design document for the headless backend asks for both
  (docs/superpowers/specs/2026-09-07-modular-headless-pi-backend-design.md:472-473),
  but speaks of the code that the daemon's came after.
* A first chat that waits for the warm-up fails with it (`adapter.ts:210`), though
  the comment at line 154 promises that it spawns normally.
* The index can be empty or torn for a moment: the rewrites of one process share
  a temporary file (`packages/protocol/src/store.ts:137`), against "Writes are
  atomic" (line 9), and one of two records can be lost. `dispose()` with several
  sessions is enough.
* A list answered by a scan leaves out the overlay of new sessions, which a list
  answered from the cache shows (`sessions.ts:109` against line 86); and a session
  deleted before any scan has found its file stays in the overlay, and the cached
  lists after the next scan show it again, though the comment at line 156 says that
  a scan replaces these entries (line 106 removes only what a scan has found).
  `ListIsFresh` therefore excepts it.
* A scan that has read a file before it was deleted caches its path again
  (`sessions.ts:58`); a rename of that session then succeeds without effect.

Turns:

* A steer or a follow-up that returns at once synthesizes an end (`adapter.ts:299`):
  it ends every watch and releases the claim, while the prompt it joined goes on.
* While two runs are subscribed, each passes every event on, so listeners see it
  twice.
* The continuation of a cancel sets "idle" over a prompt that has begun since, and
  over "closed" (`adapter.ts:359`); a prompt that fails sets "errored" over
  "closed".
* A turn that fails emits no end, so its watches stay open; so does the watch of a
  session that is closed. The `{type: "error"}` frame that `handleStream` then
  sends has no `kind`, so `daemon-agent-stream.ts` passes over it.

Connector:

* `start()` after `stop()` while the old socket is still closing: the close event
  of the old one stops the heartbeat of the new one, fails its requests and
  schedules a second dial. `OneWatchedSocket`, `StopIsFinal` and
  `HalfOpenIsDropped` therefore speak of a connector that was started once.
* The count of attempts is reset when a socket opens (`connector.ts:186`), before
  the plane has accepted the hello, so a refused machine retries without backing
  off.

Event connection:

* A caller who asks for itself (`ensureConnected()`), discards a maintained source
  that is not open and then fails to make a new one leaves the session without
  source and retry (lines 93-98).

Zosma sign-in:

* A refresh, documented as "no key rotation" (`index.ts:440`), writes back the key
  that it read before its request: a sign-in with another key, or a disconnect,
  that ended meanwhile is undone. `DisconnectIsFinal` therefore exempts the keys
  that a request under way holds.
* A start or complete that fails deletes the transaction that is pending by then,
  also that of a newer start (`index.ts:147`, `:319`). A lost answer, or a save
  that fails, leaves the transaction pending.
* A rollback that fails, as the write of the file may fail again, leaves the new key
  and its models in `models.json`, although the request ends with an error
  (`index.ts:262`). `ErrorLeavesNoTrace` therefore counts them as kept.
* `disconnect` revokes the key that it read and removes whatever entry is there
  after the answer.

Logins (`apps/daemon/src/auth/rpc.ts`, not modelled): a failure of
`ModelRuntime.create()` is outside the `try` and leaves the login without an end;
prompts that nobody awaits are rejected when a login ends; a session that is
cancelled and not polled again stays in the map.

## 7. Not modelled

User interface, website, documentation, styling, wording and logging; the
content of files, diffs, manifests and messages where no property is about it;
the Pi SDK, providers, Firebase and the account service beyond what the code does
with their answers. `PROJECT.json` lists these parts as `not_modelled`.

Left out of parts that are modelled:

* Connector: `new WebSocket` in `dial()` throws for an address that is no URL, and
  `dial()` rejects, which neither `start()` nor the reconnect timer handles; and
  `stop()` takes the listeners off a socket before it closes it, so the 'error'
  event that `ws` emits for one still connecting has no listener. What follows
  depends on the process the connector is built into.
* Approvals: reconnecting clients and ids that are sent again are not in one run.
  `approval_served` has the former, `approval_once` the latter, and the theorems
  carry the same assumptions, since the properties fail without them (section 6).

Left from the plan, and why:

* `InstanceLock`: `instance.ts` reads, judges and writes the lock file without an
  atomic create, so two daemons that start at once both go on, and a lock's time
  stamp is never renewed though it counts as stale after 15 seconds. There is no
  promise left that the code keeps.
* `LoginSessions`: the order of prompts, events and outcome is that of the SDK's
  `login()`, which is not in the repository.
* `FilesWrite`: a call reads, compares and writes without an `await`.
* `OwnedServer`: the behaviour is that of child processes and the platform.
* `Negotiation`: functions of two lists, without state; the unit tests go through
  the cases.

Most of the repository's lines are elsewhere: scripts of agent skills kept under
`.agents` and `.github`, React components, the website, packaging. They hold no
protocol and no state that actors share, so the share of lines that the models
cover is small. What was chosen is the code that keeps state across callbacks,
processes or files: the channel, the daemon's sessions, approvals, turns and
lists, and on the web side the connection and the sign-in.
