# TLA+ verification of sdp-common

sdp-common is a Go library for a software-defined perimeter. A **controller**
authenticates clients, decides by policy who may reach which service, and hands
out tunnels. An initiating host (**IH**) and an accepting host (**AH**) then meet
at the controller's relay server. Events about tunnels reach the agents over
server-sent event streams (SSE).

This directory holds a model of the library and of its example agents in TLA+,
the TLC runs that check it on small instances, and TLAPS proofs of its main safety
properties for instances of any size. `PROJECT.json` lists runs, mutants,
findings, hazards, theorems, and which definition stands for which lines.

## Running

    tlc -workers 2 -config TunnelRelayPairing.cfg MCTunnelRelay
    tlapm TunnelRelayProofs.tla

## Inventory

| component | state | operations | hard behaviour |
|---|---|---|---|
| tunnel relay server, `transport/tunnel_relay_server.go` | two pending maps (IH, AH) by tunnel ID, counters, stop channel, wait group | accept, handshake, pairing, relay, cleanup, Stop | two handlers that race to find each other, timeouts, cleanup of what is being paired, shutdown |
| session manager, `session/manager.go` | token -> session, client -> tokens, one RW lock | create, validate, refresh, revoke, query, cleanup loop | list of expired tokens used in a later critical section, boundary of expiry |
| event notifier, `tunnel/notifier.go` | sync.Map agent -> client record with two bounded channels | Subscribe, Unsubscribe, Notify*, NotifyOne* | reconnecting agents, double close, full channels, clients that vanish |
| SSE server, `transport/sse_server.go` | the same with one channel, a stop channel and a wait group | Subscribe, Broadcast, NotifyOne, Stop | Stop against ending subscriptions |
| event subscriber, `tunnel/subscriber.go` | last event ID, seen-ID cache, back-off | connect, read, dispatch, reconnect, Stop | reconnection, lost and repeated events |
| stream broker, `tunnel/broker.go` | session ID -> two streams | RegisterStream, forwarding, heartbeat check, CloseSession, Close | re-registration, closing by ID, forwarders that outlive their session |
| auth client, `auth/client.go` | token, expiry, timers | Handshake, Refresh, Revoke, automatic refresh, Stop | late answers, timers re-armed after Stop |
| controller, `controller/*.go` | tunnels, services, policies; sessions and notifier | HTTP handlers | check-then-act across stores, update of a deleted tunnel |
| the two agents, `examples/ih-client`, `examples/ah-agent`, `tunnel/client.go` | active connections, wait group; tunnels by ID | handshake, tunnel creation, accept, dial, copy, Stop | one tunnel is four sockets in three processes; missed events, hang-ups, exits |
| certificate registry, `cert/registry.go` | SQL table of fingerprints | Register, Validate, Revoke, CleanExpired | revocation against validation |
| policy engine, `policy/*.go` | SQL table of policies | evaluate, CRUD | evaluation order, defaults |
| TCP proxies, `tunnel/tcp_proxy.go`, `tunnel/server.go`, `transport/tcp_proxy_server.go` | active connection counters, pending maps | accept, dial, forward, Stop | counters, shutdown |
| clients and the rest | none that outlives a call | | see `components` in `PROJECT.json` |

How they interact: the HTTP handlers call the session manager (token check),
the policy engine (decision), the tunnel manager (store) and the notifier
(push). The notifier's frames are read by the subscriber of an agent, which
then dials the relay server with the tunnel ID it learned. The relay server
shares no memory with the rest; the tunnel ID is the only link.

What makes each part correct: the relay joins only an IH with an AH of one
tunnel, each connection once, and every handler ends; a session's token has a
one-way life and both maps agree; the notifier loses a client only if its ID
was reused, does not wait for a client that stopped reading, and ends what was
unsubscribed; the SSE server can be stopped; the
subscriber handles each event once and goes on after a broken stream; the
broker pairs the two sides of one session and no forwarder touches another;
the auth client never presents a revoked token; the controller gives a revoked
certificate no session, and a tunnel rests on a valid session, a policy and a
service; a proxy releases what it opened and can be stopped; a tunnel that ends
anywhere ends everywhere.

## Modules

| module | models | runs |
|---|---|---|
| `TunnelRelay`, `Rendezvous`, `MCTunnelRelay`, `TunnelRelayProofs` | the relay server, and what it promises the agents that meet there | `relay_pairing`, `relay_stop` and one counterexample |
| `SessionManager`, `SessionLifecycle`, `SessionManagerProofs` | the session store and the abstract life of a token it implements | `session` |
| `Notifier`, `NotifierProofs` | the event notifier and the HTTP handler around it | `notifier` |
| `Broker`, `PacketSwitch`, `MCBroker`, `BrokerProofs` | the stream broker, and what it promises about packets | `broker`, `broker_shutdown` |
| `Subscriber`, `EventLog`, `SubscriberProofs` | the agent's event subscriber, against the repository's notifier and against a server that keeps its events; the reader of a log it implements | `subscriber` |
| `AuthClient`, `AgentProofs` | the authentication client; the server is external | `auth` |
| `Controller`, `MCController`, `ControllerProofs` | the controller's handlers over everything they share: extends `CertRegistry` and `Policy`, and has the sessions as an instance of `SessionLifecycle` | `controller` |
| `CertRegistry`, `Policy`, `Clock` | the certificate table, the policy table with its evaluator, and the clock both read | `controller` |
| `DataPlaneServer`, `TCPProxyServer`, `TCPProxyServerProofs` | the accept and stop protocol the two proxy servers share, and the handler of one of them | `proxy_server` |
| `Agents`, `AgentProofs` | a tunnel from user to target through IH client, relay and AH agent | `agents` |

Each module has one action per step another goroutine can see: a critical
section, an operation of a `sync.Map`, a channel operation, a blocking read, an
HTTP request and its answer. Code between two such steps belongs to the step it
follows. Variables carry the names of the fields and locals they stand for; `pc`
(or `stopPC`, `cleanPC`...) says where a goroutine stands, and history variables
(`missed`, `owed`, `raced`, `during`, `revoked`, `delivered`, `handled`) are read by no
guard.
Definitions introduced as "variant" are plausible bugs; no specification uses
them. They are put in the place of the real definition to see the property of a
run fail (`mutants` in `PROJECT.json`).

* **TunnelRelay.** A handler goes through `read`, `lookup`, `store`, `wait`,
  `unregister`, `count`, `relay`, `relaying` and two places where it unwinds.
  `pending` is the pair of maps, from which entries are deleted by tunnel ID, as
  in the code. `Expire` is the pairing deadline, which passes whatever became of
  the entry. The accept loop, the cleanup goroutine and every caller of `Stop`
  are threads of their own; the cleanup goroutine loads, closes and
  deletes an entry in three. Clients may close at any time. Left out: the bytes
  copied, `totalRelayed` and metrics. `Rendezvous` is the promise: announce one
  tunnel, take one partner of the other side that nobody took and whose handler
  has not ended. The maps, tickers and deadlines are not in it.
* **SessionManager.** Time is a counter. `CreateSession` is two steps because
  the times are taken before the lock, `cleanExpired` is three (the time, the
  scan under the read lock, the deletion under the write lock). `ValidateSession`
  and `RefreshSession` read the clock twice inside their critical section, once to
  compare and once to stamp, and time may pass in between: they are two steps each
  with the lock held (`lockPC`).
  `SessionLifecycle` is the promise: unborn, then valid or dead, and dead for
  good.
* **Notifier.** A subscription is the goroutine in `Subscribe`; its deferred
  function is three steps (delete by ID, look at Done, close it), after which
  the handler calls `Unsubscribe`. A broadcast visits the agents one by one, as
  `sync.Map.Range` does, and loads and sends in two steps. A client may stop
  reading for ever, and its loop then hangs in a write.
* **Broker.** Each registration that finds both streams set starts a *pair* of
  forwarders, each with a receiver goroutine and a channel of size one. A receiver
  puts its packet into the channel in one step and reads the stream field for the
  next in another; a forwarder looks up the peer's stream in one step and sends in
  another, and a re-registration may come between. A
  forwarder that ends closes the session that has its ID *then*. `PacketSwitch`
  is the promise: packets are taken from a stream one by one, and one that was
  taken is sent at most once, into a stream of the same session and the other
  side.
* **Subscriber.** The stream is a sequence of lines and breaks between any two.
  The parts of a frame are collected in `frame`; the ID counts only when the
  frame is complete. `keepsEvents`, chosen at the start, says which server it talks to.
  FALSE is the repository's notifier: no `id` line, no history, and Last-Event-ID
  ignored. TRUE is the server the subscriber is written for, which is not part of
  the repository: it numbers its events, resumes after Last-Event-ID and may repeat
  an event it sent recently, as one does that joins a history with a live feed.
  `EventLog` is the promise: a reader whose position only goes forward, and by one
  event at a time if the log keeps its events.
* **AuthClient.** An actor is a call of the program or the callback of a timer.
  A request is sent, served and answered in separate steps, may be lost on
  either way, and a Revoke may reach the server after its caller has given up.
* **Controller.** Every look at a store is a step, because no lock spans a
  handler: `handleTunnelCreate` is `TunnelCreate` (session), `CreateService`,
  `CreateEvaluate`, `CreateTarget` and `CreateStore`. `during` notes what happens
  while a request runs, `revoked` which certificates `Revoke` was ever called for,
  across restarts. A handshake may end without a session: the common name of its
  certificate is empty, or the evaluation for the demo service panics. Sessions
  appear only as the life cycle that
  `SessionManager` is proved to implement. The database survives `Restart`, the
  memory does not. Handlers that only read are no steps.
* **Policy.** The evaluator is a set of operators with the answers yes, no, error
  and panic; a condition's value is what JSON makes of it, so that a wrong kind
  of value is an error and a null for a bound of a time range a panic, as in the
  code. An empty client ID is no filter: such a request sees the rows of every
  client. `Granted` is the reference: it says by itself when a condition holds
  (`Holds`) and shares no definition with the evaluator, and knows nothing of the
  order of rows or of where an evaluation stops.
* **DataPlaneServer, TCPProxyServer.** The accept loop counts a connection and
  enters it into the wait group in two steps, which `Stop` may come between.
  The proxy's handler touches the tunnel's last-active time by a load and a
  store, while the controller may delete the tunnel.
* **Agents.** A socket is up while both its ends are open. The relay is reduced
  to what the agents see of it: the user's handler takes the agent's connection
  or the other way round, waits time out, relays end. A handler whose connection
  was taken polls on, so the agent's connection may be in two relays at once, and
  its deadline closes it under them (`TakenTimeout`, `PairingTimeoutAH`). Which
  waiting user is paired is left open. The AH agent opens the target and the relay once for each
  event it hears, and hears of none it was not subscribed for.

## What the runs check

| run | bounds | what it shows |
|---|---|---|
| `relay_pairing` | two IH, one AH, two tunnel IDs, symmetric | pairing joins two sides of one tunnel; the relay implements `Rendezvous`: in particular a connection is taken once |
| `relay_stop` | one IH, one AH, one caller of Stop, fairness | every wait ends; a client that leaves ends the relay on both sides; Stop returns unless a relay with two live clients holds it |
| `session` | two tokens, clients and cleanup loops, TTL 1, time 0 to 3 | both maps agree; a stale list of expired tokens is still right when used; a dead token stays dead; what expired is removed |
| `notifier` | two subscriptions of one agent ID, one of which may stop reading, two calls (one event cannot be encoded), one Unsubscribe, channels of size one, fairness | Done is closed once unless an event failed to encode; a client is missed only if its ID was reused; a notify call returns whatever the clients do; accepted events are written and what is unsubscribed ends, unless the loop hangs for ever in a write |
| `broker` | two session IDs and objects, one IH and two AH streams, one packet | data does not cross sessions; the broker implements `PacketSwitch`: no packet is sent twice |
| `broker_shutdown` | one pair, two packets, every failure, fairness | packets arrive in order; a broken stream ends its session and Close returns, unless a Send blocks |
| `subscriber` | either server; four events, a cache of three, repeats among the last two, two faults, fairness | an event is handled once; the subscriber implements a reader of `EventLog`, which leaves no gap if the server keeps its events; a lost stream is replaced, and what is written to a stream is handled unless it breaks; the context ends the goroutine, and Stop does unless it waits for a line |
| `auth` | two handshakes, one revocation, three timers, one failure | one timer is armed at most; the refresh lives until Stop and rests after it; a revoked token is presented only after a race |
| `controller` | two requests, two certificates (one that expires, one that names nobody), one token, one service with two targets, five policies of two clients and two services, two or four of them in the table at first, seven access requests, two instants, two administrative calls or restarts | a certificate that was ever revoked gets no session, not even after a restart; the engine decides as the set of policies does, but for what a null bound hides; a tunnel that the state does not justify, or a refusal of a good certificate, needs a change during that request |
| `proxy_server` | two connections, one place, one tunnel, one Stop, fairness | a deleted tunnel comes back only through a race; a hang-up releases both sockets and both goroutines; Stop returns |
| `agents` | two users, one tunnel, one agent, fairness | the IH client's Stop returns and leaves nothing open; a hang-up anywhere reaches all four sockets; no user is left hanging; the target is released |
| `relay_activePairUndisturbed` | one IH, one AH, one tunnel ID | a counterexample, see Findings |

Why the bounds are enough for what they are meant to show. Two connections of
one side and one of the other give every race of the relay: two that wait under
one ID, one that is overwritten, one that is taken while it times out. Two
subscriptions of one agent are a reconnection. A second AH stream is a
re-registration, and a second object the reopening of a closed ID. Four events
are one more than the subscriber's cache holds; with 2W - 1 entries, where the
server repeats one of its last W events, no duplicate passes, and with one entry
less TLC finds one: `Get` makes the repeated event the newest, so that a newer
one is evicted first. Two handshakes give two chains of timers that stop each
other. Two requests of the controller are two first handshakes with one
certificate, or a creation against a deletion, for which one session will do; the five policies have every
kind of condition, one that cannot be evaluated before one that holds, a null
for a bound, and a date that passes; they belong to two clients and two services,
and each of the seven access requests (with and without a device and an address,
one with an empty client ID) is compared at every state. Two connections for one place reach the
limit of the proxy. Two users compete for the agent's one connection. The bounds `MaxTime`, `MaxPackets`, `MaxEvents`, `MaxFaults`,
`MaxFailures`, `MaxAdmin` and `MaxTunnels` are guards of the environment only; none stops a component.

Deadlock checking is off where the system may come to rest (all connections
served, everything stopped).

**Fairness.** Assumed: a runnable goroutine runs, a started timer fires, a
`select` does not ignore a ready case for ever, a critical section ends, a read
from a broken connection returns. For `subscriber` also that the server answers
requests and writes what it has, since faults are bounded, but not that it says anything more once it has; for `auth` that
requests are answered or time out (`http.Client.Timeout`). Never assumed: that a
client dials, leaves, sends or reads, that anyone calls Stop, or that a `Send`
into a slow stream or a write to a client that does not read returns; properties that depend on those say so. For
`proxy_server` the deadlines of reads, dials and copies pass, as they do with the
default configuration; for `agents` the relay's pairing timeout does.

## Findings

| run | what the code does |
|---|---|
| `relay_activePairUndisturbed` | the waiter whose connection was taken is not told; it times out and closes the connection under the running relay |

The statement it contradicts is quoted in `findings` of `PROJECT.json`. Seen
while reading and modelling, without a run of their own:

* Relay: a pair found through the map is counted twice and taken back once, so
  `activeTunnels` creeps up to the connection limit (`cleanup_test.go:264` expects
  the exact number). Two concurrent calls of Stop can close its channel twice.
  The limit looks at running relays only, so accepted, unpaired connections may
  exceed it later; `wg.Add` races with `wg.Wait` as in the proxy server.
  Pairing is not one to one: a waiter that was taken polls on, so it may take a
  second partner, or the one that took it, and its connection is then in two
  relays that read it in turn. It is at most two, since a connection is taken
  once and takes once (`TakenAtMostOnce`).
* Notifier: a client that goes away leaves its goroutine and entry behind for
  ever, since the loop does not watch the request. The deferred delete goes by
  agent ID and takes the entry of a reconnected agent with it (the exception in
  `MissedOnlyIfIDReused`).
* Broker: the receiver goroutine of a forwarder that has ended stays blocked.
* Subscriber: on a stream that stays open and silent Stop never returns, because the
  goroutine is blocked in a read that Stop does not interrupt; `subscriber_test.go`
  has exactly this server (line 189) and expects Stop to return (209-212).
  `GoroutineEnds` says that this is the only place where Stop hangs (`AwaitsLine`).
  What the notifier publishes while a stream is down never arrives, since it numbers
  no event, keeps none and ignores Last-Event-ID, although
  `docs/SDP_COMMON_API_REFERENCE.md:1870` promises that no event is lost. The backoff is never reset after a good connection, although a
  comment says so, because `connectAndListen` returns nil only on a stop. Before
  its first event it has no Last-Event-ID to ask with, whatever the server keeps.
* Auth client: `RetryAttempts`, `RetryInterval` and `RefreshBefore` are ignored;
  the late answer of a refresh replaces whatever token the client has got
  meanwhile (the exception in `RevokedOnlyIfRaced`). A token that lives no longer
  than five minutes is refreshed without a pause.
* Controller: a revoked certificate or a deleted policy ends neither the sessions
  nor the tunnels it gave rise to, and tunnels do not expire. Access requests
  carry neither a device nor an address, so policies with such conditions never
  grant anything through the API. Nobody publishes "deleted" or service events,
  although comments in `tunnel_manager.go` say that changes are pushed. Nobody
  starts the session cleanup. The address told to agents is `TCPProxyAddr` even
  if the data plane listens elsewhere. `UpdateServiceConfig` can bring back a service
  deleted meanwhile, and two tunnels of one nanosecond share their ID.
* Policy: an empty client ID, which a certificate without a common name gives, is
  taken for no filter by `storage.go:110` (no such client gets a session, since
  `CreateSession` refuses it). A null for a bound of a time range panics in
  `evaluator.go:188` and takes the request with it, also where another policy would
  grant. Saving a policy that exists is refused by the unique index,
  where the comment at `storage.go:63` says it is updated.
* Proxy server: the accept loop enters the wait group after `Accept`, and Stop does not
  wait for the loop, so a connection may be served after Stop has returned, although
  comments say that Stop waits for all (`tcp_proxy_server.go:198`, `server.go:168`).
  `OneOutlivesStop` proves the extent: it is at most one connection. Deadlines are set once, so a proxied connection lasts at most
  the read timeout, busy or not. Stop before Start leaves the server running.
* AH agent: its map of tunnels is written by several goroutines without a lock. It
  connects once for each created event, so a tunnel whose pairing timed out is not
  served again, and it dials without a timeout in the event callback.
* SSE server (not modelled): Stop and a Subscribe that ends may both close Done.

## Proofs

Every safety property that a passing run checks is also a theorem, for any values
of the constants. The assumptions on them are the named `ASSUME`s of the modules:
disjoint kinds of connections, streams and actors; positive capacities, limits
and TTL; certificate and policy dates that are numbers; a policy table without
two rows of one ID, as the unique index of the database has it; a subscriber's
cache of at least 2W - 1 entries where the server repeats one of its last W
events. Only the relay's set of connections is assumed to be finite; what is
counted elsewhere is shown to be finite. All proofs have one form: an inductive
invariant, with `Init => IInv` and `IInv /\ [Next]_vars => IInv'`, one step for
each action.

* `TunnelRelayProofs`: soundness of pairing is not inductive. `IInv` adds what a
  handler's place says of its tunnel and partner, that a partner was parked
  under the same tunnel, that a listed connection is not taken, and, for the
  counter, that each relay has been counted (an injection from the running
  relays into the count, by cardinality).
* `SessionManagerProofs`: the list made in an earlier critical section stays
  right because time only grows, `RefreshSession` refuses what has expired, and
  a token on its way into the maps is on no list (`FreshInv`). Between the two
  readings of the clock the write lock keeps the cleanup away, so a token about to
  be extended stays off every list (`LockInv`). `CleanupIsSafe`
  is the action property; `Refinement` shows that the manager implements
  `SessionLifecycle`.
* `NotifierProofs`: a client record is in the map's hands, or in those of one
  Unsubscribe, or in nobody's (`EntryOpen`, `Clean`). An agent with one
  subscription is in the map until it is taken to be ended (`Registered`), and a
  broadcast still has to visit it or has it as its target (`OwedPending`).
* `BrokerProofs`: for `Isolation` the invariant follows a packet: a stream is set
  in one session only, that of its ID (`Placed`), and whatever a receiver or a
  forwarder holds was read from a stream registered with the session's ID
  (`Carried`). For `InOrder` it follows the numbers: what a forwarder has sent,
  holds in its hand, finds in the channel, and what its receiver holds are
  consecutive packets of one stream (`InLine`). The attempt to prove `InOrder`
  showed that an earlier form of it was wrong: it asked for one pair among the
  sessions that *now* have the stream, and a stream that a re-registration has
  replaced is in none. It now speaks of the sessions with the stream's ID.
* `SubscriberProofs`: what was handled is an interval of numbers that ends with
  `lastEventID` (`Interval`); `HandledOnce` and `NoGap` follow. It stays one
  because of what is in the stream (`Reading`: which frame, how much of it has
  been read, and whether its event is the next one or a repetition) and in the
  cache: entries differ, one used after another is at most W - 1 below it
  (`CacheOrder`), and what may be repeated is cached (`Covered`). `Add` may evict
  its oldest entry by a pigeonhole argument: if that one were still in the
  window, all others would be among the 2W - 2 numbers less than W away from it.
  All that is `IInv`, for the server that keeps its events. With the notifier there
  are no IDs and nothing is cached; `PInv` says that what was handled is rising and
  that what is in the stream or the frame is newer than all of it, since the
  notifier writes nothing twice.
* `AgentProofs`, authentication client: the timer properties are inductive with the types. For
  `RevokedOnlyIfRaced` the invariant says where tokens come from: a Handshake's
  answer carries one nobody has seen (`FreshAnswer`), a Refresh's answer one
  that was known when it was given (`AnswerRaced`), and a late Revoke belongs to
  a call that failed (`LateFailed`). IH client: the wait group counts the
  handlers and the accept loop (`IHWgCounts`), and what is open or registered
  belongs to a handler that has not left (`Owned`): nothing outlives Stop
  (`IHStopLeavesNothing`), whatever the relay and the AH agent do.
* `ControllerProofs`: that a revoked certificate gets no session is not inductive:
  the handshake that began with a revoked certificate still has its registration
  before it. The invariant says that the rows marked revoked are those of the
  certificates `Revoke` was ever called for, which no registration, cleanup or
  restart changes (`RevokedRows`), and where such a request stands
  (`BegunRevoked`). `DecisionIsReference` shows that walking the rows of the table
  in order, with errors that skip a row, a first match that ends the walk and a
  null bound that ends it too, grants only what the set of policies grants, and all
  of it unless such a bound is in the way; for any table and request, one with an
  empty client ID included, which asks for every client. The two
  properties about races have an invariant of their own (`HandlerInv`): what a
  handler has seen of a store is still so, or `during` says that somebody
  changed it. Its proof is split by who moves: the request itself (`RequestOwn`),
  another request (`RequestBeside`), an administrator or the clock (`AdminBeside`).
* `TCPProxyServerProofs`: the wait group counts exactly the goroutines between
  `Add` and `Done` (`WgCounts`). The server does not count its accept loop, which
  holds at most one connection (`LoopHoldsOne`). `OneOutlivesStop` follows: when Stop has
  returned, more than that one connection is never left.

Four specifications are shown to implement an abstract one: the initial states
map to initial states, and under an invariant every step maps to a step or to a
stutter. For `SessionLifecycle` that is said above; the other three:

* `Rendezvous` (`TunnelRelayProofs!Refinement`): most steps of the relay are not
  seen at all. `StepKinds` sorts the steps by what they do to the announcement,
  the partner and the end of a handler; a handler takes a partner in `Lookup` or
  `Tick`, and then `TakeJoins` shows the guard of `Join` from the invariant of
  pairing: an entry belongs to a handler still in its wait (`PendingOwnerWaiting`)
  and to no one who was taken (`ListedInv`). `SilentInv`, that a tunnel is announced
  once, is needed besides. A waiter that leaves without deleting its entry (the
  mutant `KeepOwn`) would be taken after its end.
* `EventLog` (`SubscriberProofs!Refinement`): only `HandleEvent` and `Publish` are
  seen. With the server that keeps its events
  `HandleCases` gives, from `Reading`, what the complete frame holds: the
  next event of the log, a repetition, or no event; `HandleReads` shows that the
  first is a step of the reader and the others are none. With the notifier it is
  any newer event (`PlainCases`), which the log that keeps nothing allows.
* `PacketSwitch` (`BrokerProofs!BrokerRefinement`): that a packet is not sent twice
  needs `OnePlace`: a packet that was taken is with one receiver, in one channel,
  in one forwarder's hand, or sent, and in one of these only. A new packet has a
  number above all that were taken (`RecvStep`), handing on empties the place it
  leaves (`MoveStep`), and a forwarder that failed to send keeps the packet in a
  hand that sends nothing any more. It is a theorem of its own
  (`PacketsInOnePlace`).

Proved as well, without a run of their own: the type invariants of all modules
with proofs (with the bound of the proxy's counter, of the subscriber's cache and
of the notifier's channels, and the wait groups that never go below zero),
`ListedAreExpired` of the session manager,
`PendingOwnerWaiting` and `ActiveNeverUnderReports` of the relay, `EntryOpen` of the
notifier, `OpenInMap` and `OnePlace` of the broker; and `TakenAtMostOnce` of the relay
and `NoGap` of the subscriber, which the refinements that are checked contain.

Only model-checked: liveness, since the prover has no fairness and no `ENABLED`
(`WaitEnds`, `DisconnectPropagates`, `ExpiredRemoved`, `NotifyReturns`, `AcceptedEventWritten`,
`UnsubscribeEndsLoop`, `BrokenStreamEndsSession`, `CloseReturns`,
`Recovers`, `GoroutineEnds`, `StopQuiesces`, `HangUpReleasesAll`,
`HangUpReachesAll`, `UserPairedOrClosed`, `StopReleasesTarget`, and `StopReturns` of
the relay, the proxy server and the IH client), and the one counterexample.

## Not modelled

Configuration, logging, certificate parsing, wrappers of library servers and
message constants have no state that several steps share. `transport.SSEServer`,
`tunnel.TCPProxy` and `service.Client` are used by no program of the repository:
the controller has `tunnel.Notifier` and `TunnelRelayServer` in their place, whose
protocols are those of the first two. Within modelled components, left out are
metrics, statistics and byte counts, queries that only read, and, in the AH agent,
service events, which nobody publishes. `components` in `PROJECT.json` gives the
reason for each part.

## What is left

`SSEServer`, as far as it differs from the notifier (Stop and its wait group), if a
program comes to use it. Under liveness, the safety facts it rests on could be
stated by themselves: which goroutine may still hold a handler of the proxy server,
and that a relay that has ended has closed both its sockets.
