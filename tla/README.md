# Formal model of tor-driver

`tordriver` starts a Tor process inside a sandbox, forces all of its traffic
through an in-process proxy that dials through a network the application
injects, talks to it over the control port, and offers isolated client networks
and v3 onion services. It is concurrent throughout: public methods may be called
from any goroutine, Tor and the injected network fail or answer late, and
`Close` may overlap with everything. This directory models that behaviour in
TLA+, checks it with TLC on small instances, and proves every safety property
the runs check with TLAPS, for instances of any size.

## The system and its parts

| Part | Code | Modules | State of the model |
| --- | --- | --- | --- |
| Resource scopes | `scope.go` | `Ownership`, `Scope`, `ScopeProofs` | modelled and proved |
| Outbound gate and sessions | `proxy.go` 28-210, 290-327 | `OutboundGate`, `ProxyProofs` | modelled and proved |
| Proxy server | `proxy.go` 212-427 | `ProxyServer` (on top of `OutboundGate`), `ProxyProofs` | modelled and proved; the SOCKS handshake by its outcome |
| Control-port client | `internal/control/client.go` | `ControlClient`, `ControlClientProofs` | modelled and proved; the line parser by its outcomes |
| Service creation, key names, publication | `service.go` 60-225, 488-510, `driver_events.go` | `ServiceCreation`, `OnionServiceProofs` | modelled and proved |
| Service ports, mapping, closing | `service.go` 214-440, 529-583 | `Service`, `ServiceProofs` | modelled and proved |
| Accepted onion connections | `service.go` 534-711 | `ServiceAccept`, `OnionServiceProofs` | modelled and proved |
| Event broker | `events.go` 211-289, `driver.go` 579-597, 670-681 | `EventBroker`, `EventBrokerProofs` | modelled and proved |
| Client network | `network.go` | `Network`, `NetworkProofs` | modelled and proved |
| Bridge configuration at run time | `driver.go` 450-530 | `Bridges`, `DriverProofs` | modelled and proved |
| Start, monitor, Close | `driver.go` 58-375, 599-690 | `Lifecycle`, `DriverProofs` | modelled by stages, and proved |
| Control events | `driver_events.go` | `ServiceCreation`, `ControlClient` | the loop and descriptor events |
| Keys, client authorisation | `identity.go`, `client_auth.go` | `ServiceCreation` (the key store's contract) | encodings left out |
| Log lines, redaction | `driver.go` 690-783, `logger.go` | `Bridges` (which configurations are redacted) | text left out |
| Configuration, torrc | `config.go`, `api.go` | - | not modelled |
| Platform helpers, end-to-end support | `file_error_*.go`, `e2e_support.go` | - | not modelled |

How they interact. `Lifecycle` is the frame. Its step "gate" is the closing
controller of `OutboundGate`, its step "proxy" the `Close` of `ProxyServer`, its
step "resources" the scope tree: `Network` and `Service` are branches of it, and
`Scope` is every single node. `ProxyServer` extends `OutboundGate`, so its run
checks the composition: the handler of an inbound connection is a session of the
gate. `Scope` implements `Ownership`, and the other modules use scopes without
their locks and sweeps. That this is sound is proved where a module follows the
resources of a scope one by one: every epoch of `OutboundGate`, alone and behind
`ProxyServer`, and the scope of `Network` implement `Ownership` as well. The scopes
of the other modules are coarser: `Service` closes all its listeners in one step,
`ServiceAccept` lets an acceptor reuse its place for the next connection, and
`ProxyServer` closes a connection over the limit that no scope was given. The control connection is the one of
`ControlClient`, whose outcomes (answered, rejected, not sent, lost, executed
but reported as failed) are the command outcomes that `Service`,
`ServiceCreation` and `Bridges` take as given. `ControlClient` justifies them:
a command whose reply was not seen closes the channel (`UnansweredCloses`),
except that a context may end after the reply was taken.

## Modules

Every module keeps the code's control: one action per critical section, channel
operation, control command or call of a foreign closer, in the code's order.
Data is reduced to what the properties can tell apart.

**Ownership** and **Scope.** `Ownership` is what a scope promises: what is
acquired is owned until closed or released, closing ends with nothing owned, what
comes later is refused. `AtOnce` names the resources that a user of `Ownership`
closes in one step, without the moment between leaving the scope and being closed;
`Scope` has none. In `Scope`, `closed`, `items`, `done`, `err` are the
fields of `scope`; `once` is the `sync.Once` of each `resource`; `calls` counts
how often the closer was called. `Add`/`AddReject` are `add`; `ResourceClose`,
`OnceRemove`, `OnceClose`, `OnceWait` are `resource.Close` around its once;
`ScopeClose`, `SweepNext`, `SweepEnd`, `WaitDone` are `scope.Close`;
`Unsubscribe` is the function that `SubscribeCloser` returns. `operation` and
`track` are `add` with a particular closer. `OwnershipKept` is the refinement.

**OutboundGate.** An epoch is named by its generation. Sessions follow
`proxyServer.handle` and `gate.dial`: pick the epoch, register the inbound side,
register the dial's context, check, dial, register the outbound side, check
again, relay, close both sides, report a failure. Controllers follow `replace`
and `gate.Close`: detach, close the epoch's scope, then create, subscribe and
install the next.

**ProxyServer.** The accept loop with the semaphore of `proxyServer.limit`, the
registration of an inbound connection in the proxy's scope, the handshake (done
or failed), the handler around the gate's session with its `AfterFunc`, and
`Close`: close the scope, stop listening, wait for the loop and the handlers.

**ControlClient.** `Do` from the semaphore to its result, the `AfterFunc` that
closes the connection when the context ends, `fail`, `Close`, and `readLoop` with
its reply and event channels. Tor answers in order, emits events, may
send something malformed and may disappear.

**ServiceCreation.** A creator is one call of `NewService` and the service it
returns: reserve the name, load the key, `ADD_ONION`, store, register, replay the
cached descriptor event, and the cleanup of each failure; then `Service.Close`
and the reset of the publication state that a remap makes (`confirmed` holds the
services for which an upload was seen since their last reset). Tor, the key store,
another process using the same store, the event loop with its bounded cache, and
`Driver.Close` interfere. A key is named after the creator Tor generated it for;
`Outside` is the one key another process stores, under at most one name.

**Service.** `Listen`, `RemovePort`, `listener.Close`, `Service.Close` with
`replaceMappingsLocked` and its rollback; `Driver.Close` with the parts that
touch the service: the once, the scope, and `clearKey`, which needs
`Service.mu`. Tor's mapping is kept apart from the service's.

**ServiceAccept.** `Accept` (enter, return, leave), `trackAccepted` (enter the
map, register in the scope), closing of a connection by the application or by
the sweep, and `Service.close` with the wait of `Drain`.

**EventBroker.** `subscribeInitial` with the kept events, `publish` select by select
(send, drop the oldest, send again) with the reader taking events in between,
`cancel`, `close`. Which events are kept, and whether they are published inside
or after the critical section, differs between the driver and a service; the
initial state chooses one of the two. `since` and `doubt` remember, for a
subscription, how many events there were and which were under way, and
`behind` the events whose publisher had not returned when a newer one was kept.

**Network.** A `socksOperation` per `Dial` or lookup: its registration, its
context with timeout, the SOCKS client (external: it returns at any time, also
before its `Dialer`), the connection with its tracking and its `AfterFunc`, the
result and the release. `Network.Close` and `Driver.Close` sweep at any time.
`reg` is the network's entry in `Driver.resources`: whoever takes it out closes the
scope, and `Driver.Close` waits for exactly the entries its snapshot found.

**Bridges.** `SetBridges` command by command, `rollbackBridges`, and the
`Driver.Close` it may call. The redaction of secrets and the publication of the
transports are steps of their own between the commands. Tor's configuration, `DisableNetwork` option and SOCKS
listener are separate from the driver's view of them; `given` remembers every
configuration Tor has held. `misled` remembers that a
command was executed although `Do` reported a failure over an open channel.

**Lifecycle.** The stages of `Start` with their failures, the goroutine that
reaps the process, `monitor`, and `Close` step by step with its deadlines.
`lost` remembers that a part died before anybody called `Close`.

Operators such as `RunsBodyAlways` next to `RunsBody` are not used by the
specifications. Each is the neighbouring definition with a plausible mistake in
it; substituting it makes TLC report the property it is paired with in
`PROJECT.json`.

## Runs

| Run | Instance | States | What it shows |
| --- | --- | --- | --- |
| `scope` | 3 goroutines, 3 closers (one failing, one subscribed) | 64 017 | nothing closed twice, forgotten, or closed after release; `Close` waits and returns; a scope implements `Ownership` |
| `proxy` | 2 inbound connections, limit 1, 2 epochs, 1 setter, the closer | 686 978 | server and gate together: epochs do not overlap; a closed or latched epoch holds and admits nothing; slots are returned on every path; retired epochs drain; `Close` returns with nothing left |
| `client` | 2 calls, event channel of 1, 2 events | 51 908 | replies stay matched; an unanswered command ends the channel; `Do` returns |
| `creation` | 2 creators, 1 name, 1 foreign ID, cache of 2 | 2.9 million | no onion service without a holder; named keys are durable; an upload seen since the last reset is kept |
| `service` | 2 goroutines, 2 ports, 3 listeners, 1 closer, all faults | 197 512 | Tor's targets are open; service and Tor agree; a listener is withdrawn only by its owner; calls return |
| `accept` | 3 acceptors | 35 070 | `Drain` is exact; nothing outlives the service; no lost wakeup |
| `events` | 2 publishers, 2 subscribers (buffers 1 and 2), 2 kept, 3 events | 569 696 | slow readers keep the newest events; subscriptions get the kept events and join without a gap; no send on a closed channel; publishing returns |
| `network` | 1 dial, 1 lookup | 1.0 million | a returned connection is kept; everything else is closed; operations release what they hold; `Driver.Close` gets past its networks, and all of them close |
| `bridges` | 2 callers, guards and 2 bridge sets, all faults | 1.9 million | redaction first and for good; success is real; transport events are attributed to what Tor runs; no direct traffic after a failure |
| `lifecycle` | 2 users, every stage may fail, every part may die | 78 135 | failed starts, leftovers, meaning of `Err`, `Close` returns unless its networks and services do not |
| `service_close` | 1 goroutine, 1 closer, no faults | violation | see below |
| `publication` | 1 creator, 1 name, 1 foreign ID | violation | see below |

Bounds. In `Scope`, three goroutines allow an owner, a sweeper and a waiter at
once, and three closers one that fails, one that does not and one that is only
subscribed. In `ProxyServer`, two epochs are an old and a new one, so that a
replacement drains an epoch with sessions in it; the proofs cover any number. Its
two connections can be on different sides of a replacement, and the second meets a
full server. `LatchOutboundErrors = TRUE` is the richer of the two failure
policies: under `RetrySameNetwork` a failure that would latch has the effect of
one that does not, which the run takes as well. In `ControlClient`, two
calls give a stale reply somebody to reach, and two events overflow a channel
of one. In `ServiceCreation`, two creators compete for the one name, and a cache
of two can be filled by a foreign service. In `Service`, two ports are needed for
a rollback to a non-empty mapping, and three listeners allow one port to be
withdrawn and reopened once, which is what a stale listener needs. In
`EventBroker`, three events overflow both channels. `MaxListens = 3` allows two
completed changes of bridges. Symmetry is used only in runs without liveness
properties.

Deadlock is checked in `scope`, `proxy`, `client`, `accept`, `network`, `bridges`
and `lifecycle`. It is not in `service`, where the deadlock of `service_close` would
be found first (`CallsReturn` looks for others as long as the driver is not
closing), nor in `events` and `creation`, which end when their bounded events and
calls are used up.

Fairness. A goroutine inside a call keeps running; nobody is obliged to make a
call, and nothing is assumed of Tor: it need not answer or exit.

- Contexts end: `Do` is always called with a deadline (`driver.go` 83, 383, 492,
  525, 610), network operations have `DialTimeout`, and proxy dials and
  handshakes the handler's timeout. `DialContext` and the SOCKS client return
  once their context has ended.
- A relay ends once its connections are closed.
- A goroutine blocked on a mutex gets it in the end (strong fairness in `Service`
  and `EventBroker`), because Go's `sync.Mutex` hands over to a starving waiter.
- `ProxyServer` and `Network` state one weak fairness condition, on the
  disjunction of all steps that goroutines owe. It is weaker than a condition per
  goroutine and suffices, since the obliged steps of an instance cannot go on for
  ever.
- `Drain` waits for the application, so `ServiceAccept` assumes that the
  application closes its connections.
- `Lifecycle` assumes progress of `Start`, the monitor, a user inside a call and
  the steps of `Close`, with one exception. The waits for Tor have deadlines, which
  stand for a Tor that never exits. `gate.Close` and `proxy.Close` have none, and
  return by `RetiredEpochsDrain` and `ProxyCloseReturns`. `resources.Close` has none
  either and does not return in the deadlock of `service_close`, so nothing is
  assumed of it once there can be services: `CloseReturns` says that `Close` returns
  to all its callers or stays in that one step.

## Disagreements between code and documentation

Shown by a violation run:

- `service_close`: `replaceMappingsLocked` and `Service.close` call
  `Driver.Close` while they hold `Service.mu` (`service.go` 405, 424, 435, 550).
  Closing the driver closes the service's scope, whose `clearKey` takes
  `Service.mu`. With a concurrent `Driver.Close` no command has to fail: the
  refused command is enough. `driver.go` 599 says "Close is concurrent-safe and
  idempotent".
- `publication`: `handlePublication` (`service.go` 490) ignores everything but a
  new upload once the state is published, including the reset that a remap makes;
  and an upload of the old mapping that the event loop has read before the reset
  (`driver_events.go` 141) is applied after it. The state is published then, and
  `WaitPublished` returns at once, although `service.go` 460 says that it waits for
  an upload "for the current mapping". What does hold is `ConfirmationSticks`: an
  upload seen since the last reset is not overwritten.

Met while modelling, without a run of their own:

- `driver.go` 481: an enabling command that Tor executed but that `Do` reported as
  cancelled is rolled back without disabling the network again. Line 450 says
  that "a failed change or rollback leaves Tor networking disabled", and
  `lifecycle_test.go` 1066 tests only a rejection. `NoDirectTrafficAfterFailure`
  excludes the case by `~misled`.
- The same sentence of `driver.go` 450: if the first command, the disabling one,
  fails and the change is not from guards to bridges, networking stays enabled.
- `driver.go` 371: the monitor publishes a `TerminalEvent` after an ordinary
  `Close` too. `events.go` 65 says that it "reports why the owned Driver became
  terminal".
- `driver_events.go` 129: the descriptor cache keeps the last event of an ID, and
  none once it has 256 entries. An upload confirmed before the service is
  registered can be overwritten by a later failure, or forgotten.
- An `UPLOADED` that arrives after `Service.close` has deleted the cache entry is
  kept and replayed to a service created later with the same key.
- `driver.go` 427 says that `SetOutbound` drops both sides of all old sessions
  before it installs the new network. `resource.Close` takes a resource out of
  the scope before closing it, so an old session in the middle of closing its own
  connection may finish after the installation.
- `driver.go` 608: `Driver.Close` does not wait for a network that an application's
  `Network.Close` has taken out of `Driver.resources` and not yet closed
  (`NothingOutlivesNetwork` names the exception; `OperationsRelease` shows that the
  network is closed in the end).
- `network.go` 142: when the caller's context ends while `Dial` succeeds, `Dial` may
  return a connection that the `AfterFunc` closes. `ReturnedConnectionKept` allows
  that, and excludes that the end of `Dial` itself has this effect.
- `client.go` 58 says that cancellation after transmission closes the channel. A
  context that ends after the reply was taken does not.

## Proofs

Eight modules hold proofs, for every value of the constants that satisfies the
named assumption of the component's module (`ScopeAssumption`, `GateAssumption`,
...): placeholders are distinct from real values, bounds are numbers, sets of
faults and of bridge configurations are subsets of what they should be. Two
assumptions say a little more: `ServiceAssumption` gives every port a listener of
its own to start with, and `BrokerAssumption` makes buffers positive, as
`subscribeInitial` requires. Three of the modules are about two components.
`ProxyProofs` composes them: `ProxyServer` extends `OutboundGate`.
`OnionServiceProofs` and `DriverProofs` extend two components side by side whose
variables and definitions have different names, so each theorem is about one of
them and does not mention the other.

The theorems have one shape. The property is not inductive, since it is silent
about calls that are half done. So `IInv` adds what is true at each position of a
call, one lemma per conjunct shows that every action keeps it (`...Kept`), and
the temporal step is the last line.

**ScopeProofs.** `TypeCorrect`, `AtMostOnce`, `SnapshotClosed`,
`NothingOutlives`, `ReleasedStays`, `ResultsAgree`. That no closer is called
twice depends on who is about to call it: `CallsInv` (a goroutine inside a call
agrees with the state of its closer, no two are about to call the same one),
`CloserInv` (a closer has been called exactly when its once is done or the
rejecting `add` is through), `SweepInv` (one goroutine sweeps, and its snapshot is
still to do, closed, or its argument), `OwnedInv` (an untouched, unreleased closer
is in `items` before the close and in `todo` after it). `Refinement` shows that
every step of a scope is a step or a stutter of `Ownership`.

**ProxyProofs, the gate.** `NoOverlap`, `ClosedHoldsNothing`, `LatchedIsBlocked`,
`OwnFailuresLatch`, `SessionsEndClean`, `EpochsOwn`. `ControlInv`: one controller is active at a time, and none
while an epoch is installed. `ScopeInv`: all but the newest epoch, and the one
being retired, are shut. `ResInv`: what is registered belongs to an open scope,
what a sweep waits for to a closing one. `LatchInv`: a latched epoch is shut, or
the controller that gave it up is about to shut it. `SideInv`: which of its two
connections and its context a session can hold at each position; it gives
`SessionsEndClean`: a session that is over holds nothing. `EpochsOwn` is a
refinement for each epoch: `Epoch(g)` instantiates `Ownership` with the two
connections and the context of every session as resources. Each action falls under
one of a few effects (`StepEffect`: a session enters an epoch, one status moves
along, a scope opens, closes or is done), and each effect is a step or a stutter
of `Ownership` (`EffectOwns`). It needs `SideInv`, by which a session that
enters an epoch brings nothing along, `EpochInv`, by which its epoch has been
installed, and `ResInv`, by which nothing is owned when the scope is done.

**ProxyProofs, the server.** `SlotsAreHandlers`, `ProxyLeavesNothing`,
`GateBehindServer`, `LatchBehindServer`, `EpochsOwnBehindServer`. The invariant `PInv` joins the gate's to
four conjuncts: `ServerType`; `HandInv`, the connection in the accept loop's hand is
the only one without a handler; `StageInv`, which inbound connections are open and
which sessions have begun at each stage of a handler; `SlotInv`, the slots in use
are the handlers, counted with `Cardinality`, and the one in hand. A server step is
a step of the gate, leaves the gate alone, or cancels contexts (`GateStep`), so the
gate's invariant is not proved again. `NothingOutlivesProxy` follows from `SideInv`
and `StageInv` once all handlers are gone.

**ControlClientProofs.** `RepliesBelong`, `UnansweredIsClosed`, `RepliesArrive`. `CallInv`: one
caller is between the selects of `Do`, and nobody has left a reply behind on an
open connection. `FlightInv`: at most one command or reply is under way, in one
place (Tor, the wire, the reader's hand, the channel), and it is due to the
caller that waits. `RepliesArrive` is the safety half of `DoReturns`: while the
connection is open, `readLoop` runs, has room for the reply it hands over, and the
command of a waiting caller or its reply is under way, so that a call can only wait
for Tor.

**OnionServiceProofs, creation.** `HoldersAnswer`, `KeysAreDurable`,
`ConfirmationIsKept`: every onion service Tor serves is held by a call, a
registered service or a closing driver; an upload seen since the last reset is in
the state, in the loop's hand or in the replay that is under way; the invariant follows key and name
through every failure between `ADD_ONION` and registration.

**OnionServiceProofs, accepting.** `Bookkeeping`, `ClosedIsEmpty`, `WakeupIsSeen`.
`CountInv`: `accepting` is the number of goroutines inside the backing `Accept`.
`PlaceInv`: where a connection is that no list knows yet. `ScopeInv`: the scope owns
open connections until it has swept them. `DrainInv`: a wait that ended by itself
found nothing, and nothing is kept after `stopping`. `WakeupIsSeen` is the safety half
of the liveness property `CloseReturns`: while the wait of `Drain` sleeps with nothing
left to wait for, its channel is closed.

**ServiceProofs.** `TargetsOpen`, `AgreesWithTor`, `ReleasedByOwner`. `LockInv`:
who is inside a critical section of `Service.mu`, nested `Driver.Close` included.
`ClaimInv`: a request's port does not change under it, and a generation has one
holder. `BackingInv`: until the service closes, its listeners are open and
distinct, and a candidate is open and unused. `RequestInv`: what Tor serves at
each position of a request. `CloseInv`: the scope is closed only after Tor has
stopped serving. The last three hold until the driver closes.

**EventBrokerProofs.** `SlowKeepsNewest`, `SendsOnOpen`, `StreamJoined`. `LockInv`: one publisher
is in the loop, and the channels it has to serve stay open as long. `QueueInv`: a
channel holds the end of what it was offered, and after dropping the oldest event
there is room, because nobody else sends. `StreamJoined` needs the way of every
event: `EventInv`, an event has one publisher, what is kept is in order, and a
service has one publisher at a time; `DueInv`, an event still due to a subscriber is
new to it or was on the way when it subscribed, and one no longer due was offered;
`StreamInv`, what a subscriber was offered is in order and complete up to events
under way. `RecentInv` and `ReplayInv`: which events are kept, and that a new
subscription was offered the newest of them; `BehindInv` and `OrderInv`: an event
can come after a newer one only if it was under way when the newer one was kept.
Lemmas on `Newest` (it keeps an end of the sequence, and an end of an
increasing sequence increases) carry the kept events.

**NetworkProofs.** `NothingOutlives`, `ConnectionKept`, `NetworkOwns`. `DialerInv`: a `Dialer`
may outlive its call but not a success. `HookInv`: no `AfterFunc` is armed when a
call lets its context end. `ScopeInv`: a closed network owns nothing, a network
exists exactly if it was registered, and a `Driver.Close` that is past its snapshot
has waited for it unless the application took it out. `NetworkOwns` is the refinement of
`Ownership`, by effects as for the gate, with the connection and the context of
every call as resources; `PlaceInv` says which `Dialer` holds a connection that is
not registered yet.

**DriverProofs, bridges.** `HeldIsRedacted`, `SuccessIsReal`, `FailureIsClosed`.
`RedactInv`: from the redaction on, old and new sets of a call are redacted, and
so is all Tor has held.
`AppliedInv`: what a call has achieved at each position. `TransportInv`: what Tor
runs and what its events are attributed to while a call rolls back. `BlockedInv`: networking
is disabled from the first command to success, unless a command was misreported,
the channel is gone or the driver is closing.

**DriverProofs, start and close.** `Reported`, `StartReleases`, `LossOnly`,
`VerifiedFirst`. `OrderInv`: `Close` begins only when `Start` is over, and a failed
`Start` returns only after it. `ReleaseInv` and `ReportInv`: what `Close` has given
back, and what it has reported, at each position. `LossInv`: a part that is dead
although nobody has called `Close` was lost. `VerifiedFirst` is no property of a
run: networking is enabled only after Tor has confirmed the mandatory proxy.

Only model-checked: liveness, which needs fairness and is outside the prover's
reach: `CloseCompletes`, `RetiredEpochsDrain`, `ProxyCloseReturns`, `DoReturns`,
`CallsReturn`, `CloseReturns` (of `ServiceAccept` and of `Lifecycle`),
`PublishReturns`, `OperationsRelease`. Every other property of a passing run is
proved.

## Not modelled

- `config.go`, `api.go`: validation and rendering of `torrc` are pure functions
  over strings, without state. Configurations enter the models as valid ones.
- `identity.go`, `client_auth.go`: encodings of keys, pure functions over bytes.
  The contract of the key store is in `ServiceCreation`.
- The line parser of `internal/control`, and the bytes of the SOCKS handshake:
  sequential parsers, modelled by their outcomes (a reply, an event, an error;
  done or failed). Authentication is three calls of `Do`.
- The text of log lines and their redaction, and the line buffer. Which bridge
  sets are redacted, and when, is in `Bridges`.
- Bootstrap and transport events set one field and publish; how they are
  published is in `EventBroker`.
- Isolation keys and the filtering of addresses in `network.go`: pure.
- `file_error_*.go`, `e2e_support.go`: error classification and helpers of tests.
