# TLA+ specifications of protun

protun runs a VPN connection on a thread of its own. An application creates a
`Connection`, whose methods send messages to that thread; the thread drives
`pvpnclient::Client`, a protocol implementation without I/O of its own, and
tells the application what happens through callbacks. These specifications
model the thread, its handlers and the API threads around it, the streams it
reads and writes on each platform, the service that owns a connection on
Android, and the routes that belong to one on Windows.

## Parts of the system

| Part | Code | Model |
|---|---|---|
| Connection API, message channel, waker | `src/src/api/connection.rs` | `PvpnConnection` |
| Connection thread: messages, pull, state, poll | `src/src/connection/pvpn_connection.rs` | `PvpnConnection` |
| Network recovery timer | `src/src/connection/network_recovery_handler.rs` | `NetworkRecoveryHandler`, `NetworkRecovery`, `ConnectionRecovery` |
| Local agent session, jails, statistics | `src/src/connection/local_agent_handler.rs` | `LocalAgentHandler` |
| Candidate peers | `src/src/connection/sanitized_peers.rs`, `util.rs` | `SanitizedPeers` |
| Packet capture file | `src/src/connection/pcap_stream.rs` | in `PvpnConnection` |
| Streams, as the thread sees them | `src/src/connection/streams.rs` | `StreamTransport` |
| mio streams: table, interest, write buffer, poll | `src/src/connection/mio/` | `StreamLoop`, `MioStreams` |
| pvpnclient adapter | `src/src/connection/pvpn_client.rs` | partly: the client is external |
| Windows routes, internet interface, registry | `src/src/connection/windows/helpers/`, `src/src/utils/windows/registry_editor.rs` | `WindowsRoutes` |
| Windows streams: handles, events, waker, poll | `src/src/connection/windows/` | `StreamLoop`, `WindowsStreams` |
| Android service | `src/vpn-core-android/`, `service/` | `AndroidConnectionManager` |
| Android client API | `src/vpn-core-android/`, `ProtonVpnConnectionManagerImpl.kt` | not modelled |
| Conversions, logging, samples, build | | not modelled |

`PROJECT.json` lists every part with its files, the lines each definition
models, and the hazards of the code at their lines.

## Modules

- **Optional** - `None` and `Option(S)`, for Rust's `Option`.
- **NetworkRecoveryHandler** - the handler as operators on a record, one for
  each method. An `Instant` is the time left until it.
- **NetworkRecovery** - the handler alone, its methods called in any order
  while time passes. `BackoffInv` is its inductive invariant.
- **SanitizedPeers** - `from` (one peer for each entry IP, the first of best
  priority, in the given order) and `as_peer`, with the cast of the priority to
  16 bits. `from` is its two loops, each a recursive function; `BestPeers` and
  `Selects` say what it is to return without a loop.
- **LocalAgentHandler** - the agent handler as operators on a record.
- **PvpnConnection** - the thread and its callers. `pc` is the place in the
  loop of `run`:

      start -> messages -> pull -> (agent) -> update -> poll -> polling -> results
                  ^                                                          |
                  +----------------------------------------------------------+

  `results` goes back to `pull` for every read that brought data
  (`resume_to = "results"`), as `read_from_streams` does. One step is one
  message, one action, one agent message, one ready stream, one `update_state`
  or one return of `poll`. A send and its wake are two steps, so an API thread
  can be interrupted between them. Each message handler, `update_state` and
  `on_connection_loop_end` are single steps: no other thread can see their
  inside, as all of their state belongs to the connection thread.
- **ConnectionRecovery** - `PvpnConnection` with the history of
  `NetworkRecovery`, for the refinement below. **MCPvpnConnection** and
  **MCConnectionRecovery** have the values of the constants for TLC.
- **StreamTransport** - what the traits `Stream` and `Streams` promise: bytes
  that a stream accepts leave it once and in order, what arrives is handed over
  in order, and a stream that is opened again starts with nothing. It has no
  buffers, readiness or poll.
- **StreamLoop** - what both platforms share: the state the operating system
  has for a stream, the write buffer of `TcpSocketStream`, and the parts of
  `pvpn_connection.rs` that open, close, write and read. Its definitions are
  parts of actions. `pc` goes from `messages` through `pull` and `poll` to
  `results`, with `flush` inside for every `write_from_buffer`. One step is one
  call of the system, so the network acts between any two. The bytes of a
  stream are numbered as they are written. It also has the refinement mapping to
  `StreamTransport` (`Bytes`, `Queue`, `Transport`).
- **MioStreams** - adds what mio knows: `interest` (the field), `registered`
  (what the last successful `reregister` said), and `edges`, events that have
  not been returned. An event is raised when something happens or when a stream
  is registered, and returned once.
- **WindowsStreams** - adds `handles`, `is_readable` and `is_writable` of the
  code, the recorded `events` of each socket, the kinds that are `armed` (will
  be recorded when they occur), and the waker with a caller that sends a message
  and then wakes.
- **MCMioStreams**, **MCWindowsStreams** - that nothing is left behind, and the
  streams that are excused from it.
- **WindowsRoutes** - the routes of a session: added to the routing table,
  recorded in the registry, deleted when the session is dropped or by
  `ProTun::delete_routes`. One step is one call of the system, and the process
  can die between any two. **MCWindowsRoutes** has its instance.
- **AndroidConnectionManager** - the service with its `ConnectionManager`. A
  handler of the main thread is two steps: it reads `activeConnection`, then
  acts. Other handlers wait for it; `onRevoke`, on a binder thread, does not.
  The native connection is reduced to what it was told and the states it
  posts. **MCAndroidConnectionManager** has the intents of each run.
- **NetworkRecoveryProofs**, **PvpnConnectionProofs**,
  **PvpnConnectionPollProofs**, **StreamLoopProofs**, **MioStreamsProofs**,
  **WindowsStreamsProofs**, **WindowsRoutesProofs**,
  **AndroidConnectionManagerProofs** - theorems.

Variables are named after the fields of the code (`peers`, `settings`, `pcap`,
`streams`, `connection_state`, `should_stop`). Added to them are what the
client was told (`client_peers`, `client_settings`, `capturing`,
`client_streams`), what the application was told (`told`, `told_capture`), and
what the agent has said and owes (below). In `WindowsRoutes`, `passed` is the
set of records that the session at work could not read, and `lost` that of the
created routes which were never recorded, or whose record was written over by
such a session; in `AndroidConnectionManager`, `wanted` is whether Connect came
after the last Disconnect, `missed` whether the networks went back to the value
that the collector saw last, and `updated` (of a native connection) what was set
by an update and not by `connect` since. In the stream modules `wire` is what the system has taken,
and `stopped` the streams whose reading ended although there may be more to
read. None of these influences a step, except that the agent answers what was
asked.

The histories of the agent in `PvpnConnection` are what its properties compare
the handler with:

- `session` - the peer whose agent connected last, and `seen`, whether
  `update_state` has met that peer (called `on_connected_to_peer` for it) before
  the session or during it;
- `announced` - the jails that the agent of the present tunnel announced last,
  and whether it did so early, before `update_state` met the new peer;
- `asked` - the fields of statistics still to be answered, `answered` - those
  answered since the request and since the last `update_state`, `owed_stats` -
  that the application waits for the event.

`PvpnConnection` and the stream modules look at the same loop from two sides.
In `PvpnConnection` a stream is ready, fails or blocks arbitrarily, and the
question is what the thread tells the client and the application; in the stream
modules the client asks for arbitrary actions, and the question is whether the
thread learns what the system has for it. Neither has the detail of the other:
their product is out of TLC's reach, and no property needs both.

### The external client

The source of `pvpnclient` is not in the repository. Which action it asks for,
its deadline and its tunnel are arbitrary, with these restrictions:

- a tunnel is to a peer that the client has (`Tunnels`). It changes when the
  client is told something: from the return of `poll` on, where the client gets
  the time, the data and the errors, through the messages, until there is
  nothing more to pull (`ClientMoves`), and when its peer is removed
  (`update_peers`). It does not change between the last pull and the return of
  the next `poll`, when nobody calls the client;
- a new tunnel gets connected only while data is read (`Reading`) and there is a
  network (`NextTunnels`), since it takes an answer of the server, and
  `read_from_streams` drops the data when there is no network;
- values from the local agent come from the peer of the present tunnel, arrive
  only through a connected tunnel while there is a network, and statistics only
  when asked for (`AgentCanSend`); when the tunnel changes, what was asked of
  its agent is not answered any more;
- a stream id is not reused while it is in use (`FreeIds`).

### Refinement

`ImplementsRecovery` says that the connection thread implements
`NetworkRecovery`, with `recovery` for `handler`. The history variables `delay`
and `quiet` are those of `NetworkRecovery`; `History` determines them from the
step that the thread takes and forbids none. A return of `poll` with the change
due is a Notify, a change of the network or a tunnel that works ends the outage
(ConnectivityChange, Connected), a socket that opens or fails is a
SocketOpened or a StreamError, and one that opens and fails in the same step is
one of them. All other steps leave the timer alone. TLC checks it in
`connection_liveness`, and it is proved (`RecoveryImplemented`), so what is
proved of the timer alone holds of the thread (`BackoffIsKept`,
`ScheduleHasNetwork`).

`ImplementsTransport` says that `MioStreams` and `WindowsStreams` implement
`StreamTransport` under the mapping

- `queue[s]` - the elements of `write_buffer[s]`, joined (`Bytes`);
- `inbox[s]` - what the system has for `s` to read (`rx[s]`);
- `open` and `wire` - themselves.

A `write` is an Accept, each call of `socket.write` is one Transmit, and each
read that brings a payload one HandOver; polls, events and flags are invisible.
TLC checks it in `mio_streams` and `windows_streams`, and it is proved for any
streams and sizes (`StreamsImplementTransport`).

The abstract specification is about safety; that nothing is left behind is
`AcceptedIsSent` and `ArrivedIsRead`, two properties of the mapped state: again
and again the queue, or the inbox, of each stream is empty. They except the streams in `Excused`: those that have failed, that were
shut down, whose reading has stopped, and on mio those whose `reregister`
failed. This is where the code gives up, not where the model does. A reregister
that failed is not tried again, and a read error or an empty payload ends the
reading of a stream until more comes.

### Simplifications

A capture without `max_bytes` is left out (it never stops by itself), and every
write to a capture counts one unit. `Stats` fields, jails and settings are
members of small sets. The agent values that are only copied into the reported
connection info are one value. A read that blocks and one that brings nothing
are both `done`.

A route is its destination and its interface; next hop and prefix are left out,
and so are addresses, DNS and MTU of the adapter. One session is open at a time,
and `delete_routes` is called when there is none. Closing the adapter removes
its routes. A read of the registry may fail, which the code takes for an empty
record, and so may a write and the conversion of a route to its record and back.
Other software does not create or delete the routes of a session. The address
that a socket is bound to is left out.

In the stream modules, stream ids stand for mio's tokens and for the entries of
the Windows handle list. How epoll, kqueue and `WSAEventSelect` record events is
external, taken from their documented behaviour: mio may report only what has
changed or all that a stream is ready for, and both are modelled; Winsock
records an event once and again only after the call that enables it. FD_CLOSE
and FD_CONNECT are not selected by the code, so the end of a connection is no
event on Windows and is not in `ReadinessKept` there. Error codes are two:
would block, and any other.

On Android, peers, settings, statistics and events pass through the service
unseen, so one `Update` stands for them. Intents of a process restart and of
always-on only call the application. `onRevoke` is one step. A handler that
calls a connection which `onRevoke` has destroyed ends the process
(`ProcessDies`), or has read `activeConnection` again and does nothing; both can
happen to every handler that calls the connection.

## Runs

| Run | Configuration | Shows | Distinct states |
|---|---|---|---|
| `network_recovery` | delays 1 to 10 | backoff doubles and is bounded, nothing is scheduled without a network, a schedule is resolved | 329 |
| `connection_peers` | 2 callers, 2 peer lists, 2 capture files with limit 1, queue of 2 | no wake is lost; client and configuration agree; the reported state is true; file, client and events of a capture agree and the limit holds; `from` agrees with its reference on all lists of up to 4 peers | 1,924,872 |
| `connection_agent` | 2 peers, sessions, jails, 2 fields of statistics, network loss, data between results | the reported session is not that of another peer `update_state` has met; jails are reported; statistics answered between two `update_state`s are delivered | 4,518,186 |
| `connection_streams` | tun that is replaced and one socket, all results (errors of no special kind, `Other`, left out) | failures reach the client; the recovery timer wakes the thread and spares a connection | 2,523,392 |
| `connection_liveness` | fair, delays 1 and 2, a socket that opens, fails and delivers data | `NetworkRecovery` is implemented; `disconnect_and_wait` returns; network loss is reported; the recovery timer wakes a blocked thread | 194,979 |
| `mio_streams` | fair, the tun and a TCP stream, 3 bytes | what is readable or pending is reported; bytes leave in order; `StreamTransport` is implemented; nothing is left behind | 206,758 |
| `windows_streams` | the same with a caller | as above over recorded events; no message waits for a wake that was lost | 473,808 |
| `windows_routes` | a server of each family, 2 interfaces, a route of other software | routes of others stay; created routes stay recorded | 2,429,808 |
| `android_manager` | 3 intents, 2 networks, 2 posted states, revocation | a replaced connection's states do not stay; Disconnect is final; the connection knows the network, and runs with the last configuration of `connect` except for later updates | 3,677,836 |

Type invariants are left to the proofs (see Proofs); so is `SentInOrder` on
Windows.

Three further runs are expected to end in a violation; each is a finding:

| Run | The code | The text it is measured against |
|---|---|---|
| `connection_stats` | statistics are reset by each `update_state` | "they will be delivered via [Event::LocalAgentStats]" |
| `connection_stale_session` | an agent session survives a change of peer that comes before `update_state` has met its peer | "VPN and local agent connections are established" |
| `android_config` | `connect` compares with the last `connect`, not with what was set since | "If not null, VPN traffic will be logged to the specified PCAP file" |

Each of the three has a counterpart that holds, is checked by a passing run, and
is proved. It says how far the code keeps the promise:

- `AgentSessionIsCurrent` fails for a session whose peer `update_state` has not
  met: the agent connects while results are read, after `update_state` of its
  round, and the client is at another peer when `update_state` comes. This takes
  one round, or a network loss in between, during which `on_connected_to_peer`
  is not called at all. `SeenSessionIsCurrent` says that there is no other way.
- `StatsDelivered` fails when an `update_state` comes between two answers.
  `AnsweredStatsDelivered` says that all answers without one in between make the
  event, whatever was in the accumulator before.
- `ConnectApplies` fails for what was set by an update. `ConfigInForce` says
  that everything else is as the last `connect` said.

`JailsReported` excepts early announcements: `on_connected_to_peer` clears the
jails of the peer before, and with them what the new agent has announced between
two `update_state`s. No text says whether the agent repeats an announcement, so
this is a hazard and not a finding.

Other places where code and text differ, or where the code has no text to be
measured against, are hazards in `PROJECT.json` with a note: restrictions go to
a field nobody reads; a priority over 32767 becomes negative; after a failed
start every method panics; reading goes on while there is data; each network
error puts the pending recovery off; a network that changes and changes back
around `connect` on Android is not noticed; a handler that `onRevoke` overtakes
calls a destroyed connection, which ends the process.

### Bounds

`MaxQueue` bounds the channel (the code's is unbounded) and `MaxPulls` the
actions, and the agent messages, of one pull. Two messages are enough for one
to arrive while another is handled, and for a `Disconnect` behind an update;
one or two pulls are enough for an error and its consequence, since all state
is kept between pulls. One socket beside the tun is enough for the properties
of streams, which speak of one stream at a time. Each run opens one part of the
connection and keeps the others small: the delay of the recovery timer, for
instance, grows in `network_recovery` and `connection_liveness` and is constant in
`connection_streams`.
`CallerSymmetry` is used for invariants and for `CaptureWithinLimit`, an action
property that mentions no caller, and for no liveness property.

In the stream runs one TCP stream stands beside the tun. A UDP stream has no
write buffer, as the tun, and on Windows the events and flags of a socket, as a
TCP stream; no run has one, and the theorems hold for any number of each. With
`MaxRoom` 1 and `MaxChunk` 2 every write of two bytes is partial, and
`MaxWritten` 3 lets a second write queue behind what is left of the first.
`MaxArrivals` bounds the payloads that arrive at all and is 1: after the last
one no new event helps one that was lost. Two are out of TLC's reach together
with liveness; what a second arrival does is in the theorems, which have no such
bound. `MaxPosts` is 1 because no later message wakes the thread then.

In `connection_agent` a round has one agent message in each pull, and as many
pulls as there are reads that bring data; the calls are requests for statistics
and network changes.

In `windows_routes` nothing but the sets of addresses and interfaces is
bounded, and sessions, crashes and restarts may repeat for ever. Three intents
are enough for a connection, its replacement and a Disconnect; with two posted
states one of a replaced connection can wait next to one of its successor.
`NetworkSymmetry` is used for the invariants of `android_manager`, which name no
network.

### Fairness

`Fairness` is weak fairness of the steps of the thread, of a poll that is woken
or timed out, of the passing of time, and of a caller that is inside a method:
an operating system's scheduler. Nothing is assumed of the application, the
network or the client. `FairSpec`, and `FairSpecH` with the history, add that a stream which is read again and
again runs dry at some time: without it the loop of `read_from_streams` need
not end, and neither property of `connection_liveness` about messages holds.

In the stream runs the steps of the thread that wait for nobody are weakly fair.
`PullDone` is strongly fair: in each pull the client may have more to ask, but
not for ever. `PollReady` is weakly fair on Windows, where the wait returns if a
handle is signalled, and strongly fair on mio, where a poll that is interrupted
returns to the loop and is called again. `Drain` is weakly fair: the other end
takes what is sent, or the connection fails, which is an excuse.

## Proofs

TLAPS proves for every value of the constants:

- `NetworkRecoveryProofs`: `TypeOK`, `ScheduledOnlyWithNetwork` and
  `BackoffSpacing`, from `BackoffInv`. The spacing of delayed changes is not
  inductive alone: one has to know that the time since the last change and the
  time left together cover the delay.
- `PvpnConnectionProofs`: `NoLostWakeup`, `NeverConnectedWithoutNetwork`,
  `CaptureInSync`, `CaptureWithinLimit`, `StoppedIsReported`,
  `StreamsCoverClient`. Each has its own small invariant (`ApiInv`, `StateInv`,
  `CaptureInv`, `StopInv`, `StreamInv`). `Frame` lists, for each group of
  variables, the actions that can change it; `StepFrame` proves it once, and the
  invariants then need an argument only for those actions.
  For instance `StateInv` adds to `NeverConnectedWithoutNetwork` that what was
  told is the current state, without which the comparison in `set_state` could
  keep a callback back. `TypeInv` is the part of `TypeOK` that no other
  invariant has. `RecoveryImplemented` is the refinement of `NetworkRecovery`:
  `RecoverySteps` lists what an action can do to the handler, and
  `RecoverySimulated` maps each case to a step of the timer. It needs `StateInv`
  for the one call that is allowed only with a network, `on_connected`.
- `PvpnConnectionPollProofs`: what `from` computes, `ClientConfigInSync`, the
  properties of a blocked thread (`NeverSleepsPastRecovery`,
  `TimerNeverResetsConnection`, `WaitingMatchesNetwork`, `ReportedTunnelIsReal`,
  `JailsReported`, `SeenSessionIsCurrent`), `AnsweredStatsDelivered`, and
  `TypeOK`. `PollInv` carries what `update_state`
  established through `poll`, where only time and callers act; `AgentInv` says
  that the agent handler exists and has its type whenever the thread looks for
  its messages. `FromKeepsBest` says that `from` keeps exactly the best peer of
  each entry IP in the order of a list of any length. `FromIsOnePerIp` follows,
  and `ClientConfigInSync` rests on it: the client's peers are removed by their
  address, which is right only if no two of them share one. `PriorityCast` says
  which priorities the cast to 16 bits keeps: those that fit, and no other.
  For the agent, `SessionInv` follows the peer of a session from the tunnel
  through `update_state` to `last_peer`, and needs that a connected tunnel has a
  peer that the application gave (`CandidatesAreGiven`). `JailsInv` says that
  the handler has the jails which the present agent announced, and that
  `update_state` has met no other peer since, so that it clears nothing;
  `StatsInv` that each field answered is in the accumulator, which is never full.
- `StreamLoopProofs`: what the shared steps keep. `LoopInv` says where the
  thread can be while streams are left to write (`writable`) or read
  (`reading`): a poll never begins with either. `Consecutive` says that the wire
  and the elements of the write buffer, one after the other, are the bytes
  written so far; each element begins where the one before it ends, which is
  what a partial write has to restore, and what makes it inductive without
  joining the elements. For the refinement they are joined after all: `BytesAre`
  shows that the bytes of a buffer in order are a `Run`, the numbers after those
  on the wire, so that an Accept lengthens a run at its end and a Transmit
  shortens it at its front. `StreamStep` lists what a step can do to the part of
  the state that the transport sees, and `StepTransports` maps each case to a
  step of the transport. It needs `Fresh`, that a stream which is not open has
  nothing on its wire: otherwise opening it again would not be a Renew.
- `MioStreamsProofs`: `TypeOK`, `ReadinessKept`, `PendingIsWatched`,
  `SentInOrder`, `ImplementsTransport`. `MioInv` adds to `LoopInv` that exactly the open streams are
  registered (`Registrations`), and what `set_poll_enable_wait_for_write` relies
  on when it leaves the registration as it is (`WaitIsSet`): if the socket got
  room since the write that blocked, its event has been raised. Otherwise it is
  `reregister` that does not lose the event, as it looks at the socket again.
- `WindowsStreamsProofs`: `TypeOK`, `ReadinessKept`, `PendingIsWatched`,
  `PostedIsSeen`, `SentInOrder`, `ImplementsTransport`. `WinInv` adds `ReadsAreArmed`, that a socket
  with nothing to read will have the next arrival recorded unless it is going to
  be read. Without it an arrival could find FD_READ disabled, and
  `ReadinessKept` is not inductive.
- `WindowsRoutesProofs`: `ForeignKept` and `RecordedUnlessLost`, for every set of
  servers, interfaces, metrics and foreign routes. `RoutesInv` joins them with
  the type invariant, which follows the records through a session (seen, or in
  `passed`), and with what is recorded never being a foreign route: without that,
  deleting what is recorded could delete one.
- `AndroidConnectionManagerProofs`: `TypeOK`, `LatestStateShown`,
  `DisconnectHolds`, `NetworkInSync` and `ConfigInForce`, for any number of intents, states and
  networks. None is inductive, since a handler reads `activeConnection` in one
  step and acts in the next. `ReadInv` says what `onRevoke` can have done in
  between: it can only have cleared what was read. `WantedInv` adds to
  `DisconnectHolds` that no handler at work has read a connection; `NetworkInv`
  follows the networks through the handler of the collector, and `ShownInv` the
  last state from the queue through its handler to the app. `ConfigInForce`
  needs that a handler of `connect` compares with the `currentConfig` that is
  still in force.

The assumptions on constants are named where they are declared and evaluated by
TLC in every run. They give numbers and peer lists their types and keep `None`
and the stream of the tun apart from other values (`PeersAssumption`,
`AgentAssumption`, `TunnelPeersAssumption`, `WaitReasonAssumption`,
`NullAssumption`, `IdsAssumption` and the bounds); none states what the code computes.

The loops of `from` and the joining of a buffer are recursive functions. What
they compute is proved without the library's induction theorems, which take an
operator as a parameter that the provers cannot instantiate. `LeastElement`,
that a set of numbers which is not empty has a least element, does instead: a
closed form of the function is written down, and the first place where it fails
cannot be the first.

Only model-checked:

- the liveness properties (`ScheduleResolves`, `DisconnectReturns`,
  `NetworkLossReported`, `RecoveryWakesThread`, `AcceptedIsSent`,
  `ArrivedIsRead`), since fairness is out of the prover's reach.

## Not modelled

- The inside of `pvpnclient`, whose source is not in the repository.
- The Android client API: it binds to the service and exposes flows. Its state
  is that of Android's service binding, whose rules are not in the repository;
  the updates it sends are in `AndroidConnectionManager`.
- Addresses, DNS, MTU and IPv6 settings of the Windows adapter: a sequence of
  system calls without state in this code. Sessions that overlap
  on Windows are left out of `WindowsRoutes`: whether two adapters can be open
  at a time is decided by Wintun. The address that `local_ip_finder.rs` chooses
  for a socket is left out too: it is not the adapter's by the same filter that
  `get_potential_internet_interfaces` models for the routes.
- The table of Windows error codes, type conversions and events: maps from data
  to data, whose outcomes the modules choose from. The one conversion that loses
  information, of a peer's priority, is in `SanitizedPeers`.
- Logging, examples, build scripts and language bindings: they change no state
  of a connection.
