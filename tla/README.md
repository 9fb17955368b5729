# Vitline: a TLA+ model of the ISP stack

TLA+ modules that model the concurrent core of Vitline, TLC configurations
that check them on small instances, and proofs, checked by TLAPS, of what holds
on every instance. Source paths are relative to `src/`.

## 1. The system

Vitline is one Python process (`main.py`) that runs several asyncio services
over one MySQL database, and three programs of its own: the web portal, the
controller that ExaBGP starts, and the tunnel client on a subscriber's machine.

| Part | State | Operations | Talks to |
|---|---|---|---|
| Database, `billing/database.py` | the tables `tariffs`, `ip_pools`, `subscribers`, `sessions`, `usage_log`; a pool of at most ten connections | `allocate_ip`, `release_ip`, `record_usage`, lookups, reports | every other part |
| SessionManager, `billing/sessions.py` | `_store`, the sessions in memory, under an `asyncio.Lock` | `start`, `update`, `stop`, `cleanup_stale` | Database |
| RADIUS server, `radius/server.py` | none but a coroutine for each datagram | `_auth`, `_acct` | NAS over UDP, SessionManager, Database |
| Cleanup task, `main.py` | where it is in its loop | `cleanup_stale` every `CLEANUP_INTERVAL` | SessionManager |
| NAS (simulator), `tests/sim_nas.py` | which answers it has seen | Access-Request, Start, Interim-Update, Stop | RADIUS server |
| WireGuard manager, `wireguard/manager.py` | the table `wg_peers`, the file `wg0.conf`, the peers of the kernel interface | `add_peer`, `provision_peer`, `remove_peer`, `disable_peer`, `enable_peer`, `write_conf` | Database, `wg(8)` |
| Portal, `portal/app.py` | signed cookies | login, dashboard, `wg_new`, `wg_download_conf` | Database, WireGuard manager |
| BGP controller, `bgp/daemon.py` | `announced`, `peers` | `announce`, `withdraw`, `blackhole`, peer events | ExaBGP over stdin and stdout |
| Prefix filter, `bgp/filters.py` | none | `is_bogon`, `is_too_specific` | nobody calls it yet |
| DNS proxy, `dns/resolver.py` | the cache | query, eviction | DoH upstream |
| Tunnel server, `tunnel/ws_bridge.py` | for each connection a buffer, a bridge, a UDP socket | upgrade, frames, loss of the connection | tunnel client, WireGuard |
| Tunnel client, `tunnel/client.py` | buffer, peer address, connection | connect, relay, reconnect | tunnel server |
| Traffic collector, `monitor/collector.py` | counters for each user, the map from address to user | `ingest`, `flush`, `refresh_ip_map` | routers, Database, InfluxDB |

### What is hard about it

*Concurrency.* Every datagram gets a coroutine of its own
(`radius/server.py:163`), and a coroutine gives up the event loop at each SQL
statement. The handlers of one session interleave with each other and with the
cleanup task at statement granularity; the database adds its own concurrency,
because the pool runs with `autocommit=True` (`billing/database.py:102`) and no
two statements share a transaction.

*Failure.* A statement may fail; the handler is then gone without an answer,
and what it has already done stays done. The cleanup task dies of one such
failure. A restart of the process loses `_store` and keeps the tables.

*Delivery.* RADIUS runs over UDP: requests and answers are lost, delayed,
overtaken and sent again. The tunnel runs over TCP, which cuts its stream into
pieces where it likes and may end inside a frame. ExaBGP reads commands and
writes events in its own time, so the controller always acts on old news.

*Bounds.* A few addresses for each tariff, ten connections for all coroutines.

### What makes each part correct

- **Address pool.** An address has at most one holder and a subscriber at most
  one address; an address in use is not taken over; rows stay consistent;
  connections are neither lost nor duplicated, and no call waits for ever.
- **Sessions and RADIUS.** An answered Start is visible to monitoring. An
  answered Stop is billed, and nothing else is. When Start and Stop were in
  order nothing of the session is left, and memory and table agree on it. When
  all sessions of a subscriber are over no address is assigned, but for one for
  each Access-Request that was sent again. A forgotten session leaves memory in
  the end.
- **WireGuard and portal.** Table, file and interface name the same peers, and a
  failure sets them apart in one peer at most; a disabled or removed peer stays
  out; addresses are unique; no more than five devices for a subscriber, which
  the dashboard promises and the code does not keep (section 3).
- **BGP.** Once commands and events are through, each peer that is up has the
  routes in `announced`, with the attributes last sent, and no others; a
  controller that ends leaves none behind. The filter decides by the addresses.
- **DNS.** Eviction is invisible: an answer is served until its ttl is over and
  not after, whether or not the eviction loop has run.
- **Tunnel.** Datagrams come out whole, once, in order, or not at all, and
  nothing else does unless a connection begins with the rest of an earlier one;
  a connection's socket does not outlive it; the client gets back to a connection.
- **Collector.** Traffic that was counted is in one place until it is written or
  its statement fails, and nothing stays in memory for good; the row of a session
  is too high by a bounded amount; the map from address to user catches up.

`PROJECT.json` lists the hazards one by one, at their lines.

## 2. The modules

| Module | Models |
|---|---|
| `Database` | the SQL statements on `ip_pools`, as operators on the value of the table |
| `AddressLease` | the abstract contract of the address pool |
| `AddressPool` | `allocate_ip` and `release_ip` run by concurrent coroutines over the connection pool |
| `Radius` | NAS, RADIUS handlers, SessionManager, the three tables and the cleanup task |
| `WireGuard` | the operations of the WireGuard manager over table, interface and file, with the portal's two routes as callers |
| `LossyChannel` | the abstract contract of the tunnel, for each direction of a connection |
| `Tunnel` | the tunnel's client and server, their connections, and WireGuard at both ends |
| `Collector` | the traffic collector beside the handlers that change addresses and the rows of `sessions`, the NAS that reports, and the router that exports |
| `Bgp` | the BGP controller between its callers, ExaBGP and the peers |
| `PrefixFilter` | the prefix filter, as operators on numbered addresses |
| `DnsCache` | the cache of the DNS proxy, as operators on its value |
| `MC...` | small instances for TLC |
| `...Proofs` | theorems |

`AddressPool` and `Radius` both extend `Database`. `AddressPool` instantiates
`AddressLease` under the refinement mapping `Held`, `Tunnel` instantiates
`LossyChannel` under `Sent`, `Got` and `Spoiled`. `MCBgp` extends both `Bgp` and
`PrefixFilter`.

Definitions marked *A slip for TLC to find* are faulty variants of the
definition that follows them; they are used nowhere in the specifications. Each
property is known to be violated when such a variant takes the place of the
right definition.

### Database and AddressPool

A row of `ip_pools` is its id, with `in_use` and `assigned_to`. The tariff of a
row never changes and is a constant; `ip_address` is unique and stands for the
id; `assigned_at` is never read. Every statement is one step, since under
autocommit it is a transaction of its own.

`call[k]` is the frame of coroutine `k`: where it waits, for whom, and the row
it has chosen.

| `at` | Code |
|---|---|
| `idle` | no call under way |
| `allocate`, `release` | waiting in `pool.acquire()` |
| `lookup` | `SELECT ... WHERE assigned_to`, lines 179-186 |
| `select` | `SELECT ... FOR UPDATE SKIP LOCKED`, lines 190-199 |
| `mark` | `UPDATE ... WHERE id`, lines 201-207 |
| `update` | `release_ip`, lines 209-214 |

`free` counts the idle connections. `Fail` is a statement that raises, or the
cancellation of the coroutine: the `async with` gives the connection back.
`AcquireFails` is the same while the coroutine still waits for a connection. A
call takes one connection in its life and holds none while it waits for it.
`LockedRows` says which rows a statement of another connection may hold locked
at the moment of a `SKIP LOCKED` read; the read may skip any subset of them.
The comment at line 188 says that `SKIP LOCKED` is not used. It is, with the
effect that a free row under a passing lock can be reported as an exhausted
pool.

`Serialised` is an assumption on the environment: the tariffs for whose
subscribers the NAS sends its Access-Requests one after the other. The calls for
all other tariffs overlap as they like. `Sheltered` are the subscribers of
serialised tariffs; half of the code's contract holds for them alone (section 4).

### Radius

A datagram is a copy of a request of a session; `task[d]` says whether it is
unsent, in flight, waiting at a statement, or done. A handler's step is one
statement together with the code up to the next await. The critical sections of
`SessionManager` contain no await, so they are parts of steps and its lock never
makes anybody wait. The reply goes out in the step of the last statement,
because nothing is awaited in between. A coroutine is never made to go on:
`Fairness` says nothing of handlers, so each may be slow without bound.

| Action | Code |
|---|---|
| `Send`, `Resend` | the NAS, `tests/sim_nas.py`; retransmission as in RFC 2865 |
| `ReceiveAccess` ... `Tariff` | `_auth`, with the three statements of `allocate_ip` |
| `ReceiveStart`, `Insert` | `SessionManager.start` |
| `ReceiveInterim`, `Counters` | `SessionManager.update` |
| `ReceiveStop`, `ReleaseIp`, `Delete`, `RecordUsage` | `SessionManager.stop`, then `record_usage` |
| `CleanupStale`, `CleanupNext`, `CleanupRelease`, `CleanupDelete` | `_cleanup`, `cleanup_stale`, `stop` |
| `HandlerFails`, `CleanupFails` | a statement raises |
| `Restart` | the process is started again |

Abstractions:

- Packet contents and the password check. The outcome of `get_subscriber` and
  of the tests after it is a free choice (`Subscriber`), which also covers a
  subscriber being blocked at any time.
- Time. A session in `_store` is told apart by two ages, since its start and
  since its last report, each below or above `MAX_IDLE_SESSION` (`Ages`). `Age`
  lets time pass for one session. The code has no "last report"; the model
  keeps it to say what `OnlyIdleReaped` says.
- Byte counters. `usage[s]` counts the rows of `usage_log` that come from
  session `s`.
- Waiting for a pooled connection, which `AddressPool` models.
- The order in which the cleanup task works off its list: any order, where the
  code has insertion order.
- `early` and `reaped` are history variables for the properties; no action
  reads them.

### WireGuard

A peer is recorded in `wg_peers` (the table), `iface` (the kernel) and `conf`
(`wg0.conf`). `frame[t]` is the operation a request or a command performs:
which one, where it is, for whom, the public key, the address in hand and, in
`write_conf`, the rows it has read.

| `at` | Code | Action |
|---|---|---|
| `list` | `list_peers` and the tests of `wg_new`, `wg_download_conf`; `genkey` | `List` |
| `exists` | the first SELECT of `add_peer` | `Exists` |
| `choose` | `_next_free_ip` | `Choose` |
| `insert` | `INSERT INTO wg_peers` | `Insert` |
| `set`, `remove` | `_wg_set_peer`, `_wg_remove_peer` | `Set`, `Remove` |
| `delete` | `DELETE` of `remove_peer` | `Delete` |
| `read`, `write` | `write_conf`, before and after its SELECT | `Read`, `Write` |
| `off` | `UPDATE` of `disable_peer` | `Off` |
| `find`, `on` | the SELECT and the `UPDATE` of `enable_peer` | `Find`, `On` |

`Command` is a `wg` command that does what it is told, or refuses: the refusal
is only logged (`wireguard/manager.py:375`) and the operation goes on. `Fail` is
a statement that raises, or the end of the process, at any point; in `write` it
may leave a part of the file. The kernel keeps an allowed address with one peer
only, so `SetAddress` takes it from whoever had it (`Stripped`).

Things in the code that the model keeps:

- `_next_free_ip` passes over the hosts whose text ends in `.1`. The server
  takes the first host of the subnet, which is another one when the subnet does
  not begin at `.0`; the code gives that host to a peer then, and so does the
  model.
- `wg_download_conf` calls `provision_peer` as well and so makes a new peer each
  time, whatever the limit. `device` tells the peers of `wg_new` apart, so that
  `LimitKept` counts those only and is violated without such a peer's help.
- `disable_peer` and `enable_peer`, which nothing in the repository calls yet,
  do not write `wg0.conf`.

Left out: the preshared key, the label and the times in a row, the text of the
configurations, `peer_stats` and the rest that only reads. A row says instead
whether it came from `wg_new` (`device`), `faults` counts what has failed, and
`apart` says whether no two operations have been at work on one key; `device`
and `apart` are there for the properties only.

What a failure may do is bounded, not excluded: `InterfaceFollowsTable` and
`NoSharedAddress` say that, while `apart`, at most one peer for each failure is on
the interface otherwise than in the table, or has an address that another
peer's row has. A failing `wg set` leaves such a peer behind for good, and the
operations that come after it, on any peer, make it no worse.

### Tunnel

A connection is a number; the client has one at a time. A datagram is its number
on its connection and direction, a frame two units of the byte stream, and a
read takes any number of units, so it may end inside a frame. `session[c]` is the
server's protocol object with its bridge: `upgraded`, the state of the bridge,
`closed`, whether there is a UDP socket (`transport`), a pending `_handle_frames`
(`task`), and whether `connection_lost` has run (`lost`).

| Action | Code |
|---|---|
| `TryUpgrade` | `_try_upgrade`, and the part of `_start_bridge` before its await |
| `Started`, `StartFails` | `create_datagram_endpoint` returns or raises; then `_handle_frames` |
| `DataReceived`, `HandleFrames` | `data_received`, and the task it makes |
| `ConnectionLost` | `connection_lost`, `WsUdpBridge.close` |
| `FromWg` | `_UdpReceiver.datagram_received`, `from_wg` |
| `Connect`, `Refused` | `open_connection` in `_ws_connect` |
| `Upgraded`, `HandshakeFails` | the answer to the upgrade, or the end of the stream |
| `ListenFails` | the answer is there, and `create_datagram_endpoint` for the client's listener raises |
| `Send` | `_LocalUdp.datagram_received`, `send_to_server` |
| `Read`, `Gone`, `Retry` | the loop of `_connect_and_serve`; its end; the sleep of `run` |
| `Break` | the connection is cut by anybody |
| `Dropped` | a connection that the client left after `ListenFails` is closed in the end |

Things in the code that the model keeps:

- The bridge exists before its socket does. Frames that are handled in between
  are taken from the buffer and dropped (`ws_bridge.py:231`).
- A socket that opens after `connection_lost` stays open (`ws_bridge.py:235`); it
  never carries anything, because the bridge is marked closed, or because the
  client never had an answer to its upgrade.
- The client's `_buf` outlives a connection (`client.py:123`). When a connection
  ends inside a frame the next one is read out of step: `Read` then takes any
  part of the buffer for frames, hands what it finds in them to WireGuard (a 0 in
  `downGot`), and may be back in step after that. `torn` has the connections that
  begin so.
- An orderly end of the stream makes `run` connect at once, an exception after
  `RECONNECT_S` seconds.

Left out: the bytes of handshake, masks and lengths; control frames, which the
code relays like data; data that comes with the request or with its answer, which
neither end sends; a request without a key; the pause of a full write buffer. A
path that goes silent without being cut is left out as well: the code sends no
pings and has no timeout, so nothing would ever happen on it.

### Collector

A row of `sessions` belongs to a session, and `Owner` says to whom the session
belongs; a subscriber may have several rows (two sessions at a time, or a row
whose Stop never came). A datagram reports one unit of traffic at one of its ends,
an address and a direction; `by` is the session in which the traffic passed, which
no code sees. It is on its way for any time, others may overtake it, and it may
be missed: lost, of NetFlow version 9 or sFlow, or there before the sockets.

| Action | Code |
|---|---|
| `Pass` | traffic passes at the NAS, and the router sends its datagram |
| `Arrive` | `datagram_received`, the parsers, `ingest` |
| `Miss` | nothing of the datagram is counted |
| `Flush`, `Write` | `flush`: the snapshot, then one `UPDATE` for each user in `rx_snap` |
| `Read`, `Apply` | `refresh_ip_map`, before and after its SELECT |
| `Restart` | the process is started again |
| `Assign`, `ReleaseIp` | `allocate_ip`, `release_ip` |
| `Start`, `Report`, `Stop` | the statements of `SessionManager.start`, `update`, `stop` |

The lock in `FlowAggregator` never makes anybody wait, because its critical
sections contain no await. A statement that fails is logged and its share is
lost (`collector.py:168`). Who only sent is not in `rx_snap` and is dropped with
the snapshot (`collector.py:159`); an address that was released keeps its entry in
the map (`collector.py:213`).

`Write` is the `UPDATE ... WHERE username` (`collector.py:163`): it adds the same
to every row of the subscriber. `passed` is what has passed in each session, as
the NAS counts it, ahead of the router's datagrams. `Report` sets one row to what
the counters of the NAS have said at some time (`Said`): a report may be late,
repeated, or overtaken by a newer one. What `_acct` makes of it is `Octets` and
`Gigawords` of the number in words of `Word` (2^32), `Joined` again, with the
gigawords or, from a NAS that does not send them, without.

Two history variables serve the properties. `slack` is, for each row, how far the
collector may take it beyond `passed`: what was on hand for the subscriber and
what of the session was on its way when the row was last set, since the NAS's
figure may include it already; and what was counted for the subscriber since then
that passed in another session of the subscriber or at an address that was
somebody else's by then. `owed` is what was counted and has met no statement.
The lines for InfluxDB are left
out: `urlopen` blocks the event loop and is no await, and its failure is logged.

### Bgp and PrefixFilter

`out` and `events` are the two pipes, `up` the sessions that exist, `rib[p]` the
routes peer `p` has from us with their attributes, `told` the attributes last
sent for each prefix in `announced`.

| Action | Code |
|---|---|
| `Begin` | the announcements at the start of `exabgp_loop` |
| `HandleEvent` | one line from ExaBGP: `handle_event`, `_on_peer_up` |
| `Stop` | the end of the input, `withdraw_all` |
| `CallAnnounce`, `CallWithdraw`, `CallBlackhole`, `CallUnblackhole` | the methods of `BgpManager` |
| `CarryOut` | ExaBGP reads one command |
| `Flap` | a session with a peer is established or lost |
| `Killed` | the controller ends without its loop, and ExaBGP starts it again |

The controller awaits only the next line, so an event or a call is one step, and
the commands it sends stand in the pipe in any order of its set. The methods are
called from the same event loop; nothing in the repository calls `blackhole`
yet. A command goes to all peers that are up when ExaBGP reads it. An interrupt
arrives in `asyncio.run` and not in the `try` around `readline`
(`bgp/daemon.py:201`), so it ends the controller as a kill does: `withdraw_all`
runs only when ExaBGP closes the pipe.

Two things the code does and the model with it: when a peer comes up, everything
is announced again with the default next hop and without communities, to all
peers, so that a blackhole becomes an ordinary route (`daemon.py:163`); and
`blackhole` of a prefix that is announced already sends nothing (`daemon.py:76`).
Left out: update events, which are only logged, the dry run and `status`; and what
a peer may keep of a lost session for a time, since `bgp/exabgp.conf` asks for
graceful-restart: `Flap` takes its routes at once.

`PrefixFilter` takes an address for a number and a prefix for an address with a
length; the operators of the library `ipaddress` are modelled on these numbers,
with the size of each prefix as a constant. `MCBgp` tries it on every prefix of
a family of 4 bits and one of 5, with bogons of several lengths. The comment at
`bgp/filters.py:41` says that `2001::/23` includes `2001:db8::/32`; it does not, and
the list has the second block too.

### DnsCache

The cache is a function from keys to entries, and the time an argument. There is
no state machine around it (section 5).

## 3. The runs

| Run | Instance | Distinct states | Shows |
|---|---|---|---|
| `address_pool` | 3 coroutines, 2 connections, 2 + 1 addresses in two tariffs, the second of which is serialised | 162 309 | `TypeOK`, `PoolConsistent`, `ConnectionsConserved`, `PoolDrains`, `ReadsStillTrue`, and `LeaseSpec`: the pool implements `AddressLease` |
| `address_takeover` | the same, no tariff serialised | violation | `NoTakeover` fails |
| `radius` | 1 session, all kinds of request, 2 copies of each, 1 retransmission, 1 failing statement, 1 restart | 219 011 | `TypeOK`, `BilledByStops`, `AckedStartIsVisible`, `OrderlyStopClears`, `AddressLeakBounded`, `OrderlyInSync` |
| `radius_two` | 2 sessions of one subscriber, no Interim, 1 failing statement, 1 restart | 405 856 | `AddressLeakBounded`, `StoreDrains` |
| `sessions_in_sync` | 1 session, no failures at all | violation | `SessionsInSync` fails |
| `idle_reaped` | 1 session, no failures at all | violation | `OnlyIdleReaped` fails |
| `wireguard` | 2 operations at a time, all kinds, 2 keys, 2 free addresses, 1 failure | 1 370 418 | `TypeOK`, `InterfaceFollowsTable`, `NoSharedAddress` |
| `device_limit` | 2 requests, 2 keys, limit 1, `wg_new` and `remove_peer`, no failures at all | violation | `LimitKept` fails |
| `conf_file` | 2 operations, `wg_new` and `remove_peer`, no failures at all | violation | `ConfFollowsTable` fails |
| `tunnel` | 2 connections, 2 frames in each direction of each, 1 fault | 83 301 | `TypeOK`, `UsedSocketsReleased`, `WholeUnlessTorn`, `NothingForgotten`, `NothingAfterLoss`, `Reconnects`, `FramesArrive`, and `ChannelSpec`: each direction implements `LossyChannel` |
| `collector` | 2 subscribers, 2 sessions of one of them, 1 address, 2 datagrams, 2 changes of addresses or sessions, 1 failing statement or restart, words that hold 2 values | 733 386 | `TypeOK`, `BytesConserved`, `SnapshotAwaited`, `OvercountBounded`, `CountersDrain`, `MapCatchesUp` |
| `bgp` | 2 peers, 2 prefixes, 2 calls, 3 session changes, 1 restart | 478 334 | `TypeOK`, `PeersHaveRoutes`, `StoppedWithdraws`; the prefix filter on 288 candidate prefixes |

*Why these bounds.* Three coroutines over two connections make one of them wait
while the other two are both inside `allocate_ip`. With two subscribers in one
tariff, two addresses and a third subscriber apart, calls compete, the pool runs
out, and a lock on the rows of another tariff can be told from one that
matters. In `radius` two copies of each request allow a retransmission to be
overtaken by its original, before and after Stop; one fault and one restart are
enough to stop any handler between any two of its statements. `radius_two` has
the one thing a single session cannot show, two sessions that share a
subscriber and so an address; there the copies are left out to keep the run
short, so that `AddressLeakBounded` says there that nothing is left; in `radius` one
Access-Request may be sent again and one address stay behind. The Radius runs set
`CHECK_DEADLOCK FALSE`: the NAS has a bounded number of requests to send, so the
system really stops. Of the WireGuard runs two
operations at a time have every pair of statements in both orders; two keys and
two addresses let both choose the same address and let one use an address the
other has just let go of. A limit of 1 instead of 5 is enough for two requests
to overrun it. Keys and tasks are symmetric: no definition tells one
from another. In `tunnel` two frames of two units give four places for a chunk
to end, one of them inside each frame; the first connection may break at any of
these, in any state of its bridge, and the second shows what is left behind.
`MaxConns > MaxFaults` leaves a connection that is not cut. In `collector` one
address that two subscribers have one after the other is what makes the map
wrong; two datagrams let one wait in the snapshot while the next is on its way or
counted, and are enough to overflow a word of two values; two sessions of one
subscriber share every `UPDATE`. The tables may begin with any of these rows, so
that two changes are enough to begin or end one session beside the other, and to
pass the address on. In
`bgp` three session changes are an up, a down and an up of one peer, or changes
of both, with commands still in the pipe. The runs `tunnel` and `bgp` set
`CHECK_DEADLOCK FALSE`: frames, calls and session changes are bounded, and both
ends then wait for good.

*Fairness.* `AddressPool` assumes `WF(Advance(k))`: the event loop resumes a
coroutine whose await is over, and MySQL answers or fails. Weak fairness is
enough there only because the runs are finite in calls (`PoolDrains` speaks of
behaviours in which no more calls arrive): aiomysql wakes waiters in order, but
the model does not need it. `Radius` assumes that time passes (`WF(Age(s))`) and
that the cleanup task goes on (`WF(Cleanup)`: its sleep ends and its statements
return). It assumes nothing of the NAS, of delivery or of the handlers.
`WireGuard` states safety only and assumes no fairness.
`Tunnel` assumes that both event loops go on (every started await returns or
fails, every scheduled task runs), that TCP delivers what was written while a
connection lasts, and that both ends learn of a cut; it assumes nothing of
WireGuard, which need not send anything, nor that a fault ever happens or never
does. `Collector` assumes `WF(Loop)`: the sleep ends and statements return or
fail. `Bgp` assumes that the controller reads its events and ExaBGP its
commands; no call and no session change has to come.

### What the violations say

1. **`address_takeover`** (`billing/database.py:201`). Two overlapping calls
   both read row 1 as free, and mark it one after the other: the first holder
   loses the address it has just been given. `FOR UPDATE` does not prevent it,
   for under autocommit the lock goes with the statement, and the marking
   `UPDATE` does not test `in_use`.
2. **`sessions_in_sync`** (`billing/sessions.py:34`). A Stop handled between
   `start()`'s entry in `_store` and its `INSERT` deletes nothing; the row comes
   afterwards, and nobody removes it.
3. **`idle_reaped`** (`billing/sessions.py:76`). `cleanup_stale` goes by
   `started_at`, which no report refreshes. A session of more than
   `MAX_IDLE_SESSION` loses its address and its row in the middle of its work.
4. **`conf_file`** (`wireguard/manager.py:335`). An `add_peer` reads the peers
   for `wg0.conf`; a `remove_peer` then takes one of them out of interface and
   table and writes the file; the `add_peer` writes what it read. The removed
   peer is in the file and comes back at the next start of the interface.
5. **`device_limit`** (`portal/app.py:177`). Two `wg_new` requests count the
   subscriber's peers before either has added one; both pass the test and both
   add one. The dashboard says "Максимум 5 устройств", at most 5 devices
   (`portal/templates/dashboard.html:409`).

## 4. What is proved

All theorems hold for every value of the constants: every number of
subscribers, tariffs, addresses, coroutines, connections, sessions, copies,
frames, peers, prefixes and faults. They rest on the named assumptions of the
modules, `DatabaseAssumption`, `PoolAssumption`, `RadiusAssumption`,
`WireGuardAssumption`, `TunnelAssumption`, `CollectorAssumption`,
`BgpAssumption` and `FilterAssumption`: types of the constants, at least one
pooled connection, finitely many coroutines and prefixes, more connections than
faults. TLC evaluates each of them in the runs.

**AddressPool** (`AddressPoolProofs`)

| Theorem | Establishes | Needs |
|---|---|---|
| `Conservation` | `[]ConnectionsConserved` | finite `Tasks` |
| `TypeCorrect` | `[]TypeOK` | |
| `FewAddresses` | nobody holds more addresses than there are connections | finite `Tasks` |
| `Consistency` | `[]PoolConsistent` | |
| `NoStaleRead` | `[]ReadsStillTrue` | |
| `Refinement` | `LeaseSpec` | |
| `Untaken` | `NoTakeover` | `Serialised = Tariffs` |

`free <= MaxConns` is not inductive on its own. Conservation is, and gives the
bound: a call that returns was holding a connection, so fewer than `MaxConns`
were free. The proof rests on what a change of one frame does to the number of
holders (a lemma on cardinalities). `Forward` says that every step of a call brings
it nearer to its end, which is what `PoolDrains` says without fairness.

`FewAddresses` is for the tariffs whose calls overlap, where a subscriber may get
several addresses. Its invariant adds up the addresses a subscriber has and the
calls of `allocate_ip` that have found none yet (`Pending`). When a lookup finds
none, the sum is the pending calls alone, which hold a connection each; a
marking `UPDATE` turns a call into an address. The bound is the pool's ten
connections, not one. TLC has confirmed it on an instance with two connections
and three addresses in a tariff whose calls overlap, which is too large for the
run. `Consistency` needs the row in the hand of a
call at `mark` to be one of its tariff, which is why the property speaks of it.

`NoStaleRead` is the argument for the lease. Between the lookup and the marking
only another call of the same tariff could give the subscriber an address or
mark the chosen row; in a serialised tariff two allocating calls never are of
one tariff (an invariant of its own, from the guard `MayAllocate`), and a row's
tariff and its holder's tariff agree by `Consistency`, so nobody does, whatever
the calls for other tariffs do. `release_ip` only frees
rows, which makes neither reading false. With that, each step of the pool is a
`Grant`, a `Revoke` or a stutter of `AddressLease`, and `Untaken` follows from
the row being free when it is marked.

**Radius** (`RadiusProofs`)

| Theorem | Establishes |
|---|---|
| `TypeCorrect` | `[]TypeOK` |
| `Billing` | `[]BilledByStops` |
| `Visibility` | `[]AckedStartIsVisible` |
| `OrderlyStop` | `[]OrderlyStopClears` |
| `LeakBound` | `[]AddressLeakBounded` |
| `InSync` | `[]OrderlyInSync` |
| `IdleOnly` | `OnlyIdleReaped`, for a NAS that sends no Interim-Updates |

`Billing` strengthens the property to count the handlers: for each session the
rows in `usage_log` are no more than the Stops whose handler is done. An action
that records usage finishes its handler in the same step, which is what a
failure or a restart in between cannot change.

`OrderlyStop` needs to know where every other actor is. Its invariant says that
for a session whose only Start was answered before the Stop was sent: the Start
handler is past its `INSERT` for good; once a Stop handler has begun, the session is
not in `_store`, and no action puts it back, since Interim only touches a
session that is there; once a Stop handler is past its `DELETE`, the row is not
in the table, and only the finished Start could insert it. The cleanup task
only removes. A restart empties memory and ends handlers, which makes no part
false.

`LeakBound` counts. A handler of an Access-Request assigns at most one address,
and is past its `UPDATE` at `tariff` and when it is done (`Past`). A dial-in is
spent when it was refused or while its own Stop has released what the subscriber
had (`Spent`). `Balance`: a subscriber's addresses and spent dial-ins together
are never more than the handlers past the `UPDATE`. A marking `UPDATE` adds one to
each side, and so does a refusal; a release spends a dial-in and leaves no
address, whichever dial-in it was that assigned one. For the last the invariant
needs that a spent dial-in has a handler of its own that is past the `UPDATE`
(`AskedFirst`): Start and Stop are sent only after an Access handler ended, so no
release runs ahead. When all dial-ins of a subscriber are over, each is spent and
has one Access-Request that was not sent again; the addresses left are at most
the others. The bound is reached: a copy that is handled after the Stop assigns
an address, and nothing releases it.

`InSync` has an invariant for a session with one Start, answered before its Stop
was sent, that the cleanup task has not touched, while nothing failed: what is in
memory has its row or a Start handler at its `INSERT`, and what has a row, or such
a handler, is in memory or has a Stop handler before its `DELETE` (`InStep`). At
rest there are no handlers and the two sides agree. Without the condition on the
Start it is refuted by `sessions_in_sync`.

`IdleOnly` is to `idle_reaped` what `Untaken` is to `address_takeover`: the
assumption under which the violated property holds.

**WireGuard** (`WireGuardProofs`)

| Theorem | Establishes |
|---|---|
| `TypeCorrect` | `[]TypeOK` |
| `Agreement` | `[]InterfaceFollowsTable` |
| `Separation` | `[]NoSharedAddress` |
| `LimitOverrun` | the devices of a subscriber exceed the limit by fewer than the requests under way |
| `LimitAlone` | `[]LimitKept`, for one request at a time |
| `FileInStep` | `[]ConfFollowsTable`, for one operation at a time and no `disable_peer` or `enable_peer` |

`Agreement` and `Separation` count as well. A peer is `Good` when what the
interface routes to it is the address of its row, when at rest it is on the
interface exactly if its row is enabled, and when an operation at work on it finds
of the interface what it relies on (`IfaceOK`): the peer is off it at `delete` and
`off`, in step with the row at `exists` and `find`, and so on. `Tally`: the peers
that are not good (`Damaged`) are at most as many as the failures. A step without
a failure keeps good peers good (`Keeps`), one with a failure spoils one at most,
that of its own operation. An operation changes the row and the address of its
own peer only, with one exception: `SetAddress` may take an address from another
peer. From a good peer it never does, since what is routed to it is its row's
address, and addresses in the table are unique (the UNIQUE key). What an
operation knows of the table (`TableOK`: from `choose` to `insert` its key has no
row, at `set` it has one with the address in hand) holds whatever fails, for no
failure touches a row. All this is while `apart`, and that is
needed: when a removal overtakes `enable_peer` between its SELECT and its `wg set`,
the code sets table and interface apart without any failure.

`FileInStep` says that two operations at a time are what `conf_file` needs. A lone
operation that changes the table goes on to `write_conf` and writes what it has
read (`FileOK`).

The bound of `LimitOverrun` becomes inductive when requests that have passed the
test are counted with the devices (`Within`): inserting a row moves one from one
count to the other, and a request passes only when there are fewer devices than
the limit, while at most all `Tasks` can have passed. With one task that is
`LimitKept`: it takes two requests side by side to break the promise.

**Tunnel** (`TunnelProofs`)

| Theorem | Establishes |
|---|---|
| `TypeCorrect` | `[]TypeOK` |
| `SocketsReleased` | `[]UsedSocketsReleased` |
| `Whole` | `[]WholeUnlessTorn` |
| `SilentAfterLoss` | `NothingAfterLoss` |
| `SomeoneComes` | `[]NothingForgotten` |
| `Refinement` | `ChannelSpec` |

The invariant `IInv` has two parts besides the types. `Linked` ties a connection
together: a frame is written only after an answer, and when there was an answer
a lost session has a closed bridge; the bridge has begun exactly when the
session is upgraded; nothing is relayed before the bridge is ready, and nothing
ahead of the parser. From it follow `SocketsReleased` and `SilentAfterLoss`: what
a lost session could still relay was never written, or meets a closed bridge,
and `from_client` asks for that. `InLine` says how the stream and the client's
`_buf` relate: on a connection begun with an empty `_buf`, `_buf` begins where a
frame begins; and on any connection the datagrams handed to WireGuard lie before
what is in `_buf`. With these each `Handle` and each `Read` hands on frames later
than all before, which is `Deliver` of `LossyChannel`; `FromWg` and `Send` are
`Offer`; `Connect` with something in `_buf` is `Spoil`; all else is a stutter.

The buffer is not cleared when the client connects again, and what it makes of
such a stream it does hand to WireGuard. The contract says so: a channel may be
`spoiled` while nothing has come out of it, and noise may come out of a spoiled
channel between the datagrams, which still come once and in order. Only the
channels to the client are `Fragile`; to the server nothing but whole datagrams
comes out, for its buffer is made with the connection.

`SomeoneComes` is what `FramesArrive` rests on. A whole frame in the server's buffer
has a `_handle_frames` on its way, because every chunk schedules one, every run of
it empties the buffer of whole frames, and so does `_start_bridge` when the socket
is there (with the types alone this is inductive). What is left to fairness is
that the task runs.

**Collector** (`CollectorProofs`)

| Theorem | Establishes |
|---|---|
| `TypeCorrect` | `[]TypeOK` |
| `Conserved` | `[]BytesConserved` |
| `Awaited` | `[]SnapshotAwaited` |
| `ReportsRead` | what `_acct` reads of octets and gigawords, for every `Word` |
| `Bounded` | `[]OvercountBounded` |

`OvercountBounded` is not inductive, because a `Write` raises the row and nothing
else. `RowBounded` adds to the row what is on hand for its subscriber and what of
the session is on its way: together they exceed what has passed by no more than
`slack`. `Pass` raises what is on its way and what has passed; `Arrive` moves from
the way to the hand of this session, and for the other sessions of the subscriber
it raises hand and `slack`; a flush moves within the hand; a write moves from the
hand to every row of the subscriber, or loses; a report sets the row to what had
passed at some time, or less without gigawords, and `slack` to hand and way. That
these two are counted rightly takes finitely many datagrams with different numbers
(`Numbered`). `Idle` says that there is a snapshot only while it is being written.
`BytesConserved` is inductive with `Idle`.
`Awaited` is what `CountersDrain` rests on: while there is something received in
the snapshot its `UPDATE` is to come, and while one is to come the loop is in the
flush. `ReportsRead` is arithmetic: with both attributes the number is exact,
without gigawords it is the remainder, and two words hold whatever two attributes
can say, as `BIGINT UNSIGNED` has to.

**Bgp** (`BgpProofs`) and **PrefixFilter** (`PrefixFilterProofs`)

| Theorem | Establishes |
|---|---|
| `Bgp`: `TypeCorrect` | `[]TypeOK` |
| `RoutesReachPeers` | `[]PeersHaveRoutes` |
| `StopIsClean` | after `Stop`, with no command left in the pipe, no peer has a route |
| `FilterExact` | every prefix that parses is decided by its addresses |

`PeersHaveRoutes` speaks of empty pipes, so its invariant says what the pipes
will bring. `After(s, route, x, r)` says that a peer which has `route` for prefix
`x` will have `r` once the commands `s` are carried out. `Sent`: for a peer that is
up and an announced prefix that is the attributes last sent, unless an "up" of
this peer is still among the events (`Pending`); the controller announces
everything again when it reads that event. `Unsent`: while no controller was
killed, a prefix that is not announced ends as no route, for the peers that are
up and for one that comes up with no routes at this moment. A new session
empties the peer's routes and puts its event in the pipe, in one step.
`StopIsClean` is what `StoppedWithdraws` says without fairness: a controller that
ended announces nothing, so by `Unsent` what the pipe brings is no routes.

`FilterExact` shows that two aligned blocks overlap in the sense of the library,
which compares end points, if and only if they share an address.

**DnsCache** (`DnsCacheProofs`). `EvictionUnseen`: with a clock that does not go
back, no later `get` can tell whether `evict_expired` has run, also after a `set`
in between. `EvictionComplete`: what it leaves, `get` still serves. Together: the
comparison `<` of the one and `>=` of the other neither overlap nor leave a gap.

**Only model-checked.** `PoolDrains`, `StoreDrains`, `Reconnects`,
`FramesArrive`, `CountersDrain`, `MapCatchesUp` and `StoppedWithdraws`, which are
liveness under fairness, out of the prover's reach; of `PoolDrains`,
`FramesArrive`, `CountersDrain` and `StoppedWithdraws` the parts that need no
fairness are proved (`Forward`, `SomeoneComes`, `Awaited`, `StopIsClean`). Every
other property that holds in a run is a theorem. The five properties that are
violated are theorems under the assumption that rules the violation out:
`Untaken`, `InSync`, `IdleOnly`, `FileInStep` and `LimitAlone`.

## 5. What is not modelled, and the plan

Planned, in this order:

1. Proofs: the parts of `Reconnects` and `StoreDrains` that need no fairness, as
   for the other liveness properties.
2. `Radius` with an address for each session, once it is settled whether a
   subscriber may have two.
3. The queries of the DNS proxy around `DnsCache`: overlapping queries for one
   name, upstream failures, the eviction loop. A query shares nothing with
   others but one read and one write of the cache, neither with an await in it,
   so the least can go wrong there.

Not modelled: the packet codec, the password encryption and the parsing of
NetFlow and DNS packets (byte-level conversions without state); the command
line, whose commands are single calls of modelled operations; the pages of the
portal, its login and cookies; the output of configurations; and the
configuration files of other programs.
