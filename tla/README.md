# TLA+ models of tailscale-vita

Models, model-checking runs and machine-checked proofs about the concurrent and
stateful parts of the client. Paths are relative to `src/crates/` unless they say
otherwise; `PROJECT.json` maps every definition to the lines it translates and lists
the components, hazards, runs, mutants, findings and theorems.

## The system and its parts

One process runs these threads and shared structures:

| Part | What it does | Talks to |
|---|---|---|
| `tailscale-vita` runtime | supervisor `run_supervised`, `Runtime::up`, `run_event_loop`: login, map session, park, logout, re-login, published snapshot | everything below |
| `tailscale-vita` lifecycle | the online/degraded/offline/stopped tracker | runtime |
| LocalAPI | loopback HTTP; posts signals to the runtime, reads its snapshot | runtime |
| `ts-control` | keys on disk, register/logout, Noise + HTTP/2, map stream and `NetMap::apply` | runtime, control plane (external) |
| `ts-derp` | pool of relay connections, one I/O thread each | engine pump, runtime |
| `ts-magicsock`, `ts-disco` | UDP socket, Disco pings, direct paths, STUN | engine pump, runtime |
| `wg-engine` (+ vendored boringtun) | peers, packet routing, policy, timers; one pump thread | netstack, transports |
| `netstack` | smoltcp behind a poll thread, sockets, listener pool | engine, services |
| `ts-peerapi`, `ts-ftp` | Taildrop receiver and FTP server, a thread per connection | netstack, file system |
| `vita-chan`, `vita-sync`, `vita-thread`, `vita-fs`, `vita-log` | channel, locks, threads and files over the SCE kernel | everybody |
| plugin bootstrap, daemon, demo app, UI | start the runtime, show its state | runtime, LocalAPI |

The parts meet in four places, and that is where the hazards are: the runtime's
signal channel (LocalAPI against the event loop), the node key (disk, control plane,
engine, DERP and magic socket each hold a copy), the peer tables (netmap, engine and
magicsock follow the same deltas), and the pump thread, which uses the DERP pool and
the engine's indices while the control thread changes them.

## Modules

### VitaChan — `vita-chan/src/lib.rs`

The channel every queue of the program is built on. State: the queue, the holder of its mutex,
the two handle counters, and for each thread where its call is (`pc`), how much time
it has left (`rem`) and what its last call returned (`res`); `sent` and `received` are
histories. A call takes the mutex (`Lock`), runs under it (`SendBody`, `RecvBody`) and
returns or decides to wait; `Park` is the point at which `Condvar::wait` releases the
mutex. `notify_one` is a step of its own because the code calls it after releasing the
mutex; so are the two halves of `Drop`, because neither holds the mutex. The three
forms of each call differ only in `rem`: "inf" (send, recv), "some" (the `_timeout`
forms, which can run out at any moment) and "zero" (the `try_` forms).
Spurious wakeups and `Receiver::len` are left out.

### Lifecycle and Runtime — `tailscale-vita/src/lifecycle.rs`, `runtime.rs`, `localapi/handlers.rs`, `ts-control/src/{keystore,register,map}.rs`

`Lifecycle` is the tracker as operators on a record; instants become "was it ever
set" and "is the later one fresh", an input of `Tick`. `Runtime` extends it with the
control thread: `pc` runs from `up` through the login, the build of the data plane and
the iterations of the event loop (`top`, `drain`, `act`, then the handling of what
`next_event` returned), to `exited`. One action is
the code between two points at which the thread can be interrupted, blocked or
answered. The environment posts LocalAPI signals through the handlers' state gates,
authorises, expires or forgets keys, closes the stream, and crashes and restarts the
process; what is on disk (`disk_key`, `disk_seq`) survives.
`DerpReconnects` is constant 0: `record_derp_reconnect` is called by tests only.
Left out: back-off durations, the one-shot settings of an event loop (local addresses,
NetInfo; the DERP map is in `NetMap`), the CallMeMaybe drain, the Taildrop feed and ACL
warnings.

### DerpMux — `ts-derp/src/{mux,conn,transport}.rs`, `Runtime::shutdown`

The pool of relay connections, shared by the pump and the control thread. `conns` is
the pool's map and `conn` the I/O thread of each connection. `ensure_region` takes the
pool's mutex up to three times and dials between the second and the third, so it is
five steps (`EnsureFast`/`EnsureSlow`, `Reap`, `Evict`, `DialOk`/`DialFails`, `Insert`).
`Arc<DerpConn>` is modelled by who refers to a connection: the pool, a call (`hold`),
or a call that is about to drop it (`drop`); the last drop sets the shutdown flag and
joins, and where the code drops with the mutex held, `lock` stays taken until the join
is over. The eviction reads the home and removes its victim in two steps, because
`set_home` stores the home without the mutex. An I/O thread can die, be put to sleep by
a `Restarting` frame, or see its shutdown flag; between the return of `io_loop` and the
end of the thread a connection is alive but accepts nothing ("exiting"). In a turn of
its loop ("turn") a thread writes without a time limit and does not look at the flag.
A dial is one step that may never come: only its TCP connect has a timeout.
Which connection is least recently used is left open. The packets, the priority of
pongs and the `NotePreferred` frames, which only the relay reads, are left out.
`alive_regions` only reads, and waits for the mutex as a call does.

### NetMap — `ts-control/src/{netmap,map}.rs`, `push_delta_to_engine`, `push_delta_to_magicsock`, `update_peer_regions`

The peers, from a MapResponse to the tables of the data plane. `told` is the
specification side: the peers as the control plane has described them on this stream.
`peers` and `id_to_key` are the NetMap; `engine`, `peer_regions`, `magic` and
`disco_to_node` are the tables that follow it. `Replaced` and `Merged` are
`NetMap::apply` (a full list; changes, removals and patches) and return the delta with
the map it leaves; `Frame` is the whole event: apply, persist, push to the engine, the
magic socket and `peer_regions`. All of it runs on the control thread, so there is no
step between them; a write that fails after `apply` is `PersistFails`, where the delta
reaches nobody. A crash after the write is `Rebuild` with the session saved. A saved
session may resume at any description of the tailnet, which is more than the
files allow and needs no copy of them in the state.
`PickHome` picks our home region with the first frame that has a DERP map; the pick may
fail and is not repeated, so `our_home` may stay 0. `RegionOf` then gives a peer without
a home of its own region 0, which the engine takes for no address (`EngineUpsert`: a
known peer with the same allowed IPs, here any choice, keeps the one it has) and
`peer_regions` stores as it is.
A disco key is kept for the peers that have an endpoint too, as
`push_delta_to_magicsock` passes over the others. `Upsert` and `Remove` are the magic
socket's, with the re-link of its disco index.
Assumed of the control plane: a node key belongs to one node and so does a disco key
(a node may change either), a rekey comes as a patch or in a full list, the lists of
one delta name different nodes.
Left out: the packet filter, our own node's record, the allowed IPs themselves, and a
second `set_home` after the first.
`MCNetMap` gives TLC the worlds described under "Bounds".

### VitaChan_proofs, DerpMux_proofs, NetMap_proofs

The theorems; see "Proofs".

A definition named `X_Y` in a module is `X` with the bug `Y`: put in the place of `X` it must
make the property that `PROJECT.json` names for it fail.

## Runs

| Run | Expect | Question |
|---|---|---|
| `VitaChan` | pass | delivery, capacity, disconnect, no lost wakeups; timed calls return |
| `VitaChan_drop` | violation | does dropping the last Sender wake a pending `recv`? |
| `Runtime_safety` | pass | parked is quiet, logged out stays out, peers reach the engine, the screen is clean, the QR login keeps one key |
| `Runtime_stop` | pass | does `should_stop` end the process from everywhere, if the network answers? |
| `Runtime_rekey` | violation | with an auth key: is the session's key the engine's? |
| `Runtime_stopped` | violation | does Stopped mean that the session is closed? |
| `Runtime_loss` | violation | does a node that lost control notice? |
| `DerpMux` | pass | how far the pool passes its cap; evictions spare the home |
| `DerpMux_live` | pass | do calls return although joins happen under the mutex, and does shutdown leave no I/O thread, if dials and writes end? |
| `DerpMux_cap` | violation | is the cap kept? |
| `NetMap` | pass | do the NetMap, the engine, `peer_regions` and the magic socket follow the stream? |
| `NetMap_outage` | violation | does a full list replace the engine's peers? |

### Bounds

- `VitaChan`: two senders with two calls each, two receivers with one, capacity 2. Two of
  each kind are what the wakeup races need: one to be notified, one to steal the item or
  slot; two slots are what a change of order needs.
  Clones and drops let a thread leave and come back.
- `Runtime_safety`: with and without an auth key, two node keys (one rotation), one
  peer, one signal in the channel at a time (any number one after another), any number of
  process starts, a reconnect threshold of 1. The properties compare the current key with the
  previous one and the empty peer set with the full one. `Runtime_stop` needs one key.
- `DerpMux`: two callers, as in the program; two regions and a cap of 1, so that every
  second dial evicts; three connections at a time. The identifier of a connection
  that was joined is used again, so the number of dials is not bounded.
  `set_home` is called twice so that a home changes; the program calls it
  once per event loop. `DerpMux_live` has two connections and no home change, which
  leaves every join under the mutex in place. `cap` is 8 in the program; the theorem
  `PoolCapped` covers every value.
- `NetMap`: two node keys and two disco keys per node, two regions, any number of frames,
  sessions and parks, in two kinds of world. In one there is a single node, with a home
  and one disco key, with no home and another, or with neither; our home may be picked
  (the same region or the other), or the pick may fail. In the other two nodes come, go and
  change their keys, with a home and one disco key each, so that one shows what must not
  change while the other does. The nodes share no key, so what they could
  do to each other they do through the lists of a delta, which the second kind covers;
  the theorems are about any number of nodes described in every way. Nodes and the keys of
  a node are not ordered by the code, so they are symmetric; only invariants are checked.

### Fairness

- `VitaChan`: weak fairness of each thread's steps: a runnable thread runs, a timed wait
  ends. Calls are bounded, so weak fairness is enough to get the mutex.
- `Runtime`: weak fairness of the control thread outside the calls that have no time
  limit (`Waiting`: register, logout, the start of a map stream, the handling of an
  event), and strong fairness of leaving the drain and of the login's progress: clients do
  not post signals for ever faster than the loop takes them. Nothing is assumed of the
  calls themselves, of the control plane, of users or of crashes; `StopTerminates` and
  `LossIsNoticed` have `NetworkAnswers` (no call waits for ever) as their condition.
- `DerpMux`: strong fairness of each caller's steps. The mutex is created with attribute 0,
  which serves its waiters in order. Weak fairness of an I/O thread that was told to stop,
  sleeps or is returning. None of dying, restarting or sending, and none of a dial
  or of a turn of the I/O loop, which can block in the handshake and in a write:
  that they end (`DialsEnd`, `TurnsEnd`) is a condition of the properties. The pump
  tests its stop flag between sends, and the poll thread that feeds it is joined first, so
  its end is strongly fair as well.

`NetMap` states no liveness and has no fairness.

Deadlock is not checked in the first three: they may stop (all handles dropped, process
exited, runtime gone). Waiting for ever is the business of the liveness properties.

## What the runs show

The passing runs found no violation of their properties. The violations:

- **vita-chan, `Sender::drop`.** The counter and `notify_all` do not hold the mutex and
  can fall between a receiver's check and its wait; the receiver then sleeps for ever.
- **Rotated key in a reconnect.** With an auth key, `/logout`, `/down`, `/up` makes the
  reconnect register the rotated key while engine and DERP hold the old one.
- **Failed `/logout` while parked** opens a session in state Stopped.
- **Loss not noticed.** Bootstrap failures skip the tick, so Online stays published.
- **DERP cap.** Two callers that both find room leave the pool one above its cap.
- **Peers that left during an outage.** A reconnect starts from an empty NetMap, so its full
  list removes nothing; the engine keeps them until a park or a restart.

Met while modelling, without a run of their own:

- after a re-login or a restart `up()` resumes the stored sequence on the empty engine it
  has just built (`runtime.rs:445`), which the comment at 751 says "would never repopulate
  peers"; `SessionPopulatesEngine` excludes these sessions (`warm`);
- a full list that rekeys a node upserts the new key in the magic socket and then removes
  the old one, which takes the disco index entry with it (`ts-magicsock/src/lib.rs:540`);
  `MagicFollows` says that nothing else leaves a peer without its entry;
- `interactive_login` is said to look for a stop at a "2 s cadence" to "break an
  otherwise-blocking QR wait" (`runtime.rs:2192`); it looks between requests, and the
  request out is a long-poll "blocking until the user approves" (2146);
- when no home region can be picked the event loop does not try again (`runtime.rs:1031`);
- `PeersChanged` with a new key for a known id leaves the old key in the map (`netmap.rs:289`);
- on a resumed stream the NetMap is empty: removals and patches for peers it has not
  been told of are skipped, so the engine keeps what it had for them;
- a park empties the engine but leaves the magic socket's peers;
- the magic socket keeps the key from before the login (`runtime.rs:278` against 1321);
- the fatal snapshot is published by a Runtime that is dropped at once (1380 against 2566);
- a `/down` that arrives in the iteration that ends in `NeedsRelogin` is lost
  (1390 against `localapi/handlers.rs:233`);
- `set_home` stores the home before dialling, so after a failed dial a second call
  returns Ok without dialling; and when the region is connected already, it takes the fast
  path of `ensure_region` and sends no `NotePreferred(true)` (`mux.rs:71-79`);
- the error path of `DerpMux::send` removes whatever connection the pool has by then,
  possibly a newer one (`mux.rs:178`);
- the comment at `mux.rs:135` speaks of a shutdown without holding `conns`, which is held.

## Proofs

TLAPS checks every proof. The theorems hold for all values of the constants, from
the assumptions on them only.

**VitaChan_proofs** (`ChanAssumption`: finite, disjoint sets of threads; a capacity that
is a number or Unbounded). `TypeCorrect`, `DeliveryInOrder`, `CapacityKept`,
`DisconnectKept`, `NoLostItemWakeup`, `NoLostSlotWakeup`, all from one inductive
invariant `IInv`. The wakeup properties are not inductive alone. They need that the
mutex is held exactly by the thread under it, that the counters are the numbers of
live handles, and that a thread about to wait still has its reason (the queue is empty,
or full, because it holds the mutex). The step from a push to its notification keeps
the balance: an item more, and a notifier more; a notification turns a notifier into an
awake receiver. The lemma `MoveOne` counts threads that move from one group to another.

**DerpMux_proofs** (`MuxAssumption`: finite sets, a positive cap). `TypeCorrect`;
`HomeSpared`, which needs `VictimHasLock` (who chooses a victim has the mutex) and
`SeenIsHome` (the home it read is the home, or `set_home` has not yet looked into the
pool); `PoolCapped`, by counting: a call joins the dialling ones after it found room or
evicted, and adds a connection only when it stops dialling.

**NetMap_proofs** (`NetMapAssumption`: 0 is not a region, what is said of a peer is a home
and a disco key; `NoneAssumption`: `None` is none of the values it stands in for).
`NetmapCorrect`, `EngineCorrect`, `MagicCorrect`, and `ParkEmptiesEngine`: although
`clear_engine_peers` removes only what `peer_regions` names, a park leaves the engine
empty. The inductive invariant adds to the checked ones the types, that a closed client has
no peers (`ClosedIsEmpty`), that a full list was told (`SyncedWasTold`), that there is
no home before the DERP map was seen (`HomeUnset`), and that a magic-socket peer has a disco key
of its own node (`OwnDisco`). The argument goes through the delta: `SoundDelta` says what
`Replaced` and `Merged` guarantee (what is upserted or rekeyed is in the new map, what is
removed is not, every difference between the old and the new map is in one of the
lists); whatever applies a sound delta in the code's order then follows the map, which is
proved once for the engine and `peer_regions` together (`RegionPush`) and once for the
magic socket (`MagicPush`). The latter rests on what one `Upsert` and one `Remove` do to
the index (`UpsertKeepsIndex`, `RemoveKeepsIndex`); in a full list the removal of an
earlier key of the same disco key is the one case that loses an entry, which `shadowed` records.

Only model-checked: everything about `Runtime`, and all liveness, which is out of the
prover's reach.

## What is not modelled yet, and the plan

In order:

1. `WgEngine`: indices against the pump, transport address and authenticated source,
   inbound policy, timers; the home region that changes under `NetMap`. Theorem: the
   three indices agree outside an update.
2. `MagicSock`: paths, pings and pongs, CallMeMaybe, peer upsert and removal. Theorem:
   the two key tables are inverse to each other, or what the code keeps instead.
3. `Netstack`: handle events against the poll thread, `TcpListener`'s pool,
   `TcpStream::drop`. Liveness of accept under the 200 ms fallback.
4. `PeerApi` and `Ftp`: reservations, partial files, collision-free rename, connection
   threads, passive ports.
5. `Persist`, `OnceLock` and `RwLock` of `vita-sync`; `atomic_write` over a rename that
   removes its target; server-key pinning.
6. An abstract channel that `VitaChan` refines, and the invariants of `Runtime` proved.

Not planned: encodings and cryptography (`ts-disco`, the Noise, record and HTTP/2
layers of `ts-control`, DERP frames and handshake, boringtun), which hold no state
that a model would add to; logging, configuration, diagnostics and the user interface;
`src/spikes/`.
