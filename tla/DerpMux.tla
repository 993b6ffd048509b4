-------------------------------- MODULE DerpMux --------------------------------
(* The pool of DERP relay connections of crates/ts-derp (mux.rs, conn.rs): one *)
(* connection per region with an I/O thread of its own, a cap with eviction,   *)
(* and a home region.  The engine's pump thread sends; the control thread sets *)
(* the DERP map and the home, sends CallMeMaybe frames and shuts the pool down.*)
(*                                                                             *)
(* A call is a sequence of steps because ensure_region takes the pool's mutex  *)
(* three times and dials in between.  The Arc<DerpConn> references are         *)
(* modelled: in the pool, held by a call, or about to be dropped.  Dropping    *)
(* the last one stops the I/O thread and joins it, under the mutex where the   *)
(* code drops it there.  The packets and the NotePreferred frames, which only  *)
(* the relay reads, are left out.                                              *)
EXTENDS Naturals, FiniteSets

CONSTANTS
    Callers,     \* the threads that use the pool
    Control,     \* the caller that sets the map and the home and shuts down
    Regions,     \* region ids of the tailnet
    NoRegion,    \* home: 0
    cap,         \* connections the pool should hold
    MaxConns,    \* bound: connections that exist at a time
    MaxHomes,    \* bound: calls of set_home
    NoThread

Conns == 1 .. MaxConns
NoConn == 0

ASSUME MuxAssumption ==
    /\ IsFiniteSet(Callers) /\ Control \in Callers /\ NoThread \notin Callers
    /\ IsFiniteSet(Regions) /\ NoRegion \notin Regions
    /\ cap \in Nat \ {0}
    /\ MaxConns \in Nat /\ MaxHomes \in Nat

VARIABLES
    derp_map,  \* regions with nodes; {} until set_derp_map
    home,
    conns,     \* the pool: the connection of each region
    lock,      \* holder of the pool's mutex, while it joins an I/O thread
    conn,      \* per connection: its I/O thread and the shutdown flag
    homes,     \* calls of set_home so far
    pc,        \* per caller: where its call is
    call,      \* per caller: the arguments of its call, and the home it read
    hold,      \* per caller: the Arc<DerpConn> its call holds
    drop       \* per caller: references it must drop before it goes on

vars == <<derp_map, home, conns, lock, conn, homes, pc, call, hold, drop>>

PCs == {"idle", "ensure", "reap", "victim", "dial", "insert", "have", "sendErr",
        "release", "unmark", "joining", "gone"}

\* "running": at the condition of io_loop.  "turn": in its body, which writes the
\* queued frames, flushes and reads.  "asleep": it honours a Restarting frame.
\* "exiting": io_loop has returned, so the receiver of the tx channel is gone, but
\* the thread is not finished.
IoStates == {"none", "running", "turn", "asleep", "exiting", "finished"}

ConnStates == [io : IoStates, shutdown : BOOLEAN]
Calls == [op : {"none", "send", "set_home"}, region : Regions \cup {NoRegion},
          seen : Regions \cup {NoRegion}]

Unused == [io |-> "none", shutdown |-> FALSE]
NewConn == [io |-> "running", shutdown |-> FALSE]
NoCall == [op |-> "none", region |-> NoRegion, seen |-> NoRegion]

Init ==
    /\ derp_map = {}
    /\ home = NoRegion
    /\ conns = [r \in Regions |-> NoConn]
    /\ lock = NoThread
    /\ conn = [c \in Conns |-> Unused]
    /\ homes = 0
    /\ pc = [t \in Callers |-> "idle"]
    /\ call = [t \in Callers |-> NoCall]
    /\ hold = [t \in Callers |-> NoConn]
    /\ drop = [t \in Callers |-> {}]

is_alive(c) == conn[c].io \in {"running", "turn", "asleep", "exiting"}

\* DerpConn::send succeeds as long as io_loop holds the receiver.
Accepts(c) == conn[c].io \in {"running", "turn", "asleep"}

\* The regions with a connection in the pool, and those whose connection is alive.
Pooled == {r \in Regions : conns[r] # NoConn}
Live == {r \in Pooled : is_alive(conns[r])}

ConnsOf(R) == {conns[r] : r \in R}
Without(R) == [r \in Regions |-> IF r \in R THEN NoConn ELSE conns[r]]

\* c is referenced by something other than t's obligation to drop it.
Referenced(c, t) ==
    c \in ConnsOf(Pooled) \/ \E u \in Callers : hold[u] = c \/ (u # t /\ c \in drop[u])

-------------------------------------------------------------------------------
\* t is in a call, at p, and has dropped what it had to drop.
At(t, p) == pc[t] = p /\ drop[t] = {}

\* The mutex once d is all that t has left to drop: t keeps it while it drops, and
\* from the choice of a victim to its removal.
LockAfter(t, d, next) == IF d = {} /\ next # "victim" THEN NoThread ELSE t

\* Under the mutex: the pool becomes p, t goes on at next and drops D.
Unpool(t, p, D, next) ==
    /\ conns' = p
    /\ drop' = [drop EXCEPT ![t] = D]
    /\ lock' = LockAfter(t, D, next)
    /\ pc' = [pc EXCEPT ![t] = next]

Dropped(t, c) ==
    /\ drop' = [drop EXCEPT ![t] = @ \ {c}]
    /\ lock' = IF lock = t THEN LockAfter(t, drop[t] \ {c}, pc[t]) ELSE lock

\* Drop for Arc<DerpConn>: the last reference stops the I/O thread ...
DropRef(t) ==
    /\ \A d \in drop[t] : ~conn[d].shutdown
    /\ \E c \in drop[t] :
          IF Referenced(c, t)
          THEN Dropped(t, c) /\ UNCHANGED conn
          ELSE conn' = [conn EXCEPT ![c].shutdown = TRUE] /\ UNCHANGED <<drop, lock>>
    /\ UNCHANGED <<derp_map, home, conns, homes, pc, call, hold>>

\* ... and joins it.
Joined(t) ==
    /\ \E c \in drop[t] :
          /\ conn[c].shutdown
          /\ conn[c].io = "finished"
          /\ Dropped(t, c)
          /\ conn' = [conn EXCEPT ![c] = Unused]
    /\ UNCHANGED <<derp_map, home, conns, homes, pc, call, hold>>

-------------------------------------------------------------------------------
\* ---- DerpTransportCtl ----

set_derp_map(m) ==
    /\ At(Control, "idle")
    /\ derp_map = {}
    /\ derp_map' = m
    /\ UNCHANGED <<home, conns, lock, conn, homes, pc, call, hold, drop>>

\* set_home stores the new home, then dials it.
SetHome(r) ==
    /\ At(Control, "idle")
    /\ r \in derp_map
    /\ homes < MaxHomes
    /\ homes' = homes + 1
    /\ home' = r
    /\ IF r = home
       THEN UNCHANGED <<pc, call>>
       ELSE /\ pc' = [pc EXCEPT ![Control] = "ensure"]
            /\ call' = [call EXCEPT ![Control] = [op |-> "set_home", region |-> r,
                                                  seen |-> NoRegion]]
    /\ UNCHANGED <<derp_map, conns, lock, conn, hold, drop>>

\* Tell the relay of the previous home, found in the pool under the mutex.
SetHomeUnmark ==
    /\ At(Control, "unmark")
    /\ lock = NoThread
    /\ pc' = [pc EXCEPT ![Control] = "idle"]
    /\ call' = [call EXCEPT ![Control] = NoCall]
    /\ UNCHANGED <<derp_map, home, conns, lock, conn, homes, hold, drop>>

\* Every connection leaves the pool at once and is dropped after the mutex.
shutdown(next) ==
    /\ lock = NoThread
    /\ conns' = Without(Pooled)
    /\ drop' = [drop EXCEPT ![Control] = ConnsOf(Pooled)]
    /\ pc' = [pc EXCEPT ![Control] = next]
    /\ UNCHANGED <<derp_map, home, lock, conn, homes, call, hold>>

\* Runtime::shutdown closes the pool while the pump still runs ...
RuntimeShutdown == At(Control, "idle") /\ shutdown("joining")

\* ... then joins the pump, which may have dialled again ...
PumpEnds(t) ==
    /\ t # Control
    /\ At(t, "idle")
    /\ At(Control, "joining")
    /\ pc' = [pc EXCEPT ![t] = "gone"]
    /\ UNCHANGED <<derp_map, home, conns, lock, conn, homes, call, hold, drop>>

RuntimeDrop_Once ==
    /\ At(Control, "joining")
    /\ \A t \in Callers \ {Control} : pc[t] = "gone"
    /\ pc' = [pc EXCEPT ![Control] = "gone"]
    /\ UNCHANGED <<derp_map, home, conns, lock, conn, homes, call, hold, drop>>

\* ... and the Drop of the Runtime closes the pool again.
RuntimeDrop ==
    /\ At(Control, "joining")
    /\ \A t \in Callers \ {Control} : pc[t] = "gone"
    /\ shutdown("gone")

-------------------------------------------------------------------------------
\* ---- DerpMux::send ----

\* Dropped, with Ok, until there is a DERP map.
BeginSend(t, r) ==
    /\ At(t, "idle")
    /\ derp_map # {}
    /\ pc' = [pc EXCEPT ![t] = "ensure"]
    /\ call' = [call EXCEPT ![t] = [op |-> "send", region |-> r, seen |-> NoRegion]]
    /\ UNCHANGED <<derp_map, home, conns, lock, conn, homes, hold, drop>>

\* ---- ensure_region ----

\* The call returns an error.
GiveUp(t) ==
    /\ pc' = [pc EXCEPT ![t] = "idle"]
    /\ call' = [call EXCEPT ![t] = NoCall]

\* Fast path: an alive connection is in the pool.
EnsureFast(t) ==
    /\ At(t, "ensure")
    /\ lock = NoThread
    /\ call[t].region \in Live
    /\ hold' = [hold EXCEPT ![t] = conns[call[t].region]]
    /\ pc' = [pc EXCEPT ![t] = "have"]
    /\ UNCHANGED <<derp_map, home, conns, lock, conn, homes, call, drop>>

\* Slow path, if the DERP map knows the region.
EnsureSlow(t) ==
    /\ At(t, "ensure")
    /\ lock = NoThread
    /\ call[t].region \notin Live
    /\ IF call[t].region \in derp_map
       THEN pc' = [pc EXCEPT ![t] = "reap"] /\ UNCHANGED call
       ELSE GiveUp(t)
    /\ UNCHANGED <<derp_map, home, conns, lock, conn, homes, hold, drop>>

AtCap_OffByOne(n) == n > cap

AtCap(n) == n >= cap

\* Reap the dead connections; at the cap, read the home and keep the mutex.
Reap(t) ==
    /\ At(t, "reap")
    /\ lock = NoThread
    /\ LET full == AtCap(Cardinality(Live))
       IN /\ Unpool(t, Without(Pooled \ Live), ConnsOf(Pooled \ Live),
                    IF full THEN "victim" ELSE "dial")
          /\ call' = [call EXCEPT ![t].seen = IF full THEN home ELSE @]
    /\ UNCHANGED <<derp_map, home, conn, homes, hold>>

Evictable_Any(t) == Pooled

\* "never evicts the home region".  Which one was used least recently is left open.
Evictable(t) == Pooled \ {call[t].seen}

Evict(t) ==
    /\ At(t, "victim")
    /\ \E r \in Evictable(t) : Unpool(t, Without({r}), {conns[r]}, "dial")
    /\ UNCHANGED <<derp_map, home, conn, homes, call, hold>>

CapExceededHome(t) ==
    /\ At(t, "victim")
    /\ Evictable(t) = {}
    /\ Unpool(t, conns, {}, "idle")
    /\ call' = [call EXCEPT ![t] = NoCall]
    /\ UNCHANGED <<derp_map, home, conn, homes, hold>>

\* dial_and_spawn, outside the mutex.  The TCP connection has a time limit; the
\* TLS handshake, the upgrade and the first frames have none.
DialOk(t) ==
    /\ At(t, "dial")
    /\ \E c \in Conns :
          /\ conn[c] = Unused
          /\ \A d \in 1 .. c - 1 : conn[d] # Unused
          /\ conn' = [conn EXCEPT ![c] = NewConn]
          /\ hold' = [hold EXCEPT ![t] = c]
    /\ pc' = [pc EXCEPT ![t] = "insert"]
    /\ UNCHANGED <<derp_map, home, conns, lock, homes, call, drop>>

DialFails(t) ==
    /\ At(t, "dial")
    /\ GiveUp(t)
    /\ UNCHANGED <<derp_map, home, conns, lock, conn, homes, hold, drop>>

\* The connection another caller may have inserted meanwhile is replaced.
Insert(t) ==
    /\ At(t, "insert")
    /\ lock = NoThread
    /\ LET r == call[t].region
       IN Unpool(t, [conns EXCEPT ![r] = hold[t]], {conns[r]} \ {NoConn}, "have")
    /\ UNCHANGED <<derp_map, home, conn, homes, call, hold>>

\* ---- the rest of send and set_home ----

\* Queue the packet, or find that io_loop has returned.
Send(t) ==
    /\ At(t, "have")
    /\ call[t].op = "send"
    /\ pc' = [pc EXCEPT ![t] = IF Accepts(hold[t]) THEN "release" ELSE "sendErr"]
    /\ UNCHANGED <<derp_map, home, conns, lock, conn, homes, call, hold, drop>>

SendErr_Unchecked(t) ==
    /\ At(t, "sendErr")
    /\ lock = NoThread
    /\ LET r == call[t].region IN Unpool(t, Without({r}), {conns[r]}, "release")
    /\ UNCHANGED <<derp_map, home, conn, homes, call, hold>>

\* Remove whatever connection the pool has for the region.
SendErr(t) ==
    /\ At(t, "sendErr")
    /\ lock = NoThread
    /\ LET r == call[t].region
       IN Unpool(t, Without({r}), {conns[r]} \ {NoConn}, "release")
    /\ UNCHANGED <<derp_map, home, conn, homes, call, hold>>

\* The Arc the call holds goes out of scope.
Release(t) ==
    /\ At(t, "release") \/ (At(t, "have") /\ call[t].op = "set_home")
    /\ hold' = [hold EXCEPT ![t] = NoConn]
    /\ drop' = [drop EXCEPT ![t] = {hold[t]}]
    /\ IF call[t].op = "set_home"
       THEN pc' = [pc EXCEPT ![t] = "unmark"] /\ UNCHANGED call
       ELSE GiveUp(t)
    /\ UNCHANGED <<derp_map, home, conns, lock, conn, homes>>

-------------------------------------------------------------------------------
\* ---- io_loop ----

IoTurn(c) ==
    /\ conn[c].io = "running"
    /\ ~conn[c].shutdown
    /\ conn' = [conn EXCEPT ![c].io = "turn"]
    /\ UNCHANGED <<derp_map, home, conns, lock, homes, pc, call, hold, drop>>

\* The reads have a time limit (READ_TICK); the writes have none.
IoTurnEnds(c) ==
    /\ conn[c].io = "turn"
    /\ conn' = [conn EXCEPT ![c].io = "running"]
    /\ UNCHANGED <<derp_map, home, conns, lock, homes, pc, call, hold, drop>>

\* A read or write error, or the watchdog.
IoDies(c) ==
    /\ conn[c].io = "turn"
    /\ conn' = [conn EXCEPT ![c].io = "exiting"]
    /\ UNCHANGED <<derp_map, home, conns, lock, homes, pc, call, hold, drop>>

\* A Restarting frame: sleep for as long as the relay says, then return.
IoRestarting(c) ==
    /\ conn[c].io = "turn"
    /\ conn' = [conn EXCEPT ![c].io = "asleep"]
    /\ UNCHANGED <<derp_map, home, conns, lock, homes, pc, call, hold, drop>>

IoStops_Ignored(c) == FALSE /\ UNCHANGED vars

\* The loop condition: shutdown.
IoStops(c) ==
    /\ conn[c].io = "running"
    /\ conn[c].shutdown
    /\ conn' = [conn EXCEPT ![c].io = "exiting"]
    /\ UNCHANGED <<derp_map, home, conns, lock, homes, pc, call, hold, drop>>

IoReturns(c) ==
    /\ conn[c].io \in {"asleep", "exiting"}
    /\ conn' = [conn EXCEPT ![c].io = IF @ = "asleep" THEN "exiting" ELSE "finished"]
    /\ UNCHANGED <<derp_map, home, conns, lock, homes, pc, call, hold, drop>>

-------------------------------------------------------------------------------
Dial(t) == DialOk(t) \/ DialFails(t)

\* What a call does once begun, its dials apart.
Step(t) ==
    \/ EnsureFast(t) \/ EnsureSlow(t) \/ Reap(t) \/ Evict(t) \/ CapExceededHome(t)
    \/ Insert(t) \/ Send(t) \/ SendErr(t) \/ Release(t)
    \/ DropRef(t) \/ Joined(t)
    \/ t = Control /\ (SetHomeUnmark \/ RuntimeDrop)

Io(c) == IoTurn(c) \/ IoStops(c) \/ IoReturns(c)

Next ==
    \/ \E t \in Callers : Step(t) \/ Dial(t) \/ PumpEnds(t) \/ \E r \in Regions : BeginSend(t, r)
    \/ \E m \in SUBSET Regions : m # {} /\ set_derp_map(m)
    \/ \E r \in Regions : SetHome(r)
    \/ RuntimeShutdown
    \/ \E c \in Conns : Io(c) \/ IoTurnEnds(c) \/ IoDies(c) \/ IoRestarting(c)

Spec == Init /\ [][Next]_vars

\* The mutex is first come, first served (attribute 0, TH_FIFO), and a relay's restart
\* delay ends.  The pump tests its stop flag between sends, and nothing feeds it any
\* more when it is being joined.  Nothing is assumed of a dial, whose handshakes have
\* no time limit, nor of a turn of io_loop, whose writes have none.
FairSpec ==
    /\ Spec
    /\ \A t \in Callers : SF_vars(Step(t)) /\ SF_vars(PumpEnds(t))
    /\ \A c \in Conns : WF_vars(Io(c))

-------------------------------------------------------------------------------
TypeOK ==
    /\ derp_map \in SUBSET Regions
    /\ home \in Regions \cup {NoRegion}
    /\ conns \in [Regions -> Conns \cup {NoConn}]
    /\ lock \in Callers \cup {NoThread}
    /\ conn \in [Conns -> ConnStates]
    /\ homes \in 0 .. MaxHomes
    /\ pc \in [Callers -> PCs]
    /\ call \in [Callers -> Calls]
    /\ hold \in [Callers -> Conns \cup {NoConn}]
    /\ drop \in [Callers -> SUBSET Conns]

\* The callers between the eviction and the insertion of one call.
Dialling == {t \in Callers : pc[t] \in {"dial", "insert"}}

\* ensure_region gives up the mutex to dial, so racing callers can pass the cap; but
\* however often they race, by no more than the number of callers less one.
PoolBounded == Cardinality(Pooled) + Cardinality(Dialling) < cap + Cardinality(Callers)

\* The home is stored without the mutex, so an eviction may act on the home before;
\* but once set_home has found or dialled the new home's connection, no eviction
\* takes it away.
HomeIsNotEvicted ==
    [][\A t \in Callers :
          (pc[t] = "victim" /\ home \in Pooled /\ conns'[home] = NoConn)
             => (call[Control].op = "set_home" /\ pc[Control] = "ensure")]_vars

\* What the code leaves to the network: t's dials end, and no write blocks for ever.
DialsEnd(t) == []<>(pc[t] # "dial")
TurnsEnd == \A c \in Conns : []<>(conn[c].io # "turn")

\* t is inside the mux: in send, set_home or shutdown, or dropping what they left it.
InCall(t) == pc[t] \notin {"idle", "joining", "gone"} \/ drop[t] # {}

\* As long as its own dials end and no write blocks for ever, every call of a thread
\* returns: although I/O threads are joined under the pool's mutex, although a relay
\* can make one sleep, and although the other threads' dials may never end.
CallsReturn ==
    \A t \in Callers : (DialsEnd(t) /\ TurnsEnd) => (InCall(t) ~> ~InCall(t))

\* After the runtime's shutdown no I/O thread is left, although the pump can dial
\* again while the pool is being closed; again as far as dials and writes end.
ShutdownEndsIo ==
    ((\A t \in Callers : DialsEnd(t)) /\ TurnsEnd)
        => ((pc[Control] = "joining") ~> [](conn = [c \in Conns |-> Unused]))

-------------------------------------------------------------------------------
\* mux.rs: "Cap of 8 concurrent conns".
WithinCap == Cardinality(Pooled) <= cap
===============================================================================
