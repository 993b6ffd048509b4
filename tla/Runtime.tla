-------------------------------- MODULE Runtime --------------------------------
(* The control thread of crates/tailscale-vita/src/runtime.rs: run_supervised  *)
(* calls Runtime::up, which loads the keys, binds the magic socket, logs in    *)
(* and builds the data plane, then runs run_event_loop until shutdown, a fatal *)
(* error or a re-login.  LocalAPI clients queue signals; the control plane     *)
(* (external) authorises, expires and forgets node keys and sends netmaps.     *)
(*                                                                             *)
(* pc says where the control thread is.  One action covers the code between    *)
(* two points at which it can be interrupted, blocked or answered.             *)
EXTENDS Lifecycle, Sequences

CONSTANTS
    AuthKeys,   \* the values of "auth_key is not empty" to consider
    Stops,      \* the values of should_stop() to consider
    Peers,      \* the peers of the tailnet
    MaxKeys,    \* bound: node keys ever minted
    MaxQueue    \* bound: signals waiting at once

ASSUME RuntimeAssumption ==
    /\ AuthKeys \subseteq BOOLEAN /\ Stops \subseteq BOOLEAN
    /\ MaxKeys \in Nat \ {0}
    /\ MaxQueue \in Nat

VARIABLES
    key_supplied,  \* config.auth_key is not empty
    cfg_want,      \* config.tailnet.want_running
    control,       \* control plane: what it thinks of each node key
    disk_key,      \* node.priv; 0 when there is no file
    disk_seq,      \* last_seq/session_handle are on disk
    minted,        \* node keys minted so far
    stop,          \* should_stop()
    pc,
    relogin,       \* relogin_streak > 0 at the coming call of up()
    ks,            \* node key in the KeyStore; 0 outside a Runtime
    magic_key,     \* node key the magic socket was bound with
    engine_key,    \* node key the WG engine and DERP were built with
    engine_peers,  \* peers the engine holds (peer_regions has the same keys)
    session,       \* map_opt
    want_running,
    logout_req,    \* logout_requested
    login_req,     \* login_interactive_requested
    queue,         \* the ControlSignal channel
    lc,            \* the LifecycleTracker
    snap,          \* the published RuntimeSnapshot
    left,          \* history: logged out, and neither logged in nor unparked since
    warm           \* history: the session state on disk is older than the engine

confVars == <<key_supplied, cfg_want>>
diskVars == <<disk_key, disk_seq, minted>>
planeVars == <<ks, magic_key, engine_key, engine_peers>>
loopVars == <<session, want_running, logout_req, login_req>>
vars == <<confVars, control, diskVars, stop, pc, relogin, planeVars, loopVars,
          queue, lc, snap, left, warm>>

Keys == 1 .. MaxKeys
NoKey == 0
NodeKeys == Keys \cup {NoKey}
KeyStatus == {"new", "pending", "authorized", "expired"}
Signals == {"ForceReconnect", "Up", "Down", "Logout", "LoginInteractive"}

\* A MapClient: the key it was opened with, whether it resumed last_seq, its
\* NetMap's peers, and whether a MapResponse has arrived.
Sessions == [key : Keys, resumed : BOOLEAN, peers : SUBSET Peers, heard : BOOLEAN]
NoSession == [key |-> NoKey, resumed |-> FALSE, peers |-> {}, heard |-> FALSE]

MapClientStart(k) == [key |-> k, resumed |-> disk_seq, peers |-> {}, heard |-> FALSE]

\* The fields of RuntimeSnapshot that the login and park code manages.
Snapshots == [lifecycle : OnlineState, auth_url : BOOLEAN, login_in_progress : BOOLEAN,
              peers : SUBSET Peers, user_login : BOOLEAN]

EmptySnapshot == [lifecycle |-> "Connecting", auth_url |-> FALSE, login_in_progress |-> FALSE,
                  peers |-> {}, user_login |-> FALSE]

publish_login_state_Sticky(t, url, progress) ==
    [snap EXCEPT !.lifecycle = t.state, !.auth_url = @ \/ url,
                 !.login_in_progress = @ \/ progress]

publish_login_state(t, url, progress) ==
    [snap EXCEPT !.lifecycle = t.state, !.auth_url = url, !.login_in_progress = progress]

publish_parked_state_KeepsIdentity(t, logged_out) ==
    [snap EXCEPT !.lifecycle = t.state, !.auth_url = FALSE, !.login_in_progress = FALSE,
                 !.peers = {}]

publish_parked_state(t, logged_out) ==
    [snap EXCEPT !.lifecycle = t.state, !.auth_url = FALSE, !.login_in_progress = FALSE,
                 !.peers = {}, !.user_login = @ /\ ~logged_out]

publish_snapshot(t, s) ==
    [lifecycle |-> t.state, auth_url |-> FALSE, login_in_progress |-> FALSE,
     peers |-> s.peers, user_login |-> s.heard /\ s.peers = Peers]

publish_fatal_state(t) == [snap EXCEPT !.lifecycle = t.state]

Init ==
    /\ key_supplied \in AuthKeys
    /\ cfg_want \in BOOLEAN
    /\ control = [k \in Keys |-> "new"]
    /\ disk_key = NoKey
    /\ disk_seq = FALSE
    /\ minted = 0
    /\ stop = FALSE
    /\ pc = "up"
    /\ relogin = FALSE
    /\ ks = NoKey
    /\ magic_key = NoKey
    /\ engine_key = NoKey
    /\ engine_peers = {}
    /\ session = NoSession
    /\ want_running = FALSE
    /\ logout_req = FALSE
    /\ login_req = FALSE
    /\ queue = <<>>
    /\ lc = New
    /\ snap = EmptySnapshot
    /\ left = FALSE
    /\ warm = FALSE

-------------------------------------------------------------------------------
\* ---- the control plane's answers to POST /machine/register (external) ----

\* The replies it may give for key k, and what each makes of the key.  With an
\* auth key it authorises or refuses; without one it asks for a scan.  An
\* expired key is reported as such, with or without MachineAuthorized.
RegisterReplies(k) ==
    {"error"} \cup
    CASE control[k] = "authorized" -> {"authorized"}
      [] control[k] = "expired" -> {"expired", "expiredAuthorized"}
      [] OTHER -> IF key_supplied THEN {"authorized", "rejected"} ELSE {"pending"}

AfterRegister(k, reply) ==
    CASE reply = "authorized" -> [control EXCEPT ![k] = "authorized"]
      [] reply = "pending" -> [control EXCEPT ![k] = "pending"]
      [] OTHER -> control

\* The request was never sent, was refused, or its reply was lost; an AuthURL
\* nobody received cannot be visited.
RegisterFails(k) ==
    \E reply \in RegisterReplies(k) \ {"pending"} : control' = AfterRegister(k, reply)

\* The user scans the QR code; the administrator expires the key.
Approve(k) ==
    /\ control[k] = "pending"
    /\ control' = [control EXCEPT ![k] = "authorized"]
    /\ UNCHANGED <<confVars, diskVars, stop, pc, relogin, planeVars, loopVars, queue,
                   lc, snap, left, warm>>

Expire(k) ==
    /\ control[k] = "authorized"
    /\ control' = [control EXCEPT ![k] = "expired"]
    /\ UNCHANGED <<confVars, diskVars, stop, pc, relogin, planeVars, loopVars, queue,
                   lc, snap, left, warm>>

-------------------------------------------------------------------------------
\* ---- LocalAPI, time, shutdown, crash ----

\* LocalAPI serves from the early part of up() to the drop of the Runtime.
Serving == pc \notin {"up", "exited"}

\* The 409 gates of handlers.rs, on the published snapshot.
Accepts(sig) ==
    /\ snap.lifecycle \notin FatalStates
    /\ sig \in {"ForceReconnect", "LoginInteractive"} => snap.lifecycle # "Stopped"

PostSignal(sig) ==
    /\ Serving
    /\ Accepts(sig)
    /\ Len(queue) < MaxQueue
    /\ queue' = Append(queue, sig)
    /\ UNCHANGED <<confVars, control, diskVars, stop, pc, relogin, planeVars, loopVars,
                   lc, snap, left, warm>>

RequestStop ==
    /\ pc # "exited"
    /\ ~stop
    /\ TRUE \in Stops
    /\ stop' = TRUE
    /\ UNCHANGED <<confVars, control, diskVars, pc, relogin, planeVars, loopVars, queue,
                   lc, snap, left, warm>>

DropRuntime_KeepsSession ==
    /\ ks' = NoKey /\ magic_key' = NoKey /\ engine_key' = NoKey /\ engine_peers' = {}
    /\ session' = session /\ want_running' = FALSE /\ logout_req' = FALSE /\ login_req' = FALSE
    /\ queue' = <<>>
    /\ lc' = New /\ snap' = EmptySnapshot
    /\ left' = FALSE /\ warm' = FALSE

\* Dropping the Runtime: the data plane, the session, the channel, the tracker and
\* LocalAPI with its snapshot go.
DropRuntime ==
    /\ ks' = NoKey /\ magic_key' = NoKey /\ engine_key' = NoKey /\ engine_peers' = {}
    /\ session' = NoSession /\ want_running' = FALSE /\ logout_req' = FALSE /\ login_req' = FALSE
    /\ queue' = <<>>
    /\ lc' = New /\ snap' = EmptySnapshot
    /\ left' = FALSE /\ warm' = FALSE

\* run_supervised returns, with Ok or with Err.  How the pool and its threads end
\* (Runtime::shutdown and the drop) is DerpMux's.
ReturnFromSupervised ==
    /\ pc' = "exited"
    /\ DropRuntime

Crash ==
    /\ pc # "exited"
    /\ ReturnFromSupervised
    /\ UNCHANGED <<confVars, control, diskVars, stop, relogin>>

Restart ==
    /\ pc = "exited"
    /\ pc' = "up"
    /\ stop' = FALSE
    /\ relogin' = FALSE
    /\ UNCHANGED <<confVars, control, diskVars, planeVars, loopVars, queue, lc, snap, left, warm>>

-------------------------------------------------------------------------------
\* ---- run_supervised, Runtime::up ----

\* regenerate_node_key: persist, then replace the key in memory.
RegenerateNodeKey ==
    /\ minted < MaxKeys
    /\ minted' = minted + 1
    /\ disk_key' = minted + 1
    /\ ks' = minted + 1

\* KeyStore::load_or_generate.
LoadOrGenerate ==
    IF disk_key = NoKey
    THEN RegenerateNodeKey
    ELSE ks' = disk_key /\ UNCHANGED <<disk_key, minted>>

\* up(), as far as the login: keys, magic socket, channel, snapshot, LocalAPI.  A
\* re-login forces want_running.  The QR login publishes NeedsLogin at once.
UpBind ==
    /\ pc = "up"
    /\ ~stop
    /\ LoadOrGenerate
    /\ magic_key' = ks'
    /\ want_running' = (cfg_want \/ relogin)
    /\ relogin' = FALSE
    /\ LET t == IF ~want_running' THEN SetStopped(New)
                ELSE IF key_supplied THEN New ELSE SetNeedsLogin(New)
       IN /\ lc' = t
          /\ snap' = [EmptySnapshot EXCEPT !.lifecycle = t.state,
                                           !.login_in_progress = want_running']
    /\ pc' = IF want_running' THEN "login" ELSE "build"
    /\ UNCHANGED <<confVars, control, disk_seq, stop, engine_key, engine_peers,
                   session, logout_req, login_req, queue, left, warm>>

\* The key files or the socket fail, or should_stop fired before up().
UpReturns ==
    /\ pc = "up"
    /\ ReturnFromSupervised
    /\ UNCHANGED <<confVars, control, diskVars, stop, relogin>>

\* ---- interactive_login ----

\* The abort closure, peek_login_abort, one signal at a time.
LoginSeesStop_Never == FALSE

LoginSeesStop == stop

LoginAbortStop ==
    /\ pc = "login"
    /\ LoginSeesStop
    /\ snap' = publish_login_state(lc, FALSE, FALSE)
    /\ lc' = SetStopped(lc)
    /\ pc' = "build"
    /\ UNCHANGED <<confVars, control, diskVars, stop, relogin, planeVars, loopVars, queue,
                   left, warm>>

LoginAbortDown ==
    /\ pc = "login"
    /\ ~LoginSeesStop
    /\ queue # <<>> /\ Head(queue) = "Down"
    /\ queue' = Tail(queue)
    /\ want_running' = FALSE
    /\ lc' = SetStopped(lc)
    /\ snap' = publish_parked_state(lc', FALSE)
    /\ pc' = "build"
    /\ UNCHANGED <<confVars, control, diskVars, stop, relogin, planeVars, session,
                   logout_req, login_req, left, warm>>

LoginAbortLogout ==
    /\ pc = "login"
    /\ ~LoginSeesStop
    /\ queue # <<>> /\ Head(queue) = "Logout"
    /\ queue' = Tail(queue)
    /\ lc' = SetNeedsLogin(lc)
    /\ snap' = publish_parked_state(lc', TRUE)
    /\ left' = TRUE
    /\ pc' = "build"
    /\ UNCHANGED <<confVars, control, diskVars, stop, relogin, planeVars, loopVars, warm>>

LoginIgnoresSignal ==
    /\ pc = "login"
    /\ ~LoginSeesStop
    /\ queue # <<>> /\ Head(queue) \notin {"Down", "Logout"}
    /\ queue' = Tail(queue)
    /\ UNCHANGED <<confVars, control, diskVars, stop, pc, relogin, planeVars, loopVars,
                   lc, snap, left, warm>>

LoginProceeds ==
    /\ pc = "login"
    /\ ~LoginSeesStop
    /\ queue = <<>>
    /\ pc' = "register"
    /\ UNCHANGED <<confVars, control, diskVars, stop, relogin, planeVars, loopVars, queue,
                   lc, snap, left, warm>>

\* One attempt: a fresh connection and one register request, which waits for its
\* answer without a time limit; with a Followup control answers when the user has
\* approved.  The stop is not looked at meanwhile.
LoginAuthorized ==
    /\ pc = "register"
    /\ \E reply \in RegisterReplies(ks) \cap {"authorized", "expiredAuthorized"} :
          control' = AfterRegister(ks, reply)
    /\ lc' = ClearNeedsLogin(lc)
    /\ snap' = publish_login_state(lc', FALSE, FALSE)
    /\ pc' = "buildAuthorized"
    /\ UNCHANGED <<confVars, diskVars, stop, relogin, planeVars, loopVars, queue, left, warm>>

LoginPending ==
    /\ pc = "register"
    /\ "pending" \in RegisterReplies(ks)
    /\ control' = AfterRegister(ks, "pending")
    /\ lc' = SetNeedsLogin(lc)
    /\ snap' = publish_login_state(lc', TRUE, TRUE)
    /\ pc' = "login"
    /\ UNCHANGED <<confVars, diskVars, stop, relogin, planeVars, loopVars, queue, left, warm>>

\* The magic socket keeps the key it was bound with.
LoginKeyExpired ==
    /\ pc = "register"
    /\ "expired" \in RegisterReplies(ks)
    /\ RegenerateNodeKey
    /\ pc' = "login"
    /\ UNCHANGED <<confVars, control, disk_seq, stop, relogin, magic_key, engine_key,
                   engine_peers, loopVars, queue, lc, snap, left, warm>>

\* Without an auth key a failed attempt is retried.
LoginRetries ==
    /\ pc = "register"
    /\ ~key_supplied
    /\ RegisterFails(ks)
    /\ pc' = "login"
    /\ UNCHANGED <<confVars, diskVars, stop, relogin, planeVars, loopVars, queue,
                   lc, snap, left, warm>>

\* With one, or when the fresh key cannot be written, up() returns the error.
LoginFails ==
    /\ pc = "register"
    /\ key_supplied \/ "expired" \in RegisterReplies(ks)
    /\ RegisterFails(ks)
    /\ ReturnFromSupervised
    /\ UNCHANGED <<confVars, diskVars, stop, relogin>>

Build_BootKey ==
    /\ pc \in {"build", "buildAuthorized"}
    /\ engine_key' = magic_key
    /\ engine_peers' = {}
    /\ session' = IF pc = "buildAuthorized" THEN MapClientStart(ks) ELSE NoSession
    /\ warm' = disk_seq
    /\ pc' = "top"
    /\ UNCHANGED <<confVars, control, diskVars, stop, relogin, ks, magic_key,
                   want_running, logout_req, login_req, queue, lc, snap, left>>

\* DERP, engine, netstack and, if logged in, the MapClient; then the event loop.
Build ==
    /\ pc \in {"build", "buildAuthorized"}
    /\ engine_key' = ks
    /\ engine_peers' = {}
    /\ session' = IF pc = "buildAuthorized" THEN MapClientStart(ks) ELSE NoSession
    /\ warm' = disk_seq
    /\ pc' = "top"
    /\ UNCHANGED <<confVars, control, diskVars, stop, relogin, ks, magic_key,
                   want_running, logout_req, login_req, queue, lc, snap, left>>

BuildFails ==
    /\ pc \in {"build", "buildAuthorized"}
    /\ ReturnFromSupervised
    /\ UNCHANGED <<confVars, control, diskVars, stop, relogin>>

-------------------------------------------------------------------------------
\* ---- run_event_loop: the top of an iteration and the signals ----

LoopTop ==
    /\ pc = "top"
    /\ ~stop
    /\ pc' = "drain"
    /\ UNCHANGED <<confVars, control, diskVars, stop, relogin, planeVars, loopVars, queue,
                   lc, snap, left, warm>>

\* LoopExit::Stopped, from the top of the loop or from a cooperative sleep.
LoopStops ==
    /\ pc = "top"
    /\ stop
    /\ ReturnFromSupervised
    /\ UNCHANGED <<confVars, control, diskVars, stop, relogin>>

\* Take sig off the channel; in a fatal state the loop has already returned.
TakeSignal(sig) ==
    /\ pc = "drain"
    /\ lc.state \notin FatalStates
    /\ queue # <<>> /\ Head(queue) = sig
    /\ queue' = Tail(queue)
    /\ UNCHANGED <<confVars, control, disk_key, minted, stop, pc, relogin, ks, magic_key,
                   engine_key>>

DrainForceReconnect ==
    /\ TakeSignal("ForceReconnect")
    /\ session' = NoSession
    /\ UNCHANGED <<engine_peers, want_running, logout_req, login_req, disk_seq, lc, snap, left, warm>>

DrainUp ==
    /\ TakeSignal("Up")
    /\ IF want_running
       THEN UNCHANGED <<session, want_running, lc, left>>
       ELSE /\ want_running' = TRUE
            /\ session' = NoSession
            /\ lc' = ClearStopped(lc)
            /\ left' = FALSE
    /\ UNCHANGED <<engine_peers, logout_req, login_req, disk_seq, snap, warm>>

delete_session_state_Forgotten == UNCHANGED <<disk_seq, warm>>

\* A failed delete is followed by an attempt to write empty files; both may fail.
delete_session_state ==
    /\ disk_seq' \in {FALSE, disk_seq}
    /\ warm' = disk_seq'

DrainDown_SessionOnly ==
    /\ TakeSignal("Down")
    /\ IF ~want_running
       THEN UNCHANGED <<session, want_running, disk_seq, lc, snap, warm>>
       ELSE /\ want_running' = FALSE
            /\ session' = NoSession
            /\ delete_session_state
            /\ lc' = SetStopped(lc)
            /\ snap' = publish_parked_state(lc', FALSE)
    /\ UNCHANGED <<engine_peers, logout_req, login_req, left>>

DrainDown ==
    /\ TakeSignal("Down")
    /\ IF ~want_running
       THEN UNCHANGED <<session, want_running, engine_peers, disk_seq, lc, snap, warm>>
       ELSE /\ want_running' = FALSE
            /\ session' = NoSession
            /\ engine_peers' = {}
            /\ delete_session_state
            /\ lc' = SetStopped(lc)
            /\ snap' = publish_parked_state(lc', FALSE)
    /\ UNCHANGED <<logout_req, login_req, left>>

DrainLogout ==
    /\ TakeSignal("Logout")
    /\ logout_req' = TRUE
    /\ UNCHANGED <<engine_peers, session, want_running, login_req, disk_seq, lc, snap, left, warm>>

DrainLoginInteractive ==
    /\ TakeSignal("LoginInteractive")
    /\ login_req' = TRUE
    /\ UNCHANGED <<engine_peers, session, want_running, logout_req, disk_seq, lc, snap, left, warm>>

DrainDone ==
    /\ pc = "drain"
    /\ queue = <<>>
    /\ pc' = "act"
    /\ UNCHANGED <<confVars, control, diskVars, stop, relogin, planeVars, loopVars, queue,
                   lc, snap, left, warm>>

-------------------------------------------------------------------------------
\* ---- run_event_loop: what the iteration does ----

\* LoopExit::NeedsRelogin: the supervisor drops the Runtime and runs up() again.
NeedsRelogin ==
    /\ pc' = "up"
    /\ relogin' = TRUE
    /\ DropRuntime
    /\ UNCHANGED <<confVars, diskVars, stop>>

ActRelogin ==
    /\ pc = "act"
    /\ login_req /\ want_running
    /\ NeedsRelogin
    /\ UNCHANGED control

\* perform_logout: the request on a connection of its own.  Control may answer
\* without expiring the key.
ActLogout ==
    /\ pc = "act"
    /\ ~(login_req /\ want_running)
    /\ logout_req
    /\ \E expired \in BOOLEAN :
          control' = [control EXCEPT ![ks] = IF expired THEN "expired" ELSE @]
    /\ pc' = "logoutLocal"
    /\ login_req' = FALSE
    /\ UNCHANGED <<confVars, diskVars, stop, relogin, planeVars, session, want_running,
                   logout_req, queue, lc, snap, left, warm>>

ActLogoutFails ==
    /\ pc = "act"
    /\ ~(login_req /\ want_running)
    /\ logout_req
    /\ \E expired \in BOOLEAN :
          control' = [control EXCEPT ![ks] = IF expired THEN "expired" ELSE @]
    /\ logout_req' = FALSE
    /\ login_req' = FALSE
    /\ want_running' = TRUE
    /\ left' = (left /\ want_running)
    /\ pc' = "top"
    /\ UNCHANGED <<confVars, diskVars, stop, relogin, planeVars, session, queue,
                   lc, snap, warm>>

\* perform_logout once control has answered; the rotation may fail.
LogoutLocal ==
    /\ pc = "logoutLocal"
    /\ session' = NoSession
    /\ engine_peers' = {}
    /\ delete_session_state
    /\ RegenerateNodeKey \/ UNCHANGED <<minted, disk_key, ks>>
    /\ lc' = SetNeedsLogin(lc)
    /\ snap' = publish_parked_state(lc', TRUE)
    /\ logout_req' = FALSE
    /\ want_running' = TRUE
    /\ left' = TRUE
    /\ pc' = "top"
    /\ UNCHANGED <<confVars, control, stop, relogin, magic_key, engine_key, login_req, queue>>

\* One pass while parked.
ActParked ==
    /\ pc = "act"
    /\ ~logout_req
    /\ ~want_running
    /\ login_req' = FALSE
    /\ lc' = SetStopped(lc)
    /\ snap' = publish_parked_state(lc', FALSE)
    /\ pc' = "top"
    /\ UNCHANGED <<confVars, control, diskVars, stop, relogin, planeVars, session,
                   want_running, logout_req, queue, left, warm>>

\* The iteration gets past the requests and is not parked.
Running == pc = "act" /\ want_running /\ ~login_req /\ ~logout_req

WantsBootstrap_Always == session = NoSession

WantsBootstrap == session = NoSession /\ lc.state # "NeedsLogin"

\* bootstrap_control_session after the backoff sleep.
BootstrapSession ==
    /\ Running
    /\ WantsBootstrap
    /\ "authorized" \in RegisterReplies(ks)
    /\ control' = AfterRegister(ks, "authorized")
    /\ session' = MapClientStart(ks)
    /\ UNCHANGED <<confVars, diskVars, stop, pc, relogin, planeVars, want_running, logout_req,
                   login_req, queue, lc, snap, left, warm>>

\* The key is no longer authorised; the reply's AuthURL is dropped.
BootstrapNeedsLogin ==
    /\ Running
    /\ WantsBootstrap
    /\ RegisterReplies(ks) \cap {"expired", "expiredAuthorized", "pending"} # {}
    /\ NeedsRelogin
    /\ UNCHANGED control

BootstrapTransient ==
    /\ Running
    /\ WantsBootstrap
    /\ RegisterFails(ks)
    /\ pc' = "top"
    /\ UNCHANGED <<confVars, diskVars, stop, relogin, planeVars, loopVars, queue,
                   lc, snap, left, warm>>

\* mark_fatal, publish_fatal_state, and the loop returns the error.
Fatal(kind) ==
    /\ lc' = MarkFatal(lc, kind)
    /\ snap' = publish_fatal_state(lc')
    /\ pc' = "fatal"
    /\ UNCHANGED <<confVars, control, diskVars, stop, relogin, planeVars, loopVars, queue,
                   left, warm>>

BootstrapFatal ==
    /\ Running
    /\ WantsBootstrap
    /\ \E kind \in FatalStates : Fatal(kind)

\* Logged out: republish and sleep, without a tick.
ActLoggedOut ==
    /\ Running
    /\ session = NoSession
    /\ ~WantsBootstrap
    /\ snap' = publish_parked_state(lc, TRUE)
    /\ pc' = "top"
    /\ UNCHANGED <<confVars, control, diskVars, stop, relogin, planeVars, loopVars, queue,
                   lc, left, warm>>

-------------------------------------------------------------------------------
\* ---- run_event_loop: MapClient::next_event and what follows it ----

\* The iteration waits on its session.
InSession == Running /\ session # NoSession

\* next_event returns within its time limit: a MapResponse, whose sequence number
\* handle_frame has persisted, or a quiet event (a keep-alive, or nothing).
NextEvent ==
    /\ InSession
    /\ pc' \in {"snapshot", "quiet"}
    /\ disk_seq' = (disk_seq \/ pc' = "snapshot")
    /\ UNCHANGED <<confVars, control, disk_key, minted, stop, relogin, planeVars, loopVars,
                   queue, lc, snap, left, warm>>

\* The loop handles the event.  On the way it waits, with no time limit, for a
\* relay (the dial of the home, a CallMeMaybe) and for control (the NetInfo request).
Handling(event) == pc = event /\ session # NoSession

\* After the event: the 3 s republish may be due, a DERP region may be alive, tick.
\* What was recorded in this iteration is fresh.
AfterEvent(t, recorded, s, published) ==
    /\ session' = s
    /\ \E due \in BOOLEAN : snap' = IF due THEN publish_snapshot(t, s) ELSE published
    /\ \E alive, fresh \in BOOLEAN :
          /\ (recorded \/ alive) => fresh
          /\ lc' = Tick(IF alive THEN RecordDerpRx(t) ELSE t, fresh)
    /\ pc' = "top"
    /\ UNCHANGED <<confVars, control, diskVars, stop, relogin, ks, magic_key,
                   engine_key, want_running, logout_req, login_req, queue, left, warm>>

\* A MapResponse: the delta reaches the engine and is published.  The first response
\* of a session lists every peer; when the session resumed last_seq, control may send
\* what changed since, here nothing.
EventSnapshot ==
    /\ Handling("snapshot")
    /\ \E full \in {TRUE, ~session.resumed} :
          LET s == [session EXCEPT !.heard = TRUE, !.peers = IF full THEN Peers ELSE @]
              t == RecordMapEvent(lc)
          IN /\ engine_peers' = engine_peers \cup s.peers
             /\ AfterEvent(t, TRUE, s, publish_snapshot(t, s))

EventKeepAlive ==
    /\ Handling("quiet")
    /\ UNCHANGED engine_peers
    /\ AfterEvent(RecordMapEvent(lc), TRUE, session, snap)

EventIdle ==
    /\ Handling("quiet")
    /\ UNCHANGED engine_peers
    /\ AfterEvent(lc, FALSE, session, snap)

EventTransient ==
    /\ InSession
    /\ lc' = RecordControlReconnect(lc)
    /\ session' = NoSession
    /\ pc' = "top"
    /\ UNCHANGED <<confVars, control, diskVars, stop, relogin, planeVars, want_running,
                   logout_req, login_req, queue, snap, left, warm>>

EventFatal ==
    /\ InSession
    /\ \E kind \in FatalStates : Fatal(kind)

\* run_supervised propagates the error; the Runtime and its LocalAPI are dropped.
FatalReturns ==
    /\ pc = "fatal"
    /\ ReturnFromSupervised
    /\ UNCHANGED <<confVars, control, diskVars, stop, relogin>>

-------------------------------------------------------------------------------
Login ==
    \/ LoginAbortStop \/ LoginAbortDown \/ LoginAbortLogout \/ LoginIgnoresSignal \/ LoginProceeds
    \/ LoginAuthorized \/ LoginPending \/ LoginKeyExpired \/ LoginRetries \/ LoginFails

Drain ==
    \/ DrainForceReconnect \/ DrainUp \/ DrainDown \/ DrainLogout \/ DrainLoginInteractive
    \/ DrainDone

Act ==
    \/ ActRelogin \/ ActLogout \/ ActLogoutFails \/ LogoutLocal \/ ActParked
    \/ BootstrapSession \/ BootstrapNeedsLogin \/ BootstrapTransient \/ BootstrapFatal
    \/ ActLoggedOut

Event ==
    \/ NextEvent \/ EventSnapshot \/ EventKeepAlive \/ EventIdle
    \/ EventTransient \/ EventFatal \/ FatalReturns

\* The control thread.
Program ==
    \/ UpBind \/ UpReturns \/ Login \/ Build \/ BuildFails \/ LoopTop \/ LoopStops
    \/ Drain \/ Act \/ Event

Environment ==
    \/ \E k \in Keys : Approve(k) \/ Expire(k)
    \/ \E sig \in Signals : PostSignal(sig)
    \/ RequestStop \/ Crash \/ Restart

Next == Program \/ Environment

Spec == Init /\ [][Next]_vars

\* The control thread is in a call that has no time limit of its own: a request to
\* control (register, logout, the start of a map stream) or the handling of an event.
Waiting ==
    \/ pc \in {"register", "buildAuthorized", "snapshot", "quiet"}
    \/ pc = "act" /\ ~(login_req /\ want_running) /\ logout_req
    \/ Running /\ WantsBootstrap

\* The thread keeps going between such calls, and LocalAPI clients do not post for
\* ever faster than they are drained.  Nothing is assumed about the calls themselves.
FairSpec ==
    /\ Spec
    /\ WF_vars(~Waiting /\ Program)
    /\ SF_vars(DrainDone) /\ SF_vars(LoginProceeds)

\* The network answers: no call waits for ever.
NetworkAnswers == []<>~Waiting

-------------------------------------------------------------------------------
PCs == {"up", "login", "register", "build", "buildAuthorized", "top", "drain", "act",
        "logoutLocal", "snapshot", "quiet", "fatal", "exited"}

\* The states in which the event loop runs on a built data plane.
InLoop == pc \in {"top", "drain", "act", "logoutLocal", "snapshot", "quiet", "fatal"}

\* The values the variables of the control thread take: there are node keys and a
\* magic socket exactly while there is a Runtime, an engine exactly while its event
\* loop runs, and a session or waiting signals only then (run_supervised leaves
\* nothing of a Runtime behind when it starts the next).
TypeOK ==
    /\ key_supplied \in BOOLEAN /\ cfg_want \in BOOLEAN
    /\ control \in [Keys -> KeyStatus]
    /\ disk_key \in NodeKeys /\ minted \in 0 .. MaxKeys /\ disk_seq \in BOOLEAN
    /\ stop \in BOOLEAN /\ relogin \in BOOLEAN
    /\ pc \in PCs
    /\ {ks, magic_key} \subseteq IF Serving THEN Keys ELSE {NoKey}
    /\ engine_key \in IF InLoop THEN Keys ELSE {NoKey}
    /\ engine_peers \in SUBSET Peers
    /\ session \in IF InLoop THEN Sessions \cup {NoSession} ELSE {NoSession}
    /\ ~Serving => queue = <<>>
    /\ want_running \in BOOLEAN /\ logout_req \in BOOLEAN /\ login_req \in BOOLEAN
    /\ queue \in Seq(Signals)
    /\ lc \in Tracker
    /\ snap \in Snapshots
    /\ left \in BOOLEAN /\ warm \in BOOLEAN

\* Parked means quiet: once /down has been taken off the channel, and until /up,
\* there is no control session and the engine has no peer, whatever signals,
\* failures and re-logins came before ("dropping map_opt alone would leave WG
\* peers live").
ParkedIsQuiet ==
    (InLoop /\ ~want_running) => session = NoSession /\ engine_peers = {}

\* After a logout no reconnect, no event and no later signal opens a session
\* ("no auto re-login - the user explicitly left"), until the node is logged in
\* on request or leaves a park entered since (by /up, or by a failed logout).
LoggedOutStaysOut == (left /\ pc # "logoutLocal") => session = NoSession

\* With interactive login the session is always registered under the key the
\* engine and DERP hold, although logout rotates the key store under them: the
\* rotated key is unknown to control, so it cannot be used before up() runs again.
QrSessionKeyIsEngineKey ==
    (~key_supplied /\ session # NoSession) => session.key = engine_key

\* A session opened on a data plane that did not find older session state on
\* disk ends up with every peer in the engine, across /down, /up, logout and
\* reconnects that resume last_seq.
SessionPopulatesEngine ==
    (InLoop /\ ~warm /\ session.heard) => engine_peers = Peers

\* The logged-out screen shows nothing of the previous session.
LoggedOutScreenIsClean ==
    snap.lifecycle = "NeedsLogin" => snap.peers = {} /\ ~snap.user_login

\* The QR code and the "logging in" notice are on the screen only while the login
\* runs: every way out of interactive_login takes them down.
QrOnlyWhileLoggingIn ==
    (Serving /\ (snap.auth_url \/ snap.login_in_progress)) => pc \in {"login", "register"}

\* should_stop ends the event loop and the login from anywhere, provided that every
\* call without a time limit returns some day: from a QR wait that control answers
\* "pending" for ever, from the parked and logged-out loops, from a reconnect loop
\* that never succeeds and from a flood of signals.
StopTerminates == NetworkAnswers => (stop ~> (pc = "exited"))

-------------------------------------------------------------------------------
\* "advertising a new pubkey at control while the data plane holds the old one
\* silently kills all peer traffic": for every configuration.
SessionKeyIsEngineKey == session # NoSession => session.key = engine_key

\* Stopped: "the control session is closed and WG peers are dropped".
StoppedIsQuiet == (InLoop /\ lc.state = "Stopped") => session = NoSession

\* Degraded: "60+ s without a fresh map event or DERP rx": a node that never gets
\* a session again does not keep showing Online, although its requests all return.
LossIsNoticed ==
    NetworkAnswers => ((InLoop /\ session = NoSession /\ lc.state = "Online")
                          ~> (~InLoop \/ session # NoSession \/ lc.state # "Online"))
===============================================================================
