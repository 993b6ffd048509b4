-------------------------------- MODULE NetMap --------------------------------
(* The netmap on its way from the control plane to the data plane: MapClient   *)
(* (crates/ts-control/src/map.rs) applies each MapResponse to its NetMap       *)
(* (netmap.rs) and persists last_seq and session_handle; the event loop of     *)
(* crates/tailscale-vita/src/runtime.rs hands the delta to the WG engine, the  *)
(* magic socket and peer_regions.  All of it runs on the control thread, so    *)
(* one action is one event of that thread.                                     *)
(*                                                                             *)
(* A node key belongs to one node for ever, and so does a disco key; a node    *)
(* may change either.  Of a peer's fields home_derp is kept, and the disco key *)
(* as long as a direct path can be tried (an endpoint is known too).           *)
EXTENDS Naturals

CONSTANTS
    Ids,      \* NodeIDs
    Gens,     \* tells the node keys of one node apart
    Regions,  \* DERP regions
    Discos,   \* tells the disco keys of one node apart
    Infos,    \* what is said of a peer: home_derp (0 for none) and its disco key, if direct
    None

ASSUME NetMapAssumption ==
    /\ 0 \notin Regions
    /\ None \notin Regions
    /\ None # 0
    /\ None \notin Discos
    /\ Infos \subseteq [home : Regions \cup {0}, disco : Discos \cup {None}]

Keys == [id : Ids, gen : Gens]
DiscoKeys == [id : Ids, disco : Discos]
Homes == Regions \cup {0}

\* A peer's entry in the control plane's view; PeerSnapshot is one without the key.
Nodes == [gen : Gens, info : Infos]
PeerSnapshots == [home : Homes, disco : Discos \cup {None}]

ASSUME NoneAssumption ==
    /\ None \notin Keys
    /\ None \notin DiscoKeys
    /\ None \notin Nodes
    /\ None \notin PeerSnapshots
    /\ None \notin [Ids -> Nodes \cup {None}]

VARIABLES
    told,           \* control plane: the peers as this map stream has described them; None
                    \* before its first frame
    saved,          \* last_seq and session_handle on disk name a session
    open,           \* there is a MapClient
    peers,          \* NetMap.peers
    id_to_key,      \* NetMap.id_to_key
    our_home,       \* derp_ctl.home_region(); 0 until a home is picked
    derp_map_set,   \* the event loop has seen a DERP map
    engine,         \* the engine's peers, with the DERP region of each; 0 for no address
    peer_regions,   \* the event loop's peer_regions
    magic,          \* MagicState.peers, with the disco key of each
    disco_to_node,  \* MagicState.disco_to_node
    synced,         \* history: this MapClient has had a full Peers list
    shadowed,       \* history: the nodes whose earlier key, with the same disco key, was
                    \* removed by the full list that brought their current key
    clean           \* history: the engine was empty when this MapClient started

netmapVars == <<peers, id_to_key>>
homeVars == <<our_home, derp_map_set>>
planeVars == <<engine, peer_regions, magic, disco_to_node>>
vars == <<told, saved, open, netmapVars, homeVars, planeVars, synced, shadowed, clean>>

View == [Ids -> Nodes \cup {None}]

NoPeers == [k \in Keys |-> None]
NoIds == [i \in Ids |-> None]
NoDiscos == [d \in DiscoKeys |-> None]

\* The key and the snapshot node_to_snapshot makes of entry i of a list of nodes.
KeyIn(view, i) == [id |-> i, gen |-> view[i].gen]
SnapshotIn(view, i) == view[i].info
Listed(view) == {i \in Ids : view[i] # None}
KeysIn(view) == {KeyIn(view, i) : i \in Listed(view)}

Init ==
    /\ told = None
    /\ saved = FALSE
    /\ open = FALSE
    /\ peers = NoPeers
    /\ id_to_key = NoIds
    /\ our_home = 0
    /\ derp_map_set = FALSE
    /\ engine = NoPeers
    /\ peer_regions = NoPeers
    /\ magic = NoPeers
    /\ disco_to_node = NoDiscos
    /\ synced = FALSE
    /\ shadowed = {}
    /\ clean = TRUE

-------------------------------------------------------------------------------
\* ---- NetMap::apply ----

\* A NetMapDelta with the peers and the index it leaves.  rekeyed holds the old and
\* the new key of each rekeyed peer.
Delta(ps, idx, upserted, removed, rekeyed) ==
    [peers |-> ps, id_to_key |-> idx, upserted |-> upserted, removed |-> removed,
     rekeyed |-> rekeyed]

OldKeys(d) == {r[1] : r \in d.rekeyed}
NewKeys(d) == {r[2] : r \in d.rekeyed}

Replaced_Merged(view) ==
    Delta([k \in Keys |-> IF k \in KeysIn(view) THEN SnapshotIn(view, k.id) ELSE peers[k]],
          [i \in Ids |-> IF view[i] # None THEN KeyIn(view, i) ELSE None],
          KeysIn(view), {}, {})

\* Peers: the full list replaces the map; id_to_key is rebuilt.
Replaced(view) ==
    Delta([k \in Keys |-> IF k \in KeysIn(view) THEN SnapshotIn(view, k.id) ELSE None],
          [i \in Ids |-> IF view[i] # None THEN KeyIn(view, i) ELSE None],
          KeysIn(view),
          {k \in Keys : peers[k] # None} \ KeysIn(view),
          {})

\* apply_patch finds the peer of a patch through the index.
Known(i) == id_to_key[i] # None /\ peers[id_to_key[i]] # None

\* apply_patch_fields: only the fields that are in the patch, here those that
\* differ between the old and the new entry, are overwritten.
Patched(p, old, new) ==
    [home |-> IF new.home # old.home THEN new.home ELSE p.home,
     disco |-> IF new.disco # old.disco THEN new.disco ELSE p.disco]

\* The key a peer has after a patch: the patch carries a key only when it changed.
PatchedKey(view, i) == IF view[i].gen # told[i].gen THEN KeyIn(view, i) ELSE id_to_key[i]

\* PeersChanged, PeersRemoved and PeersChangedPatch, for disjoint sets of ids: upsert;
\* drop what the index knows; patch the peer the index finds, under its new key
\* when the patch has one.
Merged(view, changed, removed, patched) ==
    LET found == {i \in patched : Known(i)}
        rekeyed == {i \in found : PatchedKey(view, i) # id_to_key[i]}
    IN Delta(
        [k \in Keys |->
            IF k.id \in changed /\ k = KeyIn(view, k.id) THEN SnapshotIn(view, k.id)
            ELSE IF k.id \in found /\ k = PatchedKey(view, k.id)
            THEN Patched(peers[id_to_key[k.id]], told[k.id].info, view[k.id].info)
            ELSE IF k.id \in removed \cup rekeyed /\ k = id_to_key[k.id] THEN None
            ELSE peers[k]],
        [i \in Ids |->
            IF i \in changed THEN KeyIn(view, i)
            ELSE IF i \in removed THEN None
            ELSE IF i \in rekeyed THEN PatchedKey(view, i)
            ELSE id_to_key[i]],
        {KeyIn(view, i) : i \in changed} \cup {id_to_key[i] : i \in found \ rekeyed},
        {id_to_key[i] : i \in {j \in removed : id_to_key[j] # None}},
        {<<id_to_key[i], PatchedKey(view, i)>> : i \in rekeyed})

-------------------------------------------------------------------------------
\* ---- what the event loop does with a delta ----

\* The first frame with a DERP map has the home picked.  That may fail, and is not
\* tried again.
PickHome ==
    \/ UNCHANGED homeVars
    \/ /\ ~derp_map_set
       /\ derp_map_set' = TRUE
       /\ our_home' \in Regions \cup {our_home}

\* The region a peer is reached through: its home, or ours when it has none, which
\* is 0 as long as we have none either.
RegionOf(snapshot) == IF snapshot.home # 0 THEN snapshot.home ELSE our_home'

\* update_peer_regions walks upserted, then removed, then rekeyed; the later list wins.
PushToRegions(map, d) ==
    LET new == NewKeys(d)
        gone == d.removed \cup OldKeys(d)
    IN [k \in Keys |-> IF k \in new THEN RegionOf(d.peers[k])
                       ELSE IF k \in gone THEN None
                       ELSE IF k \in d.upserted THEN RegionOf(d.peers[k])
                       ELSE map[k]]

\* Engine::upsert_peer: region 0 is no address, and a peer that is known with the
\* same allowed_ips keeps the one it has.
EngineUpsert(old, region, same) == IF region = 0 /\ same /\ old # None THEN old ELSE region

PushToEngine_KeepsOldKey(map, d, same) ==
    LET new == NewKeys(d)
    IN [k \in Keys |->
           IF k \in d.removed THEN None
           ELSE IF k \in d.upserted \cup new
           THEN EngineUpsert(map[k], RegionOf(d.peers[k]), k \in same)
           ELSE map[k]]

\* push_delta_to_engine walks the lists in the same order.  same: the keys whose
\* allowed_ips are as the engine has them.
PushToEngine(map, d, same) ==
    LET new == NewKeys(d)
        gone == d.removed \cup OldKeys(d)
    IN [k \in Keys |->
           IF k \in new THEN EngineUpsert(map[k], RegionOf(d.peers[k]), k \in same)
           ELSE IF k \in gone THEN None
           ELSE IF k \in d.upserted
           THEN EngineUpsert(map[k], RegionOf(d.peers[k]), k \in same)
           ELSE map[k]]

DiscoOf(k, snapshot) == [id |-> k.id, disco |-> snapshot.disco]

Upsert_NoRelink(m, ks, ps) ==
    [peers |-> [k \in Keys |-> IF k \in ks THEN DiscoOf(k, ps[k]) ELSE m.peers[k]],
     index |-> [d \in DiscoKeys |->
                   IF \E k \in ks : d = DiscoOf(k, ps[k])
                   THEN CHOOSE k \in ks : d = DiscoOf(k, ps[k])
                   ELSE m.index[d]]]

\* MagicSocketCtl::upsert_peer, for a set of keys of distinct nodes: the entries that
\* name the peer go, the one of its disco key is set.
Upsert(m, ks, ps) ==
    [peers |-> [k \in Keys |-> IF k \in ks THEN DiscoOf(k, ps[k]) ELSE m.peers[k]],
     index |-> [d \in DiscoKeys |->
                   IF \E k \in ks : d = DiscoOf(k, ps[k])
                   THEN CHOOSE k \in ks : d = DiscoOf(k, ps[k])
                   ELSE IF m.index[d] \in ks THEN None ELSE m.index[d]]]

\* MagicSocketCtl::remove_peer drops the index entry of the disco key of a peer it
\* has, whoever that entry names.
Remove(m, ks) ==
    [peers |-> [k \in Keys |-> IF k \in ks THEN None ELSE m.peers[k]],
     index |-> [d \in DiscoKeys |->
                   IF \E k \in ks : m.peers[k] = d THEN None ELSE m.index[d]]]

\* push_delta_to_magicsock: peers with no disco key or no endpoint are passed over.
PushToMagic(m, d) ==
    LET direct(ks) == {k \in ks : d.peers[k].disco # None}
        upserted == Upsert(m, direct(d.upserted), d.peers)
        removed == Remove(upserted, d.removed)
        dropped == Remove(removed, OldKeys(d))
    IN Upsert(dropped, direct(NewKeys(d)), d.peers)

\* A MapResponse that brings the stream to view: applied, persisted, pushed.
Frame(view, d) ==
    /\ peers' = d.peers
    /\ id_to_key' = d.id_to_key
    /\ PickHome
    /\ \E same \in SUBSET {k \in d.upserted \cup NewKeys(d) :
                              engine[k] # None /\ RegionOf(d.peers[k]) = 0} :
          engine' = PushToEngine(engine, d, same)
    /\ \E m \in {PushToMagic([peers |-> magic, index |-> disco_to_node], d)} :
          magic' = m.peers /\ disco_to_node' = m.index
    /\ peer_regions' = PushToRegions(peer_regions, d)
    /\ told' = view
    /\ saved' = TRUE
    /\ UNCHANGED <<open, clean>>

\* The first frame of a stream that resumes nothing, or a later full list.
FullFrame(view) ==
    /\ open
    /\ \E d \in {Replaced(view)} :
          /\ Frame(view, d)
          /\ shadowed' = {i \in Listed(view) : \E k \in d.removed :
                              magic[k] = DiscoOf(KeyIn(view, i), SnapshotIn(view, i))}
    /\ synced' = TRUE

\* What changed in the tailnet since the last frame: new peers are sent whole, a
\* new key is sent as a patch, other changes either way.
DeltaFrame(view, whole) ==
    /\ open
    /\ told # None
    /\ LET differs == {i \in Ids : view[i] # told[i]}
           added == {i \in differs : told[i] = None}
           removed == {i \in differs : view[i] = None}
           updated == differs \ (added \cup removed)
       IN /\ whole \subseteq {i \in updated : view[i].gen = told[i].gen}
          /\ \E d \in {Merged(view, added \cup whole, removed, updated \ whole)} :
                Frame(view, d)
          /\ shadowed' = shadowed \ differs
    /\ UNCHANGED synced

-------------------------------------------------------------------------------
\* ---- the life of a MapClient ----

\* MapClient::start: a fresh NetMap.  Control resumes the saved session, where it
\* may have described any peers, or begins with a full list.
Start ==
    /\ ~open
    /\ open' = TRUE
    /\ told' \in {None} \cup (IF saved THEN View ELSE {})
    /\ synced' = FALSE
    /\ clean' = (engine = NoPeers)
    /\ UNCHANGED <<saved, netmapVars, homeVars, planeVars, shadowed>>

\* The MapClient is dropped and its NetMap with it.
DropMapClient ==
    /\ open' = FALSE
    /\ told' = None
    /\ peers' = NoPeers
    /\ id_to_key' = NoIds
    /\ synced' = FALSE
    /\ shadowed' = {}

\* A lost connection, the watchdog, or /reconnect.
Lost ==
    /\ open
    /\ DropMapClient
    /\ UNCHANGED <<saved, homeVars, planeVars, clean>>

\* A frame was applied and could not be persisted: next_event returns the error
\* before the delta is pushed.  The files are as they were, or belong to two
\* sessions and resume neither.
PersistFails ==
    /\ open
    /\ DropMapClient
    /\ saved' \in {saved, FALSE}
    /\ UNCHANGED <<homeVars, planeVars, clean>>

\* /down and /logout: clear_engine_peers removes the peers that peer_regions
\* names; delete_session_state may fail.  The magic socket keeps its peers.
Park ==
    /\ DropMapClient
    /\ engine' = [k \in Keys |-> IF peer_regions[k] # None THEN None ELSE engine[k]]
    /\ peer_regions' = NoPeers
    /\ saved' \in {saved, FALSE}
    /\ UNCHANGED <<homeVars, magic, disco_to_node, clean>>

\* The Runtime is dropped and built again, by a re-login or a new process.
Rebuild ==
    /\ DropMapClient
    /\ our_home' = 0
    /\ derp_map_set' = FALSE
    /\ engine' = NoPeers
    /\ peer_regions' = NoPeers
    /\ magic' = NoPeers
    /\ disco_to_node' = NoDiscos
    /\ UNCHANGED <<saved, clean>>

Next ==
    \/ \E view \in View : FullFrame(view)
    \/ \E view \in View, whole \in SUBSET Ids : DeltaFrame(view, whole)
    \/ Start \/ Lost \/ PersistFails \/ Park \/ Rebuild

Spec == Init /\ [][Next]_vars

-------------------------------------------------------------------------------
\* The values the variables take.
TypeOK ==
    /\ told \in View \cup {None}
    /\ saved \in BOOLEAN
    /\ open \in BOOLEAN
    /\ peers \in [Keys -> PeerSnapshots \cup {None}]
    /\ id_to_key \in [Ids -> Keys \cup {None}]
    /\ our_home \in Homes
    /\ derp_map_set \in BOOLEAN
    /\ engine \in [Keys -> Homes \cup {None}]
    /\ peer_regions \in [Keys -> Homes \cup {None}]
    /\ magic \in [Keys -> DiscoKeys \cup {None}]
    /\ disco_to_node \in [DiscoKeys -> Keys \cup {None}]
    /\ synced \in BOOLEAN
    /\ shadowed \in SUBSET Ids
    /\ clean \in BOOLEAN

\* The NetMap is what the stream has said, across full lists, changes, removals
\* and patches that rekey: everything, once it has had a full list; otherwise
\* (a resumed stream) nothing else.  The index finds exactly the peers there are.
NetmapIsServers ==
    /\ \A k \in Keys : peers[k] # None =>
          /\ told # None /\ told[k.id] # None
          /\ k = KeyIn(told, k.id) /\ peers[k] = SnapshotIn(told, k.id)
    /\ synced => \A i \in Listed(told) : peers[KeyIn(told, i)] # None
    /\ \A i \in Ids : id_to_key[i] # None => id_to_key[i].id = i /\ peers[id_to_key[i]] # None
    /\ \A k \in Keys : peers[k] # None => id_to_key[k.id] = k

\* The engine and peer_regions hold the same keys, so that a park empties the engine,
\* and name the same region unless peer_regions has none to name (0, which
\* CallMeMaybe passes over).  Every peer of the NetMap is in both, with its home if it
\* has one, else with the home we had, if any, when it was last pushed.  A session
\* that found the engine empty keeps nothing else in it.
EngineFollows ==
    /\ \A k \in Keys : IF peer_regions[k] = 0 THEN engine[k] # None
                                             ELSE engine[k] = peer_regions[k]
    /\ \A k \in Keys : peers[k] # None =>
          peer_regions[k] \in IF peers[k].home # 0 THEN {peers[k].home} ELSE {0, our_home}
    /\ (open /\ clean) => \A k \in Keys : engine[k] # None => peers[k] # None

\* Every peer with a direct path is in the magic socket under its current disco key.
\* A disco key that resolves, resolves to a peer whose current disco key it is,
\* through changes of either key.  And the disco key of every such peer resolves to
\* it, unless a full list gave it a new node key: that list's removal of the earlier
\* key takes the entry along.
MagicFollows ==
    /\ \A k \in Keys : (peers[k] # None /\ peers[k].disco # None) =>
          /\ magic[k] = DiscoOf(k, peers[k])
          /\ k.id \notin shadowed => disco_to_node[DiscoOf(k, peers[k])] = k
    /\ \A d \in DiscoKeys : disco_to_node[d] # None => magic[disco_to_node[d]] = d

-------------------------------------------------------------------------------
\* "Full set replace: every peer not in the new list is implicitly removed":
\* after a full list the engine has the peers of the list and no others.
FullListReplaces == synced => \A k \in Keys : engine[k] # None => k \in KeysIn(told)
===============================================================================
