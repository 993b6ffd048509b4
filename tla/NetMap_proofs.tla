----------------------------- MODULE NetMap_proofs -----------------------------
(* Proofs about NetMap, for any nodes, keys, regions and frames.               *)
(*                                                                             *)
(* NetmapIsServers, EngineFollows and MagicFollows are inductive together with *)
(* TypeOK and ClosedIsEmpty.  The data plane sees a frame only through its     *)
(* delta, so what it needs of the delta is stated once (SoundDelta), shown for *)
(* the two kinds of frame, and used for the engine and for the magic socket.   *)
EXTENDS NetMap, TLAPS

\* Without a MapClient there is no NetMap.
ClosedIsEmpty == ~open => peers = NoPeers /\ id_to_key = NoIds /\ ~synced

\* A session that has had a full list has had a frame.
SyncedWasTold == synced => told # None

\* Our home is picked on the first DERP map.
HomeUnset == ~derp_map_set => our_home = 0

\* The disco key the magic socket has for a node key is one of the same node.
OwnDisco == \A k \in Keys : magic[k] # None => magic[k].id = k.id

IInv ==
    /\ TypeOK /\ ClosedIsEmpty /\ SyncedWasTold /\ HomeUnset /\ OwnDisco
    /\ NetmapIsServers /\ EngineFollows /\ MagicFollows

\* A delta leads from the peers there are to d.peers: it upserts only peers that are
\* left, removes only peers that are not, and mentions every peer that changes.
SoundDelta(d) ==
    /\ d.peers \in [Keys -> PeerSnapshots \cup {None}]
    /\ d.id_to_key \in [Ids -> Keys \cup {None}]
    /\ d.upserted \cup NewKeys(d) \subseteq {k \in Keys : d.peers[k] # None}
    /\ d.removed \cup OldKeys(d) \subseteq {k \in Keys : d.peers[k] = None}
    /\ \A k \in Keys \ (d.upserted \cup NewKeys(d) \cup d.removed \cup OldKeys(d)) :
          d.peers[k] = peers[k]

\* Of a node with a peer left that is not rekeyed nothing is removed, and that peer is
\* upserted unless the node is not in the delta.
Apart(d, ids) ==
    \A k \in Keys : (d.peers[k] # None /\ k \notin NewKeys(d)) =>
        /\ \A x \in d.removed \cup OldKeys(d) : x.id # k.id
        /\ k \in d.upserted \/ k.id \notin ids

\* NetmapIsServers for the netmap a delta leaves.
Describes(d, view, full) ==
    /\ \A k \in Keys : d.peers[k] # None =>
          view[k.id] # None /\ k = KeyIn(view, k.id) /\ d.peers[k] = SnapshotIn(view, k.id)
    /\ full => \A i \in Listed(view) : d.peers[KeyIn(view, i)] # None
    /\ \A i \in Ids : d.id_to_key[i] # None =>
          d.id_to_key[i].id = i /\ d.peers[d.id_to_key[i]] # None
    /\ \A k \in Keys : d.peers[k] # None => d.id_to_key[k.id] = k

-------------------------------------------------------------------------------
\* Keys are determined by their fields, and the key of a listed node is one.
LEMMA KeyFacts ==
  /\ \A k \in Keys : k.id \in Ids /\ k.gen \in Gens /\ k = [id |-> k.id, gen |-> k.gen]
  /\ \A view \in View : \A i \in Ids :
        view[i] # None => /\ KeyIn(view, i) \in Keys /\ KeyIn(view, i).id = i
                          /\ KeyIn(view, i).gen = view[i].gen
                          /\ view[i].gen \in Gens
                          /\ SnapshotIn(view, i) \in PeerSnapshots
<1>1. \A k \in Keys : k.id \in Ids /\ k.gen \in Gens /\ k = [id |-> k.id, gen |-> k.gen]
  BY DEF Keys
<1>2. ASSUME NEW view \in View, NEW i \in Ids, view[i] # None
      PROVE  /\ KeyIn(view, i) \in Keys /\ KeyIn(view, i).id = i
             /\ KeyIn(view, i).gen = view[i].gen
             /\ view[i].gen \in Gens
             /\ SnapshotIn(view, i) \in PeerSnapshots
  <2>1. view[i] \in Nodes
    BY <1>2 DEF View
  <2>2. view[i].gen \in Gens /\ view[i].info \in Infos
    BY <2>1 DEF Nodes
  <2> QED BY <2>2, NetMapAssumption DEF KeyIn, Keys, SnapshotIn, PeerSnapshots, Homes
<1> QED BY <1>1, <1>2

\* A full list: sound, and the netmap is the list.
LEMMA ReplacedIsSound ==
  ASSUME IInv, NEW view \in View
  PROVE  SoundDelta(Replaced(view)) /\ Describes(Replaced(view), view, TRUE)
<1> DEFINE d == Replaced(view)
<1>1. /\ d.peers = [k \in Keys |-> IF k \in KeysIn(view) THEN SnapshotIn(view, k.id) ELSE None]
      /\ d.id_to_key = [i \in Ids |-> IF view[i] # None THEN KeyIn(view, i) ELSE None]
      /\ d.upserted = KeysIn(view)
      /\ d.removed = {k \in Keys : peers[k] # None} \ KeysIn(view)
      /\ d.rekeyed = {}
  BY DEF Replaced, Delta
<1>2. OldKeys(d) = {} /\ NewKeys(d) = {}
  BY <1>1 DEF OldKeys, NewKeys
<1> HIDE DEF d
<1>3. \A k \in Keys : k \in KeysIn(view) <=> view[k.id] # None /\ k = KeyIn(view, k.id)
  BY KeyFacts DEF KeysIn, Listed
<1>4. KeysIn(view) \subseteq Keys
  BY KeyFacts DEF KeysIn, Listed
<1>5. \A k \in Keys : k \in KeysIn(view) => d.peers[k] = SnapshotIn(view, k.id)
                                            /\ SnapshotIn(view, k.id) \in PeerSnapshots
  BY <1>1, <1>3, KeyFacts
<1>6. \A k \in Keys : d.peers[k] # None <=> k \in KeysIn(view)
  BY <1>1, <1>5, NoneAssumption
<1>7. SoundDelta(d)
  <2>1. d.peers \in [Keys -> PeerSnapshots \cup {None}]
    BY <1>1, <1>5
  <2>2. d.id_to_key \in [Ids -> Keys \cup {None}]
    BY <1>1, KeyFacts
  <2>3. \A k \in Keys \ (d.upserted \cup d.removed) : d.peers[k] = peers[k]
    BY <1>1, <1>6 
  <2> QED BY <1>1, <1>2, <1>4, <1>6, <2>1, <2>2, <2>3 DEF SoundDelta
<1>8. Describes(d, view, TRUE)
  <2>1. \A i \in Listed(view) : KeyIn(view, i) \in Keys /\ KeyIn(view, i) \in KeysIn(view)
    BY KeyFacts DEF KeysIn, Listed
  <2>2. \A i \in Ids : d.id_to_key[i] # None =>
          d.id_to_key[i].id = i /\ d.peers[d.id_to_key[i]] # None
    BY <1>1, <1>6, <2>1, KeyFacts DEF Listed
  <2>3. \A k \in Keys : d.peers[k] # None => d.id_to_key[k.id] = k
    BY <1>1, <1>3, <1>6, KeyFacts
  <2> QED BY <1>3, <1>5, <1>6, <2>1, <2>2, <2>3 DEF Describes
<1> QED BY Zenon, <1>7, <1>8 DEF d

\* A patch of a peer that is as the stream described it gives the new description.
LEMMA PatchedIsNew ==
  ASSUME NEW p \in PeerSnapshots, NEW new \in PeerSnapshots
  PROVE  Patched(p, p, new) = new
BY DEF Patched, PeerSnapshots

\* A delta frame that sends what differs between told and view, a new key as a
\* patch: sound, and the netmap follows the view.
LEMMA MergedIsSound ==
  ASSUME IInv, told # None, NEW view \in View,
         NEW changed \in SUBSET Ids, NEW removed \in SUBSET Ids, NEW patched \in SUBSET Ids,
         changed \cap removed = {}, changed \cap patched = {}, removed \cap patched = {},
         \A i \in changed : view[i] # None /\ (told[i] # None => view[i].gen = told[i].gen),
         \A i \in removed : view[i] = None,
         \A i \in patched : view[i] # None /\ told[i] # None,
         \A i \in Ids \ (changed \cup removed \cup patched) : view[i] = told[i]
  PROVE  LET d == Merged(view, changed, removed, patched)
         IN /\ SoundDelta(d)
            /\ Describes(d, view, synced)
            /\ Apart(d, changed \cup removed \cup patched)
<1> USE DEF IInv
<1> DEFINE d == Merged(view, changed, removed, patched)
           found == {i \in patched : Known(i)}
           rekeyed == {i \in found : PatchedKey(view, i) # id_to_key[i]}
<1>1. /\ d.peers = [k \in Keys |->
            IF k.id \in changed /\ k = KeyIn(view, k.id) THEN SnapshotIn(view, k.id)
            ELSE IF k.id \in found /\ k = PatchedKey(view, k.id)
            THEN Patched(peers[id_to_key[k.id]], told[k.id].info, view[k.id].info)
            ELSE IF k.id \in removed \cup rekeyed /\ k = id_to_key[k.id] THEN None
            ELSE peers[k]]
      /\ d.id_to_key = [i \in Ids |->
            IF i \in changed THEN KeyIn(view, i)
            ELSE IF i \in removed THEN None
            ELSE IF i \in rekeyed THEN PatchedKey(view, i)
            ELSE id_to_key[i]]
      /\ d.upserted = {KeyIn(view, i) : i \in changed}
                         \cup {id_to_key[i] : i \in found \ rekeyed}
      /\ d.removed = {id_to_key[i] : i \in {j \in removed : id_to_key[j] # None}}
      /\ d.rekeyed = {<<id_to_key[i], PatchedKey(view, i)>> : i \in rekeyed}
  BY ZenonT(40) DEF Merged, Delta
<1>2. /\ OldKeys(d) = {id_to_key[i] : i \in rekeyed}
      /\ NewKeys(d) = {PatchedKey(view, i) : i \in rekeyed}
  <2>1. d.rekeyed = {<<id_to_key[i], PatchedKey(view, i)>> : i \in rekeyed}
    BY SMTT(40), <1>1
  <2> HIDE DEF d, found, rekeyed
  <2>2. \A r \in d.rekeyed : \E i \in rekeyed : r[1] = id_to_key[i] /\ r[2] = PatchedKey(view, i)
    BY <2>1
  <2>3. ASSUME NEW i \in rekeyed
        PROVE  \E r \in d.rekeyed : r[1] = id_to_key[i] /\ r[2] = PatchedKey(view, i)
    <3> DEFINE r == <<id_to_key[i], PatchedKey(view, i)>>
    <3>1. r \in d.rekeyed
      BY <2>1
    <3>2. r[1] = id_to_key[i] /\ r[2] = PatchedKey(view, i)
      OBVIOUS
    <3> QED BY <3>1, <3>2
  <2> QED BY SMTT(40), <2>2, <2>3 DEF OldKeys, NewKeys
<1> HIDE DEF d
\* What the index says before the frame.
<1>3. told \in View /\ peers \in [Keys -> PeerSnapshots \cup {None}]
      /\ id_to_key \in [Ids -> Keys \cup {None}]
  BY DEF TypeOK
<1>4. ASSUME NEW i \in Ids, id_to_key[i] # None
      PROVE  /\ id_to_key[i] \in Keys /\ id_to_key[i].id = i
             /\ told[i] # None /\ id_to_key[i] = KeyIn(told, i)
             /\ peers[id_to_key[i]] = SnapshotIn(told, i)
             /\ peers[id_to_key[i]] \in PeerSnapshots
             /\ Known(i)
  <2>1. id_to_key[i] \in Keys /\ id_to_key[i].id = i /\ peers[id_to_key[i]] # None
    BY <1>3, <1>4 DEF NetmapIsServers
  <2> QED BY <1>3, <1>4, <2>1 DEF NetmapIsServers, Known
\* The key and the snapshot of a patched peer.
<1>5. ASSUME NEW i \in found
      PROVE  /\ i \in Ids /\ id_to_key[i] # None /\ view[i] # None
             /\ PatchedKey(view, i) = KeyIn(view, i)
             /\ Patched(peers[id_to_key[i]], told[i].info, view[i].info) = SnapshotIn(view, i)
  <2>1. i \in Ids /\ id_to_key[i] # None /\ view[i] # None /\ told[i] # None
    BY DEF Known
  <2>2. PatchedKey(view, i) = KeyIn(view, i)
    BY <1>4, <2>1 DEF PatchedKey, KeyIn
  <2>3. SnapshotIn(view, i) \in PeerSnapshots /\ SnapshotIn(told, i) \in PeerSnapshots
    BY SMTT(40), <1>3, <2>1, KeyFacts
  <2> QED BY <1>4, <2>1, <2>2, <2>3, PatchedIsNew DEF SnapshotIn
\* What the frame makes of each key, by the part of the frame its node is in.
<1>6. ASSUME NEW k \in Keys
      PROVE  /\ k.id \in changed =>
                   d.peers[k] = (IF k = KeyIn(view, k.id) THEN SnapshotIn(view, k.id) ELSE None)
             /\ k.id \in removed => d.peers[k] = None
             /\ k.id \in found =>
                   d.peers[k] = (IF k = KeyIn(view, k.id) THEN SnapshotIn(view, k.id) ELSE None)
             /\ k.id \in patched \ found => d.peers[k] = None
             /\ k.id \in Ids \ (changed \cup removed \cup patched) => d.peers[k] = peers[k]
  <2>1. peers[k] # None => /\ id_to_key[k.id] = k /\ told[k.id] # None
                           /\ k = KeyIn(told, k.id)
    BY DEF NetmapIsServers
  <2>2. k.id \in Ids /\ k # None
    BY ZenonT(40), SMTT(40), KeyFacts, NoneAssumption
  <2>3. CASE k.id \in changed
    <3>1. told[k.id] # None => KeyIn(told, k.id) = KeyIn(view, k.id)
      BY ZenonT(40), SMTT(40), <2>3 DEF KeyIn
    <3> QED BY SMTT(40), <1>1, <2>1, <2>3, <3>1
  <2>4. CASE k.id \in removed
    BY SMTT(40), <1>1, <2>1, <2>4
  <2>5. CASE k.id \in found
    BY SMTT(40), <1>1, <1>5, <2>1, <2>5
  <2>6. CASE k.id \in patched \ found
    BY SMTT(40), <1>1, <2>1, <2>2, <2>6, <1>4
  <2>7. CASE k.id \in Ids \ (changed \cup removed \cup patched)
    BY <1>1, <2>7
  <2> QED BY <2>2, <2>3, <2>4, <2>5, <2>6, <2>7
\* ... and of the index.
<1>7. ASSUME NEW i \in Ids
      PROVE  /\ i \in changed \cup found => d.id_to_key[i] = KeyIn(view, i)
             /\ i \in removed \cup (patched \ found) => d.id_to_key[i] = None
             /\ i \in Ids \ (changed \cup removed \cup patched) => d.id_to_key[i] = id_to_key[i]
  <2>1. CASE i \in found
    BY SMTT(40), <1>1, <1>5, <2>1
  <2>2. CASE i \in patched \ found
    BY SMTT(40), <1>1, <1>4, <2>2
  <2>3. CASE i \in changed \cup removed
    BY SMTT(40), <1>1, <2>3
  <2>4. CASE i \in Ids \ (changed \cup removed \cup patched)
    BY <1>1, <2>4
  <2> QED BY SMTT(40), <2>1, <2>2, <2>3, <2>4
\* Listed nodes have a key and a snapshot.
<1>8. ASSUME NEW i \in changed \cup found
      PROVE  /\ i \in Ids /\ view[i] # None /\ KeyIn(view, i) \in Keys /\ KeyIn(view, i).id = i
             /\ SnapshotIn(view, i) \in PeerSnapshots /\ SnapshotIn(view, i) # None
             /\ d.peers[KeyIn(view, i)] = SnapshotIn(view, i)
  <2>1. i \in Ids /\ view[i] # None
    OBVIOUS
  <2>2. /\ KeyIn(view, i) \in Keys /\ KeyIn(view, i).id = i
        /\ SnapshotIn(view, i) \in PeerSnapshots
    BY <2>1, KeyFacts
  <2> QED BY <1>6, <2>1, <2>2, NoneAssumption
<1>9. SoundDelta(d)
  <2>1. d.peers \in [Keys -> PeerSnapshots \cup {None}]
    <3>1. \A k \in Keys : d.peers[k] \in PeerSnapshots \cup {None}
      BY SMTT(40), <1>3, <1>6, <1>8, KeyFacts
    <3> QED BY <1>1, <3>1
  <2>2. d.id_to_key \in [Ids -> Keys \cup {None}]
    <3>1. ASSUME NEW i \in Ids
          PROVE  d.id_to_key[i] \in Keys \cup {None}
      <4>1. CASE i \in changed \cup found
        BY SMTT(40), <1>7, <1>8, <4>1
      <4>2. CASE i \in removed \cup (patched \ found)
        BY <1>7, <4>2
      <4>3. CASE i \in Ids \ (changed \cup removed \cup patched)
        BY <1>3, <1>7, <4>3
      <4> QED BY SMTT(40), <4>1, <4>2, <4>3
    <3> QED BY <1>1, <3>1
  <2>3. \A i \in found \ rekeyed : id_to_key[i] = KeyIn(view, i)
    BY Zenon, <1>5
  <2>4. d.upserted \cup NewKeys(d) \subseteq {k \in Keys : d.peers[k] # None}
    <3>1. \A i \in changed \cup found : KeyIn(view, i) \in Keys /\ d.peers[KeyIn(view, i)] # None
      BY Zenon, <1>8
    <3>2. \A i \in rekeyed : PatchedKey(view, i) = KeyIn(view, i) /\ i \in found
      BY Zenon, <1>5
    <3>3. \A k \in d.upserted \cup NewKeys(d) : \E i \in changed \cup found : k = KeyIn(view, i)
      <4> HIDE DEF found
      <4>1. \A k \in d.upserted : \E i \in changed \cup found : k = KeyIn(view, i)
        BY <1>1, <2>3
      <4>2. \A k \in NewKeys(d) : \E i \in rekeyed : k = PatchedKey(view, i)
        BY SMTT(40), <1>2
      <4> QED BY SMTT(40), <3>2, <4>1, <4>2
    <3> QED BY <3>1, <3>3
  <2>5. \A i \in removed \cup rekeyed : id_to_key[i] # None =>
           id_to_key[i] \in Keys /\ d.peers[id_to_key[i]] = None
    BY <1>4, <1>5, <1>6
  <2>6. d.removed \cup OldKeys(d) \subseteq {k \in Keys : d.peers[k] = None}
    <3>1. \A i \in rekeyed : id_to_key[i] # None
      BY ZenonT(40), <1>5
    <3>2. \A k \in d.removed \cup OldKeys(d) :
             \E i \in removed \cup rekeyed : k = id_to_key[i] /\ id_to_key[i] # None
      <4> HIDE DEF found, rekeyed
      <4> QED BY ZenonT(40), SMTT(40), <1>1, <1>2, <3>1
    <3> QED BY <2>5, <3>2
  <2>7. ASSUME NEW k \in Keys, d.peers[k] # peers[k]
        PROVE  k \in d.upserted \cup NewKeys(d) \cup d.removed \cup OldKeys(d)
    <3>1. k.id \in Ids
      BY KeyFacts
    <3>2. peers[k] # None => id_to_key[k.id] = k
      BY ZenonT(40), SMTT(40) DEF NetmapIsServers
    <3>3. CASE k.id \in changed /\ k = KeyIn(view, k.id)
      BY SMTT(40), <1>1, <3>3
    <3>4. CASE k.id \in found /\ k = PatchedKey(view, k.id)
      BY SMTT(40), <1>1, <1>2, <3>4
    <3>5. CASE k.id \in removed \cup rekeyed /\ k = id_to_key[k.id]
      BY SMTT(40), <1>1, <1>2, <3>5, NoneAssumption
    <3> QED BY <1>1, <2>7, <3>3, <3>4, <3>5
  <2> QED BY SMTT(40), <2>1, <2>2, <2>4, <2>6, <2>7 DEF SoundDelta
<1>10. Describes(d, view, synced)
  <2>1. ASSUME NEW k \in Keys, d.peers[k] # None
        PROVE  /\ view[k.id] # None /\ k = KeyIn(view, k.id) /\ d.peers[k] = SnapshotIn(view, k.id)
               /\ d.id_to_key[k.id] = k
    <3>1. k.id \in Ids
      BY KeyFacts
    <3>2. CASE k.id \in changed \cup found
      BY SMTT(40), <1>6, <1>7, <1>8, <2>1, <3>2
    <3>3. CASE k.id \in Ids \ (changed \cup removed \cup patched)
      BY SMTT(40), <1>6, <1>7, <2>1, <3>3 DEF NetmapIsServers, KeyIn, SnapshotIn
    <3> QED BY SMTT(40), <1>6, <2>1, <3>1, <3>2, <3>3
  <2>2. ASSUME NEW i \in Ids, d.id_to_key[i] # None
        PROVE  d.id_to_key[i].id = i /\ d.peers[d.id_to_key[i]] # None
    <3>1. CASE i \in changed \cup found
      BY SMTT(40), <1>7, <1>8, <3>1
    <3>2. CASE i \in Ids \ (changed \cup removed \cup patched)
      BY <1>4, <1>6, <1>7, <2>2, <3>2, NoneAssumption
    <3> QED BY <1>7, <2>2, <3>1, <3>2
  <2>3. ASSUME synced, NEW i \in Listed(view)
        PROVE  d.peers[KeyIn(view, i)] # None
    <3>1. i \in Ids /\ view[i] # None
      BY DEF Listed
    <3>2. CASE i \in changed \cup found
      BY <1>8, <3>2
    <3>3. CASE i \in patched \ found
      <4>1. told[i] # None /\ i \in Listed(told)
        BY <3>3 DEF Listed
      <4>2. KeyIn(told, i) \in Keys /\ KeyIn(told, i).id = i /\ peers[KeyIn(told, i)] # None
        BY <1>3, <2>3, <4>1, <3>1, KeyFacts DEF NetmapIsServers
      <4>3. id_to_key[i] = KeyIn(told, i)
        BY SMTT(40), <4>2 DEF NetmapIsServers
      <4> QED BY <1>4, <3>1, <3>3, <4>2, <4>3, NoneAssumption
    <3>4. CASE i \in Ids \ (changed \cup removed \cup patched)
      <4>1. told[i] # None /\ i \in Listed(told) /\ KeyIn(told, i) = KeyIn(view, i)
        BY <3>1, <3>4 DEF Listed, KeyIn
      <4>2. KeyIn(told, i) \in Keys /\ KeyIn(told, i).id = i /\ peers[KeyIn(told, i)] # None
        BY SMTT(40), <1>3, <2>3, <4>1, <3>1, KeyFacts DEF NetmapIsServers
      <4> QED BY <1>6, <3>4, <4>1, <4>2
    <3> QED BY <3>1, <3>2, <3>3, <3>4
  <2> QED BY SMTT(40), <2>1, <2>2, <2>3 DEF Describes
<1>11. Apart(d, changed \cup removed \cup patched)
  <2> SUFFICES ASSUME NEW k \in Keys, d.peers[k] # None, k \notin NewKeys(d)
               PROVE  /\ \A x \in d.removed \cup OldKeys(d) : x.id # k.id
                      /\ k \in d.upserted \/ k.id \notin changed \cup removed \cup patched
    BY DEF Apart
  <2>1. k.id \in Ids
    BY KeyFacts
  <2>2. k.id \notin removed /\ k.id \notin patched \ found
    BY <1>6
  <2>3. k.id \in changed \cup found => k = KeyIn(view, k.id)
    BY <1>6
  <2>4. k.id \notin rekeyed
    <3>1. k.id \in rekeyed => k = PatchedKey(view, k.id)
      BY ZenonT(40), SMTT(40), <1>5, <2>3
    <3> HIDE DEF rekeyed
    <3> QED BY SMTT(40), <1>2, <3>1
  <2>5. \A x \in d.removed \cup OldKeys(d) : x.id \in removed \cup rekeyed
    <3>1. \A i \in rekeyed : id_to_key[i] # None /\ i \in Ids
      BY ZenonT(40), <1>5
    <3>2. \A i \in removed \cup rekeyed : id_to_key[i] # None => id_to_key[i].id = i
      BY <1>4, <3>1
    <3> HIDE DEF rekeyed
    <3> QED BY SMTT(40), <1>1, <1>2, <3>1, <3>2
  <2>6. k.id \in changed \cup found => k \in d.upserted
    <3>1. CASE k.id \in changed
      BY SMTT(40), <1>1, <2>3, <3>1
    <3>2. CASE k.id \in found
      <4>1. k = PatchedKey(view, k.id)
        BY <1>5, <2>3, <3>2
      <4> QED BY SMTT(40), <1>1, <2>4, <3>2, <4>1
    <3> QED BY ZenonT(40), SMTT(40), <3>1, <3>2
  <2> QED BY <2>1, <2>2, <2>4, <2>5, <2>6
<1> QED BY SMTT(40), <1>9, <1>10, <1>11 DEF d

-------------------------------------------------------------------------------
\* The magic socket's index resolves a disco key only to a peer that has it.
IndexOK(m) ==
    /\ m.peers \in [Keys -> DiscoKeys \cup {None}]
    /\ m.index \in [DiscoKeys -> Keys \cup {None}]
    /\ \A k \in Keys : m.peers[k] # None => m.peers[k].id = k.id
    /\ \A e \in DiscoKeys : m.index[e] # None => m.peers[m.index[e]] = e

\* Peers of different nodes, each with a disco key.
Direct(ks, ps) ==
    /\ ks \in SUBSET Keys
    /\ \A k \in ks : DiscoOf(k, ps[k]) \in DiscoKeys
    /\ \A j, k \in ks : j.id = k.id => j = k

\* The disco key of a peer is its own.
LEMMA DiscoFacts ==
  ASSUME NEW k \in Keys, NEW p \in PeerSnapshots, p.disco # None
  PROVE  /\ DiscoOf(k, p) \in DiscoKeys /\ DiscoOf(k, p).id = k.id /\ DiscoOf(k, p) # None
<1>1. k.id \in Ids /\ p.disco \in Discos
  BY SMTT(40), KeyFacts DEF PeerSnapshots
<1> QED BY <1>1, NoneAssumption DEF DiscoOf, DiscoKeys

\* upsert_peer and remove_peer keep the index so; what they do to it.
LEMMA UpsertKeepsIndex ==
  ASSUME NEW m, IndexOK(m), NEW ks, NEW ps, Direct(ks, ps)
  PROVE  /\ IndexOK(Upsert(m, ks, ps))
         /\ \A k \in Keys : Upsert(m, ks, ps).peers[k] =
                               IF k \in ks THEN DiscoOf(k, ps[k]) ELSE m.peers[k]
         /\ \A k \in ks : Upsert(m, ks, ps).index[DiscoOf(k, ps[k])] = k
         /\ \A e \in DiscoKeys : (m.index[e] \notin ks /\ \A k \in ks : k.id # e.id) =>
               Upsert(m, ks, ps).index[e] = m.index[e]
<1> DEFINE n == Upsert(m, ks, ps)
<1>1. /\ n.peers = [k \in Keys |-> IF k \in ks THEN DiscoOf(k, ps[k]) ELSE m.peers[k]]
      /\ n.index = [e \in DiscoKeys |->
                      IF \E k \in ks : e = DiscoOf(k, ps[k])
                      THEN CHOOSE k \in ks : e = DiscoOf(k, ps[k])
                      ELSE IF m.index[e] \in ks THEN None ELSE m.index[e]]
  BY DEF Upsert
<1> HIDE DEF n
<1>2. \A k \in ks : k \in Keys /\ DiscoOf(k, ps[k]) \in DiscoKeys /\ DiscoOf(k, ps[k]).id = k.id
  BY DEF Direct, DiscoOf
<1>3. \A k \in Keys : n.peers[k] = IF k \in ks THEN DiscoOf(k, ps[k]) ELSE m.peers[k]
  BY <1>1
<1>4. ASSUME NEW k \in ks
      PROVE  n.index[DiscoOf(k, ps[k])] = k
  <2> DEFINE e == DiscoOf(k, ps[k])
  <2>1. n.index[e] = CHOOSE j \in ks : e = DiscoOf(j, ps[j])
    BY <1>1, <1>2
  <2>2. n.index[e] \in ks /\ e = DiscoOf(n.index[e], ps[n.index[e]])
    BY <2>1
  <2>3. n.index[e].id = k.id
    BY <1>2, <2>2
  <2> QED BY SMTT(40), <2>2, <2>3 DEF Direct
<1>5. ASSUME NEW e \in DiscoKeys
      PROVE  /\ n.index[e] \in Keys \cup {None}
             /\ n.index[e] # None => n.peers[n.index[e]] = e
             /\ (m.index[e] \notin ks /\ \A k \in ks : k.id # e.id) => n.index[e] = m.index[e]
  <2>1. CASE \E k \in ks : e = DiscoOf(k, ps[k])
    <3>1. PICK k \in ks : e = DiscoOf(k, ps[k])
      BY <2>1
    <3> QED BY <1>2, <1>3, <1>4, <3>1
  <2>2. CASE ~ \E k \in ks : e = DiscoOf(k, ps[k])
    <3>1. n.index[e] = IF m.index[e] \in ks THEN None ELSE m.index[e]
      BY <1>1, <2>2
    <3> QED BY <1>3, <2>2, <3>1 DEF IndexOK
  <2> QED BY <2>1, <2>2
<1>6. \A k \in Keys : /\ n.peers[k] \in DiscoKeys \cup {None}
                      /\ n.peers[k] # None => n.peers[k].id = k.id
  BY SMTT(40), <1>2, <1>3 DEF IndexOK
<1>7. n.peers \in [Keys -> DiscoKeys \cup {None}] /\ n.index \in [DiscoKeys -> Keys \cup {None}]
  BY Zenon, <1>1, <1>5, <1>6
<1>8. IndexOK(n)
  BY <1>5, <1>6, <1>7 DEF IndexOK
<1> QED BY <1>3, <1>4, <1>5, <1>8 DEF n

LEMMA RemoveKeepsIndex ==
  ASSUME NEW m, IndexOK(m), NEW ks \in SUBSET Keys
  PROVE  /\ IndexOK(Remove(m, ks))
         /\ \A k \in Keys : Remove(m, ks).peers[k] = IF k \in ks THEN None ELSE m.peers[k]
         /\ \A e \in DiscoKeys : (\A k \in ks : m.peers[k] # e) =>
               Remove(m, ks).index[e] = m.index[e]
<1> DEFINE n == Remove(m, ks)
<1>1. /\ n.peers = [k \in Keys |-> IF k \in ks THEN None ELSE m.peers[k]]
      /\ n.index = [e \in DiscoKeys |->
                      IF \E k \in ks : m.peers[k] = e THEN None ELSE m.index[e]]
  BY DEF Remove
<1> HIDE DEF n
<1>2. ASSUME NEW e \in DiscoKeys
      PROVE  /\ n.index[e] \in Keys \cup {None}
             /\ n.index[e] # None => n.peers[n.index[e]] = e
             /\ (\A k \in ks : m.peers[k] # e) => n.index[e] = m.index[e]
  BY <1>1 DEF IndexOK
<1>3. \A k \in Keys : /\ n.peers[k] = IF k \in ks THEN None ELSE m.peers[k]
                      /\ n.peers[k] \in DiscoKeys \cup {None}
                      /\ n.peers[k] # None => n.peers[k].id = k.id
  BY <1>1 DEF IndexOK
<1>4. n.peers \in [Keys -> DiscoKeys \cup {None}] /\ n.index \in [DiscoKeys -> Keys \cup {None}]
  BY <1>1, <1>2, <1>3
<1>5. IndexOK(n)
  BY ZenonT(40), SMTT(40), <1>2, <1>3, <1>4 DEF IndexOK
<1> QED BY <1>2, <1>3, <1>5 DEF n

-------------------------------------------------------------------------------
\* What a frame must leave of a peer for its disco key to resolve to it: it is
\* rekeyed; or its disco key is not one of a peer that goes, and it is upserted or
\* resolved before.
Linked(k, d) ==
    \/ k \in NewKeys(d)
    \/ /\ \A x \in d.removed \cup OldKeys(d) : magic[x] # DiscoOf(k, d.peers[k])
       /\ k \in d.upserted \/ disco_to_node[DiscoOf(k, d.peers[k])] = k

\* A sound delta takes the magic socket from the peers there are to d.peers.
LEMMA MagicPush ==
  ASSUME IInv, NEW d, SoundDelta(d),
         \A j, k \in Keys : (d.peers[j] # None /\ d.peers[k] # None /\ j.id = k.id) => j = k
  PROVE  LET m == PushToMagic([peers |-> magic, index |-> disco_to_node], d)
         IN /\ IndexOK(m)
            /\ \A k \in Keys : (d.peers[k] # None /\ d.peers[k].disco # None) =>
                  /\ m.peers[k] = DiscoOf(k, d.peers[k])
                  /\ Linked(k, d) => m.index[DiscoOf(k, d.peers[k])] = k
<1> DEFINE m0 == [peers |-> magic, index |-> disco_to_node]
           up == {k \in d.upserted : d.peers[k].disco # None}
           new == {k \in NewKeys(d) : d.peers[k].disco # None}
           old == OldKeys(d)
           m1 == Upsert(m0, up, d.peers)
           m2 == Remove(m1, d.removed)
           m3 == Remove(m2, old)
           m4 == Upsert(m3, new, d.peers)
<1>1. m4 = PushToMagic(m0, d)
  BY SMTT(40) DEF PushToMagic
<1>2. IndexOK(m0) /\ m0.peers = magic /\ m0.index = disco_to_node
  BY DEF IndexOK, IInv, TypeOK, OwnDisco, MagicFollows
<1>3. /\ d.upserted \cup NewKeys(d) \subseteq {k \in Keys : d.peers[k] # None}
      /\ d.removed \cup old \subseteq {k \in Keys : d.peers[k] = None}
      /\ \A k \in Keys : d.peers[k] # None => d.peers[k] \in PeerSnapshots
  BY DEF SoundDelta
<1> HIDE DEF m0, m1, m2, m3, m4, up, new, old
<1>4. \A k \in Keys : (d.peers[k] # None /\ d.peers[k].disco # None) =>
          DiscoOf(k, d.peers[k]) \in DiscoKeys /\ DiscoOf(k, d.peers[k]).id = k.id
  BY <1>3, DiscoFacts
<1>5. /\ up \subseteq {k \in Keys : d.peers[k] # None /\ d.peers[k].disco # None}
      /\ new \subseteq {k \in Keys : d.peers[k] # None /\ d.peers[k].disco # None}
  BY <1>3 DEF up, new
<1>6. Direct(up, d.peers) /\ Direct(new, d.peers)
  BY <1>4, <1>5 DEF Direct
<1>7. d.removed \in SUBSET Keys /\ old \in SUBSET Keys
  BY ZenonT(40), SMTT(40), <1>3
<1>8. /\ IndexOK(m1)
      /\ \A k \in Keys : m1.peers[k] = IF k \in up THEN DiscoOf(k, d.peers[k]) ELSE magic[k]
      /\ \A k \in up : m1.index[DiscoOf(k, d.peers[k])] = k
      /\ \A e \in DiscoKeys : (disco_to_node[e] \notin up /\ \A k \in up : k.id # e.id) =>
            m1.index[e] = disco_to_node[e]
  BY SMTT(40), <1>2, <1>6, UpsertKeepsIndex DEF m1
<1>9. /\ IndexOK(m2)
      /\ \A k \in Keys : m2.peers[k] = IF k \in d.removed THEN None ELSE m1.peers[k]
      /\ \A e \in DiscoKeys : (\A k \in d.removed : m1.peers[k] # e) => m2.index[e] = m1.index[e]
  BY ZenonT(40), SMTT(40), <1>7, <1>8, RemoveKeepsIndex DEF m2
<1>10. /\ IndexOK(m3)
       /\ \A k \in Keys : m3.peers[k] = IF k \in old THEN None ELSE m2.peers[k]
       /\ \A e \in DiscoKeys : (\A k \in old : m2.peers[k] # e) => m3.index[e] = m2.index[e]
  BY ZenonT(40), SMTT(40), <1>7, <1>9, RemoveKeepsIndex DEF m3
<1>11. /\ IndexOK(m4)
       /\ \A k \in Keys : m4.peers[k] = IF k \in new THEN DiscoOf(k, d.peers[k]) ELSE m3.peers[k]
       /\ \A k \in new : m4.index[DiscoOf(k, d.peers[k])] = k
       /\ \A e \in DiscoKeys : (m3.index[e] \notin new /\ \A k \in new : k.id # e.id) =>
             m4.index[e] = m3.index[e]
  BY SMTT(40), <1>6, <1>10, UpsertKeepsIndex DEF m4
<1>12. ASSUME NEW k \in Keys, d.peers[k] # None, d.peers[k].disco # None
       PROVE  m4.peers[k] = DiscoOf(k, d.peers[k])
  <2>1. k \notin d.removed \cup old
    BY ZenonT(40), SMTT(40), <1>3, <1>12
  <2>2. CASE k \in up \cup new
    BY SMTT(40), <1>8, <1>9, <1>10, <1>11, <2>1, <2>2
  <2>3. CASE k \notin up \cup new
    <3>1. k \notin d.upserted \cup NewKeys(d)
      BY SMTT(40), <1>12, <2>3 DEF up, new
    <3>2. d.peers[k] = peers[k]
      BY <2>1, <3>1 DEF SoundDelta, old
    <3>3. magic[k] = DiscoOf(k, d.peers[k])
      BY <1>12, <3>2 DEF IInv, MagicFollows
    <3> QED BY <1>8, <1>9, <1>10, <1>11, <2>1, <2>3, <3>3
  <2> QED BY <2>2, <2>3
<1>13. ASSUME NEW k \in Keys, d.peers[k] # None, d.peers[k].disco # None, Linked(k, d)
       PROVE  m4.index[DiscoOf(k, d.peers[k])] = k
  <2> DEFINE e == DiscoOf(k, d.peers[k])
  <2>1. e \in DiscoKeys /\ e.id = k.id
    BY <1>4, <1>13
  <2> HIDE DEF e
  <2>2. CASE k \in NewKeys(d)
    <3>1. k \in new
      BY SMTT(40), <1>13, <2>2 DEF new
    <3> QED BY <1>11, <3>1
  <2>3. CASE k \notin NewKeys(d)
    <3>1. /\ \A x \in d.removed \cup old : magic[x] # e
          /\ k \in d.upserted \/ disco_to_node[e] = k
      BY SMTT(40), <1>13, <2>3 DEF Linked, e, old
    <3>2. m1.index[e] = k
      <4>1. CASE k \in d.upserted
        <5>1. k \in up
          BY <1>13, <4>1 DEF up
        <5> QED BY <1>8, <5>1 DEF e
      <4>2. CASE k \notin d.upserted
        <5>1. k \notin up
          BY SMTT(40), <4>2 DEF up
        <5>2. \A j \in up : j.id # e.id
          BY <1>5, <1>13, <2>1, <5>1
        <5>3. disco_to_node[e] = k
          BY <3>1, <4>2
        <5> QED BY <1>8, <2>1, <5>1, <5>2, <5>3
      <4> QED BY <4>1, <4>2
    <3>3. \A x \in d.removed \cup old : x \in Keys /\ x \notin up
      BY ZenonT(40), SMTT(40), <1>3, <1>5
    <3>4. m2.index[e] = k
      BY ZenonT(40), SMTT(40), <1>8, <1>9, <2>1, <3>1, <3>2, <3>3
    <3>5. \A x \in old : m2.peers[x] # e
      <4>1. e # None
        BY ZenonT(40), SMTT(40), <2>1, NoneAssumption
      <4> QED BY <1>8, <1>9, <3>1, <3>3, <4>1
    <3>6. m3.index[e] = k
      BY ZenonT(40), SMTT(40), <1>10, <2>1, <3>4, <3>5
    <3>7. k \notin new
      BY SMTT(40), <2>3 DEF new
    <3>8. \A j \in new : j.id # e.id
      BY ZenonT(40), SMTT(40), <1>5, <1>13, <2>1, <3>7
    <3> QED BY SMTT(40), <1>11, <2>1, <3>6, <3>7, <3>8 DEF e
  <2> QED BY SMTT(40), <2>2, <2>3
<1> QED BY ZenonT(40), SMTT(40), <1>1, <1>11, <1>12, <1>13 DEF m0

\* A sound delta takes peer_regions and the engine from the peers there are to d.peers;
\* what they held besides stays, and they gain nothing else.
LEMMA RegionPush ==
  ASSUME IInv, NEW d, SoundDelta(d), PickHome, NEW same
  PROVE  LET r == PushToRegions(peer_regions, d)
             e == PushToEngine(engine, d, same)
         IN /\ our_home' \in Homes /\ derp_map_set' \in BOOLEAN /\ HomeUnset'
            /\ r \in [Keys -> Homes \cup {None}] /\ e \in [Keys -> Homes \cup {None}]
            /\ \A k \in Keys : IF r[k] = 0 THEN e[k] # None ELSE e[k] = r[k]
            /\ \A k \in Keys : d.peers[k] # None =>
                  r[k] \in IF d.peers[k].home # 0 THEN {d.peers[k].home} ELSE {0, our_home'}
            /\ (open /\ clean) => \A k \in Keys : e[k] # None => d.peers[k] # None
<1> DEFINE r == PushToRegions(peer_regions, d)
           e == PushToEngine(engine, d, same)
           up == d.upserted \cup NewKeys(d)
           gone == d.removed \cup OldKeys(d)
<1>1. /\ our_home' \in Homes /\ derp_map_set' \in BOOLEAN /\ HomeUnset'
      /\ our_home \in {0, our_home'}
  BY ZenonT(40) DEF IInv, TypeOK, PickHome, homeVars, HomeUnset, Homes
<1>2. /\ up \subseteq {k \in Keys : d.peers[k] # None}
      /\ gone \subseteq {k \in Keys : d.peers[k] = None}
      /\ \A k \in Keys : d.peers[k] # peers[k] => k \in up \cup gone
      /\ \A k \in Keys : d.peers[k] # None => d.peers[k] \in PeerSnapshots
  BY SMTT(40) DEF SoundDelta
<1>3. ASSUME NEW k \in Keys, d.peers[k] # None
      PROVE  /\ RegionOf(d.peers[k]) \in Homes
             /\ RegionOf(d.peers[k]) \in
                   IF d.peers[k].home # 0 THEN {d.peers[k].home} ELSE {0, our_home'}
  BY ZenonT(40), SMTT(40), <1>1, <1>2, <1>3 DEF RegionOf, PeerSnapshots
<1>4. /\ r = [k \in Keys |-> r[k]] /\ e = [k \in Keys |-> e[k]]
  BY DEF PushToRegions, PushToEngine
<1>5. ASSUME NEW k \in Keys
      PROVE  /\ k \in up =>
                   /\ r[k] = RegionOf(d.peers[k])
                   /\ e[k] = EngineUpsert(engine[k], RegionOf(d.peers[k]), k \in same)
             /\ k \in gone => r[k] = None /\ e[k] = None
             /\ k \notin up \cup gone => r[k] = peer_regions[k] /\ e[k] = engine[k]
  BY ZenonT(40), <1>2 DEF PushToRegions, PushToEngine
<1> HIDE DEF r, e, up, gone
<1>6. /\ engine \in [Keys -> Homes \cup {None}] /\ peer_regions \in [Keys -> Homes \cup {None}]
      /\ \A k \in Keys : IF peer_regions[k] = 0 THEN engine[k] # None
                                               ELSE engine[k] = peer_regions[k]
      /\ \A k \in Keys : peers[k] # None =>
            peer_regions[k] \in IF peers[k].home # 0 THEN {peers[k].home} ELSE {0, our_home}
  BY DEF IInv, TypeOK, EngineFollows
<1>7. 0 # None /\ None \notin Homes
  BY ZenonT(40), SMTT(40), NetMapAssumption DEF Homes
<1>8. ASSUME NEW k \in Keys
      PROVE  /\ r[k] \in Homes \cup {None} /\ e[k] \in Homes \cup {None}
             /\ IF r[k] = 0 THEN e[k] # None ELSE e[k] = r[k]
  <2>1. CASE k \in up
    <3>1. d.peers[k] # None
      BY <1>2, <2>1
    <3> QED BY ZenonT(40), <1>3, <1>5, <1>6, <1>7, <2>1, <3>1 DEF EngineUpsert
  <2>2. CASE k \notin up
    BY Zenon, <1>5, <1>6, <1>7, <2>2
  <2> QED BY SMTT(40), <2>1, <2>2
<1>9. ASSUME NEW k \in Keys, d.peers[k] # None
      PROVE  r[k] \in IF d.peers[k].home # 0 THEN {d.peers[k].home} ELSE {0, our_home'}
  <2>1. k \notin gone
    BY ZenonT(40), SMTT(40), <1>2, <1>9
  <2>2. CASE k \in up
    BY SMTT(40), <1>3, <1>5, <1>9, <2>2
  <2>3. CASE k \notin up
    BY ZenonT(40), <1>1, <1>2, <1>5, <1>6, <1>9, <2>1, <2>3
  <2> QED BY <2>2, <2>3
<1>10. ASSUME open /\ clean, NEW k \in Keys, e[k] # None
       PROVE  d.peers[k] # None
  BY Zenon, <1>2, <1>5, <1>10 DEF IInv, EngineFollows
<1>11. r \in [Keys -> Homes \cup {None}] /\ e \in [Keys -> Homes \cup {None}]
  BY SMTT(40), <1>4, <1>8
<1> QED BY <1>1, <1>8, <1>9, <1>10, <1>11 DEF r, e

\* A frame whose delta is sound and describes the view.
LEMMA FrameIInv ==
  ASSUME IInv, open, NEW view \in View, NEW d, SoundDelta(d), Frame(view, d),
         synced' \in BOOLEAN, Describes(d, view, synced'), shadowed' \in SUBSET Ids,
         \A k \in Keys : (d.peers[k] # None /\ d.peers[k].disco # None /\ k.id \notin shadowed')
                            => Linked(k, d)
  PROVE  IInv'
<1> DEFINE m == PushToMagic([peers |-> magic, index |-> disco_to_node], d)
<1>1. /\ peers' = d.peers /\ id_to_key' = d.id_to_key /\ told' = view /\ saved' = TRUE
      /\ PickHome /\ peer_regions' = PushToRegions(peer_regions, d)
      /\ magic' = m.peers /\ disco_to_node' = m.index
      /\ open' = open /\ clean' = clean
  BY ZenonT(40) DEF Frame
<1>2. PICK same : engine' = PushToEngine(engine, d, same)
  BY ZenonT(40) DEF Frame
<1>3. \A j, k \in Keys : (d.peers[j] # None /\ d.peers[k] # None /\ j.id = k.id) => j = k
  BY SMTT(40) DEF Describes
<1>4. /\ IndexOK(m)
      /\ \A k \in Keys : (d.peers[k] # None /\ d.peers[k].disco # None) =>
            /\ m.peers[k] = DiscoOf(k, d.peers[k])
            /\ Linked(k, d) => m.index[DiscoOf(k, d.peers[k])] = k
  BY Zenon, <1>3, MagicPush
<1> HIDE DEF m
<1>5. view # None
  BY SMTT(40), NoneAssumption DEF View
<1>6. /\ our_home' \in Homes /\ derp_map_set' \in BOOLEAN /\ HomeUnset'
      /\ peer_regions' \in [Keys -> Homes \cup {None}] /\ engine' \in [Keys -> Homes \cup {None}]
      /\ EngineFollows'
  BY ZenonT(40), <1>1, <1>2, RegionPush DEF EngineFollows
<1>7. TypeOK'
  <2>1. peers' \in [Keys -> PeerSnapshots \cup {None}] /\ id_to_key' \in [Ids -> Keys \cup {None}]
    BY ZenonT(40), <1>1 DEF SoundDelta
  <2>2. /\ magic' \in [Keys -> DiscoKeys \cup {None}]
        /\ disco_to_node' \in [DiscoKeys -> Keys \cup {None}]
    BY SMTT(40), <1>1, <1>4 DEF IndexOK
  <2>3. open \in BOOLEAN /\ clean \in BOOLEAN
    BY ZenonT(40) DEF IInv, TypeOK
  <2>4. open' \in BOOLEAN /\ clean' \in BOOLEAN
    BY ZenonT(40), <1>1, <2>3
  <2> QED BY ZenonT(40), <1>1, <1>6, <2>1, <2>2, <2>4 DEF TypeOK
<1>8. ClosedIsEmpty' /\ SyncedWasTold'
  <2>1. open' /\ told' # None
    BY ZenonT(40), <1>1, <1>5
  <2> QED BY ZenonT(40), <2>1 DEF ClosedIsEmpty, SyncedWasTold
<1>9. NetmapIsServers'
  <2>1. told' = view /\ peers' = d.peers /\ id_to_key' = d.id_to_key
    BY ZenonT(40), <1>1
  <2> QED BY ZenonT(40), <1>5, <2>1 DEF Describes, NetmapIsServers, KeyIn, SnapshotIn, Listed
<1>10. OwnDisco'
  <2>1. \A k \in Keys : m.peers[k] # None => m.peers[k].id = k.id
    BY ZenonT(40), <1>4 DEF IndexOK
  <2>2. magic' = m.peers
    BY ZenonT(40), <1>1
  <2> QED BY ZenonT(40), <2>1, <2>2 DEF OwnDisco
<1>11. MagicFollows'
  BY ZenonT(40), <1>1, <1>4 DEF IndexOK, MagicFollows, DiscoOf
<1> QED BY SMTT(40), <1>6, <1>7, <1>8, <1>9, <1>10, <1>11 DEF IInv

LEMMA FullFrameIInv == ASSUME IInv, NEW view \in View, FullFrame(view) PROVE IInv'
<1> DEFINE d == Replaced(view)
<1>1. /\ open /\ synced' = TRUE /\ Frame(view, d)
      /\ shadowed' = {i \in Listed(view) : \E k \in d.removed :
                         magic[k] = DiscoOf(KeyIn(view, i), SnapshotIn(view, i))}
  BY ZenonT(40), SMTT(40) DEF FullFrame
<1>2. d.upserted = KeysIn(view) /\ OldKeys(d) = {}
  BY DEF Replaced, Delta, OldKeys
<1>3. SoundDelta(d) /\ Describes(d, view, TRUE)
  BY ZenonT(40), ReplacedIsSound
<1> HIDE DEF d
<1>4. ASSUME NEW k \in Keys, d.peers[k] # None, k.id \notin shadowed'
      PROVE  Linked(k, d)
  <2>1. /\ k.id \in Listed(view) /\ k = KeyIn(view, k.id) /\ d.peers[k] = SnapshotIn(view, k.id)
    BY <1>3, <1>4, KeyFacts DEF Describes, Listed
  <2>2. k \in d.upserted
    BY ZenonT(40), SMTT(40), <1>2, <2>1 DEF KeysIn
  <2>3. \A x \in d.removed : magic[x] # DiscoOf(k, d.peers[k])
    BY SMTT(40), <1>1, <1>4, <2>1
  <2> QED BY ZenonT(40), SMTT(40), <1>2, <2>2, <2>3 DEF Linked
<1>5. shadowed' \in SUBSET Ids
  BY <1>1 DEF Listed
<1> QED BY ZenonT(40), <1>1, <1>3, <1>4, <1>5, FrameIInv

LEMMA DeltaFrameIInv ==
  ASSUME IInv, NEW view \in View, NEW whole \in SUBSET Ids, DeltaFrame(view, whole)
  PROVE  IInv'
<1> DEFINE differs == {i \in Ids : view[i] # told[i]}
           added == {i \in differs : told[i] = None}
           removed == {i \in differs : view[i] = None}
           updated == differs \ (added \cup removed)
           changed == added \cup whole
           patched == updated \ whole
           d == Merged(view, changed, removed, patched)
<1>1. /\ open /\ told # None /\ synced' = synced /\ shadowed' = shadowed \ differs
      /\ whole \subseteq {i \in updated : view[i].gen = told[i].gen}
      /\ Frame(view, d)
  BY ZenonT(40), SMTT(40) DEF DeltaFrame
<1>2. /\ changed \in SUBSET Ids /\ removed \in SUBSET Ids /\ patched \in SUBSET Ids
      /\ changed \cap removed = {} /\ changed \cap patched = {} /\ removed \cap patched = {}
      /\ \A i \in changed : view[i] # None /\ (told[i] # None => view[i].gen = told[i].gen)
      /\ \A i \in removed : view[i] = None
      /\ \A i \in patched : view[i] # None /\ told[i] # None
      /\ \A i \in Ids \ (changed \cup removed \cup patched) : view[i] = told[i]
  BY ZenonT(40), SMTT(40), <1>1
<1>3. differs \subseteq changed \cup removed \cup patched
  BY SMTT(40)
<1> HIDE DEF changed, removed, patched, differs
<1>4. /\ SoundDelta(d) /\ Describes(d, view, synced)
      /\ Apart(d, changed \cup removed \cup patched)
  BY ZenonT(40), <1>1, <1>2, MergedIsSound
<1> HIDE DEF d
<1>5. synced \in BOOLEAN /\ shadowed' \in SUBSET Ids
  BY <1>1 DEF IInv, TypeOK
<1>6. ASSUME NEW k \in Keys, d.peers[k] # None, d.peers[k].disco # None, k.id \notin shadowed'
      PROVE  Linked(k, d)
  <2>1. CASE k \in NewKeys(d)
    BY SMTT(40), <2>1 DEF Linked
  <2>2. CASE k \notin NewKeys(d)
    <3>1. /\ \A x \in d.removed \cup OldKeys(d) : x.id # k.id
          /\ k \in d.upserted \/ k.id \notin changed \cup removed \cup patched
      BY ZenonT(40), SMTT(40), <1>4, <1>6, <2>2 DEF Apart
    <3>2. \A x \in d.removed \cup OldKeys(d) : magic[x] # DiscoOf(k, d.peers[k])
      <4>1. /\ \A x \in d.removed \cup OldKeys(d) : x \in Keys
            /\ d.peers[k] \in PeerSnapshots
        BY SMTT(40), <1>4, <1>6 DEF SoundDelta
      <4>2. DiscoOf(k, d.peers[k]).id = k.id /\ DiscoOf(k, d.peers[k]) # None
        BY SMTT(40), <1>6, <4>1, DiscoFacts
      <4> QED BY ZenonT(40), SMTT(40), <3>1, <4>1, <4>2 DEF IInv, OwnDisco
    <3>3. CASE k \notin d.upserted
      <4>1. k.id \notin shadowed
        BY <1>1, <1>3, <1>6, <3>1, <3>3
      <4>2. k \notin d.removed \cup OldKeys(d)
        BY ZenonT(40), SMTT(40), <3>1
      <4>3. d.peers[k] = peers[k]
        BY SMTT(40), <1>4, <2>2, <3>3, <4>2 DEF SoundDelta
      <4>4. disco_to_node[DiscoOf(k, d.peers[k])] = k
        BY SMTT(40), <1>6, <4>1, <4>3 DEF IInv, MagicFollows
      <4> QED BY <3>2, <4>4 DEF Linked
    <3> QED BY ZenonT(40), SMTT(40), <3>2, <3>3 DEF Linked
  <2> QED BY ZenonT(40), SMTT(40), <2>1, <2>2
<1> QED BY ZenonT(40), SMTT(40), <1>1, <1>4, <1>5, <1>6, FrameIInv

\* Dropping the MapClient leaves an empty NetMap, of which nothing is to be shown.
LEMMA Dropped ==
  ASSUME IInv, DropMapClient
  PROVE  /\ ClosedIsEmpty' /\ SyncedWasTold' /\ NetmapIsServers' /\ open' = FALSE
         /\ \A k \in Keys : peers'[k] = None
         /\ told' = None /\ synced' = FALSE
         /\ peers' \in [Keys -> PeerSnapshots \cup {None}] /\ id_to_key' \in [Ids -> Keys \cup {None}]
<1>1. /\ open' = FALSE /\ told' = None /\ peers' = NoPeers /\ id_to_key' = NoIds /\ synced' = FALSE
  BY DEF DropMapClient
<1>2. (\A k \in Keys : peers'[k] = None) /\ (\A i \in Ids : id_to_key'[i] = None)
  BY <1>1 DEF NoPeers, NoIds
<1>3. /\ peers' \in [Keys -> PeerSnapshots \cup {None}]
      /\ id_to_key' \in [Ids -> Keys \cup {None}]
  BY <1>1 DEF NoPeers, NoIds
<1> QED BY <1>1, <1>2, <1>3 DEF ClosedIsEmpty, SyncedWasTold, NetmapIsServers

\* clear_engine_peers finds every peer of the engine in peer_regions.
LEMMA ParkEmpties == ASSUME IInv, Park PROVE engine' = NoPeers
<1>1. \A k \in Keys : IF peer_regions[k] = 0 THEN engine[k] # None ELSE engine[k] = peer_regions[k]
  BY ZenonT(40), SMTT(40) DEF IInv, EngineFollows
<1>2. engine' = [k \in Keys |-> IF peer_regions[k] # None THEN None ELSE engine[k]]
  BY DEF Park
<1>3. None # 0
  BY NetMapAssumption
<1> QED BY <1>1, <1>2, <1>3 DEF NoPeers

\* Whatever ends a session: the engine and peer_regions keep the same keys, and the
\* magic socket's index stays sound.
LEMMA EndIInv ==
  ASSUME IInv, Lost \/ PersistFails \/ Park \/ Rebuild
  PROVE  IInv'
<1>1. DropMapClient
  BY Zenon DEF Lost, PersistFails, Park, Rebuild
<1>2. /\ saved' \in BOOLEAN /\ clean' \in BOOLEAN /\ HomeUnset'
      /\ our_home' \in Homes /\ derp_map_set' \in BOOLEAN /\ shadowed' = {}
  BY Zenon, <1>1 DEF Lost, PersistFails, Park, Rebuild, IInv, TypeOK, homeVars, HomeUnset, Homes,
              DropMapClient
<1>3. /\ peer_regions' \in [Keys -> Homes \cup {None}] /\ engine' \in [Keys -> Homes \cup {None}]
      /\ \A k \in Keys : IF peer_regions'[k] = 0 THEN engine'[k] # None
                                                ELSE engine'[k] = peer_regions'[k]
  <2>1. CASE Lost \/ PersistFails
    BY Zenon, <2>1 DEF Lost, PersistFails, planeVars, IInv, TypeOK, EngineFollows
  <2>2. CASE Park
    BY Zenon, <2>2, ParkEmpties, NetMapAssumption DEF Park, NoPeers
  <2>3. CASE Rebuild
    BY <2>3, NetMapAssumption DEF Rebuild, NoPeers
  <2> QED BY <2>1, <2>2, <2>3
<1>4. /\ magic' \in [Keys -> DiscoKeys \cup {None}]
      /\ disco_to_node' \in [DiscoKeys -> Keys \cup {None}]
      /\ OwnDisco'
      /\ \A e \in DiscoKeys : disco_to_node'[e] # None => magic'[disco_to_node'[e]] = e
  <2>1. CASE Rebuild
    BY SMTT(40), <2>1 DEF Rebuild, NoPeers, NoDiscos, OwnDisco
  <2>2. CASE Lost \/ PersistFails \/ Park
    BY Zenon, <2>2 DEF Lost, PersistFails, Park, planeVars, IInv, TypeOK, OwnDisco, MagicFollows
  <2> QED BY <2>1, <2>2
<1>5. TypeOK'
  BY ZenonT(40), SMTT(40), <1>1, <1>2, <1>3, <1>4, Dropped DEF TypeOK
<1>6. EngineFollows' /\ MagicFollows'
  BY <1>1, <1>3, <1>4, Dropped DEF EngineFollows, MagicFollows
<1> QED BY <1>1, <1>2, <1>4, <1>5, <1>6, Dropped DEF IInv

LEMMA StartIInv == ASSUME IInv, Start PROVE IInv'
<1>1. /\ peers' = peers /\ id_to_key' = id_to_key /\ ~synced' /\ open' = TRUE
      /\ synced' \in BOOLEAN /\ clean' = (engine = NoPeers)
      /\ our_home' = our_home /\ derp_map_set' = derp_map_set
      /\ engine' = engine /\ peer_regions' = peer_regions
      /\ magic' = magic /\ disco_to_node' = disco_to_node /\ saved' = saved
      /\ shadowed' = shadowed
  BY ZenonT(40) DEF Start, netmapVars, homeVars, planeVars
<1>2. told' \in View \cup {None}
  BY DEF Start
<1>3. (\A k \in Keys : peers[k] = None) /\ (\A i \in Ids : id_to_key[i] = None)
  BY ZenonT(40), SMTT(40) DEF Start, IInv, ClosedIsEmpty, NoPeers, NoIds
<1>4. TypeOK'
  BY ZenonT(40), SMTT(40), <1>1, <1>2 DEF IInv, TypeOK
<1>5. ClosedIsEmpty' /\ SyncedWasTold' /\ NetmapIsServers' /\ HomeUnset' /\ OwnDisco'
  BY ZenonT(40), SMTT(40), <1>1, <1>3 DEF IInv, ClosedIsEmpty, SyncedWasTold, NetmapIsServers, HomeUnset, OwnDisco
<1>6. EngineFollows'
  BY SMTT(40), <1>1, <1>3 DEF IInv, EngineFollows, NoPeers
<1>7. MagicFollows'
  BY Zenon, <1>1, <1>3 DEF IInv, MagicFollows
<1> QED BY <1>4, <1>5, <1>6, <1>7 DEF IInv

-------------------------------------------------------------------------------
\* The inductive invariant holds in every reachable state.
THEOREM Inductive == Spec => []IInv
<1>1. Init => IInv
  <2> SUFFICES ASSUME Init PROVE IInv
    OBVIOUS
  <2>1. TypeOK
    BY Zenon DEF Init, TypeOK, NoPeers, NoIds, NoDiscos, Homes
  <2>2. /\ \A k \in Keys : peers[k] = None /\ engine[k] = None /\ peer_regions[k] = None
                            /\ magic[k] = None
        /\ \A i \in Ids : id_to_key[i] = None
        /\ \A e \in DiscoKeys : disco_to_node[e] = None
    BY DEF Init, NoPeers, NoIds, NoDiscos
  <2>3. ClosedIsEmpty /\ SyncedWasTold /\ HomeUnset /\ OwnDisco /\ NetmapIsServers
    BY ZenonT(40), SMTT(40), <2>2 DEF Init, ClosedIsEmpty, SyncedWasTold, HomeUnset, OwnDisco, NetmapIsServers
  <2>4. EngineFollows /\ MagicFollows
    BY <2>2, NetMapAssumption DEF EngineFollows, MagicFollows
  <2> QED BY <2>1, <2>3, <2>4 DEF IInv
<1>2. IInv /\ [Next]_vars => IInv'
  <2> SUFFICES ASSUME IInv, [Next]_vars PROVE IInv'
    OBVIOUS
  <2>1. CASE Next
    BY SMTT(40), <2>1, FullFrameIInv, DeltaFrameIInv, EndIInv, StartIInv DEF Next
  <2>2. CASE UNCHANGED vars
    BY Zenon, <2>2 DEF vars, netmapVars, homeVars, planeVars, IInv, TypeOK, ClosedIsEmpty, SyncedWasTold,
                HomeUnset, OwnDisco, NetmapIsServers, EngineFollows, MagicFollows
  <2> QED BY <2>1, <2>2
<1> QED BY <1>1, <1>2, PTL DEF Spec

\* The NetMap is what the control plane has said on this stream, whatever mix of
\* full lists, changes, removals, patches and resumed sessions brought it there.
THEOREM NetmapCorrect == Spec => []NetmapIsServers
<1>1. IInv => NetmapIsServers
  BY DEF IInv
<1> QED BY <1>1, Inductive, PTL

\* The engine and peer_regions follow the NetMap, through lost sessions, failed
\* writes, parks and the picking of our home.
THEOREM EngineCorrect == Spec => []EngineFollows
<1>1. IInv => EngineFollows
  BY DEF IInv
<1> QED BY <1>1, Inductive, PTL

\* The magic socket has every peer with a direct path under its current disco key,
\* which resolves to that peer unless a full list gave it a new node key; a disco key
\* resolves to no other peer.
THEOREM MagicCorrect == Spec => []MagicFollows
<1>1. IInv => MagicFollows
  BY DEF IInv
<1> QED BY <1>1, Inductive, PTL

\* A park leaves the engine without a peer.
THEOREM ParkEmptiesEngine == Spec => [][Park => engine' = NoPeers]_vars
<1>1. ASSUME IInv, [Next]_vars PROVE [Park => engine' = NoPeers]_vars
  BY <1>1, ParkEmpties
<1> QED BY <1>1, Inductive, PTL DEF Spec
===============================================================================
