---------------------------- MODULE DerpMux_proofs -----------------------------
(* Proofs about DerpMux, for any number of callers, regions and connections    *)
(* and any cap: how far the pool can pass its cap, and that an eviction spares *)
(* the home although the home is not stored under the pool's mutex.            *)
EXTENDS DerpMux, FiniteSetTheorems, TLAPS

CallPCs == {"ensure", "reap", "victim", "dial", "insert", "have", "sendErr", "release", "unmark"}
Holding == {"insert", "have", "sendErr", "release"}

\* A call has a region; between the dial and the release it holds a connection.
CallsWellFormed ==
    \A t \in Callers :
       /\ pc[t] \in CallPCs => call[t].region \in Regions
       /\ pc[t] \in Holding => hold[t] \in Conns

\* Who chooses a victim has the mutex.
VictimHasLock == \A t \in Callers : pc[t] = "victim" => lock = t

\* set_home has stored the new home and has not looked into the pool since.
HomeIsNew == call[Control].op = "set_home" /\ pc[Control] = "ensure"

\* The home an eviction acts on is the home, or the home is new.
SeenIsHome == \A t \in Callers : pc[t] = "victim" => call[t].seen = home \/ HomeIsNew

IInv == TypeOK /\ CallsWellFormed /\ VictimHasLock /\ SeenIsHome

USE DEF Conns, NoConn

-------------------------------------------------------------------------------
\* The typed constants of the model.
LEMMA Records ==
  /\ NoCall \in Calls /\ NoCall.op = "none"
  /\ Unused \in ConnStates /\ NewConn \in ConnStates
  /\ \A r \in Regions, o \in {"send", "set_home"} :
        [op |-> o, region |-> r, seen |-> NoRegion] \in Calls
  /\ \A e \in ConnStates, x \in IoStates : [e EXCEPT !.io = x] \in ConnStates
  /\ \A e \in ConnStates : [e EXCEPT !.shutdown = TRUE] \in ConnStates
BY Zenon DEF NoCall, Calls, Unused, NewConn, ConnStates, IoStates

\* The inductive invariant holds initially.
LEMMA InitIInv == Init => IInv
BY MuxAssumption, Records DEF Init, IInv, TypeOK, CallsWellFormed, VictimHasLock, SeenIsHome,
   CallPCs, Holding, PCs

\* A step of an I/O thread.
IoStep(c) == Io(c) \/ IoTurnEnds(c) \/ IoDies(c) \/ IoRestarting(c)

\* It changes nothing but where that thread is.
LEMMA IoChanges ==
  ASSUME NEW c \in Conns, conn \in [Conns -> ConnStates], IoStep(c)
  PROVE  /\ \E x \in IoStates : conn' = [conn EXCEPT ![c].io = x]
         /\ UNCHANGED <<derp_map, home, conns, lock, homes, pc, call, hold, drop>>
<1>1. UNCHANGED <<derp_map, home, conns, lock, homes, pc, call, hold, drop>>
  BY DEF IoStep, Io, IoTurn, IoStops, IoReturns, IoTurnEnds, IoDies, IoRestarting
<1>2. CASE IoTurn(c) \/ IoStops(c) \/ IoTurnEnds(c) \/ IoDies(c) \/ IoRestarting(c)
  <2>1. {"running", "turn", "asleep", "exiting"} \subseteq IoStates
    BY DEF IoStates
  <2> QED
    BY <1>1, <1>2, <2>1 DEF IoTurn, IoStops, IoTurnEnds, IoDies, IoRestarting
<1>3. CASE IoReturns(c)
  <2> DEFINE x == IF conn[c].io = "asleep" THEN "exiting" ELSE "finished"
  <2>1. x \in IoStates
    BY DEF IoStates
  <2>2. conn' = [conn EXCEPT ![c].io = x]
    BY <1>3 DEF IoReturns
  <2> QED
    BY Zenon, <1>1, <2>1, <2>2
<1> QED
  BY <1>2, <1>3 DEF IoStep, Io

\* Every step keeps the inductive invariant.
LEMMA NextIInv == IInv /\ [Next]_vars => IInv'
<1> SUFFICES ASSUME IInv, [Next]_vars PROVE IInv'
  OBVIOUS
<1> USE MuxAssumption, Records DEF IInv, TypeOK, CallsWellFormed, VictimHasLock, SeenIsHome, HomeIsNew,
        CallPCs, Holding, PCs, At
<1>1. ASSUME NEW t \in Callers, EnsureFast(t) PROVE IInv'
  BY <1>1 DEF EnsureFast, Pooled, Live
<1>2. ASSUME NEW t \in Callers, EnsureSlow(t) PROVE IInv'
  <2>1. CASE call[t].region \in derp_map
    <3>1. TypeOK'
      BY Zenon, <1>2, <2>1 DEF EnsureSlow, GiveUp
    <3>2. CallsWellFormed'
      BY <1>2, <2>1 DEF EnsureSlow, GiveUp
    <3>3. VictimHasLock' /\ SeenIsHome'
      BY <1>2, <2>1 DEF EnsureSlow, GiveUp
    <3> QED
      BY <3>1, <3>2, <3>3
  <2>2. CASE call[t].region \notin derp_map
    <3>1. TypeOK'
      <4>1. call' \in [Callers -> Calls]
        BY ZenonT(40), SMTT(40), <1>2, <2>2 DEF EnsureSlow, GiveUp
      <4>2. pc' \in [Callers -> PCs]
        BY <1>2, <2>2 DEF EnsureSlow, GiveUp
      <4> QED
        BY <4>1, <4>2, <1>2 DEF EnsureSlow
    <3>2. CallsWellFormed'
      BY SMTT(40), <1>2, <2>2 DEF EnsureSlow, GiveUp
    <3>3. VictimHasLock' /\ SeenIsHome'
      BY <1>2, <2>2 DEF EnsureSlow, GiveUp
    <3> QED
      BY <3>1, <3>2, <3>3
  <2> QED
    BY <1>2, <2>1, <2>2 DEF EnsureSlow, GiveUp
<1>3. ASSUME NEW t \in Callers, Reap(t) PROVE IInv'
  BY SMTT(40), <1>3 DEF Reap, Unpool, Without, ConnsOf, LockAfter, Pooled, Live, Calls
<1>4. ASSUME NEW t \in Callers, Evict(t) PROVE IInv'
  BY <1>4 DEF Evict, Evictable, Unpool, Without, LockAfter, Pooled
<1>5. ASSUME NEW t \in Callers, CapExceededHome(t) PROVE IInv'
  BY <1>5 DEF CapExceededHome, Unpool, LockAfter
<1>6. ASSUME NEW t \in Callers, DialOk(t) PROVE IInv'
  BY <1>6 DEF DialOk
<1>7. ASSUME NEW t \in Callers, DialFails(t) PROVE IInv'
  BY <1>7 DEF DialFails, GiveUp
<1>8. ASSUME NEW t \in Callers, Insert(t) PROVE IInv'
  BY <1>8 DEF Insert, Unpool, LockAfter
<1>9. ASSUME NEW t \in Callers, Send(t) PROVE IInv'
  BY <1>9 DEF Send
<1>10. ASSUME NEW t \in Callers, SendErr(t) PROVE IInv'
  BY <1>10 DEF SendErr, Unpool, Without, LockAfter
<1>11. ASSUME NEW t \in Callers, Release(t) PROVE IInv'
  <2>1. CASE call[t].op = "set_home"
    <3>1. TypeOK'
      BY Zenon, <1>11, <2>1 DEF Release, GiveUp
    <3>2. CallsWellFormed'
      BY <1>11, <2>1 DEF Release, GiveUp
    <3>3. VictimHasLock' /\ SeenIsHome'
      BY <1>11, <2>1 DEF Release, GiveUp
    <3> QED
      BY <3>1, <3>2, <3>3
  <2>2. CASE call[t].op # "set_home"
    <3>1. TypeOK'
      BY ZenonT(40), <1>11, <2>2 DEF Release, GiveUp
    <3>2. CallsWellFormed'
      BY <1>11, <2>2 DEF Release, GiveUp
    <3>3. VictimHasLock' /\ SeenIsHome'
      BY <1>11, <2>2 DEF Release, GiveUp
    <3> QED
      BY <3>1, <3>2, <3>3
  <2> QED
    BY <1>11, <2>1, <2>2 DEF Release, GiveUp
<1>12. ASSUME NEW t \in Callers, DropRef(t) PROVE IInv'
  <2>1. CASE UNCHANGED conn
    <3>1. TypeOK'
      BY SMTT(40), <1>12, <2>1 DEF DropRef, Dropped, LockAfter
    <3>2. CallsWellFormed'
      BY <1>12, <2>1 DEF DropRef, Dropped, LockAfter
    <3>3. VictimHasLock' /\ SeenIsHome'
      BY <1>12, <2>1 DEF DropRef, Dropped, LockAfter
    <3> QED
      BY <3>1, <3>2, <3>3
  <2>2. CASE UNCHANGED <<drop, lock>>
    <3>1. TypeOK'
      <4>1. conn' \in [Conns -> ConnStates]
        BY SMTT(40), <1>12 DEF DropRef
      <4> QED
        BY <4>1, <1>12, <2>2 DEF DropRef
    <3>2. CallsWellFormed'
      BY <1>12, <2>2 DEF DropRef, Dropped, LockAfter
    <3>3. VictimHasLock' /\ SeenIsHome'
      BY <1>12, <2>2 DEF DropRef, Dropped, LockAfter
    <3> QED
      BY <3>1, <3>2, <3>3
  <2> QED
    BY <1>12, <2>1, <2>2 DEF DropRef, Dropped, LockAfter
<1>13. ASSUME NEW t \in Callers, Joined(t) PROVE IInv'
  BY <1>13 DEF Joined, Dropped, LockAfter
<1>14. ASSUME NEW t \in Callers, PumpEnds(t) PROVE IInv'
  BY <1>14 DEF PumpEnds
<1>15. ASSUME NEW t \in Callers, NEW r \in Regions, BeginSend(t, r) PROVE IInv'
  BY Zenon, <1>15 DEF BeginSend
<1>16. ASSUME NEW m \in SUBSET Regions, set_derp_map(m) PROVE IInv'
  BY <1>16 DEF set_derp_map
<1>17. ASSUME NEW r \in Regions, SetHome(r) PROVE IInv'
  <2>1. CASE r = home
    <3>1. TypeOK'
      BY <1>17, <2>1 DEF SetHome
    <3>2. CallsWellFormed'
      BY <1>17, <2>1 DEF SetHome
    <3>3. VictimHasLock' /\ SeenIsHome'
      BY <1>17, <2>1 DEF SetHome
    <3> QED
      BY <3>1, <3>2, <3>3
  <2>2. CASE r # home
    <3>1. TypeOK'
      <4>1. call' \in [Callers -> Calls]
        BY ZenonT(40), <1>17, <2>2 DEF SetHome
      <4>2. pc' \in [Callers -> PCs]
        BY Zenon, <1>17, <2>2 DEF SetHome
      <4>3. homes' \in 0 .. MaxHomes
        BY <1>17 DEF SetHome
      <4> QED
        BY <4>1, <4>2, <4>3, <1>17 DEF SetHome
    <3>2. CallsWellFormed'
      BY SMTT(40), <1>17, <2>2 DEF SetHome
    <3>3. VictimHasLock' /\ SeenIsHome'
      BY <1>17, <2>2 DEF SetHome
    <3> QED
      BY <3>1, <3>2, <3>3
  <2> QED
    BY <1>17, <2>1, <2>2 DEF SetHome
<1>18. ASSUME SetHomeUnmark PROVE IInv'
  BY <1>18 DEF SetHomeUnmark
<1>19. ASSUME RuntimeShutdown \/ RuntimeDrop PROVE IInv'
  <2>1. CASE RuntimeShutdown
    <3>1. TypeOK'
      BY <1>19, <2>1 DEF RuntimeShutdown, RuntimeDrop, shutdown, Without, ConnsOf, Pooled
    <3>2. CallsWellFormed'
      BY <1>19, <2>1 DEF RuntimeShutdown, RuntimeDrop, shutdown, Without, ConnsOf, Pooled
    <3>3. VictimHasLock' /\ SeenIsHome'
      BY ZenonT(40), SMTT(40), <1>19, <2>1 DEF RuntimeShutdown, RuntimeDrop, shutdown, Without, ConnsOf, Pooled
    <3> QED
      BY <3>1, <3>2, <3>3
  <2>2. CASE RuntimeDrop
    <3>1. TypeOK'
      BY <1>19, <2>2 DEF RuntimeShutdown, RuntimeDrop, shutdown, Without, ConnsOf, Pooled
    <3>2. CallsWellFormed'
      BY <1>19, <2>2 DEF RuntimeShutdown, RuntimeDrop, shutdown, Without, ConnsOf, Pooled
    <3>3. VictimHasLock' /\ SeenIsHome'
      BY <1>19, <2>2 DEF RuntimeShutdown, RuntimeDrop, shutdown, Without, ConnsOf, Pooled
    <3> QED
      BY <3>1, <3>2, <3>3
  <2> QED
    BY <1>19, <2>1, <2>2 DEF RuntimeShutdown, RuntimeDrop, shutdown, Without, ConnsOf, Pooled
<1>20. ASSUME NEW c \in Conns, IoStep(c) PROVE IInv'
  <2>1. PICK x \in IoStates : conn' = [conn EXCEPT ![c].io = x]
    BY ZenonT(40), SMTT(40), <1>20, IoChanges
  <2>2. UNCHANGED <<derp_map, home, conns, lock, homes, pc, call, hold, drop>>
    BY <1>20, IoChanges
  <2>3. conn' \in [Conns -> ConnStates]
    BY <2>1
  <2>4. TypeOK'
    BY <2>2, <2>3
  <2>5. CallsWellFormed'
    BY <2>2
  <2>6. VictimHasLock' /\ SeenIsHome'
    BY <2>2
  <2> QED
    BY <2>4, <2>5, <2>6
<1>21. ASSUME UNCHANGED vars PROVE IInv'
  BY <1>21 DEF vars
<1> QED
  BY ZenonT(40), <1>1, <1>2, <1>3, <1>4, <1>5, <1>6, <1>7, <1>8, <1>9, <1>10, <1>11, <1>12, <1>13, <1>14, <1>15, <1>16, <1>17, <1>18, <1>19, <1>20, <1>21 DEF Next, Step, Dial, IoStep

LEMMA SpecIInv == Spec => []IInv
<1>1. Init => IInv
  BY InitIInv
<1>2. IInv /\ [Next]_vars => IInv'
  BY NextIInv
<1> QED
  BY <1>1, <1>2, PTL DEF Spec

\* The state of the pool keeps its type: in particular no call drops or holds a
\* connection it does not have.
THEOREM TypeCorrect == Spec => []TypeOK
<1>1. IInv => TypeOK
  BY SMTT(40) DEF IInv
<1> QED
  BY <1>1, SpecIInv, PTL

-------------------------------------------------------------------------------
\* A step changes the pool only when the mutex is free, or as the eviction of the
\* caller that has the mutex.
LEMMA PoolChanges ==
  ASSUME Next, conns' # conns
  PROVE  lock = NoThread \/ \E t \in Callers : Evict(t)
BY ZenonT(40) DEF Next, Step, Dial, EnsureFast, EnsureSlow, Reap, CapExceededHome, DialOk, DialFails, Insert,
   Send, SendErr, Release, DropRef, Joined, PumpEnds, BeginSend, set_derp_map, SetHome,
   SetHomeUnmark, RuntimeShutdown, RuntimeDrop, shutdown, Io, IoTurn, IoStops, IoReturns,
   IoTurnEnds, IoDies, IoRestarting, Unpool

\* Once set_home has looked into the pool no eviction takes the home's connection:
\* the mutex orders the eviction's read of the home before or after that look.
THEOREM HomeSpared == Spec => HomeIsNotEvicted
<1> DEFINE Spares == \A t \in Callers :
                        (pc[t] = "victim" /\ home \in Pooled /\ conns'[home] = NoConn) => HomeIsNew
<1>1. IInv /\ [Next]_vars => Spares
  <2> SUFFICES ASSUME IInv, [Next]_vars, NEW t \in Callers, pc[t] = "victim", home \in Pooled,
                      conns'[home] = NoConn
               PROVE  HomeIsNew
    OBVIOUS
  <2>1. lock = t /\ lock # NoThread
    BY MuxAssumption DEF IInv, VictimHasLock
  <2>2. conns' # conns /\ Next
    BY DEF Pooled, vars
  <2>3. PICK u \in Callers : Evict(u)
    BY <2>1, <2>2, PoolChanges
  <2>4. u = t
    BY <2>1, <2>3 DEF Evict, At, IInv, VictimHasLock
  <2>5. PICK r \in Evictable(t) : conns' = Without({r})
    BY <2>3, <2>4 DEF Evict, Unpool
  <2>6. home = r
    BY <2>5 DEF Without, Pooled
  <2> QED
    BY <2>5, <2>6 DEF Evictable, IInv, SeenIsHome
<1>2. Spares => (\A t \in Callers :
          (pc[t] = "victim" /\ home \in Pooled /\ conns'[home] = NoConn)
             => (call[Control].op = "set_home" /\ pc[Control] = "ensure"))
  BY DEF HomeIsNew
<1> HIDE DEF Spares
<1> QED
  BY <1>1, <1>2, SpecIInv, PTL DEF Spec, HomeIsNotEvicted

-------------------------------------------------------------------------------
\* Cardinalities of the sets that the bound counts.
LEMMA FinitePart ==
  ASSUME NEW S, IsFiniteSet(S), NEW T \in SUBSET S
  PROVE  /\ IsFiniteSet(T) /\ Cardinality(T) \in Nat
         /\ Cardinality(T) <= Cardinality(S)
BY FS_Subset, FS_CardinalityType

\* A set that gains at most one element, and one that loses an element.
LEMMA GainOne ==
  ASSUME NEW S, IsFiniteSet(S), NEW x, NEW T, T \subseteq S \cup {x}
  PROVE  Cardinality(T) <= Cardinality(S) + 1
<1>1. /\ IsFiniteSet(S \cup {x}) /\ Cardinality(S) \in Nat
      /\ Cardinality(S \cup {x}) \in {Cardinality(S), Cardinality(S) + 1}
  BY Zenon, FS_AddElement, FS_CardinalityType
<1>2. Cardinality(T) \in Nat /\ Cardinality(T) <= Cardinality(S \cup {x})
  BY <1>1, FinitePart
<1> QED
  BY <1>1, <1>2

LEMMA LoseOne ==
  ASSUME NEW S, IsFiniteSet(S), NEW x \in S, NEW T, T \subseteq S \ {x}
  PROVE  Cardinality(T) + 1 <= Cardinality(S)
<1>1. /\ IsFiniteSet(S \ {x}) /\ Cardinality(S) \in Nat
      /\ Cardinality(S \ {x}) = Cardinality(S) - 1
  BY FS_RemoveElement, FS_CardinalityType
<1>2. Cardinality(T) \in Nat /\ Cardinality(T) <= Cardinality(S \ {x})
  BY <1>1, FinitePart
<1> QED
  BY <1>1, <1>2

\* The counts are natural numbers, before and after a step.
LEMMA Counts ==
  /\ IsFiniteSet(Pooled) /\ IsFiniteSet(Dialling)
  /\ Cardinality(Pooled) \in Nat /\ Cardinality(Dialling) \in Nat
  /\ Cardinality(Pooled') \in Nat /\ Cardinality(Dialling') \in Nat
  /\ Cardinality(Callers) \in Nat /\ Cardinality(Dialling') <= Cardinality(Callers)
<1>1. Pooled \in SUBSET Regions /\ Pooled' \in SUBSET Regions
  BY DEF Pooled
<1>2. Dialling \in SUBSET Callers /\ Dialling' \in SUBSET Callers
  BY DEF Dialling
<1>3. IsFiniteSet(Regions) /\ IsFiniteSet(Callers)
  BY MuxAssumption
<1> QED
  BY <1>1, <1>2, <1>3, FinitePart, FS_CardinalityType

\* Every step keeps the bound.  A call adds itself to the dialling ones when it has
\* found room or evicted a connection, and a connection to the pool when it stops
\* dialling; no other step adds to either count.
LEMMA NextPoolBounded == IInv /\ PoolBounded /\ [Next]_vars => PoolBounded'
<1> SUFFICES ASSUME IInv, PoolBounded, [Next]_vars PROVE PoolBounded'
  OBVIOUS
<1> USE DEF At
<1> DEFINE Shrinks == Pooled' \subseteq Pooled /\ Dialling' \subseteq Dialling
<1>1. ASSUME Shrinks PROVE PoolBounded'
  <2>1. Cardinality(Pooled') <= Cardinality(Pooled) /\ Cardinality(Dialling') <= Cardinality(Dialling)
    BY <1>1, Counts, FinitePart
  <2> QED
    BY <2>1, Counts, MuxAssumption DEF PoolBounded
<1>2. ASSUME NEW t \in Callers, Reap(t) PROVE PoolBounded'
  <2>1. Pooled' \subseteq Live /\ Live \subseteq Pooled
    BY <1>2 DEF Reap, Unpool, Without, Pooled, Live
  <2>2. CASE AtCap(Cardinality(Live))
    <3>1. Dialling' \subseteq Dialling
      BY <1>2, <2>2 DEF Reap, Unpool, Dialling, IInv, TypeOK
    <3> QED
      BY <1>1, <2>1, <3>1
  <2>3. CASE ~AtCap(Cardinality(Live))
    <3>1. IsFiniteSet(Live) /\ Cardinality(Live) \in Nat
      BY <2>1, Counts, FinitePart
    <3>2. Cardinality(Pooled') <= Cardinality(Live)
      BY <2>1, <3>1, FinitePart
    <3>3. Cardinality(Live) < cap
      BY <2>3, <3>1, MuxAssumption DEF AtCap
    <3> QED
      BY <3>1, <3>2, <3>3, Counts, MuxAssumption DEF PoolBounded
  <2> QED
    BY <2>2, <2>3
<1>3. ASSUME NEW t \in Callers, Evict(t) PROVE PoolBounded'
  <2>1. PICK r \in Evictable(t) : conns' = Without({r}) /\ pc' = [pc EXCEPT ![t] = "dial"]
    BY Zenon, <1>3 DEF Evict, Unpool
  <2>2. r \in Pooled /\ Pooled' \subseteq Pooled \ {r}
    BY <2>1 DEF Evictable, Without, Pooled
  <2>3. Dialling' \subseteq Dialling \cup {t}
    BY <2>1 DEF Dialling, IInv, TypeOK
  <2>4. Cardinality(Pooled') + 1 <= Cardinality(Pooled)
    BY <2>2, Counts, LoseOne
  <2>5. Cardinality(Dialling') <= Cardinality(Dialling) + 1
    BY <2>3, Counts, GainOne
  <2> QED
    BY <2>4, <2>5, Counts, MuxAssumption DEF PoolBounded
<1>4. ASSUME NEW t \in Callers, Insert(t) PROVE PoolBounded'
  <2>1. PICK r : Pooled' \subseteq Pooled \cup {r}
    <3>1. conns' = [conns EXCEPT ![call[t].region] = hold[t]]
      BY <1>4 DEF Insert, Unpool
    <3>2. Pooled' \subseteq Pooled \cup {call[t].region}
      BY <3>1 DEF Pooled, IInv, TypeOK
    <3> QED
      BY <3>2
  <2>2. t \in Dialling /\ Dialling' \subseteq Dialling \ {t}
    BY <1>4 DEF Insert, Unpool, Dialling, IInv, TypeOK
  <2>3. Cardinality(Pooled') <= Cardinality(Pooled) + 1
    BY <2>1, Counts, GainOne
  <2>4. Cardinality(Dialling') + 1 <= Cardinality(Dialling)
    BY ZenonT(40), SMTT(40), <2>2, Counts, LoseOne
  <2> QED
    BY <2>3, <2>4, Counts, MuxAssumption DEF PoolBounded
<1>5. ASSUME NEW t \in Callers,
             \/ EnsureFast(t) \/ EnsureSlow(t) \/ CapExceededHome(t) \/ DialOk(t) \/ DialFails(t)
             \/ Send(t) \/ Release(t) \/ PumpEnds(t) \/ SetHomeUnmark
             \/ \E r \in Regions : BeginSend(t, r) \/ SetHome(r)
      PROVE  Shrinks
  BY ZenonT(40), SMTT(40), <1>5, MuxAssumption DEF EnsureFast, EnsureSlow, CapExceededHome, DialOk, DialFails, Send,
     Release, PumpEnds, SetHomeUnmark, BeginSend, SetHome, GiveUp, Unpool, Pooled, Dialling,
     IInv, TypeOK
<1>6. ASSUME NEW t \in Callers, SendErr(t) \/ RuntimeShutdown \/ RuntimeDrop PROVE Shrinks
  BY <1>6, MuxAssumption DEF SendErr, RuntimeShutdown, RuntimeDrop, shutdown, Unpool, Without, Pooled,
     Dialling, IInv, TypeOK
<1>7. ASSUME UNCHANGED <<conns, pc>> PROVE Shrinks
  BY <1>7 DEF Pooled, Dialling
<1>8. ASSUME NEW t \in Callers, DropRef(t) \/ Joined(t) PROVE UNCHANGED <<conns, pc>>
  BY <1>8 DEF DropRef, Joined
<1>9. ASSUME NEW m \in SUBSET Regions, set_derp_map(m) PROVE UNCHANGED <<conns, pc>>
  BY <1>9 DEF set_derp_map
<1>10. ASSUME NEW c \in Conns, IoStep(c) PROVE UNCHANGED <<conns, pc>>
  BY <1>10, IoChanges DEF IInv, TypeOK
<1>11. ASSUME UNCHANGED vars PROVE UNCHANGED <<conns, pc>>
  BY <1>11 DEF vars
<1> HIDE DEF Shrinks, At
<1> QED
  BY ZenonT(40), SMTT(40), <1>1, <1>2, <1>3, <1>4, <1>5, <1>6, <1>7, <1>8, <1>9, <1>10, <1>11, MuxAssumption DEF Next, Step, Dial, IoStep

\* Racing callers pass the cap by at most the number of callers less one, for any
\* number of callers and any cap: with one caller the cap is kept.
THEOREM PoolCapped == Spec => []PoolBounded
<1>1. Init => PoolBounded
  <2> SUFFICES ASSUME Init PROVE PoolBounded
    OBVIOUS
  <2>1. Pooled = {} /\ Dialling = {}
    BY DEF Init, Pooled, Dialling
  <2>2. Cardinality({}) = 0 /\ Cardinality(Callers) \in Nat
    BY FS_EmptySet, MuxAssumption, FS_CardinalityType
  <2> QED
    BY <2>1, <2>2, MuxAssumption DEF PoolBounded
<1>2. IInv /\ PoolBounded /\ [Next]_vars => PoolBounded'
  BY NextPoolBounded
<1> QED
  BY <1>1, <1>2, SpecIInv, PTL DEF Spec
===============================================================================
